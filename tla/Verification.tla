------------------------------ MODULE Verification ------------------------------
(***************************************************************************)
(* The methods of RedisVerificationStore as their callers run them: the    *)
(* web process allocates codes, starts over, claims verified records and   *)
(* hands them to the OIDC provider; the Minecraft process and the          *)
(* Microsoft callback claim a pending record, store the player and         *)
(* complete or release the claim (src/src/verification/                    *)
(* verification-resolver.ts, src/src/oauth/interaction-service.ts).        *)
(*                                                                         *)
(* A caller is one such call in flight.  Every await of the code is a      *)
(* place where other callers run, Redis keys expire, or the caller's       *)
(* process dies (Abandon).                                                 *)
(***************************************************************************)
EXTENDS VerificationStore

CONSTANTS Callers,                   \* calls in flight at the same time
          MaxCodeAllocationAttempts  \* MAX_CODE_ALLOCATION_ATTEMPTS

ASSUME CallerAssumption == MaxCodeAllocationAttempts \in Nat \ {0}

VARIABLES call,    \* what each caller is doing, with its local variables
          proved,  \* history: who claimed the record, since it was created
          handed   \* history: finalization claims on the record, not given back

vars == <<rec, codes, call, proved, handed>>

Ops == {"idle", "ask", "mint", "claim", "resolve", "persist", "cleanup"}

Call == [op     : Ops,
         i      : Interactions \cup {None},
         code   : Codes \cup {None},
         id     : Claims \cup {None},
         player : Players \cup {None},
         join   : BOOLEAN,
         tries  : 0..MaxCodeAllocationAttempts]

Idle == [op |-> "idle", i |-> None, code |-> None, id |-> None,
         player |-> None, join |-> FALSE, tries |-> 0]

TypeOK == /\ StoreTypeOK
          /\ call \in [Callers -> Call]
          /\ proved \in [Interactions -> SUBSET Players]
          /\ handed \in [Interactions -> Nat]

Init == /\ StoreInit
        /\ call = [k \in Callers |-> Idle]
        /\ proved = [i \in Interactions |-> {}]
        /\ handed = [i \in Interactions |-> 0]

-----------------------------------------------------------------------------

\* randomUUID: a claim id that no key and no caller knows.
FreshClaims == Claims \ ( {rec[i].claim : i \in Interactions}
                            \cup {rec[i].finish : i \in Interactions}
                            \cup {call[k].id : k \in Callers} )

Becomes(k, c) == call' = [call EXCEPT ![k] = c]

Returns(k) == Becomes(k, Idle)

\* The histories of a record start over when the record goes away.
Forgotten(h, init) ==
  [i \in Interactions |-> IF rec'[i].status = "none" THEN init ELSE h[i]]

History == /\ proved' = Forgotten(proved, {})
           /\ handed' = Forgotten(handed, 0)

HistoryOfClaim(i, p) ==
  /\ proved' = [Forgotten(proved, {}) EXCEPT ![i] = @ \cup {p}]
  /\ handed' = Forgotten(handed, 0)

-----------------------------------------------------------------------------
(* allocate: read the status, then try codes until one is free.  A caller  *)
(* that finds a code or a resolved record returns without changing Redis.  *)

NeedsCode(i) == Reported(i) # "verified" /\ ReportedCode(i) = None

StartMinting(k, i) ==
  Becomes(k, [Idle EXCEPT !.op = "mint", !.i = i, !.tries = MaxCodeAllocationAttempts])

Allocate(k, i) ==
  /\ call[k].op = "idle"
  /\ NeedsCode(i)
  /\ StartMinting(k, i)
  /\ UNCHANGED storeVars
  /\ History

\* The allocation that follows a reset, after it looked up the client's name.
AllocateAgain(k) ==
  /\ call[k].op = "ask"
  /\ IF NeedsCode(call[k].i) THEN StartMinting(k, call[k].i) ELSE Returns(k)
  /\ UNCHANGED storeVars
  /\ History

Mint(k, c) ==
  /\ call[k].op = "mint"
  /\ LET i == call[k].i IN
       \/ CreatePending(i, c) /\ Returns(k)
       \* Another call created the record first: return its code, or throw.
       \/ Exists(i) /\ Returns(k) /\ UNCHANGED storeVars
       \* The code is taken: try another one, up to the limit.
       \/ /\ ~Exists(i)
          /\ codes[c].owner # None
          /\ IF call[k].tries = 1 THEN Returns(k)
                                  ELSE Becomes(k, [call[k] EXCEPT !.tries = @ - 1])
          /\ UNCHANGED storeVars
  /\ History

-----------------------------------------------------------------------------
(* claim: GET the code key, then run the script for the owner it named.    *)

ReadCode(k, c, p) ==
  /\ call[k].op = "idle"
  /\ codes[c].owner # None
  /\ Becomes(k, [Idle EXCEPT !.op = "claim", !.i = codes[c].owner, !.code = c,
                             !.player = p, !.join = TRUE])
  /\ UNCHANGED storeVars
  /\ History

ClaimCode(k, id) ==
  /\ call[k].op = "claim"
  /\ ClaimScript(call[k].i, call[k].code, id)
  /\ Becomes(k, [call[k] EXCEPT !.op = "resolve", !.id = id])
  /\ HistoryOfClaim(call[k].i, call[k].player)

ClaimCodeFails(k) ==
  /\ call[k].op = "claim"
  /\ \/ ClaimTooLate(call[k].i, call[k].code)
     \/ ~IsPending(call[k].i, call[k].code) /\ UNCHANGED storeVars
  /\ Returns(k)
  /\ History

\* claimInteraction, for a player Microsoft has authenticated.
ClaimInteraction(k, i, p, id) ==
  /\ call[k].op = "idle"
  /\ ClaimInteractionScript(i, id)
  /\ Becomes(k, [Idle EXCEPT !.op = "resolve", !.i = i, !.code = rec[i].code,
                             !.id = id, !.player = p])
  /\ HistoryOfClaim(i, p)

ClaimInteractionFails(k, i) ==
  /\ call[k].op = "idle"
  /\ ClaimInteractionTooLate(i)
  /\ Returns(k)
  /\ History

-----------------------------------------------------------------------------
(* resolveClaim: the player is stored in PostgreSQL, then the claim is     *)
(* completed; when the player cannot be stored the claim is released.      *)

Complete(k) ==
  /\ call[k].op = "resolve"
  /\ LET h == call[k] IN
       \/ CompleteScript(h.i, h.code, h.id, h.player, h.join)
       \/ ~Holds(h.i, h.id) /\ UNCHANGED storeVars
  /\ Returns(k)
  /\ History

Release(k) ==
  /\ call[k].op = "resolve"
  /\ ReleaseScript(call[k].i, call[k].code, call[k].id)
  /\ Returns(k)
  /\ History

-----------------------------------------------------------------------------
(* complete of the interaction service: claim the verified record, persist *)
(* the result with the OIDC provider, then remove the record.              *)

ClaimVerified(k, i, right, id) ==
  /\ call[k].op = "idle"
  /\ ClaimVerifiedScript(i, right, id)
  /\ Becomes(k, [Idle EXCEPT !.op = "persist", !.i = i, !.id = id,
                             !.player = rec[i].player])
  /\ handed' = [handed EXCEPT ![i] = @ + 1]
  /\ UNCHANGED proved

ClaimVerifiedFails(k, i, right) ==
  /\ call[k].op = "idle"
  /\ ClaimVerifiedRefuses(i, right)
  /\ Returns(k)
  /\ History

PersistResult(k) ==
  /\ call[k].op = "persist"
  /\ Becomes(k, [call[k] EXCEPT !.op = "cleanup"])
  /\ UNCHANGED storeVars
  /\ History

PersistFails(k) ==
  /\ call[k].op = "persist"
  /\ ReleaseFinalizationScript(call[k].i, call[k].id)
  /\ Returns(k)
  /\ handed' = IF Finalizes(call[k].i, call[k].id)
                 THEN [handed EXCEPT ![call[k].i] = @ - 1] ELSE handed
  /\ UNCHANGED proved

CleanUp(k) ==
  /\ call[k].op = "cleanup"
  /\ CompleteFinalizationScript(call[k].i, call[k].id)
  /\ Returns(k)
  /\ History

\* resetVerification without a skin challenge: discard the identity and go on
\* to allocate a new code.
Reset(k, i) ==
  /\ call[k].op = "idle"
  /\ ResetVerified(i)
  /\ Becomes(k, [Idle EXCEPT !.op = "ask", !.i = i])
  /\ History

\* The process dies, or the call to Redis fails, and nobody finishes the call.
Abandon(k) ==
  /\ call[k].op # "idle"
  /\ Returns(k)
  /\ UNCHANGED storeVars
  /\ History

Tick == Elapse /\ UNCHANGED call /\ History

-----------------------------------------------------------------------------

\* The requests that a call k can serve, and the steps it then takes.
Serve(k) ==
  \/ ClaimCodeFails(k) \/ Complete(k) \/ Release(k)
  \/ PersistResult(k) \/ PersistFails(k) \/ CleanUp(k) \/ Abandon(k)
  \/ \E c \in Codes : Mint(k, c) \/ \E p \in Players : ReadCode(k, c, p)
  \/ \E id \in FreshClaims : ClaimCode(k, id)
  \/ \E i \in Interactions :
       \/ Allocate(k, i) \/ ClaimInteractionFails(k, i)
       \/ \E id \in FreshClaims, p \in Players : ClaimInteraction(k, i, p, id)
       \/ \E right \in BOOLEAN :
            \/ ClaimVerifiedFails(k, i, right)
            \/ \E id \in FreshClaims : ClaimVerified(k, i, right, id)

StartOver(k) == AllocateAgain(k) \/ \E i \in Interactions : Reset(k, i)

Next == \/ \E k \in Callers : Serve(k) \/ StartOver(k)
        \/ Tick

Spec == Init /\ [][Next]_vars

\* Time passes.  Nothing else is assumed of the callers: any of them may stop.
LiveSpec == Spec /\ WF_vars(Tick)

-----------------------------------------------------------------------------

\* A pending record can be joined as long as it shows its code: the code key
\* exists, names this interaction and has exactly the record's time left.
PendingIsJoinable ==
  \A i \in Interactions : rec[i].status = "pending" =>
    codes[rec[i].code] = [owner |-> i, ttl |-> rec[i].ttl]

\* The identity on a record is of a player who won a claim on this very
\* record.  A resolver whose claim timed out while PostgreSQL was slow, or
\* that read the code before the record was replaced, never writes its player
\* onto the record that came after.
BoundByItsClaimant ==
  \A i \in Interactions :
    rec[i].status \in {"verified", "finalizing"} => rec[i].player \in proved[i]

\* However many tabs confirm the same verified record, whatever fails and is
\* retried, its identity is handed to the OIDC provider at most once.
FinalizedOnce == \A i \in Interactions : handed[i] <= 1

\* A record that carries an identity has no code key any more: the claim took
\* it away, so that discarding the record leaves nothing of it behind.  (A
\* code key in its last millisecond does not count.)
ResolvedHasNoCodeKey ==
  \A i \in Interactions, c \in Codes :
    rec[i].status \in {"verified", "finalizing"} /\ codes[c].ttl > 0
      => codes[c].owner # i

\* Once a record carries an identity it keeps it: the player changes only by
\* the whole record going away, with its wrong guesses; releasing a failed
\* finalization does not refill the ten guesses of the confirmation code.
IdentityIsFinal ==
  [][\A i \in Interactions :
       rec[i].player # None =>
         \/ rec'[i] = Absent
         \/ /\ rec'[i].player = rec[i].player
            /\ rec'[i].attempts >= rec[i].attempts]_vars

\* What Redemption sees of a record.
SignIn(r) ==
  [phase  |-> CASE r.status = "none"       -> "closed"
                [] r.status = "pending"    -> "offered"
                [] r.status = "processing" -> "taken"
                [] r.status = "verified"   -> "bound"
                [] r.status = "finalizing" -> "leaving",
   code   |-> r.code,
   holder |-> IF r.status = "processing" THEN r.claim ELSE r.finish,
   player |-> r.player]

SignIns == [i \in Interactions |-> SignIn(rec[i])]

Promise == INSTANCE Redemption WITH signin <- SignIns

\* The store keeps the promise of Redemption: seen through its records, every
\* step of every caller, every retry and every expiry is one of its moves.
KeepsPromise == Promise!Spec

\* No record outlives its TTLs: claiming a code extends the record and
\* releasing it offers the code again, but no sequence of claims, releases,
\* finalizations and retries keeps one record alive for ever.
EveryRecordExpires ==
  \A i \in Interactions : rec[i].status # "none" ~> rec[i].status = "none"
=============================================================================
