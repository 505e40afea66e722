--------------------------- MODULE VerificationStore ---------------------------
(***************************************************************************)
(* The Redis records of src/src/verification/redis-verification-store.ts   *)
(* and the Lua scripts that change them.  Redis runs a script atomically,  *)
(* so every script is one action here; the methods that call the scripts,  *)
(* and everything that happens between two calls, are in Verification.     *)
(*                                                                         *)
(* Two families of keys hold one pending sign-in: the interaction hash     *)
(* (rec) and the key of the code it shows (codes), whose value names the   *)
(* interaction.  The keys expire independently of each other, each by its  *)
(* own TTL.  Time is the number of ticks a key has left, so that the state *)
(* space is finite without a bound on the clock.  A key whose TTL is zero  *)
(* is in its last millisecond: Redis still returns it, with PTTL 0, and    *)
(* drops it at the next tick.                                              *)
(***************************************************************************)
EXTENDS Naturals

CONSTANTS Interactions,            \* OIDC interactions (the SHA-256 key ids)
          Codes,                   \* verification codes
          Players,                 \* authenticated Minecraft players
          Claims,                  \* claim ids drawn by randomUUID
          None,                    \* an absent field or key
          VerificationTTL,         \* VERIFICATION_TTL_MS
          ProcessingTTL,           \* PROCESSING_TTL_MS
          ResolvedTTL,             \* RESOLVED_TTL_MS
          MaxConfirmationAttempts  \* MAX_CONFIRMATION_ATTEMPTS

ASSUME StoreAssumption ==
  /\ None \notin Interactions \cup Codes \cup Players \cup Claims
  /\ VerificationTTL \in Nat \ {0}
  /\ ProcessingTTL \in Nat \ {0}
  /\ ResolvedTTL \in Nat \ {0}
  /\ MaxConfirmationAttempts \in Nat \ {0}

VARIABLES rec,    \* the interaction hashes
          codes   \* the code keys

storeVars == <<rec, codes>>

Status == {"none", "pending", "processing", "verified", "finalizing"}

\* An interaction hash.  status "none" stands for the absent key; left is
\* the time until the stored expiresAt (0: passed, or the field is absent);
\* confirm says whether the hash carries a confirmCode.
Record == [status   : Status,
           code     : Codes \cup {None},
           claim    : Claims \cup {None},
           finish   : Claims \cup {None},
           player   : Players \cup {None},
           confirm  : BOOLEAN,
           attempts : 0..(MaxConfirmationAttempts - 1),
           left     : Nat,
           ttl      : Nat]

Absent == [status |-> "none", code |-> None, claim |-> None, finish |-> None,
           player |-> None, confirm |-> FALSE, attempts |-> 0, left |-> 0,
           ttl |-> 0]

CodeKey == [owner : Interactions \cup {None}, ttl : Nat]

FreeKey == [owner |-> None, ttl |-> 0]

StoreTypeOK == /\ rec \in [Interactions -> Record]
               /\ codes \in [Codes -> CodeKey]

StoreInit == /\ rec = [i \in Interactions |-> Absent]
             /\ codes = [c \in Codes |-> FreeKey]

-----------------------------------------------------------------------------
(* What a caller of the store reads.                                       *)

Exists(i) == rec[i].status # "none"

\* getStatus folds finalizing into verified, and shows no code while a claim
\* is being processed.
Reported(i) == CASE rec[i].status = "none" -> "expired"
                 [] rec[i].status \in {"pending", "processing"} -> "pending"
                 [] rec[i].status \in {"verified", "finalizing"} -> "verified"

ReportedCode(i) == IF rec[i].status = "pending" THEN rec[i].code ELSE None

\* IS_PENDING_SCRIPT, for the owner read from the code key just before it.
IsPending(i, c) == codes[c].owner = i /\ rec[i].status = "pending"

-----------------------------------------------------------------------------
(* The scripts.  A script that refuses is named by its condition and       *)
(* leaves the keys alone; the callers say what they do then.               *)

Max2(a, b) == IF a < b THEN b ELSE a

Processing(r, id) == [r EXCEPT !.status = "processing", !.claim = id,
                               !.code = None,
                               !.ttl = Max2(@, ProcessingTTL)]

\* Mutant: the code key is overwritten without looking whether it is taken.
CreateOverTakenCode(i, c) ==
  /\ ~Exists(i)
  /\ rec' = [rec EXCEPT ![i] = [Absent EXCEPT !.status = "pending", !.code = c,
                                              !.left = VerificationTTL,
                                              !.ttl = VerificationTTL]]
  /\ codes' = [codes EXCEPT ![c] = [owner |-> i, ttl |-> VerificationTTL]]

CreatePending(i, c) ==
  /\ ~Exists(i)
  /\ codes[c].owner = None
  /\ rec' = [rec EXCEPT ![i] = [Absent EXCEPT !.status = "pending",
                                              !.code = c,
                                              !.left = VerificationTTL,
                                              !.ttl = VerificationTTL]]
  /\ codes' = [codes EXCEPT ![c] = [owner |-> i, ttl |-> VerificationTTL]]

ClaimScript(i, c, id) ==
  /\ IsPending(i, c)
  /\ rec[i].ttl > 0
  /\ rec' = [rec EXCEPT ![i] = Processing(@, id)]
  /\ codes' = [codes EXCEPT ![c] = FreeKey]

\* The claim arrives in the record's last millisecond: both keys go.
ClaimTooLate(i, c) ==
  /\ IsPending(i, c)
  /\ rec[i].ttl = 0
  /\ rec' = [rec EXCEPT ![i] = Absent]
  /\ codes' = [codes EXCEPT ![c] = FreeKey]

ClaimInteractionScript(i, id) ==
  /\ rec[i].status = "pending"
  /\ rec[i].ttl > 0
  /\ codes[rec[i].code].owner = i
  /\ rec' = [rec EXCEPT ![i] = Processing(@, id)]
  /\ codes' = [codes EXCEPT ![rec[i].code] = FreeKey]

\* Unlike CLAIM_SCRIPT, this one deletes the record and leaves its code key.
ClaimInteractionTooLate(i) ==
  /\ rec[i].status = "pending"
  /\ rec[i].ttl = 0
  /\ rec' = [rec EXCEPT ![i] = Absent]
  /\ UNCHANGED codes

\* Mutant: a script that checks the status and not the claim id.
HoldsAnyClaim(i, id) == rec[i].status = "processing"

\* The record is being processed under claim id.
Holds(i, id) == rec[i].status = "processing" /\ rec[i].claim = id

CompleteScript(i, c, id, p, confirm) ==
  /\ Holds(i, id)
  /\ rec' = [rec EXCEPT ![i].status = "verified", ![i].player = p,
                        ![i].confirm = confirm, ![i].claim = None,
                        ![i].left = 0, ![i].ttl = ResolvedTTL]
  /\ codes' = IF codes[c].owner = i THEN [codes EXCEPT ![c] = FreeKey] ELSE codes

\* Mutant: the code key is restored over another interaction's.
ReleaseOverTakenCode(i, c, id) ==
  /\ Holds(i, id)
  /\ rec[i].left > 0
  /\ rec' = [rec EXCEPT ![i].status = "pending", ![i].code = c,
                        ![i].claim = None, ![i].ttl = rec[i].left]
  /\ codes' = [codes EXCEPT ![c] = [owner |-> i, ttl |-> rec[i].left]]

\* Mutant: a release starts the five minutes of the code over.
ReleaseRenews(i, c, id) ==
  /\ Holds(i, id)
  /\ rec[i].left > 0
  /\ codes[c].owner \in {i, None}
  /\ rec' = [rec EXCEPT ![i].status = "pending", ![i].code = c,
                        ![i].claim = None, ![i].ttl = VerificationTTL,
                        ![i].left = VerificationTTL]
  /\ codes' = [codes EXCEPT ![c] = [owner |-> i, ttl |-> VerificationTTL]]

\* The code still runs until expiresAt: it is offered again, until then.
ReleaseRestores(i, c, id) ==
  /\ Holds(i, id)
  /\ rec[i].left > 0
  /\ codes[c].owner \in {i, None}
  /\ rec' = [rec EXCEPT ![i].status = "pending", ![i].code = c,
                        ![i].claim = None, ![i].ttl = rec[i].left]
  /\ codes' = [codes EXCEPT ![c] = [owner |-> i, ttl |-> rec[i].left]]

\* The code has meanwhile expired: nothing is left to return to.
ReleaseDrops(i, c, id) ==
  /\ Holds(i, id)
  /\ rec[i].left = 0
  /\ rec' = [rec EXCEPT ![i] = Absent]
  /\ codes' = IF codes[c].owner = i THEN [codes EXCEPT ![c] = FreeKey] ELSE codes

\* A release by a claim that is no longer current, or whose code now belongs
\* to another interaction, does nothing: the record stays in processing.
ReleaseRefused(i, c, id) ==
  /\ \/ ~Holds(i, id)
     \/ rec[i].left > 0 /\ codes[c].owner \notin {i, None}
  /\ UNCHANGED storeVars

ReleaseScript(i, c, id) == \/ ReleaseRestores(i, c, id)
                           \/ ReleaseDrops(i, c, id)
                           \/ ReleaseRefused(i, c, id)

GuessIsWrong(i, right) == rec[i].confirm /\ ~right

\* Mutant: the record stays verified while its result is persisted.
ClaimVerifiedStays(i, right, id) ==
  /\ rec[i].status = "verified"
  /\ rec[i].ttl > 0
  /\ ~GuessIsWrong(i, right)
  /\ rec' = [rec EXCEPT ![i].finish = id]
  /\ UNCHANGED codes

ClaimVerifiedScript(i, right, id) ==
  /\ rec[i].status = "verified"
  /\ rec[i].ttl > 0
  /\ ~GuessIsWrong(i, right)
  /\ rec' = [rec EXCEPT ![i].status = "finalizing", ![i].finish = id]
  /\ UNCHANGED codes

\* Mutant: one wrong guess too many.
ClaimVerifiedLate(i, right) ==
  /\ rec[i].status = "verified"
  /\ rec[i].ttl > 0
  /\ GuessIsWrong(i, right)
  /\ rec' = IF rec[i].attempts >= MaxConfirmationAttempts
              THEN [rec EXCEPT ![i] = Absent]
              ELSE [rec EXCEPT ![i].attempts = @ + 1]
  /\ UNCHANGED codes

\* The branches of CLAIM_VERIFIED_SCRIPT that change the record and do not
\* hand out a claim: too late, a wrong guess, the last wrong guess.
ClaimVerifiedRefuses(i, right) ==
  /\ rec[i].status = "verified"
  /\ \/ rec[i].ttl = 0 /\ rec' = [rec EXCEPT ![i] = Absent]
     \/ /\ rec[i].ttl > 0
        /\ GuessIsWrong(i, right)
        /\ rec' = IF rec[i].attempts + 1 >= MaxConfirmationAttempts
                    THEN [rec EXCEPT ![i] = Absent]
                    ELSE [rec EXCEPT ![i].attempts = @ + 1]
  /\ UNCHANGED codes

ResetVerified(i) ==
  /\ rec[i].status = "verified"
  /\ rec' = [rec EXCEPT ![i] = Absent]
  /\ UNCHANGED codes

Finalizes(i, id) == rec[i].status = "finalizing" /\ rec[i].finish = id

CompleteFinalizationScript(i, id) ==
  /\ rec' = IF Finalizes(i, id) THEN [rec EXCEPT ![i] = Absent] ELSE rec
  /\ UNCHANGED codes

\* Mutant: giving the finalization back forgets the wrong guesses.
ReleaseFinalizationAfresh(i, id) ==
  /\ rec' = IF Finalizes(i, id)
              THEN [rec EXCEPT ![i].status = "verified", ![i].finish = None,
                               ![i].attempts = 0]
              ELSE rec
  /\ UNCHANGED codes

ReleaseFinalizationScript(i, id) ==
  /\ rec' = IF Finalizes(i, id)
              THEN [rec EXCEPT ![i].status = "verified", ![i].finish = None]
              ELSE rec
  /\ UNCHANGED codes

-----------------------------------------------------------------------------
(* Redis expiry.                                                           *)

Dec(n) == IF n = 0 THEN 0 ELSE n - 1

Aged(r) == IF r.status = "none" \/ r.ttl = 0
             THEN Absent
             ELSE [r EXCEPT !.ttl = Dec(@), !.left = Dec(@)]

AgedKey(k) == IF k.owner = None \/ k.ttl = 0
                THEN FreeKey
                ELSE [k EXCEPT !.ttl = Dec(@)]

Elapse == /\ rec' = [i \in Interactions |-> Aged(rec[i])]
          /\ codes' = [c \in Codes |-> AgedKey(codes[c])]
=============================================================================
