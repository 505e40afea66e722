---------------------------- MODULE SkinVerification ----------------------------
(***************************************************************************)
(* The sign-in that proves an account by its skin, on top of Verification: *)
(* the challenge records of src/src/verification/                          *)
(* redis-skin-verification-store.ts, the service that issues and checks    *)
(* them (skin-verification-service.ts), and "not you", which throws a      *)
(* challenge and a verified identity away (interaction-service.ts).        *)
(*                                                                         *)
(* A tab is one such browser request in flight.  The requests of           *)
(* Verification, its joins, confirmations and expiries, run beside them.   *)
(***************************************************************************)
EXTENDS Verification

CONSTANTS Tabs,          \* skin requests in flight at the same time
          Checks,        \* claim ids of checks
          ChallengeTTL,  \* CHALLENGE_TTL_MS
          CheckInterval  \* CHECK_INTERVAL_MS

ASSUME SkinAssumption == /\ None \notin Checks
                         /\ ChallengeTTL \in Nat \ {0}
                         /\ CheckInterval \in Nat

VARIABLES skin,  \* the challenge hashes
          task,  \* what each tab's request is doing
          lost   \* history: check claims whose request ended without them

svars == <<rec, codes, call, proved, handed, skin, task, lost>>

\* wait is the time until lastCheckAt + CHECK_INTERVAL_MS; stale (history)
\* says that the identity of this sign-in was rejected after the request
\* that issued the challenge had begun.
Challenge == [status : {"none", "pending", "checking"},
              player : Players \cup {None},
              claim  : Checks \cup {None},
              wait   : Nat,
              ttl    : Nat,
              stale  : BOOLEAN]

NoChallenge == [status |-> "none", player |-> None, claim |-> None, wait |-> 0,
                ttl |-> 0, stale |-> FALSE]

Checking == {"look", "match", "refused", "resolve", "giveback", "delete"}

\* rejected (history): "not you" came while the request was under way.
Task == [op       : {"idle", "read", "lookup", "reset", "allocate"} \cup Checking,
         i        : Interactions \cup {None},
         player   : Players \cup {None},
         check    : Checks \cup {None},
         claim    : Claims \cup {None},
         code     : Codes \cup {None},
         rejected : BOOLEAN]

NoTask == [op |-> "idle", i |-> None, player |-> None, check |-> None,
           claim |-> None, code |-> None, rejected |-> FALSE]

SkinTypeOK == /\ TypeOK
              /\ skin \in [Interactions -> Challenge]
              /\ task \in [Tabs -> Task]
              /\ lost \subseteq Checks

SkinInit == /\ Init
            /\ skin = [i \in Interactions |-> NoChallenge]
            /\ task = [t \in Tabs |-> NoTask]
            /\ lost = {}

-----------------------------------------------------------------------------

Sets(i, c) == skin' = [skin EXCEPT ![i] = c]

Does(t, s) == task' = [task EXCEPT ![t] = s]

Goes(t, op) == Does(t, [task[t] EXCEPT !.op = op])

Ends(t) == Does(t, NoTask)

Nobody == UNCHANGED <<storeVars, call>> /\ History

\* The claims of checks that nobody holds any more and a challenge still names.
Loses(S) == lost' = {d \in lost \cup S : \E i \in Interactions : skin'[i].claim = d}

FreshChecks == Checks \ ( lost \cup {skin[i].claim : i \in Interactions}
                               \cup {task[t].check : t \in Tabs} )

\* A primary claim id, if it is one, that no tab knows either.
FreshForTabs(id) == id \in Claims => \A t \in Tabs : task[t].claim # id

-----------------------------------------------------------------------------
(* startSkin: allocate a code, read the challenge, and, when there is      *)
(* none, look the player up, mark their skin and store a challenge.        *)

\* allocate as one step: reading the status and creating the record are two
\* calls, but the answer is the one the second of them gives; where the two
\* together fail, the request may as well be abandoned.
Allocates(i) == \/ \E c \in Codes : CreatePending(i, c)
                \/ ReportedCode(i) # None /\ UNCHANGED storeVars

StartSkin(t, i, p) ==
  /\ task[t].op = "idle"
  /\ Allocates(i)
  /\ Does(t, [NoTask EXCEPT !.op = "read", !.i = i, !.player = p])
  /\ UNCHANGED <<call, skin>>
  /\ History /\ Loses({})

ReadChallenge(t) ==
  /\ task[t].op = "read"
  /\ IF skin[task[t].i].status = "none" THEN Goes(t, "lookup") ELSE Ends(t)
  /\ UNCHANGED skin
  /\ Nobody /\ Loses({})

\* Stores a challenge, unless one is there.
CreateScript(i, p, rejected) ==
  skin' = IF skin[i].status # "none" THEN skin
          ELSE [skin EXCEPT ![i] = [NoChallenge EXCEPT !.status = "pending", !.player = p,
                                                       !.ttl = ChallengeTTL, !.stale = rejected]]

\* create: a challenge stored meanwhile by another tab stands and is shown.
CreateChallenge(t) ==
  /\ task[t].op = "lookup"
  /\ CreateScript(task[t].i, task[t].player, task[t].rejected)
  /\ Ends(t)
  /\ Nobody /\ Loses({})

-----------------------------------------------------------------------------
(* checkSkin: claim the challenge, look at the player's skin, claim the    *)
(* record, store the player, complete the record, delete the challenge.    *)

\* The time of the last check is kept, so that the next one waits for its turn.
ClaimCheckScript(i, d) ==
  /\ skin[i].status = "pending" /\ skin[i].wait = 0
  /\ Sets(i, [skin[i] EXCEPT !.status = "checking", !.claim = d, !.wait = CheckInterval])

\* claimCheck; a check that gets no claim reads the status and ends.
ClaimCheck(t, i, d) ==
  /\ task[t].op = "idle"
  /\ ClaimCheckScript(i, d)
  /\ Does(t, [NoTask EXCEPT !.op = "look", !.i = i, !.check = d, !.player = skin[i].player])
  /\ Nobody /\ Loses({})

\* The profile and the skin behind it carry the marker, or they do not.
LookAtSkin(t) ==
  /\ task[t].op = "look"
  /\ Goes(t, "match") \/ Goes(t, "giveback")
  /\ UNCHANGED skin
  /\ Nobody /\ Loses({})

\* Mutant: any check of the challenge will do, not the one this tab claimed.
HoldsSomeCheck(i, d) == skin[i].status = "checking"

HoldsCheck(i, d) == skin[i].status = "checking" /\ skin[i].claim = d

\* CLAIM_INTERACTION_SCRIPT with a skin claim: the challenge is still the
\* tab's in the very step that takes the record.  The reply may be lost.
ClaimForSkin(t, id) ==
  /\ task[t].op = "match"
  /\ HoldsCheck(task[t].i, task[t].check)
  /\ ClaimInteractionScript(task[t].i, id)
  /\ \/ Does(t, [task[t] EXCEPT !.op = "resolve", !.claim = id,
                                !.code = rec[task[t].i].code])
     \/ Goes(t, "giveback")
  /\ UNCHANGED <<call, skin>>
  /\ HistoryOfClaim(task[t].i, task[t].player) /\ Loses({})

ClaimForSkinFails(t) ==
  /\ task[t].op = "match"
  /\ LET i == task[t].i IN
       \/ HoldsCheck(i, task[t].check) /\ ClaimInteractionTooLate(i)
       \/ /\ HoldsCheck(i, task[t].check) /\ rec[i].status = "pending"
               => rec[i].ttl > 0 /\ codes[rec[i].code].owner # i
          /\ UNCHANGED storeVars
  /\ Goes(t, "refused")
  /\ UNCHANGED <<call, skin>>
  /\ History /\ Loses({})

\* A record that is still waiting leaves the challenge to the next check.
SeeWhyRefused(t) ==
  /\ task[t].op = "refused"
  /\ Goes(t, IF Reported(task[t].i) = "pending" THEN "giveback" ELSE "delete")
  /\ UNCHANGED skin
  /\ Nobody /\ Loses({})

\* The player is stored and the record completed.  When the claim on it has
\* run out, the request throws and leaves the challenge claimed.
CompleteForSkin(t) ==
  /\ task[t].op = "resolve"
  /\ LET s == task[t] IN
       \/ /\ CompleteScript(s.i, s.code, s.claim, s.player, FALSE)
          /\ Goes(t, "delete") \/ Goes(t, "giveback")
          /\ UNCHANGED skin /\ Loses({})
       \/ /\ ~Holds(s.i, s.claim)
          /\ Ends(t)
          /\ UNCHANGED <<storeVars, skin>> /\ Loses({s.check})
  /\ UNCHANGED call
  /\ History

\* The player cannot be stored: both claims are given back.
ReleaseForSkin(t) ==
  /\ task[t].op = "resolve"
  /\ ReleaseScript(task[t].i, task[t].code, task[t].claim)
  /\ Goes(t, "giveback")
  /\ UNCHANGED <<call, skin>>
  /\ History /\ Loses({})

\* Mojang, PostgreSQL or Redis fails: the challenge is released.
FailCheck(t) ==
  /\ task[t].op \in Checking \ {"giveback"}
  /\ Goes(t, "giveback")
  /\ UNCHANGED skin
  /\ Nobody /\ Loses({})

\* Mutant: a check that found nothing ends without releasing the challenge.
ForgetsToGiveBack(t) ==
  /\ task[t].op = "giveback"
  /\ Ends(t)
  /\ UNCHANGED skin
  /\ Nobody /\ Loses({})

GiveBack(t) ==
  /\ task[t].op = "giveback"
  /\ LET i == task[t].i IN
       IF HoldsCheck(i, task[t].check)
         THEN Sets(i, [skin[i] EXCEPT !.status = "pending", !.claim = None])
         ELSE UNCHANGED skin
  /\ Ends(t)
  /\ Nobody /\ Loses({})

DeleteClaimed(t) ==
  /\ task[t].op = "delete"
  /\ IF HoldsCheck(task[t].i, task[t].check) THEN Sets(task[t].i, NoChallenge)
                                            ELSE UNCHANGED skin
  /\ Ends(t)
  /\ Nobody /\ Loses({})

-----------------------------------------------------------------------------
(* resetVerification: drop the challenge, then the verified record, then   *)
(* allocate a new code.                                                    *)

Discard(t, i) ==
  /\ task[t].op = "idle"
  /\ Sets(i, NoChallenge)
  /\ task' = [u \in Tabs |->
       IF u = t THEN [NoTask EXCEPT !.op = "reset", !.i = i]
       ELSE IF task[u].check # None /\ task[u].check = skin[i].claim
         THEN [task[u] EXCEPT !.rejected = TRUE] ELSE task[u]]
  /\ Nobody /\ Loses({})

RejectIdentity(t) ==
  /\ task[t].op = "reset"
  /\ LET i == task[t].i IN
       \/ /\ ResetVerified(i)
          /\ task' = [u \in Tabs |->
               IF u = t THEN [task[t] EXCEPT !.op = "allocate"]
               ELSE IF task[u].i = i /\ task[u].op \in {"read", "lookup"}
                 THEN [task[u] EXCEPT !.rejected = TRUE] ELSE task[u]]
       \/ rec[i].status # "verified" /\ Ends(t) /\ UNCHANGED storeVars
  /\ UNCHANGED <<call, skin>>
  /\ History /\ Loses({})

AllocateAfresh(t) ==
  /\ task[t].op = "allocate"
  /\ Allocates(task[t].i)
  /\ Ends(t)
  /\ UNCHANGED <<call, skin>>
  /\ History /\ Loses({})

\* The process dies, or the request fails where nothing is held.
AbandonTab(t) ==
  /\ task[t].op # "idle"
  /\ Ends(t)
  /\ UNCHANGED skin
  /\ Nobody /\ Loses(IF task[t].op \in Checking THEN {task[t].check} ELSE {})

-----------------------------------------------------------------------------

AgedChallenge(c) == IF c.status = "none" \/ c.ttl = 0
                      THEN NoChallenge
                      ELSE [c EXCEPT !.ttl = Dec(@), !.wait = Dec(@)]

SkinTick == /\ Tick
            /\ skin' = [i \in Interactions |-> AgedChallenge(skin[i])]
            /\ UNCHANGED task
            /\ Loses({})

\* The other requests of Verification; a claim id is drawn only once.
Beside == /\ \E k \in Callers : Serve(k) /\ FreshForTabs(call'[k].id)
          /\ UNCHANGED <<skin, task, lost>>

SkinNext ==
  \/ Beside
  \/ SkinTick
  \/ \E t \in Tabs :
       \/ ReadChallenge(t) \/ CreateChallenge(t)
       \/ LookAtSkin(t) \/ ClaimForSkinFails(t) \/ SeeWhyRefused(t)
       \/ CompleteForSkin(t) \/ ReleaseForSkin(t) \/ FailCheck(t)
       \/ GiveBack(t) \/ DeleteClaimed(t)
       \/ RejectIdentity(t) \/ AllocateAfresh(t) \/ AbandonTab(t)
       \/ \E id \in FreshClaims : FreshForTabs(id) /\ ClaimForSkin(t, id)
       \/ \E i \in Interactions :
            \/ Discard(t, i)
            \/ \E p \in Players : StartSkin(t, i, p)
            \/ \E d \in FreshChecks : ClaimCheck(t, i, d)

SkinSpec == SkinInit /\ [][SkinNext]_svars

SkinLiveSpec == SkinSpec /\ WF_svars(SkinTick)

-----------------------------------------------------------------------------

\* Whatever way a check ends (no match, Mojang down, the record gone, taken
\* or late, the database failing) the challenge does not stay claimed: a
\* claimed challenge has a request that is still working on it, or one that
\* died or lost its claim on the record.
CheckIsHeld ==
  \A i \in Interactions : skin[i].status = "checking" =>
    \/ skin[i].claim \in lost
    \/ \E t \in Tabs : task[t].op \in Checking /\ task[t].check = skin[i].claim

\* Challenges, requests and records keep their types, and no claim is forgotten.
ChallengesInOrder == SkinTypeOK /\ CheckIsHeld

\* "Not you" is final for a check in flight: once its challenge has been
\* discarded, even if a new one has been issued and claimed since, the check
\* does not take the record, whatever the player's skin showed.
RejectedNeverClaims ==
  [][\A t \in Tabs :
       task[t].op = "match" /\ task'[t].op = "resolve" => ~task[t].rejected]_svars

\* A challenge lives for its five minutes and no longer, however often it is
\* checked and by however many tabs.
EveryChallengeExpires ==
  \A i \in Interactions : skin[i].status # "none" ~> skin[i].status = "none"

\* Nothing that is kept for an interaction keeps itself alive: neither its record
\* nor its challenge, whatever is claimed, checked, released and tried again.
EverythingExpires == EveryRecordExpires /\ EveryChallengeExpires

\* "Not you" leaves no challenge behind that could block a different
\* account's: a challenge was asked for after the last rejected identity.
NoChallengeFromBefore == \A i \in Interactions : ~skin[i].stale
=============================================================================
