--------------------------- MODULE VerificationProofs ---------------------------
(***************************************************************************)
(* Theorems about Verification, for any interactions, codes, players,      *)
(* callers, claim ids and TTLs.  StoreInv is inductive over the scripts    *)
(* alone; IInv adds what the callers' local variables owe to it.           *)
(***************************************************************************)
EXTENDS Verification, TLAPS

-----------------------------------------------------------------------------
(* The store by itself.                                                    *)

\* Which fields a record of each status carries.
Shaped(r) ==
  /\ r.status = "none" => r = Absent
  /\ r.status = "pending" =>
       r.code \in Codes /\ r.claim = None /\ r.finish = None /\ r.player = None
  /\ r.status = "processing" =>
       r.code = None /\ r.claim \in Claims /\ r.finish = None /\ r.player = None
  /\ r.status = "verified" =>
       r.code = None /\ r.claim = None /\ r.finish = None /\ r.player \in Players
  /\ r.status = "finalizing" =>
       r.code = None /\ r.claim = None /\ r.finish \in Claims /\ r.player \in Players

StoreInv == /\ StoreTypeOK
            /\ \A i \in Interactions : Shaped(rec[i])
            /\ PendingIsJoinable

\* Claim ids that no record holds.
Unused == {d \in Claims : \A j \in Interactions : rec[j].claim # d /\ rec[j].finish # d}

\* What one call can make of the store, whoever makes it.
Scripts(i, c, id, p, b) ==
  \/ /\ c \in Codes
     /\ CreatePending(i, c) \/ ClaimTooLate(i, c) \/ ReleaseScript(i, c, id)
  \/ c \in Codes /\ id \in Unused /\ ClaimScript(i, c, id)
  \/ c \in Codes /\ p \in Players /\ b \in BOOLEAN /\ CompleteScript(i, c, id, p, b)
  \/ id \in Unused /\ (ClaimInteractionScript(i, id) \/ ClaimVerifiedScript(i, b, id))
  \/ ClaimInteractionTooLate(i)
  \/ ClaimVerifiedRefuses(i, b)
  \/ ResetVerified(i)
  \/ CompleteFinalizationScript(i, id)
  \/ ReleaseFinalizationScript(i, id)

LEMMA AbsentIsRecord == Absent \in Record /\ FreeKey \in CodeKey
  BY StoreAssumption DEF Absent, Record, FreeKey, CodeKey, Status

LEMMA StoreInitially == StoreInit => StoreInv
  BY AbsentIsRecord, StoreAssumption
  DEF StoreInit, StoreInv, StoreTypeOK, Shaped, PendingIsJoinable, Absent

\* A script touches one record and one code key, and leaves both well formed.
LEMMA ScriptsKeepTypes ==
  ASSUME NEW i \in Interactions, NEW c, NEW id, NEW p, NEW b,
         StoreInv, Scripts(i, c, id, p, b)
  PROVE  /\ StoreTypeOK'
         /\ \A j \in Interactions : Shaped(rec'[j])
         /\ \A j \in Interactions \ {i} : rec'[j] = rec[j]
  <1>. USE StoreAssumption, AbsentIsRecord
  <1>. rec \in [Interactions -> Record] /\ codes \in [Codes -> CodeKey]
    BY DEF StoreInv, StoreTypeOK
  <1>. Unused \subseteq Claims
    BY DEF Unused
  <1>a. rec[i] \in Record /\ Shaped(rec[i])
    BY DEF StoreInv
  <1>1. CASE c \in Codes /\ CreatePending(i, c)
    <2>1. [Absent EXCEPT !.status = "pending", !.code = c,
             !.left = VerificationTTL, !.ttl = VerificationTTL] \in Record
      BY <1>1 DEF Absent, Record, Status
    <2>. QED BY <1>1, <2>1 DEF CreatePending, StoreInv, StoreTypeOK, Shaped, CodeKey, Absent
  <1>2. ASSUME NEW r \in Record, r.status = "pending", Shaped(r), id \in Claims
        PROVE  Processing(r, id) \in Record /\ Shaped(Processing(r, id))
    <2>1. Max2(r.ttl, ProcessingTTL) \in Nat
      BY DEF Record, Max2
    <2>2. Processing(r, id) \in Record
      BY <1>2, <2>1 DEF Processing, Record, Status
    <2>. QED BY <1>2, <2>2 DEF Processing, Record, Shaped
  <1>3. CASE \/ c \in Codes /\ id \in Unused /\ ClaimScript(i, c, id)
             \/ id \in Unused /\ ClaimInteractionScript(i, id)
    <2>1. /\ rec[i].status = "pending"
          /\ rec' = [rec EXCEPT ![i] = Processing(@, id)]
          /\ \E d \in Codes : codes' = [codes EXCEPT ![d] = FreeKey]
      BY <1>3, <1>a DEF ClaimScript, ClaimInteractionScript, IsPending, Shaped
    <2>2. rec'[i] = Processing(rec[i], id) /\ \A j \in Interactions \ {i} : rec'[j] = rec[j]
      BY <2>1
    <2>3. rec'[i] \in Record /\ Shaped(rec'[i])
      BY <1>3, <2>1, <2>2, <1>2, <1>a
    <2>4. rec' \in [Interactions -> Record]
      BY <2>1, <2>2, <2>3
    <2>5. codes' \in [Codes -> CodeKey]
      BY <2>1
    <2>6. \A j \in Interactions : Shaped(rec'[j])
      BY <2>2, <2>3 DEF StoreInv
    <2>. QED BY <2>2, <2>4, <2>5, <2>6 DEF StoreTypeOK
  <1>4. CASE ClaimTooLate(i, c) \/ ClaimInteractionTooLate(i) \/ ResetVerified(i)
    <2>1. /\ rec' = [rec EXCEPT ![i] = Absent]
          /\ codes' = codes \/ codes' = [codes EXCEPT ![c] = FreeKey]
      BY <1>4 DEF ClaimTooLate, ClaimInteractionTooLate, ResetVerified
    <2>2. Shaped(Absent)
      BY DEF Shaped, Absent
    <2>. QED BY <2>1, <2>2 DEF StoreInv, StoreTypeOK
  <1>5. CASE c \in Codes /\ p \in Players /\ b \in BOOLEAN /\ CompleteScript(i, c, id, p, b)
    <2>1. rec'[i] \in Record /\ Shaped(rec'[i])
      BY <1>5, <1>a DEF CompleteScript, Holds, Record, Status, Shaped
    <2>. QED BY <1>5, <2>1 DEF CompleteScript, StoreInv, StoreTypeOK
  <1>6. CASE c \in Codes /\ ReleaseScript(i, c, id)
    <2>1. CASE ReleaseRestores(i, c, id)
      <3>1. rec'[i] \in Record /\ Shaped(rec'[i])
        BY <2>1, <1>a DEF ReleaseRestores, Holds, Record, Status, Shaped
      <3>2. codes' \in [Codes -> CodeKey]
        BY <2>1, <1>a DEF ReleaseRestores, Record, CodeKey
      <3>. QED BY <2>1, <3>1, <3>2 DEF ReleaseRestores, StoreInv, StoreTypeOK
    <2>2. CASE ReleaseDrops(i, c, id)
      BY <2>2 DEF ReleaseDrops, StoreInv, StoreTypeOK, Shaped, Absent
    <2>3. CASE ReleaseRefused(i, c, id)
      BY <2>3 DEF ReleaseRefused, storeVars, StoreInv, StoreTypeOK
    <2>. QED BY <1>6, <2>1, <2>2, <2>3 DEF ReleaseScript
  <1>7. CASE id \in Unused /\ ClaimVerifiedScript(i, b, id)
    <2>1. rec'[i] \in Record /\ Shaped(rec'[i])
      BY <1>7, <1>a DEF ClaimVerifiedScript, Record, Status, Shaped
    <2>. QED BY <1>7, <2>1 DEF ClaimVerifiedScript, StoreInv, StoreTypeOK
  <1>8. CASE ClaimVerifiedRefuses(i, b)
    <2>a. \/ rec'[i] = Absent
          \/ /\ rec' = [rec EXCEPT ![i].attempts = @ + 1]
             /\ rec[i].attempts + 1 < MaxConfirmationAttempts
      <3>1. \/ rec' = [rec EXCEPT ![i] = Absent]
            \/ /\ ~(rec[i].attempts + 1 >= MaxConfirmationAttempts)
               /\ rec' = [rec EXCEPT ![i].attempts = @ + 1]
        BY <1>8 DEF ClaimVerifiedRefuses
      <3>2. rec[i].attempts \in Nat
        BY <1>a DEF Record
      <3>. QED BY <3>1, <3>2
    <2>b. rec[i].status = "verified"
      BY <1>8 DEF ClaimVerifiedRefuses
    <2>1. rec'[i] \in Record /\ Shaped(rec'[i])
      <3>1. CASE rec'[i] = Absent
        BY <3>1 DEF Shaped, Absent
      <3>2. CASE /\ rec' = [rec EXCEPT ![i].attempts = @ + 1]
                 /\ rec[i].attempts + 1 < MaxConfirmationAttempts
        <4>1. rec'[i] = [rec[i] EXCEPT !.attempts = @ + 1]
          BY <3>2
        <4>2. rec[i].attempts + 1 \in 0..(MaxConfirmationAttempts - 1)
          BY <3>2, <1>a DEF Record
        <4>. QED BY <4>1, <4>2, <2>b, <1>a DEF Record, Status, Shaped
      <3>. QED BY <2>a, <3>1, <3>2
    <2>2. rec' \in [Interactions -> Record] /\ \A j \in Interactions \ {i} : rec'[j] = rec[j]
      BY <1>8, <2>1 DEF ClaimVerifiedRefuses
    <2>. QED BY <1>8, <2>1, <2>2 DEF ClaimVerifiedRefuses, StoreInv, StoreTypeOK
  <1>9. CASE CompleteFinalizationScript(i, id)
    BY <1>9 DEF CompleteFinalizationScript, StoreInv, StoreTypeOK, Shaped, Absent
  <1>10. CASE ReleaseFinalizationScript(i, id)
    <2>1. rec'[i] \in Record /\ Shaped(rec'[i])
      BY <1>10, <1>a DEF ReleaseFinalizationScript, Finalizes, Record, Status, Shaped
    <2>. QED BY <1>10, <2>1 DEF ReleaseFinalizationScript, StoreInv, StoreTypeOK
  <1>. QED
    BY <1>1, <1>3, <1>4, <1>5, <1>6, <1>7, <1>8, <1>9, <1>10 DEF Scripts

\* A code key is only freed or set by the interaction it belongs to, so the
\* records of the others stay joinable.
LEMMA ScriptsKeepJoinable ==
  ASSUME NEW i \in Interactions, NEW c, NEW id, NEW p, NEW b,
         StoreInv, Scripts(i, c, id, p, b)
  PROVE  PendingIsJoinable'
  <1>. USE StoreAssumption
  <1>. rec \in [Interactions -> Record] /\ codes \in [Codes -> CodeKey]
    BY DEF StoreInv, StoreTypeOK
  <1>a. rec[i] \in Record /\ Shaped(rec[i])
    BY DEF StoreInv
  <1>b. \A j \in Interactions : rec[j].status = "pending" =>
          rec[j].code \in Codes /\ codes[rec[j].code] = [owner |-> j, ttl |-> rec[j].ttl]
    BY DEF StoreInv, PendingIsJoinable, Shaped
  <1>c. \A j \in Interactions \ {i} : rec'[j] = rec[j]
    BY ScriptsKeepTypes
  \* It is enough that the others' keys stay and that the own key, if the
  \* record is pending afterwards, matches it.
  <1>d. ASSUME \A d \in Codes : codes[d].owner \notin {i, None} => codes'[d] = codes[d],
               rec'[i].status = "pending" =>
                 codes'[rec'[i].code] = [owner |-> i, ttl |-> rec'[i].ttl]
        PROVE  PendingIsJoinable'
    <2>. SUFFICES ASSUME NEW j \in Interactions, rec'[j].status = "pending"
                  PROVE  codes'[rec'[j].code] = [owner |-> j, ttl |-> rec'[j].ttl]
      BY DEF PendingIsJoinable
    <2>1. CASE j = i
      BY <2>1, <1>d
    <2>2. CASE j # i
      <3>1. rec'[j] = rec[j]
        BY <2>2, <1>c
      <3>2. rec[j].status = "pending"
        BY <3>1
      <3>3. rec[j].code \in Codes /\ codes[rec[j].code] = [owner |-> j, ttl |-> rec[j].ttl]
        BY <3>2, <1>b
      <3>4. codes[rec[j].code].owner = j
        BY <3>3
      <3>5. j \notin {i, None}
        BY <2>2 DEF StoreAssumption
      <3>6. codes'[rec[j].code] = codes[rec[j].code]
        BY <3>3, <3>4, <3>5, <1>d
      <3>. QED BY <3>1, <3>3, <3>6
    <2>. QED BY <2>1, <2>2
  <1>1. CASE c \in Codes /\ CreatePending(i, c)
    BY <1>1, <1>d DEF CreatePending, Absent, Record
  <1>2. CASE c \in Codes /\ id \in Unused /\ ClaimScript(i, c, id)
    BY <1>2, <1>d, <1>a DEF ClaimScript, IsPending, Processing, Record
  <1>3. CASE c \in Codes /\ ClaimTooLate(i, c)
    BY <1>3, <1>d DEF ClaimTooLate, IsPending, Absent
  <1>4. CASE id \in Unused /\ ClaimInteractionScript(i, id)
    <2>1. rec'[i].status = "processing"
      BY <1>4, <1>a DEF ClaimInteractionScript, Processing, Record
    <2>. QED BY <1>4, <1>d, <2>1, <1>b DEF ClaimInteractionScript
  <1>5. CASE ClaimInteractionTooLate(i) \/ ResetVerified(i)
    BY <1>5, <1>d DEF ClaimInteractionTooLate, ResetVerified, Absent
  <1>6. CASE c \in Codes /\ p \in Players /\ b \in BOOLEAN /\ CompleteScript(i, c, id, p, b)
    <2>1. rec'[i].status = "verified"
      BY <1>6, <1>a DEF CompleteScript, Record
    <2>. QED BY <1>6, <1>d, <2>1 DEF CompleteScript
  <1>7. CASE c \in Codes /\ ReleaseRestores(i, c, id)
    <2>1. rec'[i].code = c /\ rec'[i].ttl = rec[i].left
      BY <1>7, <1>a DEF ReleaseRestores, Record
    <2>. QED BY <1>7, <1>d, <2>1 DEF ReleaseRestores
  <1>8. CASE c \in Codes /\ ReleaseDrops(i, c, id)
    BY <1>8, <1>d DEF ReleaseDrops, Absent
  <1>9. CASE ReleaseRefused(i, c, id)
    BY <1>9 DEF ReleaseRefused, storeVars, StoreInv, PendingIsJoinable
  <1>10. CASE id \in Unused /\ ClaimVerifiedScript(i, b, id)
    <2>1. rec'[i].status = "finalizing"
      BY <1>10, <1>a DEF ClaimVerifiedScript, Record
    <2>. QED BY <1>10, <1>d, <2>1 DEF ClaimVerifiedScript
  <1>11. CASE ClaimVerifiedRefuses(i, b)
    <2>1. \/ rec' = [rec EXCEPT ![i] = Absent]
          \/ rec' = [rec EXCEPT ![i].attempts = @ + 1]
      BY <1>11 DEF ClaimVerifiedRefuses
    <2>2. rec'[i].status # "pending"
      BY <1>11, <2>1, <1>a DEF ClaimVerifiedRefuses, Record, Absent
    <2>. QED BY <1>11, <1>d, <2>2 DEF ClaimVerifiedRefuses
  <1>12. CASE CompleteFinalizationScript(i, id) \/ ReleaseFinalizationScript(i, id)
    <2>1. CASE Finalizes(i, id)
      <3>1. rec'[i].status # "pending"
        BY <1>12, <2>1, <1>a
        DEF CompleteFinalizationScript, ReleaseFinalizationScript, Finalizes, Record, Absent
      <3>. QED BY <1>12, <1>d, <3>1 DEF CompleteFinalizationScript, ReleaseFinalizationScript
    <2>2. CASE ~Finalizes(i, id)
      BY <1>12, <2>2
      DEF CompleteFinalizationScript, ReleaseFinalizationScript, StoreInv, PendingIsJoinable
    <2>. QED BY <2>1, <2>2
  <1>. QED
    BY <1>1, <1>2, <1>3, <1>4, <1>5, <1>6, <1>7, <1>8, <1>9, <1>10, <1>11, <1>12
    DEF Scripts, ReleaseScript

LEMMA ScriptsKeepStoreInv ==
  ASSUME NEW i \in Interactions, NEW c, NEW id, NEW p, NEW b,
         StoreInv, Scripts(i, c, id, p, b)
  PROVE  StoreInv'
  BY ScriptsKeepTypes, ScriptsKeepJoinable DEF StoreInv

\* A record with all but its times unchanged.
SameButTimes(r, s) == /\ s.status = r.status
                      /\ s.code = r.code
                      /\ s.claim = r.claim
                      /\ s.finish = r.finish
                      /\ s.player = r.player
                      /\ s.attempts = r.attempts

Younger(r) == [r EXCEPT !.ttl = Dec(@), !.left = Dec(@)]

LEMMA YoungerIsShaped ==
  ASSUME NEW r \in Record, Shaped(r), r.status # "none"
  PROVE  /\ Younger(r) \in Record
         /\ Shaped(Younger(r))
         /\ SameButTimes(r, Younger(r))
         /\ Younger(r).ttl = Dec(r.ttl)
  <1>1. Dec(r.ttl) \in Nat /\ Dec(r.left) \in Nat
    BY DEF Dec, Record
  <1>2. Younger(r) \in Record
    BY <1>1 DEF Record, Younger
  <1>3. SameButTimes(r, Younger(r)) /\ Younger(r).ttl = Dec(r.ttl)
    BY DEF Record, Younger, SameButTimes
  <1>4. Shaped(Younger(r))
    BY <1>3 DEF Shaped, SameButTimes
  <1>. QED BY <1>2, <1>3, <1>4

\* A tick removes the keys in their last millisecond and ages the others by
\* the same amount, the code key of a pending record together with it.
LEMMA ElapseKeepsStoreInv ==
  ASSUME StoreInv, Elapse
  PROVE  /\ StoreInv'
         /\ \A j \in Interactions : rec'[j] = Absent \/ SameButTimes(rec[j], rec'[j])
  <1>. USE StoreAssumption, AbsentIsRecord
  <1>. rec \in [Interactions -> Record] /\ codes \in [Codes -> CodeKey]
    BY DEF StoreInv, StoreTypeOK
  <1>1. Shaped(Absent)
    BY DEF Shaped, Absent
  <1>2. ASSUME NEW j \in Interactions
        PROVE  \/ rec'[j] = Absent
               \/ /\ rec[j].status # "none" /\ rec[j].ttl # 0
                  /\ rec'[j] = Younger(rec[j])
    BY DEF Elapse, Aged, Younger
  <1>3. ASSUME NEW j \in Interactions
        PROVE  /\ rec'[j] \in Record /\ Shaped(rec'[j])
               /\ rec'[j] = Absent \/ SameButTimes(rec[j], rec'[j])
    <2>1. rec[j] \in Record /\ Shaped(rec[j])
      BY DEF StoreInv
    <2>2. CASE rec'[j] = Absent
      BY <2>2, <1>1
    <2>3. CASE rec[j].status # "none" /\ rec'[j] = Younger(rec[j])
      BY <2>1, <2>3, YoungerIsShaped
    <2>. QED BY <1>2, <2>2, <2>3
  <1>4. rec' \in [Interactions -> Record]
    BY <1>3 DEF Elapse
  <1>5. codes' \in [Codes -> CodeKey]
    <2>1. ASSUME NEW d \in Codes
          PROVE  AgedKey(codes[d]) \in CodeKey
      <3>1. codes[d] \in CodeKey
        OBVIOUS
      <3>2. Dec(codes[d].ttl) \in Nat
        BY <3>1 DEF Dec, CodeKey
      <3>. QED BY <3>1, <3>2 DEF AgedKey, CodeKey
    <2>. QED BY <2>1 DEF Elapse
  <1>6. PendingIsJoinable'
    <2>. SUFFICES ASSUME NEW j \in Interactions, rec'[j].status = "pending"
                  PROVE  codes'[rec'[j].code] = [owner |-> j, ttl |-> rec'[j].ttl]
      BY DEF PendingIsJoinable
    <2>1. /\ rec[j].status # "none" /\ rec[j].ttl # 0
          /\ rec'[j] = Younger(rec[j])
      BY <1>2 DEF Absent
    <2>2. rec[j] \in Record /\ Shaped(rec[j])
      BY DEF StoreInv
    <2>3. /\ rec[j].status = "pending"
          /\ rec'[j].code = rec[j].code
          /\ rec'[j].ttl = Dec(rec[j].ttl)
      BY <2>1, <2>2, YoungerIsShaped DEF SameButTimes
    <2>4. rec[j].code \in Codes /\ codes[rec[j].code] = [owner |-> j, ttl |-> rec[j].ttl]
      BY <2>2, <2>3 DEF StoreInv, PendingIsJoinable, Shaped
    <2>5. AgedKey(codes[rec[j].code]) = [owner |-> j, ttl |-> Dec(rec[j].ttl)]
      BY <2>1, <2>4 DEF AgedKey
    <2>. QED BY <2>3, <2>4, <2>5 DEF Elapse
  <1>. QED BY <1>3, <1>4, <1>5, <1>6 DEF StoreInv, StoreTypeOK

LEMMA CompleteBinds ==
  ASSUME NEW i \in Interactions, NEW c, NEW id, NEW p, NEW b,
         StoreInv, CompleteScript(i, c, id, p, b)
  PROVE  /\ rec[i].status = "processing" /\ rec[i].claim = id
         /\ rec'[i].status = "verified" /\ rec'[i].player = p
         /\ \A j \in Interactions \ {i} : rec'[j] = rec[j]
  <1>. rec \in [Interactions -> Record] /\ rec[i] \in Record
    BY DEF StoreInv, StoreTypeOK
  <1>. QED BY DEF CompleteScript, Holds, Record

\* A script leaves an identity and the number of wrong guesses alone, unless
\* it removes the record.
LEMMA ScriptsKeepIdentity ==
  ASSUME NEW i \in Interactions, NEW c, NEW id, NEW p, NEW b,
         StoreInv, Scripts(i, c, id, p, b), rec[i].player # None, rec'[i] # Absent
  PROVE  rec'[i].player = rec[i].player /\ rec'[i].attempts >= rec[i].attempts
  <1>. rec \in [Interactions -> Record]
    BY DEF StoreInv, StoreTypeOK
  <1>1. rec[i] \in Record /\ Shaped(rec[i]) /\ rec[i].attempts \in Nat
    BY StoreAssumption DEF StoreInv, Record
  <1>2. rec[i].status \in {"verified", "finalizing"}
    BY <1>1 DEF Shaped, Absent, Record, Status
  <1>3. CASE rec' = rec
    BY <1>1, <1>3
  <1>4. CASE ClaimVerifiedScript(i, b, id) \/ ReleaseFinalizationScript(i, id)
    BY <1>1, <1>4 DEF ClaimVerifiedScript, ReleaseFinalizationScript, Record
  <1>5. CASE ClaimVerifiedRefuses(i, b)
    <2>1. rec' = [rec EXCEPT ![i].attempts = @ + 1]
      BY <1>5 DEF ClaimVerifiedRefuses
    <2>2. rec'[i].player = rec[i].player /\ rec'[i].attempts = rec[i].attempts + 1
      BY <2>1, <1>1 DEF Record
    <2>. QED BY <2>2, <1>1
  <1>6. \/ rec' = rec
        \/ ClaimVerifiedScript(i, b, id) \/ ReleaseFinalizationScript(i, id)
        \/ ClaimVerifiedRefuses(i, b)
    BY <1>2 DEF Scripts, CreatePending, Exists, ClaimTooLate, ClaimScript, IsPending,
       ClaimInteractionScript, ClaimInteractionTooLate, CompleteScript, ReleaseScript,
       ReleaseRestores, ReleaseDrops, ReleaseRefused, Holds, storeVars, ResetVerified,
       CompleteFinalizationScript
  <1>. QED BY <1>3, <1>4, <1>5, <1>6

-----------------------------------------------------------------------------
(* The store implements Redemption.                                        *)

LEMMA SignInOf ==
  ASSUME NEW r
  PROVE  /\ r.status = "none" =>
              SignIn(r) = [phase |-> "closed", code |-> r.code, holder |-> r.finish,
                           player |-> r.player]
         /\ r.status = "pending" =>
              SignIn(r) = [phase |-> "offered", code |-> r.code, holder |-> r.finish,
                           player |-> r.player]
         /\ r.status = "processing" =>
              SignIn(r) = [phase |-> "taken", code |-> r.code, holder |-> r.claim,
                           player |-> r.player]
         /\ r.status = "verified" =>
              SignIn(r) = [phase |-> "bound", code |-> r.code, holder |-> r.finish,
                           player |-> r.player]
         /\ r.status = "finalizing" =>
              SignIn(r) = [phase |-> "leaving", code |-> r.code, holder |-> r.finish,
                           player |-> r.player]
  BY DEF SignIn

LEMMA ScriptsKeepPromise ==
  ASSUME NEW i \in Interactions, NEW c, NEW id, NEW p, NEW b,
         StoreInv, Scripts(i, c, id, p, b)
  PROVE  [Promise!Next]_SignIns
  <1>. USE StoreAssumption
  <1>. rec \in [Interactions -> Record] /\ codes \in [Codes -> CodeKey]
    BY DEF StoreInv, StoreTypeOK
  <1>a. rec[i] \in Record /\ Shaped(rec[i])
    BY DEF StoreInv
  <1>b. rec' \in [Interactions -> Record] /\ \A j \in Interactions \ {i} : rec'[j] = rec[j]
    BY ScriptsKeepTypes DEF StoreTypeOK
  <1>c. ASSUME NEW s, SignIn(rec'[i]) = s
        PROVE  Promise!Moves(i, s)
    BY <1>b, <1>c DEF SignIns, Promise!Moves
  <1>d. SignIns[i] = SignIn(rec[i])
    BY DEF SignIns
  \* A code is offered by the interaction its key names, and by no other.
  <1>e. ASSUME c \in Codes, codes[c].owner = None \/ (codes[c].owner = i /\ rec[i].code = None)
        PROVE  Promise!Unoffered(c)
    <2>. SUFFICES ASSUME NEW j \in Interactions, SignIn(rec[j]).code = c
                  PROVE  FALSE
      BY DEF Promise!Unoffered, SignIns
    <2>1. rec[j].code = c /\ rec[j].status = "pending"
      BY <1>e DEF SignIn, StoreInv, Shaped, Absent, Record, Status
    <2>2. codes[rec[j].code] = [owner |-> j, ttl |-> rec[j].ttl]
      BY <2>1 DEF StoreInv, PendingIsJoinable
    <2>3. codes[c].owner = j
      BY <2>1, <2>2
    <2>. QED BY <1>e, <2>1, <2>3
  <1>f. ASSUME id \in Unused
        PROVE  id \in Claims /\ Promise!Unheld(id)
    BY <1>f DEF Unused, Promise!Unheld, SignIns, SignIn
  <1>1. CASE c \in Codes /\ CreatePending(i, c)
    <2>1. SignIns[i].phase = "closed" /\ codes[c].owner = None
      BY <1>1, <1>d, SignInOf DEF CreatePending, Exists
    <2>2. /\ rec'[i].status = "pending" /\ rec'[i].code = c
          /\ rec'[i].finish = None /\ rec'[i].player = None
      BY <1>1 DEF CreatePending, Absent
    <2>3. SignIn(rec'[i]) = Promise!At("offered", c, None, None)
      BY <2>2, SignInOf DEF Promise!At
    <2>4. Promise!Moves(i, Promise!At("offered", c, None, None))
      BY <2>3, <1>c
    <2>5. Promise!Offer(i, c)
      BY <1>1, <1>e, <2>1, <2>4 DEF Promise!Offer
    <2>. QED BY <1>1, <2>5 DEF Promise!Next
  <1>2. CASE id \in Unused /\ (ClaimScript(i, c, id) \/ ClaimInteractionScript(i, id))
    <2>1. rec[i].status = "pending" /\ rec'[i] = Processing(rec[i], id)
      BY <1>2 DEF ClaimScript, ClaimInteractionScript, IsPending
    <2>2. /\ rec'[i].status = "processing" /\ rec'[i].code = None
          /\ rec'[i].claim = id /\ rec'[i].player = None
      BY <2>1, <1>a DEF Processing, Shaped, Record
    <2>3. SignIn(rec'[i]) = Promise!At("taken", None, id, None)
      BY <2>2, SignInOf DEF Promise!At
    <2>4. Promise!Moves(i, Promise!At("taken", None, id, None))
      BY <2>3, <1>c
    <2>5. SignIns[i].phase = "offered"
      BY <2>1, <1>d, SignInOf
    <2>6. id \in Claims /\ Promise!Unheld(id)
      BY <1>2, <1>f
    <2>7. Promise!Take(i, id)
      BY <2>4, <2>5, <2>6 DEF Promise!Take
    <2>. QED BY <2>6, <2>7 DEF Promise!Next
  <1>3. CASE rec'[i] = Absent
    <2>1. SignIn(Absent) = Promise!Closed
      BY DEF SignIn, Absent, Promise!Closed, Promise!At
    <2>2. Promise!Close({i})
      BY <1>3, <1>b, <2>1 DEF Promise!Close, SignIns
    <2>. QED BY <2>2 DEF Promise!Next
  <1>4. CASE c \in Codes /\ p \in Players /\ CompleteScript(i, c, id, p, b)
    <2>1. /\ rec[i].status = "processing"
          /\ rec'[i].status = "verified" /\ rec'[i].code = None
          /\ rec'[i].finish = None /\ rec'[i].player = p
      BY <1>4, <1>a DEF CompleteScript, Holds, Shaped, Record
    <2>2. SignIn(rec'[i]) = Promise!At("bound", None, None, p)
      BY <2>1, SignInOf DEF Promise!At
    <2>3. Promise!Moves(i, Promise!At("bound", None, None, p))
      BY <2>2, <1>c
    <2>4. SignIns[i].phase = "taken"
      BY <2>1, <1>d, SignInOf
    <2>5. Promise!Bind(i, p)
      BY <2>3, <2>4 DEF Promise!Bind
    <2>. QED BY <1>4, <2>5 DEF Promise!Next
  <1>5. CASE c \in Codes /\ ReleaseRestores(i, c, id)
    <2>1. /\ rec[i].status = "processing"
          /\ rec[i].code = None
          /\ codes[c].owner \in {i, None}
      BY <1>5, <1>a DEF ReleaseRestores, Holds, Shaped
    <2>2. /\ rec'[i].status = "pending" /\ rec'[i].code = c
          /\ rec'[i].finish = None /\ rec'[i].player = None
      BY <1>5, <1>a DEF ReleaseRestores, Holds, Shaped, Record
    <2>3. SignIn(rec'[i]) = Promise!At("offered", c, None, None)
      BY <2>2, SignInOf DEF Promise!At
    <2>4. Promise!Moves(i, Promise!At("offered", c, None, None))
      BY <2>3, <1>c
    <2>5. SignIns[i].phase = "taken"
      BY <2>1, <1>d, SignInOf
    <2>6. Promise!OfferAgain(i, c)
      BY <1>5, <1>e, <2>1, <2>4, <2>5 DEF Promise!OfferAgain
    <2>. QED BY <1>5, <2>6 DEF Promise!Next
  <1>6. CASE rec' = rec
    BY <1>6 DEF SignIns
  <1>7. CASE id \in Unused /\ ClaimVerifiedScript(i, b, id)
    <2>1. /\ rec[i].status = "verified"
          /\ rec'[i].status = "finalizing" /\ rec'[i].code = None
          /\ rec'[i].finish = id /\ rec'[i].player = rec[i].player
      BY <1>7, <1>a DEF ClaimVerifiedScript, Record, Shaped
    <2>2. SignIn(rec'[i]) = Promise!At("leaving", None, id, SignIns[i].player)
      <3>1. SignIn(rec'[i]) = [phase |-> "leaving", code |-> None, holder |-> id, player |-> rec[i].player]
        BY <2>1, <1>d, SignInOf
      <3>2. SignIns[i].player = rec[i].player
        BY <1>d DEF SignIn
      <3>. QED BY <3>1, <3>2 DEF Promise!At
    <2>3. Promise!Moves(i, Promise!At("leaving", None, id, SignIns[i].player))
      BY <2>2, <1>c
    <2>4. SignIns[i].phase = "bound"
      BY <2>1, <1>d, SignInOf
    <2>5. id \in Claims /\ Promise!Unheld(id)
      BY <1>7, <1>f
    <2>6. Promise!Leave(i, id)
      BY <2>3, <2>4, <2>5 DEF Promise!Leave
    <2>. QED BY <2>5, <2>6 DEF Promise!Next
  <1>8. CASE ReleaseFinalizationScript(i, id) /\ Finalizes(i, id)
    <2>1. /\ rec[i].status = "finalizing"
          /\ rec'[i].status = "verified" /\ rec'[i].code = None
          /\ rec'[i].finish = None /\ rec'[i].player = rec[i].player
      BY <1>8, <1>a DEF ReleaseFinalizationScript, Finalizes, Record, Shaped
    <2>2. SignIn(rec'[i]) = Promise!At("bound", None, None, SignIns[i].player)
      <3>1. SignIn(rec'[i]) = [phase |-> "bound", code |-> None, holder |-> None, player |-> rec[i].player]
        BY <2>1, <1>d, SignInOf
      <3>2. SignIns[i].player = rec[i].player
        BY <1>d DEF SignIn
      <3>. QED BY <3>1, <3>2 DEF Promise!At
    <2>3. Promise!Moves(i, Promise!At("bound", None, None, SignIns[i].player))
      BY <2>2, <1>c
    <2>4. SignIns[i].phase = "leaving"
      BY <2>1, <1>d, SignInOf
    <2>5. Promise!Stay(i)
      BY <2>3, <2>4 DEF Promise!Stay
    <2>. QED BY <2>5 DEF Promise!Next
  <1>9. CASE rec' = [rec EXCEPT ![i].attempts = @ + 1]
    <2>1. SignIn(rec'[i]) = SignIn(rec[i])
      BY <1>9, <1>a DEF SignIn, Record
    <2>. QED BY <1>b, <2>1 DEF SignIns
  <1>10. ClaimVerifiedRefuses(i, b) =>
           rec'[i] = Absent \/ rec' = [rec EXCEPT ![i].attempts = @ + 1]
    BY DEF ClaimVerifiedRefuses
  <1>11. ReleaseScript(i, c, id) => ReleaseRestores(i, c, id) \/ rec' = rec \/ rec'[i] = Absent
    BY DEF ReleaseScript, ReleaseDrops, ReleaseRefused, storeVars
  <1>12. ClaimTooLate(i, c) \/ ClaimInteractionTooLate(i) \/ ResetVerified(i)
           => rec'[i] = Absent
    BY DEF ClaimTooLate, ClaimInteractionTooLate, ResetVerified
  <1>13. CompleteFinalizationScript(i, id) => rec' = rec \/ rec'[i] = Absent
    BY DEF CompleteFinalizationScript
  <1>14. ReleaseFinalizationScript(i, id) => rec' = rec \/ Finalizes(i, id)
    BY DEF ReleaseFinalizationScript
  <1>. QED
    BY <1>1, <1>2, <1>3, <1>4, <1>5, <1>6, <1>7, <1>8, <1>9, <1>10, <1>11, <1>12,
       <1>13, <1>14
    DEF Scripts

LEMMA ElapseKeepsPromise ==
  ASSUME StoreInv, Elapse
  PROVE  [Promise!Next]_SignIns
  <1>. DEFINE Gone == {j \in Interactions : rec'[j] = Absent}
  <1>1. SignIn(Absent) = Promise!Closed
    BY DEF SignIn, Absent, Promise!Closed, Promise!At
  <1>2. ASSUME NEW j \in Interactions \ Gone
        PROVE  SignIn(rec'[j]) = SignIn(rec[j])
    BY ElapseKeepsStoreInv DEF SameButTimes, SignIn
  <1>3. Promise!Close(Gone)
    BY <1>1, <1>2 DEF Promise!Close, SignIns
  <1>. QED BY <1>3 DEF Promise!Next

-----------------------------------------------------------------------------
(* The callers.                                                            *)

Resolved == {"verified", "finalizing"}

\* What a call keeps in its local variables at each await.
CallShape(c) ==
  /\ c.op # "idle" => c.i \in Interactions
  /\ c.op = "mint" => c.tries \in 1..MaxCodeAllocationAttempts
  /\ c.op \in {"claim", "resolve"} => c.code \in Codes /\ c.player \in Players
  /\ c.op \in {"resolve", "persist", "cleanup"} => c.id \in Claims

\* Whoever is about to complete the current claim of a record is among those
\* who claimed it.
ClaimantProved ==
  \A k \in Callers :
    call[k].op = "resolve" /\ Holds(call[k].i, call[k].id)
      => call[k].player \in proved[call[k].i]

\* A record is handed out exactly while it is being finalized.
HandedIsFinalizing ==
  \A i \in Interactions : handed[i] = IF rec[i].status = "finalizing" THEN 1 ELSE 0

CallInv == /\ call \in [Callers -> Call]
           /\ \A k \in Callers : CallShape(call[k])

HistoryInv == /\ proved \in [Interactions -> SUBSET Players]
              /\ handed \in [Interactions -> Nat]
              /\ ClaimantProved
              /\ BoundByItsClaimant
              /\ HandedIsFinalizing

IInv == StoreInv /\ CallInv /\ HistoryInv

LEMMA Initially == Init => IInv
  <1>. SUFFICES ASSUME Init PROVE IInv
    OBVIOUS
  <1>1. StoreInv
    BY StoreInitially DEF Init
  <1>2. CallInv
    BY CallerAssumption DEF Init, CallInv, CallShape, Idle, Call, Ops
  <1>3. HistoryInv
    BY DEF Init, HistoryInv, ClaimantProved, BoundByItsClaimant, HandedIsFinalizing,
       Idle, StoreInit, Absent
  <1>. QED BY <1>1, <1>2, <1>3 DEF IInv

LEMMA IdleIsCall == Idle \in Call /\ CallShape(Idle)
  BY CallerAssumption DEF Idle, Call, CallShape, Ops

\* randomUUID returns an id no record holds.
LEMMA FreshIsUnused == FreshClaims \subseteq Unused
  BY DEF FreshClaims, Unused

\* Every step runs at most one script, with arguments of the right kind.
Step(i) == \E c \in Codes \cup {None}, id \in Claims \cup {None},
              p \in Players \cup {None}, b \in BOOLEAN : Scripts(i, c, id, p, b)

\* What a step makes of the store, whoever takes it.
StoreMoves == UNCHANGED storeVars \/ Elapse \/ \E i \in Interactions : Step(i)

LEMMA NextIsScript ==
  ASSUME IInv, Next
  PROVE  StoreMoves
  <1>. USE DEF CallInv, CallShape
  <1>1. ASSUME NEW k \in Callers, NEW c \in Codes, Mint(k, c)
        PROVE  UNCHANGED storeVars \/ \E i \in Interactions : Step(i)
    BY <1>1 DEF Mint, IInv, Step, Scripts
  <1>2. ASSUME NEW k \in Callers, NEW id \in FreshClaims, ClaimCode(k, id)
        PROVE  \E i \in Interactions : Step(i)
    BY <1>2, FreshIsUnused DEF ClaimCode, IInv, Step, Scripts, Unused
  <1>3. ASSUME NEW k \in Callers, ClaimCodeFails(k)
        PROVE  UNCHANGED storeVars \/ \E i \in Interactions : Step(i)
    BY <1>3 DEF ClaimCodeFails, IInv, Step, Scripts
  <1>4. ASSUME NEW k \in Callers, NEW i \in Interactions, NEW id \in FreshClaims,
               NEW p \in Players, ClaimInteraction(k, i, p, id)
        PROVE  Step(i)
    BY <1>4, FreshIsUnused DEF ClaimInteraction, IInv, Step, Scripts, Unused
  <1>5. ASSUME NEW k \in Callers, NEW i \in Interactions,
               ClaimInteractionFails(k, i) \/ Reset(k, i)
        PROVE  Step(i)
    BY <1>5 DEF ClaimInteractionFails, Reset, Step, Scripts
  <1>6. ASSUME NEW k \in Callers, Complete(k)
        PROVE  UNCHANGED storeVars \/ \E i \in Interactions : Step(i)
    <2>1. CASE UNCHANGED storeVars
      BY <2>1
    <2>2. CASE CompleteScript(call[k].i, call[k].code, call[k].id, call[k].player, call[k].join)
      <3>1. /\ call[k].i \in Interactions /\ call[k].code \in Codes
            /\ call[k].id \in Claims /\ call[k].player \in Players
            /\ call[k].join \in BOOLEAN
        BY <1>6 DEF Complete, IInv, Call
      <3>2. Scripts(call[k].i, call[k].code, call[k].id, call[k].player, call[k].join)
        BY <2>2, <3>1 DEF Scripts
      <3>. QED BY <3>1, <3>2 DEF Step
    <2>. QED BY <1>6, <2>1, <2>2 DEF Complete
  <1>7. ASSUME NEW k \in Callers, Release(k)
        PROVE  \E i \in Interactions : Step(i)
    BY <1>7 DEF Release, IInv, Step, Scripts
  <1>8. ASSUME NEW k \in Callers, NEW i \in Interactions, NEW right \in BOOLEAN,
               NEW id \in FreshClaims, ClaimVerified(k, i, right, id)
        PROVE  Step(i)
    BY <1>8, FreshIsUnused DEF ClaimVerified, Step, Scripts, Unused
  <1>9. ASSUME NEW k \in Callers, NEW i \in Interactions, NEW right \in BOOLEAN,
               ClaimVerifiedFails(k, i, right)
        PROVE  Step(i)
    BY <1>9 DEF ClaimVerifiedFails, Step, Scripts
  <1>10. ASSUME NEW k \in Callers, PersistFails(k) \/ CleanUp(k)
         PROVE  \E i \in Interactions : Step(i)
    BY <1>10 DEF PersistFails, CleanUp, IInv, Step, Scripts
  <1>11. ASSUME NEW k \in Callers,
                \/ AllocateAgain(k) \/ PersistResult(k) \/ Abandon(k)
                \/ \E i \in Interactions : Allocate(k, i)
                \/ \E c \in Codes, p \in Players : ReadCode(k, c, p)
         PROVE  UNCHANGED storeVars
    BY <1>11 DEF AllocateAgain, PersistResult, Abandon, Allocate, ReadCode
  <1>. QED
    BY <1>1, <1>2, <1>3, <1>4, <1>5, <1>6, <1>7, <1>8, <1>9, <1>10, <1>11
    DEF Next, Serve, StartOver, Tick, StoreMoves

LEMMA MovesKeepStoreInv ==
  ASSUME StoreInv, StoreMoves
  PROVE  StoreInv'
  <1>1. CASE UNCHANGED storeVars
    BY <1>1 DEF StoreInv, StoreTypeOK, PendingIsJoinable, storeVars
  <1>2. CASE Elapse
    BY <1>2, ElapseKeepsStoreInv
  <1>3. ASSUME NEW i \in Interactions, Step(i)
        PROVE  StoreInv'
    BY <1>3, ScriptsKeepStoreInv DEF Step
  <1>. QED BY <1>1, <1>2, <1>3 DEF StoreMoves

\* An identity stays on its record, with the count of wrong guesses, until the
\* record goes away.
LEMMA MovesKeepIdentity ==
  ASSUME StoreInv, StoreMoves, NEW i \in Interactions, rec[i].player # None
  PROVE  \/ rec'[i] = Absent
         \/ rec'[i].player = rec[i].player /\ rec'[i].attempts >= rec[i].attempts
  <1>. DEFINE Kept == \/ rec'[i] = Absent
                      \/ rec'[i].player = rec[i].player /\ rec'[i].attempts >= rec[i].attempts
  <1>0. rec \in [Interactions -> Record] /\ rec[i].attempts \in Nat
    BY StoreAssumption DEF StoreInv, StoreTypeOK, Record
  <1>1. CASE UNCHANGED storeVars
    BY <1>0, <1>1 DEF storeVars
  <1>2. CASE Elapse
    BY <1>0, <1>2, ElapseKeepsStoreInv DEF SameButTimes
  <1>3. ASSUME NEW j \in Interactions, Step(j)
        PROVE  Kept
    <2>1. PICK c \in Codes \cup {None}, id \in Claims \cup {None},
               p \in Players \cup {None}, b \in BOOLEAN : Scripts(j, c, id, p, b)
      BY <1>3 DEF Step
    <2>2. CASE i = j
      BY <2>1, <2>2, ScriptsKeepIdentity
    <2>3. CASE i # j
      <3>1. rec'[i] = rec[i]
        BY <2>1, <2>3, ScriptsKeepTypes
      <3>. QED BY <1>0, <3>1
    <2>. QED BY <2>2, <2>3
  <1>. QED BY <1>1, <1>2, <1>3 DEF StoreMoves

LEMMA MovesKeepPromise ==
  ASSUME StoreInv, StoreMoves
  PROVE  [Promise!Next]_SignIns
  <1>1. CASE UNCHANGED storeVars
    BY <1>1 DEF storeVars, SignIns
  <1>2. CASE Elapse
    BY <1>2, ElapseKeepsPromise
  <1>3. ASSUME NEW i \in Interactions, Step(i)
        PROVE  [Promise!Next]_SignIns
    BY <1>3, ScriptsKeepPromise DEF Step
  <1>. QED BY <1>1, <1>2, <1>3 DEF StoreMoves

LEMMA PromiseInitially == Init => Promise!Init
  BY DEF Init, StoreInit, Promise!Init, SignIns, SignIn, Absent, Promise!Closed, Promise!At

\* Calls that end, or go on without taking a claim.
CallsGoOn == CallInv' /\ \A k \in Callers : call'[k].op = "resolve" => call'[k] = call[k]

LEMMA CallGoesOn ==
  ASSUME CallInv, NEW k \in Callers, NEW n, Becomes(k, n), n \in Call, CallShape(n),
         n.op # "resolve"
  PROVE  CallsGoOn
  BY DEF CallInv, Becomes, CallsGoOn

LEMMA CallReturns ==
  ASSUME CallInv, NEW k \in Callers, Returns(k)
  PROVE  CallsGoOn
  BY CallGoesOn, IdleIsCall DEF Returns, Idle

LEMMA CallStartsMinting ==
  ASSUME CallInv, NEW k \in Callers, NEW i \in Interactions, StartMinting(k, i)
  PROVE  CallsGoOn
  <1>. DEFINE n == [Idle EXCEPT !.op = "mint", !.i = i, !.tries = MaxCodeAllocationAttempts]
  <1>1. /\ MaxCodeAllocationAttempts \in 1..MaxCodeAllocationAttempts
        /\ MaxCodeAllocationAttempts \in 0..MaxCodeAllocationAttempts
    BY CallerAssumption
  <1>2. /\ n.op = "mint" /\ n.i = i /\ n.tries = MaxCodeAllocationAttempts
        /\ n \in Call
    BY <1>1 DEF Idle, Call, Ops
  <1>3. Becomes(k, n)
    BY DEF StartMinting
  <1>4. CallShape(n)
    BY <1>1, <1>2 DEF CallShape
  <1>. HIDE DEF n
  <1>. QED BY <1>2, <1>3, <1>4, CallGoesOn

\* What most steps make of a record: it stays, it goes, it is offered, or it
\* carries the identity of a player who claimed it.
Tame(i) ==
  \/ rec'[i] = rec[i]
  \/ rec'[i] = Absent
  \/ /\ rec'[i].status = rec[i].status
     /\ rec'[i].claim = rec[i].claim
     /\ rec'[i].player = rec[i].player
  \/ rec'[i].status = "pending" /\ rec[i].status # "finalizing"
  \/ /\ rec[i].status = "processing" /\ rec'[i].status = "verified"
     /\ rec'[i].player \in proved[i]

LEMMA TameStep ==
  ASSUME IInv, StoreInv', CallsGoOn, History, \A i \in Interactions : Tame(i)
  PROVE  IInv'
  <1>. rec \in [Interactions -> Record] /\ rec' \in [Interactions -> Record]
    BY DEF IInv, StoreInv, StoreTypeOK
  <1>1. ASSUME NEW i \in Interactions
        PROVE  /\ rec'[i].status # "none" => proved'[i] = proved[i]
               /\ proved'[i] \in {proved[i], {}}
               /\ handed'[i] = IF rec'[i].status = "none" THEN 0 ELSE handed[i]
    BY DEF History, Forgotten
  <1>2. proved' \in [Interactions -> SUBSET Players]
    BY <1>1 DEF History, Forgotten, IInv, HistoryInv
  <1>3. handed' \in [Interactions -> Nat]
    BY DEF History, Forgotten, IInv, HistoryInv
  <1>4. HandedIsFinalizing'
    <2>. SUFFICES ASSUME NEW i \in Interactions
                  PROVE  handed'[i] = IF rec'[i].status = "finalizing" THEN 1 ELSE 0
      BY DEF HandedIsFinalizing
    <2>1. handed[i] = IF rec[i].status = "finalizing" THEN 1 ELSE 0
      BY DEF IInv, HistoryInv, HandedIsFinalizing
    <2>2. \/ rec'[i].status = "none"
          \/ rec'[i].status = "finalizing" <=> rec[i].status = "finalizing"
      BY DEF Tame, Absent
    <2>. QED BY <1>1, <2>1, <2>2
  <1>5. BoundByItsClaimant'
    <2>. SUFFICES ASSUME NEW i \in Interactions, rec'[i].status \in Resolved
                  PROVE  rec'[i].player \in proved'[i]
      BY DEF BoundByItsClaimant, Resolved
    <2>1. rec'[i].player \in proved[i]
      BY DEF Tame, Absent, Resolved, IInv, HistoryInv, BoundByItsClaimant
    <2>. QED BY <2>1, <1>1 DEF Resolved
  <1>6. ClaimantProved'
    <2>. SUFFICES ASSUME NEW k \in Callers, call'[k].op = "resolve",
                         Holds(call[k].i, call[k].id)'
                  PROVE  call'[k].player \in proved'[call'[k].i]
      BY DEF ClaimantProved, Holds
    <2>1. call'[k] = call[k] /\ call[k].i \in Interactions
      BY DEF CallsGoOn, IInv, CallInv, CallShape
    <2>2. rec'[call[k].i].status = "processing" /\ rec'[call[k].i].claim = call[k].id
      BY <2>1 DEF Holds
    <2>3. Holds(call[k].i, call[k].id)
      BY <2>1, <2>2 DEF Tame, Absent, Holds
    <2>4. call[k].player \in proved[call[k].i]
      BY <2>1, <2>3 DEF IInv, HistoryInv, ClaimantProved
    <2>. QED BY <2>1, <2>2, <2>4, <1>1
  <1>. QED
    BY <1>2, <1>3, <1>4, <1>5, <1>6 DEF IInv, HistoryInv, CallsGoOn

\* A step that takes a claim, with an id that no call knew: its player has
\* claimed the record, and nobody else is about to complete a claim of that id.
LEMMA RecordIsClaimed ==
  ASSUME IInv, StoreInv', CallInv', NEW i \in Interactions, NEW p \in Players,
         NEW id \in FreshClaims,
         \A l \in Callers :
           \/ call'[l] = call[l]
           \/ call'[l].i = i /\ call'[l].id = id /\ call'[l].player = p,
         rec[i].status = "pending",
         rec' = [rec EXCEPT ![i] = Processing(@, id)],
         HistoryOfClaim(i, p)
  PROVE  IInv'
  <1>. rec \in [Interactions -> Record] /\ rec' \in [Interactions -> Record]
    BY DEF IInv, StoreInv, StoreTypeOK
  <1>. proved \in [Interactions -> SUBSET Players]
    BY DEF IInv, HistoryInv
  <1>1. /\ rec'[i].status = "processing" /\ rec'[i].claim = id
        /\ \A j \in Interactions \ {i} : rec'[j] = rec[j]
    BY DEF Processing, Record
  <1>3. /\ proved' \in [Interactions -> SUBSET Players]
        /\ p \in proved'[i]
        /\ \A j \in Interactions : rec'[j].status # "none" => proved[j] \subseteq proved'[j]
    BY DEF HistoryOfClaim, Forgotten
  <1>4. handed' \in [Interactions -> Nat] /\ HandedIsFinalizing'
    <2>1. handed' = [j \in Interactions |-> IF rec'[j].status = "none" THEN 0 ELSE handed[j]]
      BY DEF HistoryOfClaim, Forgotten
    <2>2. handed \in [Interactions -> Nat] /\ HandedIsFinalizing
      BY DEF IInv, HistoryInv
    <2>3. \A j \in Interactions : rec'[j].status = "finalizing" <=> rec[j].status = "finalizing"
      BY <1>1
    <2>. QED BY <2>1, <2>2, <2>3 DEF HandedIsFinalizing
  <1>5. BoundByItsClaimant'
    <2>. SUFFICES ASSUME NEW j \in Interactions, rec'[j].status \in Resolved
                  PROVE  rec'[j].player \in proved'[j]
      BY DEF BoundByItsClaimant, Resolved
    <2>1. rec'[j] = rec[j] /\ rec[j].player \in proved[j]
      BY <1>1 DEF Resolved, IInv, HistoryInv, BoundByItsClaimant
    <2>. QED BY <2>1, <1>3 DEF Resolved
  <1>6. ClaimantProved'
    <2>. SUFFICES ASSUME NEW l \in Callers, call'[l].op = "resolve",
                         Holds(call[l].i, call[l].id)'
                  PROVE  call'[l].player \in proved'[call'[l].i]
      BY DEF ClaimantProved, Holds
    <2>1. CASE call'[l] # call[l]
      BY <2>1, <1>3
    <2>2. CASE call'[l] = call[l]
      <3>1. call[l].op = "resolve" /\ call[l].i \in Interactions /\ call[l].id # id
        BY <2>2 DEF IInv, CallInv, CallShape, FreshClaims
      <3>3. /\ rec'[call[l].i].status = "processing"
            /\ rec'[call[l].i].claim = call[l].id
        BY <2>2, <3>1 DEF Holds
      <3>4. Holds(call[l].i, call[l].id)
        BY <3>1, <3>3, <1>1 DEF Holds
      <3>5. call[l].player \in proved[call[l].i]
        BY <3>1, <3>4 DEF IInv, HistoryInv, ClaimantProved
      <3>. QED BY <2>2, <3>1, <3>3, <3>5, <1>3
    <2>. QED BY <2>1, <2>2
  <1>. QED
    BY <1>3, <1>4, <1>5, <1>6 DEF IInv, HistoryInv

\* The calls of Verification that take a claim.
LEMMA ClaimStep ==
  ASSUME IInv, StoreInv', NEW k \in Callers, NEW i \in Interactions, NEW p \in Players,
         NEW id \in FreshClaims, NEW n \in Call, CallShape(n), Becomes(k, n),
         n.i = i, n.id = id, n.player = p,
         rec[i].status = "pending",
         rec' = [rec EXCEPT ![i] = Processing(@, id)],
         HistoryOfClaim(i, p)
  PROVE  IInv'
  <1>1. CallInv'
    BY DEF IInv, CallInv, Becomes
  <1>2. \A l \in Callers :
          \/ call'[l] = call[l]
          \/ call'[l].i = i /\ call'[l].id = id /\ call'[l].player = p
    BY DEF Becomes, IInv, CallInv
  <1>. QED BY <1>1, <1>2, RecordIsClaimed

\* The steps that hand a record out, and take it back when its result could
\* not be persisted.
LEMMA HandingStep ==
  ASSUME IInv, StoreInv', CallsGoOn, UNCHANGED proved, NEW i \in Interactions,
         \A j \in Interactions \ {i} : rec'[j] = rec[j] /\ handed'[j] = handed[j],
         rec'[i].player = rec[i].player,
         \/ /\ rec[i].status = "verified" /\ rec'[i].status = "finalizing"
            /\ handed' = [handed EXCEPT ![i] = @ + 1]
         \/ /\ rec[i].status = "finalizing" /\ rec'[i].status = "verified"
            /\ handed' = [handed EXCEPT ![i] = @ - 1]
  PROVE  IInv'
  <1>1. handed \in [Interactions -> Nat] /\ HandedIsFinalizing
    BY DEF IInv, HistoryInv
  <1>2. handed'[i] = IF rec'[i].status = "finalizing" THEN 1 ELSE 0
    BY <1>1 DEF HandedIsFinalizing
  <1>3. handed' \in [Interactions -> Nat] /\ HandedIsFinalizing'
    BY <1>1, <1>2 DEF HandedIsFinalizing
  <1>4. BoundByItsClaimant'
    BY DEF BoundByItsClaimant, IInv, HistoryInv
  <1>5. ClaimantProved'
    <2>. SUFFICES ASSUME NEW k \in Callers, call'[k].op = "resolve",
                         Holds(call[k].i, call[k].id)'
                  PROVE  call'[k].player \in proved'[call'[k].i]
      BY DEF ClaimantProved, Holds
    <2>1. call'[k] = call[k] /\ call[k].i \in Interactions
      BY DEF CallsGoOn, IInv, CallInv, CallShape
    <2>2. rec'[call[k].i].status = "processing" /\ rec'[call[k].i].claim = call[k].id
      BY <2>1 DEF Holds
    <2>3. Holds(call[k].i, call[k].id)
      BY <2>1, <2>2 DEF Holds
    <2>. QED BY <2>1, <2>3 DEF IInv, HistoryInv, ClaimantProved
  <1>. QED
    BY <1>3, <1>4, <1>5 DEF IInv, HistoryInv, CallsGoOn

LEMMA NextKeepsIInv ==
  ASSUME IInv, Next
  PROVE  IInv'
  <1>. StoreInv'
    BY NextIsScript, MovesKeepStoreInv DEF IInv
  <1>. rec \in [Interactions -> Record]
    BY DEF IInv, StoreInv, StoreTypeOK
  <1>. CallInv /\ handed \in [Interactions -> Nat]
    BY DEF IInv, HistoryInv
  <1>0. ASSUME NEW i \in Interactions
        PROVE  rec[i] \in Record /\ Shaped(rec[i])
    BY DEF IInv, StoreInv
  <1>1. ASSUME NEW k \in Callers, NEW i \in Interactions, Allocate(k, i)
        PROVE  IInv'
    <2>1. CallsGoOn
      BY <1>1, CallStartsMinting DEF Allocate
    <2>. QED BY <1>1, <2>1, TameStep DEF Allocate, storeVars, Tame
  <1>2. ASSUME NEW k \in Callers, AllocateAgain(k)
        PROVE  IInv'
    <2>1. CASE Returns(k)
      BY <1>2, <2>1, CallReturns, TameStep DEF AllocateAgain, storeVars, Tame
    <2>2. CASE StartMinting(k, call[k].i)
      <3>1. call[k].i \in Interactions
        BY <1>2 DEF AllocateAgain, CallInv, CallShape
      <3>2. CallsGoOn
        BY <2>2, <3>1, CallStartsMinting
      <3>. QED BY <1>2, <3>2, TameStep DEF AllocateAgain, storeVars, Tame
    <2>. QED BY <1>2, <2>1, <2>2 DEF AllocateAgain
  <1>3. ASSUME NEW k \in Callers, NEW c \in Codes, Mint(k, c)
        PROVE  IInv'
    <2>1. CASE Returns(k)
      <3>1. ASSUME NEW j \in Interactions
            PROVE  Tame(j)
        BY <1>3 DEF Mint, CreatePending, Exists, Absent, storeVars, Tame
      <3>. QED BY <1>3, <2>1, <3>1, CallReturns, TameStep DEF Mint
    <2>2. CASE /\ call[k].tries # 1 /\ UNCHANGED storeVars
               /\ Becomes(k, [call[k] EXCEPT !.tries = @ - 1])
      <3>1. call[k] \in Call /\ CallShape(call[k]) /\ call[k].op = "mint"
        BY <1>3 DEF Mint, CallInv
      <3>2. call[k].tries - 1 \in 1..MaxCodeAllocationAttempts
        BY <2>2, <3>1, CallerAssumption DEF CallShape, Call
      <3>3. CallsGoOn
        BY <2>2, <3>1, <3>2, CallGoesOn DEF Call, CallShape
      <3>. QED BY <1>3, <2>2, <3>3, TameStep DEF Mint, storeVars, Tame
    <2>. QED BY <1>3, <2>1, <2>2 DEF Mint
  <1>4. ASSUME NEW k \in Callers, NEW c \in Codes, NEW p \in Players, ReadCode(k, c, p)
        PROVE  IInv'
    <2>1. codes[c].owner \in Interactions
      BY <1>4 DEF ReadCode, IInv, StoreInv, StoreTypeOK, CodeKey
    <2>2. CallsGoOn
      BY <1>4, <2>1, CallGoesOn, IdleIsCall, CallerAssumption
      DEF ReadCode, Idle, Call, Ops, CallShape
    <2>. QED BY <1>4, <2>2, TameStep DEF ReadCode, storeVars, Tame
  <1>5. ASSUME NEW k \in Callers, NEW id \in FreshClaims, ClaimCode(k, id)
        PROVE  IInv'
    <2>. DEFINE n == [call[k] EXCEPT !.op = "resolve", !.id = id]
    <2>1. /\ call[k] \in Call /\ CallShape(call[k]) /\ call[k].op = "claim"
          /\ id \in Claims
      BY <1>5 DEF ClaimCode, CallInv, FreshClaims
    <2>2. n \in Call /\ CallShape(n)
      BY <2>1 DEF Call, CallShape, Ops
    <2>3. n.i = call[k].i /\ n.id = id /\ n.player = call[k].player
      BY <2>1 DEF Call
    <2>4. call[k].i \in Interactions /\ call[k].player \in Players
      BY <2>1 DEF CallShape
    <2>5. /\ rec[call[k].i].status = "pending"
          /\ rec' = [rec EXCEPT ![call[k].i] = Processing(@, id)]
      BY <1>5 DEF ClaimCode, ClaimScript, IsPending
    <2>6. Becomes(k, n) /\ HistoryOfClaim(call[k].i, call[k].player)
      BY <1>5 DEF ClaimCode
    <2>. HIDE DEF n
    <2>. QED BY <1>5, <2>2, <2>3, <2>4, <2>5, <2>6, ClaimStep
  <1>6. ASSUME NEW k \in Callers, ClaimCodeFails(k)
        PROVE  IInv'
    <2>1. ASSUME NEW j \in Interactions
          PROVE  Tame(j)
      BY <1>6 DEF ClaimCodeFails, ClaimTooLate, storeVars, Tame
    <2>. QED BY <1>6, <2>1, CallReturns, TameStep DEF ClaimCodeFails
  <1>7. ASSUME NEW k \in Callers, NEW i \in Interactions, NEW p \in Players,
               NEW id \in FreshClaims, ClaimInteraction(k, i, p, id)
        PROVE  IInv'
    <2>. DEFINE n == [Idle EXCEPT !.op = "resolve", !.i = i, !.code = rec[i].code,
                                  !.id = id, !.player = p]
    <2>1. rec[i].status = "pending" /\ rec[i].code \in Codes /\ id \in Claims
      BY <1>7, <1>0 DEF ClaimInteraction, ClaimInteractionScript, Shaped, FreshClaims
    <2>2. n \in Call /\ CallShape(n)
      BY <2>1, IdleIsCall DEF Idle, Call, CallShape, Ops
    <2>3. n.i = i /\ n.id = id /\ n.player = p
      BY DEF Idle
    <2>4. /\ rec' = [rec EXCEPT ![i] = Processing(@, id)]
          /\ Becomes(k, n) /\ HistoryOfClaim(i, p)
      BY <1>7 DEF ClaimInteraction, ClaimInteractionScript
    <2>. HIDE DEF n
    <2>. QED BY <1>7, <2>1, <2>2, <2>3, <2>4, ClaimStep
  <1>8. ASSUME NEW k \in Callers, NEW i \in Interactions,
               ClaimInteractionFails(k, i) \/ Reset(k, i)
        PROVE  IInv'
    <2>1. ASSUME NEW j \in Interactions
          PROVE  Tame(j)
      BY <1>8 DEF ClaimInteractionFails, ClaimInteractionTooLate, Reset, ResetVerified, Tame
    <2>2. CallsGoOn
      BY <1>8, CallGoesOn, CallReturns, IdleIsCall
      DEF ClaimInteractionFails, Reset, Idle, Call, Ops, CallShape
    <2>. QED BY <1>8, <2>1, <2>2, TameStep DEF ClaimInteractionFails, Reset
  <1>9. ASSUME NEW k \in Callers, Complete(k)
        PROVE  IInv'
    <2>1. call[k].op = "resolve" /\ call[k].i \in Interactions
      BY <1>9 DEF Complete, CallInv, CallShape
    <2>2. Holds(call[k].i, call[k].id) => call[k].player \in proved[call[k].i]
      BY <2>1 DEF IInv, HistoryInv, ClaimantProved
    <2>3. ASSUME NEW j \in Interactions
          PROVE  Tame(j)
      <3>1. CASE rec' = rec
        BY <3>1 DEF Tame
      <3>2. CASE CompleteScript(call[k].i, call[k].code, call[k].id, call[k].player, call[k].join)
        <4>1. /\ rec[call[k].i].status = "processing"
              /\ rec'[call[k].i].status = "verified"
              /\ rec'[call[k].i].player = call[k].player
              /\ Holds(call[k].i, call[k].id)
          BY <3>2, <2>1, CompleteBinds DEF IInv, Holds
        <4>2. j # call[k].i => rec'[j] = rec[j]
          BY <3>2 DEF CompleteScript
        <4>. QED BY <4>1, <4>2, <2>2 DEF Tame
      <3>. QED BY <1>9, <3>1, <3>2 DEF Complete, storeVars
    <2>. QED BY <1>9, <2>3, CallReturns, TameStep DEF Complete
  <1>10. ASSUME NEW k \in Callers, Release(k)
         PROVE  IInv'
    <2>1. ASSUME NEW j \in Interactions
          PROVE  Tame(j)
      <3>. DEFINE i == call[k].i
      <3>1. i \in Interactions
        BY <1>10 DEF Release, CallInv, CallShape
      <3>2. CASE ReleaseRestores(i, call[k].code, call[k].id)
        <4>1. rec[i].status = "processing" /\ rec'[i].status = "pending"
          BY <3>1, <3>2, <1>0 DEF ReleaseRestores, Holds, Record
        <4>2. j # i => rec'[j] = rec[j]
          BY <3>2 DEF ReleaseRestores
        <4>. QED BY <4>1, <4>2 DEF Tame
      <3>3. CASE ReleaseDrops(i, call[k].code, call[k].id)
        BY <3>3 DEF ReleaseDrops, Tame
      <3>4. CASE ReleaseRefused(i, call[k].code, call[k].id)
        BY <3>4 DEF ReleaseRefused, storeVars, Tame
      <3>. QED BY <1>10, <3>2, <3>3, <3>4 DEF Release, ReleaseScript
    <2>. QED BY <1>10, <2>1, CallReturns, TameStep DEF Release
  <1>11. ASSUME NEW k \in Callers, NEW i \in Interactions, NEW right \in BOOLEAN,
                NEW id \in FreshClaims, ClaimVerified(k, i, right, id)
         PROVE  IInv'
    <2>1. /\ rec[i].status = "verified" /\ rec'[i].status = "finalizing"
          /\ rec'[i].player = rec[i].player
          /\ \A j \in Interactions \ {i} : rec'[j] = rec[j]
      BY <1>11, <1>0 DEF ClaimVerified, ClaimVerifiedScript, Record
    <2>2. CallsGoOn
      <3>. DEFINE n == [Idle EXCEPT !.op = "persist", !.i = i, !.id = id,
                                    !.player = rec[i].player]
      <3>1. rec[i].player \in Players \cup {None} /\ id \in Claims
        BY <1>0 DEF Record, FreshClaims
      <3>2. /\ n.op = "persist" /\ n.i = i /\ n.id = id
            /\ n \in Call
        BY <3>1, IdleIsCall DEF Idle, Call, Ops
      <3>3. CallShape(n)
        BY <3>1, <3>2 DEF CallShape
      <3>4. Becomes(k, n)
        BY <1>11 DEF ClaimVerified
      <3>. HIDE DEF n
      <3>. QED BY <3>2, <3>3, <3>4, CallGoesOn
    <2>. QED BY <1>11, <2>1, <2>2, HandingStep DEF ClaimVerified
  <1>12. ASSUME NEW k \in Callers, NEW i \in Interactions, NEW right \in BOOLEAN,
                ClaimVerifiedFails(k, i, right)
         PROVE  IInv'
    <2>1. ASSUME NEW j \in Interactions
          PROVE  Tame(j)
      <3>1. \/ rec' = [rec EXCEPT ![i] = Absent]
            \/ rec' = [rec EXCEPT ![i].attempts = @ + 1]
        BY <1>12 DEF ClaimVerifiedFails, ClaimVerifiedRefuses
      <3>. QED BY <3>1, <1>0 DEF Record, Tame
    <2>. QED BY <1>12, <2>1, CallReturns, TameStep DEF ClaimVerifiedFails
  <1>13. ASSUME NEW k \in Callers, PersistResult(k)
         PROVE  IInv'
    <2>1. call[k] \in Call /\ CallShape(call[k]) /\ call[k].op = "persist"
      BY <1>13 DEF PersistResult, CallInv
    <2>2. CallsGoOn
      BY <1>13, <2>1, CallGoesOn DEF PersistResult, Call, CallShape, Ops
    <2>. QED BY <1>13, <2>2, TameStep DEF PersistResult, storeVars, Tame
  <1>14. ASSUME NEW k \in Callers, PersistFails(k)
         PROVE  IInv'
    <2>. DEFINE i == call[k].i
    <2>1. i \in Interactions
      BY <1>14 DEF PersistFails, CallInv, CallShape
    <2>2. CallsGoOn
      BY <1>14, CallReturns DEF PersistFails
    <2>3. CASE Finalizes(i, call[k].id)
      <3>1. /\ rec[i].status = "finalizing" /\ rec'[i].status = "verified"
            /\ rec'[i].player = rec[i].player
            /\ \A j \in Interactions \ {i} : rec'[j] = rec[j]
        BY <1>14, <1>0, <2>1, <2>3
        DEF PersistFails, ReleaseFinalizationScript, Finalizes, Record
      <3>2. handed' = [handed EXCEPT ![i] = @ - 1] /\ UNCHANGED proved
        BY <1>14, <2>3 DEF PersistFails
      <3>. QED BY <2>1, <2>2, <3>1, <3>2, HandingStep
    <2>4. CASE ~Finalizes(i, call[k].id)
      <3>1. rec' = rec /\ handed' = handed /\ proved' = proved
        BY <1>14, <2>4 DEF PersistFails, ReleaseFinalizationScript
      <3>2. ClaimantProved'
        BY <3>1, <2>2 DEF ClaimantProved, CallsGoOn, IInv, HistoryInv, Holds
      <3>. QED
        BY <3>1, <3>2, <2>2
        DEF CallsGoOn, IInv, HistoryInv, BoundByItsClaimant, HandedIsFinalizing
    <2>. QED BY <2>3, <2>4
  <1>15. ASSUME NEW k \in Callers, CleanUp(k)
         PROVE  IInv'
    <2>1. ASSUME NEW j \in Interactions
          PROVE  Tame(j)
      BY <1>15 DEF CleanUp, CompleteFinalizationScript, Tame
    <2>. QED BY <1>15, <2>1, CallReturns, TameStep DEF CleanUp
  <1>16. ASSUME NEW k \in Callers, Abandon(k)
         PROVE  IInv'
    BY <1>16, CallReturns, TameStep DEF Abandon, storeVars, Tame
  <1>17. CASE Tick
    <2>1. ASSUME NEW j \in Interactions
          PROVE  Tame(j)
      BY <1>17, ElapseKeepsStoreInv DEF Tick, IInv, Tame, SameButTimes
    <2>2. CallsGoOn
      BY <1>17 DEF Tick, CallsGoOn, CallInv
    <2>. QED BY <1>17, <2>1, <2>2, TameStep DEF Tick
  <1>. QED
    BY <1>1, <1>2, <1>3, <1>4, <1>5, <1>6, <1>7, <1>8, <1>9, <1>10, <1>11, <1>12,
       <1>13, <1>14, <1>15, <1>16, <1>17
    DEF Next, Serve, StartOver

LEMMA StutterKeepsIInv ==
  ASSUME IInv, UNCHANGED vars
  PROVE  IInv'
  BY DEF vars, IInv, StoreInv, StoreTypeOK, PendingIsJoinable, CallInv, HistoryInv,
     ClaimantProved, Holds, BoundByItsClaimant, HandedIsFinalizing

-----------------------------------------------------------------------------
(* The theorems.                                                           *)

\* The strengthening that every step keeps: StoreInv (field by field, what a
\* record of each status carries, and the code key that goes with it), the
\* local variables of the calls, and the histories.
THEOREM InductiveInvariant == Spec => []IInv
  <1>1. IInv /\ [Next]_vars => IInv'
    BY NextKeepsIInv, StutterKeepsIInv
  <1>. QED BY Initially, <1>1, PTL DEF Spec

\* Every reachable state is well typed: records, code keys, the calls' local
\* variables and the histories.
THEOREM TypeCorrect == Spec => []TypeOK
  <1>1. IInv => TypeOK
    BY DEF IInv, StoreInv, CallInv, HistoryInv, TypeOK
  <1>. QED BY InductiveInvariant, <1>1, PTL

\* A pending record has its code key, with the same time left, whatever the
\* callers do: the code a browser shows is one a player can join with.
THEOREM PendingJoinable == Spec => []PendingIsJoinable
  <1>1. IInv => PendingIsJoinable
    BY DEF IInv, StoreInv
  <1>. QED BY InductiveInvariant, <1>1, PTL

\* The identity on a record is of a player who won a claim on that record,
\* for any number of late, repeated and abandoned calls.
THEOREM BoundOnlyByClaimant == Spec => []BoundByItsClaimant
  <1>1. IInv => BoundByItsClaimant
    BY DEF IInv, HistoryInv
  <1>. QED BY InductiveInvariant, <1>1, PTL

\* No verified record is handed to the OIDC provider twice.
THEOREM HandedOutOnce == Spec => []FinalizedOnce
  <1>1. IInv => FinalizedOnce
    <2>. SUFFICES ASSUME IInv, NEW i \in Interactions
                  PROVE  handed[i] <= 1
      BY DEF FinalizedOnce
    <2>1. handed[i] \in {0, 1}
      BY DEF IInv, HistoryInv, HandedIsFinalizing
    <2>. QED BY <2>1
  <1>. QED BY InductiveInvariant, <1>1, PTL

\* An identity stays on its record until the record goes away, and so does
\* the count of wrong guesses at the confirmation code.
THEOREM IdentityStays == Spec => IdentityIsFinal
  <1>1. IInv /\ [Next]_vars =>
          [\A i \in Interactions : rec[i].player # None =>
             \/ rec'[i] = Absent
             \/ /\ rec'[i].player = rec[i].player
                /\ rec'[i].attempts >= rec[i].attempts]_vars
    BY NextIsScript, MovesKeepIdentity DEF IInv
  <1>. QED BY InductiveInvariant, <1>1, PTL DEF Spec, IdentityIsFinal

\* The store implements Redemption: seen through SignIns, the initial states
\* are its initial state and every step is one of its moves or a stutter.
THEOREM StoreKeepsPromise == Spec => KeepsPromise
  <1>1. IInv /\ [Next]_vars => [Promise!Next]_SignIns
    <2>1. CASE UNCHANGED vars
      BY <2>1 DEF vars, SignIns
    <2>. QED BY <2>1, NextIsScript, MovesKeepPromise DEF IInv
  <1>. QED BY InductiveInvariant, PromiseInitially, <1>1, PTL DEF Spec, KeepsPromise, Promise!Spec
=============================================================================
