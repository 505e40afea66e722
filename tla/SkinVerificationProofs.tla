-------------------------- MODULE SkinVerificationProofs --------------------------
(***************************************************************************)
(* Theorems about SkinVerification, for any interactions, players, tabs,   *)
(* requests beside them, claims and TTLs.  What VerificationProofs shows   *)
(* of the store holds with the skin sign-ins running on it (IInv,          *)
(* TabProved); ChallengeInv is what their requests owe to the challenges.  *)
(* Then SkinMarker: whatever the entropy and the tone of a skin, the       *)
(* marker stands out.  Linear arithmetic near the clamps, and an invariant *)
(* that remembers what the worn marker was drawn from.                     *)
(***************************************************************************)
EXTENDS SkinVerification, SkinMarker, VerificationProofs

\* What a request keeps in its local variables at each await.
TaskShape(s) ==
  /\ s.op # "idle" => s.i \in Interactions
  /\ s.op \in {"read", "lookup"} \cup Checking => s.player \in Players
  /\ s.check # None <=> s.op \in Checking
  /\ s.op = "resolve" => s.code \in Codes /\ s.claim \in Claims

TaskInv == /\ task \in [Tabs -> Task]
           /\ \A t \in Tabs : TaskShape(task[t])

\* A challenge is for a player, and carries a claim just while it is checked.
ChallengeShape(c) == /\ c.status # "none" => c.player \in Players
                     /\ c.status = "checking" <=> c.claim # None

\* The claim of a check is on the challenge of its own interaction or on none.
ChecksBelong ==
  \A t \in Tabs, i \in Interactions :
    task[t].check # None /\ skin[i].claim = task[t].check => task[t].i = i

\* A check that was rejected does not hold the challenge any more, nor the one
\* that was issued since.
RejectedHasLost ==
  \A t \in Tabs :
    task[t].rejected /\ task[t].op \in Checking => skin[task[t].i].claim # task[t].check

ChallengeInv == /\ skin \in [Interactions -> Challenge]
                /\ \A i \in Interactions : ChallengeShape(skin[i])
                /\ lost \subseteq Checks
                /\ CheckIsHeld
                /\ ChecksBelong
                /\ RejectedHasLost

\* Who is about to complete the current claim of a record by a skin is among
\* those who claimed it.
TabProved ==
  \A t \in Tabs :
    task[t].op = "resolve" /\ Holds(task[t].i, task[t].claim)
      => task[t].player \in proved[task[t].i]

SkinInv == IInv /\ TaskInv /\ ChallengeInv /\ TabProved

LEMMA NoTaskIsTask == NoTask \in Task /\ TaskShape(NoTask)
  BY DEF NoTask, Task, TaskShape, Checking

LEMMA NoChallengeIsShaped == NoChallenge \in Challenge /\ ChallengeShape(NoChallenge)
  BY DEF NoChallenge, Challenge, ChallengeShape

LEMMA SkinInitially == SkinInit => SkinInv
  <1>. SUFFICES ASSUME SkinInit PROVE SkinInv
    OBVIOUS
  <1>1. IInv
    BY Initially DEF SkinInit
  <1>2. TaskInv
    BY NoTaskIsTask DEF SkinInit, TaskInv
  <1>3. ChallengeInv
    BY NoChallengeIsShaped
    DEF SkinInit, ChallengeInv, CheckIsHeld, ChecksBelong, RejectedHasLost, NoTask, NoChallenge
  <1>4. TabProved
    BY DEF SkinInit, TabProved, NoTask
  <1>. QED BY <1>1, <1>2, <1>3, <1>4 DEF SkinInv

-----------------------------------------------------------------------------
(* The requests.                                                           *)

\* The requests outside S go on, no check begins, and none changes its claim.
ChecksGoOn(S) ==
  /\ TaskInv'
  /\ \A u \in Tabs :
       task'[u].op \in Checking =>
         /\ task[u].op \in Checking
         /\ task'[u].check = task[u].check
         /\ task'[u].i = task[u].i
  /\ \A u \in Tabs \ S : task[u].op \in Checking => task'[u].op \in Checking

\* A request is rejected only with the challenge that it had claimed.
RejectsLosers ==
  \A u \in Tabs :
    task'[u].op \in Checking /\ task'[u].rejected
      => task[u].rejected \/ skin'[task[u].i].claim # task[u].check

\* No request takes a claim on a record.
ResolvesGoOn ==
  \A u \in Tabs :
    task'[u].op = "resolve" =>
      /\ task[u].op = "resolve"
      /\ task'[u].i = task[u].i
      /\ task'[u].claim = task[u].claim
      /\ task'[u].player = task[u].player

LEMMA TaskGoesOn ==
  ASSUME TaskInv, NEW t \in Tabs, NEW s \in Task, TaskShape(s), Does(t, s),
         s.op \in Checking =>
           /\ task[t].op \in Checking
           /\ s.check = task[t].check
           /\ s.i = task[t].i
           /\ s.rejected = task[t].rejected
  PROVE  ChecksGoOn(IF s.op \in Checking THEN {} ELSE {t}) /\ RejectsLosers
  <1>1. /\ task \in [Tabs -> Task] /\ task' \in [Tabs -> Task]
        /\ task'[t] = s
        /\ \A u \in Tabs \ {t} : task'[u] = task[u]
    BY DEF TaskInv, Does
  <1>2. TaskInv'
    BY <1>1 DEF TaskInv
  <1>. QED BY <1>1, <1>2 DEF ChecksGoOn, RejectsLosers

\* The request goes to its next step and keeps its other variables.
LEMMA TaskGoes ==
  ASSUME TaskInv, NEW t \in Tabs, task[t].op \in Checking,
         NEW op \in Checking \ {"resolve"}, Goes(t, op)
  PROVE  ChecksGoOn({}) /\ RejectsLosers /\ ResolvesGoOn
  <1>. DEFINE s == [task[t] EXCEPT !.op = op]
  <1>1. task[t] \in Task /\ TaskShape(task[t])
    BY DEF TaskInv
  <1>2. /\ s \in Task /\ s.op = op /\ s.check = task[t].check /\ s.i = task[t].i
        /\ s.rejected = task[t].rejected /\ s.player = task[t].player
    BY <1>1 DEF Task
  <1>3. TaskShape(s)
    BY <1>1, <1>2 DEF TaskShape, Checking
  <1>4. Does(t, s)
    BY DEF Goes
  <1>5. ResolvesGoOn
    BY <1>2, <1>4 DEF Does, ResolvesGoOn, TaskInv
  <1>. HIDE DEF s
  <1>. QED BY <1>2, <1>3, <1>4, <1>5, TaskGoesOn

LEMMA TaskEnds ==
  ASSUME TaskInv, NEW t \in Tabs, Ends(t)
  PROVE  ChecksGoOn({t}) /\ RejectsLosers /\ ResolvesGoOn
  <1>1. Does(t, NoTask)
    BY DEF Ends
  <1>2. ResolvesGoOn
    BY <1>1 DEF Does, ResolvesGoOn, TaskInv, NoTask
  <1>. QED BY <1>1, <1>2, NoTaskIsTask, TaskGoesOn DEF NoTask, Checking

\* A request that does not check goes to another step at which it does not.
LEMMA TaskBeside ==
  ASSUME TaskInv, NEW t \in Tabs, task[t].op \notin Checking,
         NEW s \in Task, TaskShape(s), s.op \notin Checking, Does(t, s)
  PROVE  ChecksGoOn({}) /\ RejectsLosers /\ ResolvesGoOn
  <1>1. ChecksGoOn({t}) /\ RejectsLosers
    BY TaskGoesOn
  <1>2. ResolvesGoOn
    BY DEF Does, ResolvesGoOn, TaskInv, Checking
  <1>. QED BY <1>1, <1>2 DEF ChecksGoOn

\* Claims of checks stay where they are or vanish; a check that ends is counted
\* among the lost, or no challenge names it any more.
LEMMA ChallengeStep ==
  ASSUME TaskInv, ChallengeInv, NEW S, NEW X \in SUBSET Checks,
         ChecksGoOn(S), RejectsLosers, Loses(X),
         skin' \in [Interactions -> Challenge],
         \A i \in Interactions :
           ChallengeShape(skin'[i]) /\ skin'[i].claim \in {skin[i].claim, None},
         \A u \in Tabs \cap S : task[u].op \in Checking =>
           task[u].check \in X \/ \A i \in Interactions : skin'[i].claim # task[u].check
  PROVE  ChallengeInv'
  <1>1. lost' \subseteq Checks
    BY DEF Loses, ChallengeInv
  <1>2. CheckIsHeld'
    <2>. SUFFICES ASSUME NEW i \in Interactions, skin'[i].status = "checking",
                         skin'[i].claim \notin lost'
                  PROVE  \E t \in Tabs : task'[t].op \in Checking /\ task'[t].check = skin'[i].claim
      BY DEF CheckIsHeld
    <2>1. skin'[i].claim = skin[i].claim /\ skin[i].status = "checking"
      BY DEF ChallengeShape, ChallengeInv
    <2>2. skin[i].claim \notin lost \cup X
      BY <2>1 DEF Loses
    <2>3. PICK t \in Tabs : task[t].op \in Checking /\ task[t].check = skin[i].claim
      BY <2>1, <2>2 DEF ChallengeInv, CheckIsHeld
    <2>4. t \notin S
      BY <2>1, <2>2, <2>3
    <2>5. task'[t].op \in Checking /\ task'[t].check = skin'[i].claim
      BY <2>1, <2>3, <2>4 DEF ChecksGoOn
    <2>. QED BY <2>5
  <1>3. ChecksBelong'
    <2>. SUFFICES ASSUME NEW t \in Tabs, NEW i \in Interactions,
                         task'[t].check # None, skin'[i].claim = task'[t].check
                  PROVE  task'[t].i = i
      BY DEF ChecksBelong
    <2>1. task'[t].op \in Checking
      BY DEF ChecksGoOn, TaskInv, TaskShape
    <2>2. task'[t].check = task[t].check /\ task'[t].i = task[t].i
      BY <2>1 DEF ChecksGoOn
    <2>3. skin[i].claim = task[t].check
      BY <2>2
    <2>. QED BY <2>2, <2>3 DEF ChallengeInv, ChecksBelong
  <1>4. RejectedHasLost'
    <2>. SUFFICES ASSUME NEW t \in Tabs, task'[t].rejected, task'[t].op \in Checking
                  PROVE  skin'[task'[t].i].claim # task'[t].check
      BY DEF RejectedHasLost
    <2>1. /\ task[t].op \in Checking
          /\ task'[t].check = task[t].check /\ task'[t].i = task[t].i
      BY DEF ChecksGoOn
    <2>2. task[t].i \in Interactions /\ task[t].check # None
      BY <2>1 DEF TaskInv, TaskShape, Checking
    <2>3. CASE task[t].rejected
      <3>1. skin[task[t].i].claim # task[t].check
        BY <2>1, <2>3 DEF ChallengeInv, RejectedHasLost
      <3>. QED BY <2>1, <2>2, <3>1
    <2>4. CASE ~task[t].rejected
      BY <2>1, <2>4 DEF RejectsLosers
    <2>. QED BY <2>3, <2>4
  <1>. QED BY <1>1, <1>2, <1>3, <1>4 DEF ChallengeInv

\* Where the challenges stay as they are and no check ends.
LEMMA ChallengesStay ==
  ASSUME TaskInv, ChallengeInv, ChecksGoOn({}), RejectsLosers, UNCHANGED skin, Loses({})
  PROVE  ChallengeInv'
  BY ChallengeStep DEF ChallengeInv

\* The steps of a tab that leave the store alone.
TabRests(t) ==
  \/ ReadChallenge(t) \/ CreateChallenge(t) \/ LookAtSkin(t) \/ SeeWhyRefused(t)
  \/ FailCheck(t) \/ GiveBack(t) \/ DeleteClaimed(t) \/ AbandonTab(t)
  \/ \E i \in Interactions : Discard(t, i) \/ \E d \in FreshChecks : ClaimCheck(t, i, d)

\* The steps that run a script on a record and take no claim.
TabScripts(t) ==
  \/ ClaimForSkinFails(t) \/ CompleteForSkin(t) \/ ReleaseForSkin(t)
  \/ RejectIdentity(t) \/ AllocateAfresh(t)
  \/ \E i \in Interactions, p \in Players : StartSkin(t, i, p)

LEMMA TabScriptsKeepChallenges ==
  ASSUME TaskInv, ChallengeInv, NEW t \in Tabs, TabScripts(t)
  PROVE  TaskInv' /\ ChallengeInv' /\ ResolvesGoOn
  <1>0. task \in [Tabs -> Task] /\ task[t] \in Task /\ TaskShape(task[t])
    BY DEF TaskInv
  <1>a. ChecksGoOn({}) => TaskInv'
    BY DEF ChecksGoOn
  <1>1. CASE ClaimForSkinFails(t)
    BY <1>1, <1>a, TaskGoes, ChallengesStay DEF ClaimForSkinFails, Checking
  <1>2. CASE CompleteForSkin(t)
    <2>1. CASE /\ Goes(t, "delete") \/ Goes(t, "giveback")
               /\ UNCHANGED skin /\ Loses({})
      BY <1>2, <2>1, <1>a, TaskGoes, ChallengesStay DEF CompleteForSkin, Checking
    <2>2. CASE Ends(t) /\ UNCHANGED skin /\ Loses({task[t].check})
      <3>1. task[t].check \in Checks
        BY <1>0, <1>2 DEF CompleteForSkin, TaskShape, Checking, Task
      <3>2. ChecksGoOn({t}) /\ RejectsLosers /\ ResolvesGoOn
        BY <2>2, TaskEnds
      <3>3. ChallengeInv'
        BY <2>2, <3>1, <3>2, ChallengeStep DEF ChallengeInv
      <3>. QED BY <3>2, <3>3 DEF ChecksGoOn
    <2>. QED BY <1>2, <2>1, <2>2 DEF CompleteForSkin
  <1>3. CASE ReleaseForSkin(t)
    BY <1>3, <1>a, TaskGoes, ChallengesStay DEF ReleaseForSkin, Checking
  <1>4. CASE RejectIdentity(t)
    <2>0. task[t].op = "reset" /\ UNCHANGED skin /\ Loses({})
      BY <1>4 DEF RejectIdentity
    <2>1. CASE Ends(t)
      BY <2>0, <2>1, <1>0, <1>a, NoTaskIsTask, TaskBeside, ChallengesStay
      DEF Ends, NoTask, Checking
    <2>2. CASE task' = [u \in Tabs |->
                 IF u = t THEN [task[t] EXCEPT !.op = "allocate"]
                 ELSE IF task[u].i = task[t].i /\ task[u].op \in {"read", "lookup"}
                   THEN [task[u] EXCEPT !.rejected = TRUE] ELSE task[u]]
      <3>1. ASSUME NEW u \in Tabs
            PROVE  /\ task'[u] \in Task /\ TaskShape(task'[u])
                   /\ task'[u].op \in Checking <=> task[u].op \in Checking
                   /\ task[u].op \in Checking => task'[u] = task[u]
        <4>1. task[u] \in Task /\ TaskShape(task[u])
          BY DEF TaskInv
        <4>2. CASE u = t
          BY <2>0, <2>2, <4>1, <4>2 DEF Task, TaskShape, Checking
        <4>3. CASE u # t
          BY <2>2, <4>1, <4>3 DEF Task, TaskShape, Checking
        <4>. QED BY <4>2, <4>3
      <3>2. ChecksGoOn({}) /\ RejectsLosers
        BY <2>2, <3>1 DEF ChecksGoOn, RejectsLosers, TaskInv
      <3>3. ResolvesGoOn
        BY <3>1 DEF ResolvesGoOn, Checking
      <3>. QED BY <2>0, <3>2, <3>3, <1>a, ChallengesStay
    <2>. QED BY <1>4, <2>1, <2>2 DEF RejectIdentity
  <1>5. CASE AllocateAfresh(t)
    BY <1>5, <1>0, <1>a, NoTaskIsTask, TaskBeside, ChallengesStay
    DEF AllocateAfresh, Ends, NoTask, Checking
  <1>6. ASSUME NEW i \in Interactions, NEW p \in Players, StartSkin(t, i, p)
        PROVE  TaskInv' /\ ChallengeInv' /\ ResolvesGoOn
    <2>. DEFINE s == [NoTask EXCEPT !.op = "read", !.i = i, !.player = p]
    <2>1. s \in Task /\ TaskShape(s) /\ s.op \notin Checking
      BY DEF NoTask, Task, TaskShape, Checking
    <2>2. task[t].op \notin Checking /\ Does(t, s) /\ UNCHANGED skin /\ Loses({})
      BY <1>6 DEF StartSkin, Checking
    <2>. HIDE DEF s
    <2>. QED BY <2>1, <2>2, <1>a, TaskBeside, ChallengesStay
  <1>. QED BY <1>1, <1>2, <1>3, <1>4, <1>5, <1>6 DEF TabScripts

\* A check that ends and was claimed takes its claim off the challenge.
LEMMA ClaimIsTakenOff ==
  ASSUME TaskInv, ChallengeInv, NEW t \in Tabs, task[t].op \in Checking,
         NEW c \in Challenge, ChallengeShape(c), c.claim = None,
         Sets(task[t].i, c), HoldsCheck(task[t].i, task[t].check), Ends(t), Loses({})
  PROVE  TaskInv' /\ ChallengeInv' /\ ResolvesGoOn
  <1>. DEFINE i == task[t].i
  <1>1. /\ i \in Interactions /\ task[t].check # None
        /\ skin \in [Interactions -> Challenge]
    BY DEF TaskInv, TaskShape, ChallengeInv, Checking
  <1>2. skin'[i] = c /\ \A j \in Interactions \ {i} : skin'[j] = skin[j]
    BY <1>1 DEF Sets
  <1>3. skin' \in [Interactions -> Challenge]
    BY <1>1 DEF Sets
  <1>4. \A j \in Interactions :
          ChallengeShape(skin'[j]) /\ skin'[j].claim \in {skin[j].claim, None}
    BY <1>2 DEF ChallengeInv
  <1>5. \A j \in Interactions : skin'[j].claim # task[t].check
    BY <1>1, <1>2 DEF ChallengeInv, ChecksBelong
  <1>6. ChecksGoOn({t}) /\ RejectsLosers /\ ResolvesGoOn
    BY TaskEnds
  <1>7. ChallengeInv'
    BY <1>3, <1>4, <1>5, <1>6, ChallengeStep
  <1>. QED BY <1>6, <1>7 DEF ChecksGoOn

\* One that had lost its claim leaves the challenge to whoever holds it.
LEMMA ClaimWasLost ==
  ASSUME TaskInv, ChallengeInv, NEW t \in Tabs, task[t].op \in Checking, UNCHANGED skin,
         ~HoldsCheck(task[t].i, task[t].check), Ends(t), Loses({})
  PROVE  TaskInv' /\ ChallengeInv' /\ ResolvesGoOn
  <1>1. task[t].i \in Interactions /\ task[t].check # None
    BY DEF TaskInv, TaskShape, Checking
  <1>2. \A j \in Interactions : skin[j].claim # task[t].check
    BY <1>1 DEF ChallengeInv, ChecksBelong, HoldsCheck, ChallengeShape
  <1>3. ChecksGoOn({t}) /\ RejectsLosers /\ ResolvesGoOn
    BY TaskEnds
  <1>4. ChallengeInv'
    BY <1>2, <1>3, ChallengeStep DEF ChallengeInv
  <1>. QED BY <1>3, <1>4 DEF ChecksGoOn

\* A new check: its id is one that no request, no challenge and no lost claim has.
LEMMA CheckIsClaimed ==
  ASSUME TaskInv, ChallengeInv, NEW t \in Tabs, NEW i \in Interactions,
         NEW d \in FreshChecks, ClaimCheck(t, i, d)
  PROVE  TaskInv' /\ ChallengeInv' /\ ResolvesGoOn
  <1>. DEFINE s == [NoTask EXCEPT !.op = "look", !.i = i, !.check = d, !.player = skin[i].player]
              c == [skin[i] EXCEPT !.status = "checking", !.claim = d, !.wait = CheckInterval]
  <1>. task \in [Tabs -> Task] /\ skin \in [Interactions -> Challenge]
    BY DEF TaskInv, ChallengeInv
  <1>0. /\ d \in Checks /\ d # None /\ d \notin lost
        /\ \A j \in Interactions : skin[j].claim # d
        /\ \A u \in Tabs : task[u].check # d
    BY SkinAssumption DEF FreshChecks
  <1>1. /\ c \in Challenge /\ c.status = "checking" /\ c.claim = d
    BY <1>0, SkinAssumption DEF Challenge
  <1>2. /\ skin' = [skin EXCEPT ![i] = c] /\ skin[i].status = "pending"
        /\ Does(t, s) /\ task[t].op = "idle" /\ Loses({})
    BY DEF ClaimCheck, ClaimCheckScript, Sets
  <1>3. s \in Task /\ TaskShape(s)
    BY <1>0, <1>2 DEF NoTask, Task, TaskShape, Checking, ChallengeInv, ChallengeShape
  <1>4. s.op = "look" /\ s.i = i /\ s.check = d /\ ~s.rejected
    BY DEF NoTask
  <1>5. ChallengeShape(c)
    BY <1>0, <1>1, <1>2 DEF ChallengeInv, ChallengeShape, Challenge
  <1>. HIDE DEF s, c
  <1>6. /\ task'[t] = s /\ \A u \in Tabs \ {t} : task'[u] = task[u]
        /\ skin'[i] = c /\ \A j \in Interactions \ {i} : skin'[j] = skin[j]
    BY <1>2 DEF Does
  <1>7. TaskInv'
    BY <1>2, <1>3, <1>6 DEF TaskInv, Does
  <1>8. CheckIsHeld'
    <2>. SUFFICES ASSUME NEW j \in Interactions, skin'[j].status = "checking"
                  PROVE  \/ skin'[j].claim \in lost'
                         \/ \E u \in Tabs : task'[u].op \in Checking /\ task'[u].check = skin'[j].claim
      BY DEF CheckIsHeld
    <2>1. CASE j = i
      BY <2>1, <1>1, <1>4, <1>6 DEF Checking
    <2>2. CASE j # i
      <3>1. skin'[j] = skin[j]
        BY <2>2, <1>6
      <3>2. CASE skin[j].claim \in lost
        BY <3>1, <3>2, <1>2 DEF Loses
      <3>3. ASSUME NEW u \in Tabs, task[u].op \in Checking, task[u].check = skin[j].claim
            PROVE  task'[u].op \in Checking /\ task'[u].check = skin'[j].claim
        BY <3>1, <3>3, <1>2, <1>6 DEF Checking
      <3>. QED BY <3>1, <3>2, <3>3 DEF ChallengeInv, CheckIsHeld
    <2>. QED BY <2>1, <2>2
  <1>9. ChecksBelong'
    BY <1>0, <1>1, <1>4, <1>6 DEF ChallengeInv, ChecksBelong
  <1>10. RejectedHasLost'
    <2>. SUFFICES ASSUME NEW u \in Tabs, task'[u].rejected, task'[u].op \in Checking
                  PROVE  skin'[task'[u].i].claim # task'[u].check
      BY DEF RejectedHasLost
    <2>1. u # t /\ task'[u] = task[u]
      BY <1>4, <1>6
    <2>2. task[u].i \in Interactions /\ task[u].check # d
      BY <1>0, <2>1 DEF TaskInv, TaskShape, Checking
    <2>3. skin[task[u].i].claim # task[u].check
      BY <2>1 DEF ChallengeInv, RejectedHasLost
    <2>. QED BY <2>1, <2>2, <2>3, <1>1, <1>6
  <1>11. ResolvesGoOn
    BY <1>4, <1>6 DEF ResolvesGoOn
  <1>12. /\ skin' \in [Interactions -> Challenge]
         /\ \A j \in Interactions : ChallengeShape(skin'[j])
    BY <1>1, <1>2, <1>5, <1>6 DEF ChallengeInv
  <1>13. lost' \subseteq Checks
    BY <1>2 DEF Loses, ChallengeInv
  <1>. QED BY <1>7, <1>8, <1>9, <1>10, <1>11, <1>12, <1>13 DEF ChallengeInv

\* "Not you": the challenge goes, and the check that held it is rejected.
LEMMA ChallengeIsDiscarded ==
  ASSUME TaskInv, ChallengeInv, NEW t \in Tabs, NEW i \in Interactions, Discard(t, i)
  PROVE  TaskInv' /\ ChallengeInv' /\ ResolvesGoOn
  <1>. DEFINE s == [NoTask EXCEPT !.op = "reset", !.i = i]
  <1>1. s \in Task /\ TaskShape(s) /\ s.op = "reset"
    BY DEF NoTask, Task, TaskShape, Checking
  <1>2. /\ task[t].op = "idle" /\ Sets(i, NoChallenge) /\ Loses({})
        /\ task' = [u \in Tabs |->
             IF u = t THEN s
             ELSE IF task[u].check # None /\ task[u].check = skin[i].claim
               THEN [task[u] EXCEPT !.rejected = TRUE] ELSE task[u]]
    BY DEF Discard
  <1>. HIDE DEF s
  <1>3. skin' = [skin EXCEPT ![i] = NoChallenge] /\ skin \in [Interactions -> Challenge]
    BY <1>2 DEF Sets, ChallengeInv
  <1>4. /\ skin' \in [Interactions -> Challenge]
        /\ \A j \in Interactions :
             ChallengeShape(skin'[j]) /\ skin'[j].claim \in {skin[j].claim, None}
    BY <1>3, NoChallengeIsShaped DEF ChallengeInv, NoChallenge
  <1>5. ASSUME NEW u \in Tabs
        PROVE  /\ task'[u] \in Task /\ TaskShape(task'[u])
               /\ task'[u].op \in Checking <=> task[u].op \in Checking
               /\ u # t => /\ task'[u].op = task[u].op
                           /\ task'[u].i = task[u].i
                           /\ task'[u].check = task[u].check
                           /\ task'[u].claim = task[u].claim
                           /\ task'[u].player = task[u].player
                           /\ \/ task'[u].rejected = task[u].rejected
                              \/ task[u].check # None /\ task[u].check = skin[i].claim
    <2>1. task[u] \in Task /\ TaskShape(task[u])
      BY DEF TaskInv
    <2>2. CASE u = t
      BY <2>2, <1>1, <1>2 DEF Checking
    <2>3. CASE u # t
      BY <2>1, <2>3, <1>2 DEF Task, TaskShape, Checking
    <2>. QED BY <2>2, <2>3
  <1>6. ChecksGoOn({})
    BY <1>1, <1>2, <1>5 DEF ChecksGoOn, TaskInv, Checking
  <1>7. RejectsLosers
    <2>. SUFFICES ASSUME NEW u \in Tabs, task'[u].op \in Checking, task'[u].rejected,
                         ~task[u].rejected
                  PROVE  skin'[task[u].i].claim # task[u].check
      BY DEF RejectsLosers
    <2>1. task[u].check # None /\ task[u].check = skin[i].claim
      BY <1>1, <1>2, <1>5 DEF Checking
    <2>2. task[u].i = i
      BY <2>1 DEF ChallengeInv, ChecksBelong
    <2>3. skin'[i].claim = None
      BY <1>3 DEF NoChallenge
    <2>. QED BY <2>1, <2>2, <2>3
  <1>8. ResolvesGoOn
    BY <1>1, <1>2, <1>5 DEF ResolvesGoOn
  <1>9. ChallengeInv'
    BY <1>2, <1>4, <1>6, <1>7, ChallengeStep
  <1>. QED BY <1>6, <1>8, <1>9 DEF ChecksGoOn

LEMMA TabRestsKeepsChallenges ==
  ASSUME TaskInv, ChallengeInv, NEW t \in Tabs, TabRests(t)
  PROVE  TaskInv' /\ ChallengeInv' /\ ResolvesGoOn
  <1>0. task \in [Tabs -> Task] /\ task[t] \in Task /\ TaskShape(task[t])
    BY DEF TaskInv
  <1>a. ChecksGoOn({}) => TaskInv'
    BY DEF ChecksGoOn
  <1>1. CASE ReadChallenge(t)
    <2>0. task[t].op = "read" /\ UNCHANGED skin /\ Loses({})
      BY <1>1 DEF ReadChallenge
    <2>1. CASE Goes(t, "lookup")
      <3>. DEFINE s == [task[t] EXCEPT !.op = "lookup"]
      <3>1. s \in Task /\ TaskShape(s) /\ s.op \notin Checking /\ task[t].op \notin Checking
        BY <1>0, <2>0 DEF Task, TaskShape, Checking
      <3>2. Does(t, s)
        BY <2>1 DEF Goes
      <3>. HIDE DEF s
      <3>. QED BY <2>0, <3>1, <3>2, <1>a, TaskBeside, ChallengesStay
    <2>2. CASE Ends(t)
      BY <2>0, <2>2, <1>a, NoTaskIsTask, TaskBeside, ChallengesStay DEF Ends, NoTask, Checking
    <2>. QED BY <1>1, <2>1, <2>2 DEF ReadChallenge
  <1>2. CASE CreateChallenge(t)
    <2>. DEFINE i == task[t].i
                c == [NoChallenge EXCEPT !.status = "pending", !.player = task[t].player,
                                         !.ttl = ChallengeTTL, !.stale = task[t].rejected]
    <2>1. task[t].op = "lookup" /\ i \in Interactions /\ task[t].player \in Players
      BY <1>0, <1>2 DEF CreateChallenge, TaskShape
    <2>2. c \in Challenge /\ ChallengeShape(c) /\ c.claim = None
      BY <1>0, <2>1, SkinAssumption DEF NoChallenge, Challenge, ChallengeShape, Task
    <2>3. skin' = skin \/ skin' = [skin EXCEPT ![i] = c]
      BY <1>2 DEF CreateChallenge, CreateScript
    <2>. HIDE DEF c
    <2>4. /\ skin' \in [Interactions -> Challenge]
          /\ \A j \in Interactions :
               ChallengeShape(skin'[j]) /\ skin'[j].claim \in {skin[j].claim, None}
      BY <2>1, <2>2, <2>3 DEF ChallengeInv
    <2>5. Ends(t) /\ Loses({}) /\ task[t].op \notin Checking
      BY <1>2, <2>1 DEF CreateChallenge, Checking
    <2>6. ChecksGoOn({}) /\ RejectsLosers /\ ResolvesGoOn
      BY <2>5, NoTaskIsTask, TaskBeside DEF Ends, NoTask, Checking
    <2>7. ChallengeInv'
      BY <2>4, <2>5, <2>6, ChallengeStep
    <2>. QED BY <2>6, <2>7, <1>a
  <1>3. CASE LookAtSkin(t)
    BY <1>3, <1>a, TaskGoes, ChallengesStay DEF LookAtSkin, Checking
  <1>4. CASE SeeWhyRefused(t)
    <2>1. ASSUME NEW op \in {"giveback", "delete"}, Goes(t, op)
          PROVE  TaskInv' /\ ChallengeInv' /\ ResolvesGoOn
      BY <1>4, <2>1, <1>a, TaskGoes, ChallengesStay DEF SeeWhyRefused, Checking
    <2>. QED BY <1>4, <2>1 DEF SeeWhyRefused
  <1>5. CASE FailCheck(t)
    BY <1>5, <1>a, TaskGoes, ChallengesStay DEF FailCheck, Checking
  <1>6. CASE GiveBack(t)
    <2>. DEFINE c == [skin[task[t].i] EXCEPT !.status = "pending", !.claim = None]
    <2>0. task[t].op \in Checking /\ Ends(t) /\ Loses({}) /\ task[t].i \in Interactions
      BY <1>0, <1>6 DEF GiveBack, Checking, TaskShape
    <2>1. CASE HoldsCheck(task[t].i, task[t].check)
      <3>1. c \in Challenge /\ ChallengeShape(c) /\ c.claim = None
        BY <2>0, <2>1 DEF HoldsCheck, ChallengeInv, Challenge, ChallengeShape
      <3>2. Sets(task[t].i, c)
        BY <1>6, <2>1 DEF GiveBack
      <3>. HIDE DEF c
      <3>. QED BY <2>0, <2>1, <3>1, <3>2, ClaimIsTakenOff
    <2>2. CASE ~HoldsCheck(task[t].i, task[t].check)
      BY <1>6, <2>0, <2>2, ClaimWasLost DEF GiveBack
    <2>. QED BY <2>1, <2>2
  <1>7. CASE DeleteClaimed(t)
    <2>0. task[t].op \in Checking /\ Ends(t) /\ Loses({})
      BY <1>7 DEF DeleteClaimed, Checking
    <2>1. CASE HoldsCheck(task[t].i, task[t].check)
      BY <1>7, <2>0, <2>1, NoChallengeIsShaped, ClaimIsTakenOff DEF DeleteClaimed, NoChallenge
    <2>2. CASE ~HoldsCheck(task[t].i, task[t].check)
      BY <1>7, <2>0, <2>2, ClaimWasLost DEF DeleteClaimed
    <2>. QED BY <2>1, <2>2
  <1>8. CASE AbandonTab(t)
    <2>. DEFINE X == IF task[t].op \in Checking THEN {task[t].check} ELSE {}
    <2>1. X \subseteq Checks /\ (task[t].op \in Checking => task[t].check \in X)
      BY <1>0 DEF TaskShape, Task
    <2>2. Ends(t) /\ Loses(X) /\ UNCHANGED skin
      BY <1>8 DEF AbandonTab
    <2>. HIDE DEF X
    <2>3. ChecksGoOn({t}) /\ RejectsLosers /\ ResolvesGoOn
      BY <2>2, TaskEnds
    <2>4. ChallengeInv'
      BY <2>1, <2>2, <2>3, ChallengeStep DEF ChallengeInv
    <2>. QED BY <2>3, <2>4 DEF ChecksGoOn
  <1>. QED
    BY <1>1, <1>2, <1>3, <1>4, <1>5, <1>6, <1>7, <1>8, CheckIsClaimed, ChallengeIsDiscarded
    DEF TabRests

\* A tick ages the challenges; a claim goes with the challenge that carried it.
LEMMA TickKeepsChallenges ==
  ASSUME TaskInv, ChallengeInv, SkinTick
  PROVE  TaskInv' /\ ChallengeInv' /\ ResolvesGoOn
  <1>1. UNCHANGED task /\ Loses({})
    BY DEF SkinTick
  <1>2. TaskInv' /\ ChecksGoOn({}) /\ RejectsLosers /\ ResolvesGoOn
    BY <1>1 DEF TaskInv, ChecksGoOn, RejectsLosers, ResolvesGoOn
  <1>3. ASSUME NEW i \in Interactions
        PROVE  /\ AgedChallenge(skin[i]) \in Challenge
               /\ ChallengeShape(AgedChallenge(skin[i]))
               /\ AgedChallenge(skin[i]).claim \in {skin[i].claim, None}
    <2>1. skin[i] \in Challenge /\ ChallengeShape(skin[i])
      BY DEF ChallengeInv
    <2>2. Dec(skin[i].ttl) \in Nat /\ Dec(skin[i].wait) \in Nat
      BY <2>1 DEF Dec, Challenge
    <2>3. CASE AgedChallenge(skin[i]) = NoChallenge
      BY <2>3, NoChallengeIsShaped DEF NoChallenge
    <2>4. CASE AgedChallenge(skin[i]) = [skin[i] EXCEPT !.ttl = Dec(@), !.wait = Dec(@)]
      BY <2>1, <2>2, <2>4 DEF Challenge, ChallengeShape
    <2>. QED BY <2>3, <2>4 DEF AgedChallenge
  <1>4. /\ skin' \in [Interactions -> Challenge]
        /\ \A i \in Interactions :
             ChallengeShape(skin'[i]) /\ skin'[i].claim \in {skin[i].claim, None}
    BY <1>3 DEF SkinTick
  <1>5. ChallengeInv'
    BY <1>1, <1>2, <1>4, ChallengeStep
  <1>. QED BY <1>2, <1>5

-----------------------------------------------------------------------------
(* The records beneath.                                                    *)

LEMMA AllocatesTame ==
  ASSUME StoreInv, NEW i \in Interactions, Allocates(i)
  PROVE  StoreMoves /\ \A j \in Interactions : Tame(j)
  <1>1. CASE UNCHANGED storeVars
    BY <1>1 DEF StoreMoves, storeVars, Tame
  <1>2. ASSUME NEW c \in Codes, CreatePending(i, c)
        PROVE  StoreMoves /\ \A j \in Interactions : Tame(j)
    <2>1. Step(i)
      BY <1>2 DEF Step, Scripts
    <2>2. ASSUME NEW j \in Interactions PROVE Tame(j)
      BY <1>2 DEF CreatePending, Exists, Absent, Tame, StoreInv, StoreTypeOK
    <2>. QED BY <2>1, <2>2 DEF StoreMoves
  <1>. QED BY <1>1, <1>2 DEF Allocates

LEMMA ReleaseTame ==
  ASSUME StoreInv, NEW i \in Interactions, NEW c \in Codes, NEW id \in Claims,
         ReleaseScript(i, c, id)
  PROVE  StoreMoves /\ \A j \in Interactions : Tame(j)
  <1>. rec \in [Interactions -> Record]
    BY DEF StoreInv, StoreTypeOK
  <1>1. Step(i)
    BY DEF Step, Scripts
  <1>2. ASSUME NEW j \in Interactions PROVE Tame(j)
    <2>1. CASE ReleaseRestores(i, c, id)
      <3>1. rec[i].status = "processing" /\ rec'[i].status = "pending"
        BY <2>1 DEF ReleaseRestores, Holds, Record
      <3>2. j # i => rec'[j] = rec[j]
        BY <2>1 DEF ReleaseRestores
      <3>. QED BY <3>1, <3>2 DEF Tame
    <2>2. CASE ReleaseDrops(i, c, id)
      BY <2>2 DEF ReleaseDrops, Tame
    <2>3. CASE ReleaseRefused(i, c, id)
      BY <2>3 DEF ReleaseRefused, storeVars, Tame
    <2>. QED BY <2>1, <2>2, <2>3 DEF ReleaseScript
  <1>. QED BY <1>1, <1>2 DEF StoreMoves

\* The scripts of a tab that take no claim.
LEMMA TabScriptsTame ==
  ASSUME SkinInv, NEW t \in Tabs, TabScripts(t)
  PROVE  /\ StoreMoves /\ UNCHANGED call /\ History
         /\ \A j \in Interactions : Tame(j)
  <1>0. /\ StoreInv /\ rec \in [Interactions -> Record]
        /\ task[t] \in Task /\ TaskShape(task[t])
    BY DEF SkinInv, IInv, StoreInv, StoreTypeOK, TaskInv
  <1>a. UNCHANGED storeVars => StoreMoves /\ \A j \in Interactions : Tame(j)
    BY DEF StoreMoves, storeVars, Tame
  <1>1. CASE ClaimForSkinFails(t)
    <2>1. UNCHANGED call /\ History /\ task[t].i \in Interactions
      BY <1>0, <1>1 DEF ClaimForSkinFails, TaskShape
    <2>2. CASE ClaimInteractionTooLate(task[t].i)
      <3>1. Step(task[t].i)
        BY <2>2 DEF Step, Scripts
      <3>2. ASSUME NEW j \in Interactions PROVE Tame(j)
        BY <2>2 DEF ClaimInteractionTooLate, Tame
      <3>. QED BY <2>1, <3>1, <3>2 DEF StoreMoves
    <2>. QED BY <1>1, <1>a, <2>1, <2>2 DEF ClaimForSkinFails
  <1>2. CASE CompleteForSkin(t)
    <2>. DEFINE q == task[t]
    <2>1. /\ UNCHANGED call /\ History /\ q.op = "resolve"
          /\ q.i \in Interactions /\ q.code \in Codes /\ q.claim \in Claims /\ q.player \in Players
      BY <1>0, <1>2 DEF CompleteForSkin, TaskShape, Checking
    <2>2. CASE CompleteScript(q.i, q.code, q.claim, q.player, FALSE)
      <3>1. Step(q.i)
        BY <2>1, <2>2 DEF Step, Scripts
      <3>2. /\ rec[q.i].status = "processing" /\ rec[q.i].claim = q.claim
            /\ rec'[q.i].status = "verified" /\ rec'[q.i].player = q.player
            /\ \A j \in Interactions \ {q.i} : rec'[j] = rec[j]
        BY <1>0, <2>1, <2>2, CompleteBinds
      <3>3. q.player \in proved[q.i]
        BY <2>1, <3>2 DEF SkinInv, TabProved, Holds
      <3>4. ASSUME NEW j \in Interactions PROVE Tame(j)
        BY <3>2, <3>3 DEF Tame
      <3>. QED BY <2>1, <3>1, <3>4 DEF StoreMoves
    <2>. QED BY <1>2, <1>a, <2>1, <2>2 DEF CompleteForSkin
  <1>3. CASE ReleaseForSkin(t)
    BY <1>0, <1>3, ReleaseTame DEF ReleaseForSkin, TaskShape
  <1>4. CASE RejectIdentity(t)
    <2>1. UNCHANGED call /\ History /\ task[t].i \in Interactions
      BY <1>0, <1>4 DEF RejectIdentity, TaskShape
    <2>2. CASE ResetVerified(task[t].i)
      <3>1. Step(task[t].i)
        BY <2>2 DEF Step, Scripts
      <3>2. ASSUME NEW j \in Interactions PROVE Tame(j)
        BY <2>2 DEF ResetVerified, Tame
      <3>. QED BY <2>1, <3>1, <3>2 DEF StoreMoves
    <2>. QED BY <1>4, <1>a, <2>1, <2>2 DEF RejectIdentity
  <1>5. CASE AllocateAfresh(t)
    BY <1>0, <1>5, AllocatesTame DEF AllocateAfresh, TaskShape
  <1>6. ASSUME NEW i \in Interactions, NEW p \in Players, StartSkin(t, i, p)
        PROVE  /\ StoreMoves /\ UNCHANGED call /\ History
               /\ \A j \in Interactions : Tame(j)
    BY <1>0, <1>6, AllocatesTame DEF StartSkin
  <1>. QED BY <1>1, <1>2, <1>3, <1>4, <1>5, <1>6 DEF TabScripts

LEMMA TabRestsTame ==
  ASSUME NEW t \in Tabs, TabRests(t)
  PROVE  UNCHANGED storeVars /\ UNCHANGED call /\ History
  BY DEF TabRests, ReadChallenge, CreateChallenge, LookAtSkin, SeeWhyRefused, FailCheck,
     GiveBack, DeleteClaimed, AbandonTab, Discard, ClaimCheck, Nobody

-----------------------------------------------------------------------------

\* The claim on a record stands, and those who claimed it are remembered.
ClaimStays(i) == /\ rec[i].status = "processing"
                 /\ rec'[i].claim = rec[i].claim
                 /\ proved[i] \subseteq proved'[i]

\* The claim on a record is one that no tab has.
ClaimOfOther(i) == \A t \in Tabs : task[t].claim # rec'[i].claim

LEMMA TabsStayProved ==
  ASSUME TaskInv, TabProved, ResolvesGoOn,
         \A i \in Interactions : rec'[i].status = "processing" => ClaimStays(i) \/ ClaimOfOther(i)
  PROVE  TabProved'
  <1>. SUFFICES ASSUME NEW t \in Tabs, task'[t].op = "resolve",
                       Holds(task[t].i, task[t].claim)'
                PROVE  task'[t].player \in proved'[task'[t].i]
    BY DEF TabProved, Holds
  <1>1. /\ task[t].op = "resolve" /\ task'[t].i = task[t].i
        /\ task'[t].claim = task[t].claim /\ task'[t].player = task[t].player
    BY DEF ResolvesGoOn
  <1>2. task[t].i \in Interactions
    BY <1>1 DEF TaskInv, TaskShape
  <1>3. rec'[task[t].i].status = "processing" /\ rec'[task[t].i].claim = task[t].claim
    BY <1>1 DEF Holds
  <1>4. ClaimStays(task[t].i)
    BY <1>2, <1>3 DEF ClaimOfOther
  <1>5. Holds(task[t].i, task[t].claim)
    BY <1>3, <1>4 DEF ClaimStays, Holds
  <1>. QED BY <1>1, <1>4, <1>5 DEF ClaimStays, TabProved

LEMMA TameKeepsClaims ==
  ASSUME History, NEW i \in Interactions, Tame(i), rec'[i].status = "processing"
  PROVE  ClaimStays(i)
  BY DEF History, Forgotten, Tame, Absent, ClaimStays

\* The requests beside the tabs claim records with ids of their own.
LEMMA ServeKeepsClaims ==
  ASSUME IInv, NEW k \in Callers, Serve(k), NEW i \in Interactions,
         rec'[i].status = "processing"
  PROVE  ClaimStays(i) \/ (rec'[i].claim = call'[k].id /\ rec'[i].claim \in Claims)
  <1>. rec \in [Interactions -> Record] /\ rec[i] \in Record
    BY DEF IInv, StoreInv, StoreTypeOK
  <1>. proved \in [Interactions -> SUBSET Players] /\ call \in [Callers -> Call]
    BY DEF IInv, HistoryInv, CallInv
  <1>0. /\ History => proved'[i] = proved[i]
        /\ \A j \in Interactions, p \in Players : HistoryOfClaim(j, p) => proved[i] \subseteq proved'[i]
    BY DEF History, HistoryOfClaim, Forgotten
  <1>1. ASSUME rec' = rec, History \/ UNCHANGED proved
        PROVE  ClaimStays(i)
    BY <1>0, <1>1 DEF ClaimStays
  <1>2. ASSUME NEW c \in Codes, Mint(k, c)
        PROVE  ClaimStays(i)
    BY <1>0, <1>1, <1>2 DEF Mint, CreatePending, ClaimStays, storeVars, Absent
  <1>3. ASSUME NEW id \in FreshClaims, ClaimCode(k, id)
        PROVE  ClaimStays(i) \/ (rec'[i].claim = call'[k].id /\ rec'[i].claim \in Claims)
    <2>1. /\ rec' = [rec EXCEPT ![call[k].i] = Processing(@, id)]
          /\ call'[k].id = id /\ HistoryOfClaim(call[k].i, call[k].player)
          /\ call[k].i \in Interactions /\ call[k].player \in Players
      BY <1>3 DEF ClaimCode, ClaimScript, Becomes, IInv, CallInv, CallShape, Call
    <2>2. CASE i = call[k].i
      BY <2>1, <2>2 DEF Processing, Record, FreshClaims
    <2>3. CASE i # call[k].i
      BY <2>1, <2>3, <1>0 DEF ClaimStays
    <2>. QED BY <2>2, <2>3
  <1>4. ASSUME NEW j \in Interactions, NEW id \in FreshClaims, NEW p \in Players,
               ClaimInteraction(k, j, p, id)
        PROVE  ClaimStays(i) \/ (rec'[i].claim = call'[k].id /\ rec'[i].claim \in Claims)
    <2>1. /\ rec' = [rec EXCEPT ![j] = Processing(@, id)]
          /\ call'[k].id = id /\ HistoryOfClaim(j, p)
      BY <1>4 DEF ClaimInteraction, ClaimInteractionScript, Becomes, Idle
    <2>2. CASE i = j
      BY <2>1, <2>2 DEF Processing, Record, FreshClaims
    <2>3. CASE i # j
      BY <2>1, <2>3, <1>0 DEF ClaimStays
    <2>. QED BY <2>2, <2>3
  <1>5. ASSUME ClaimCodeFails(k) \/ \E j \in Interactions : ClaimInteractionFails(k, j)
        PROVE  ClaimStays(i)
    BY <1>0, <1>1, <1>5
    DEF ClaimCodeFails, ClaimTooLate, ClaimInteractionFails, ClaimInteractionTooLate,
        ClaimStays, storeVars, Absent
  <1>6. CASE Complete(k)
    <2>1. History /\ call[k].i \in Interactions
      BY <1>6 DEF Complete, IInv, CallInv, CallShape
    <2>2. CASE CompleteScript(call[k].i, call[k].code, call[k].id, call[k].player, call[k].join)
      BY <1>0, <2>1, <2>2, CompleteBinds DEF ClaimStays, IInv
    <2>. QED BY <1>1, <1>6, <2>1, <2>2 DEF Complete, storeVars
  <1>7. CASE Release(k)
    <2>1. /\ History /\ call[k].i \in Interactions /\ call[k].code \in Codes /\ call[k].id \in Claims
      BY <1>7 DEF Release, IInv, CallInv, CallShape
    <2>2. Tame(i)
      BY <1>7, <2>1, ReleaseTame DEF Release, IInv
    <2>. QED BY <2>1, <2>2, TameKeepsClaims
  <1>8. ASSUME NEW j \in Interactions, NEW right \in BOOLEAN, ClaimVerifiedFails(k, j, right)
        PROVE  ClaimStays(i)
    <2>1. \/ rec' = [rec EXCEPT ![j] = Absent]
          \/ rec' = [rec EXCEPT ![j].attempts = @ + 1]
      BY <1>8 DEF ClaimVerifiedFails, ClaimVerifiedRefuses
    <2>2. Tame(i) /\ History
      BY <1>8, <2>1 DEF Record, Tame, ClaimVerifiedFails
    <2>. QED BY <2>2, TameKeepsClaims
  <1>9. ASSUME NEW j \in Interactions, NEW right \in BOOLEAN, NEW id \in FreshClaims,
               ClaimVerified(k, j, right, id)
        PROVE  ClaimStays(i)
    <2>1. i # j => rec'[i] = rec[i]
      BY <1>9 DEF ClaimVerified, ClaimVerifiedScript
    <2>2. rec'[j].status = "finalizing"
      BY <1>9 DEF ClaimVerified, ClaimVerifiedScript, Record
    <2>. QED BY <1>9, <2>1, <2>2 DEF ClaimVerified, ClaimStays
  <1>10. CASE PersistFails(k)
    <2>1. rec' = rec \/ rec'[i] = rec[i] \/ rec'[i].status = "verified"
      BY <1>10 DEF PersistFails, ReleaseFinalizationScript, Record
    <2>2. UNCHANGED proved
      BY <1>10 DEF PersistFails
    <2>. QED BY <2>1, <2>2 DEF ClaimStays
  <1>11. CASE CleanUp(k)
    BY <1>0, <1>11 DEF CleanUp, CompleteFinalizationScript, ClaimStays, Absent
  <1>12. ASSUME \/ PersistResult(k) \/ Abandon(k)
                \/ \E j \in Interactions : Allocate(k, j)
                \/ \E c \in Codes, p \in Players : ReadCode(k, c, p)
         PROVE  ClaimStays(i)
    BY <1>1, <1>12 DEF PersistResult, Abandon, Allocate, ReadCode, storeVars
  <1>. QED
    BY <1>2, <1>3, <1>4, <1>5, <1>6, <1>7, <1>8, <1>9, <1>10, <1>11, <1>12 DEF Serve

-----------------------------------------------------------------------------
(* Every step.                                                             *)

LEMMA TabClaims ==
  ASSUME SkinInv, NEW t \in Tabs, NEW id \in FreshClaims, FreshForTabs(id), ClaimForSkin(t, id)
  PROVE  StoreMoves /\ SkinInv'
  <1>. DEFINE i == task[t].i
  <1>0. /\ StoreInv /\ rec \in [Interactions -> Record] /\ rec[i] \in Record /\ Shaped(rec[i])
        /\ task \in [Tabs -> Task] /\ task[t] \in Task /\ TaskShape(task[t])
        /\ i \in Interactions /\ task[t].player \in Players /\ task[t].op = "match"
        /\ id \in Claims
    BY DEF SkinInv, IInv, StoreInv, StoreTypeOK, TaskInv, ClaimForSkin, TaskShape, Checking,
       FreshClaims
  <1>1. /\ rec[i].status = "pending" /\ rec[i].code \in Codes
        /\ rec' = [rec EXCEPT ![i] = Processing(@, id)]
        /\ HistoryOfClaim(i, task[t].player) /\ UNCHANGED <<call, skin>> /\ Loses({})
        /\ ClaimInteractionScript(i, id)
    BY <1>0 DEF ClaimForSkin, ClaimInteractionScript, Shaped
  <1>2. Step(i)
    BY <1>0, <1>1, FreshIsUnused DEF Step, Scripts
  <1>3. StoreMoves /\ StoreInv'
    BY <1>0, <1>2, MovesKeepStoreInv DEF StoreMoves
  <1>4. IInv'
    <2>1. CallInv'
      BY <1>1 DEF SkinInv, IInv, CallInv
    <2>. QED BY <1>0, <1>1, <1>3, <2>1, RecordIsClaimed DEF SkinInv
  <1>5. ASSUME NEW s \in Task, TaskShape(s), Does(t, s), s.op \in Checking,
               s.check = task[t].check, s.i = i, s.rejected = task[t].rejected
        PROVE  TaskInv' /\ ChallengeInv'
    <2>1. ChecksGoOn({}) /\ RejectsLosers
      BY <1>0, <1>5, TaskGoesOn DEF SkinInv, Checking
    <2>. QED BY <1>1, <2>1, ChallengesStay DEF SkinInv, ChecksGoOn
  <1>6. CASE Does(t, [task[t] EXCEPT !.op = "resolve", !.claim = id, !.code = rec[i].code])
    <2>. DEFINE s == [task[t] EXCEPT !.op = "resolve", !.claim = id, !.code = rec[i].code]
    <2>1. /\ s \in Task /\ s.op = "resolve" /\ s.claim = id /\ s.code = rec[i].code
          /\ s.check = task[t].check /\ s.i = i /\ s.rejected = task[t].rejected
          /\ s.player = task[t].player
      BY <1>0, <1>1 DEF Task, Checking
    <2>2. TaskShape(s)
      BY <1>0, <1>1, <2>1 DEF TaskShape, Checking
    <2>3. Does(t, s)
      BY <1>6
    <2>. HIDE DEF s
    <2>4. TaskInv' /\ ChallengeInv'
      BY <1>5, <2>1, <2>2, <2>3 DEF Checking
    <2>5. TabProved'
      <3>. SUFFICES ASSUME NEW u \in Tabs, task'[u].op = "resolve",
                           Holds(task[u].i, task[u].claim)'
                    PROVE  task'[u].player \in proved'[task'[u].i]
        BY DEF TabProved, Holds
      <3>a. /\ proved \in [Interactions -> SUBSET Players]
            /\ rec'[i].status = "processing" /\ rec'[i].claim = id
            /\ \A j \in Interactions \ {i} : rec'[j] = rec[j]
        BY <1>0, <1>1 DEF SkinInv, IInv, HistoryInv, Processing, Record
      <3>b. /\ task[t].player \in proved'[i]
            /\ \A j \in Interactions : rec'[j].status # "none" => proved[j] \subseteq proved'[j]
        BY <1>0, <1>1, <3>a DEF HistoryOfClaim, Forgotten
      <3>1. CASE u = t
        BY <1>0, <2>1, <2>3, <3>1, <3>b DEF Does
      <3>2. CASE u # t
        <4>1. task'[u] = task[u] /\ task[u].i \in Interactions
          BY <1>0, <2>3, <3>2 DEF Does, SkinInv, TaskInv, TaskShape
        <4>2. task[u].claim # id
          BY <1>0 DEF FreshForTabs
        <4>3. rec'[task[u].i].status = "processing" /\ rec'[task[u].i].claim = task[u].claim
          BY <4>1 DEF Holds
        <4>4. Holds(task[u].i, task[u].claim)
          BY <4>1, <4>2, <4>3, <3>a DEF Holds
        <4>. QED BY <4>1, <4>3, <4>4, <3>b DEF SkinInv, TabProved
      <3>. QED BY <3>1, <3>2
    <2>. QED BY <1>3, <1>4, <2>4, <2>5 DEF SkinInv
  <1>7. CASE Goes(t, "giveback")
    <2>1. ChecksGoOn({}) /\ RejectsLosers /\ ResolvesGoOn
      BY <1>0, <1>7, TaskGoes DEF SkinInv, Checking
    <2>2. TaskInv' /\ ChallengeInv'
      BY <1>1, <2>1, ChallengesStay DEF SkinInv, ChecksGoOn
    <2>3. ASSUME NEW j \in Interactions, rec'[j].status = "processing"
          PROVE  ClaimStays(j) \/ ClaimOfOther(j)
      <3>1. CASE j = i
        BY <1>0, <1>1, <3>1 DEF Processing, Record, ClaimOfOther, FreshForTabs
      <3>2. CASE j # i
        BY <1>0, <1>1, <2>3, <3>2 DEF ClaimStays, HistoryOfClaim, Forgotten, SkinInv, IInv, HistoryInv
      <3>. QED BY <3>1, <3>2
    <2>4. TabProved'
      BY <2>1, <2>3, TabsStayProved DEF SkinInv
    <2>. QED BY <1>3, <1>4, <2>2, <2>4 DEF SkinInv
  <1>. QED BY <1>6, <1>7 DEF ClaimForSkin

LEMMA SkinNextKeepsInv ==
  ASSUME SkinInv, SkinNext
  PROVE  StoreMoves /\ SkinInv'
  <1>a. ASSUME StoreMoves, UNCHANGED call, History, \A j \in Interactions : Tame(j),
               TaskInv', ChallengeInv', ResolvesGoOn
        PROVE  SkinInv'
    <2>1. StoreInv'
      BY <1>a, MovesKeepStoreInv DEF SkinInv, IInv
    <2>2. CallsGoOn
      BY <1>a DEF SkinInv, IInv, CallInv, CallsGoOn
    <2>3. IInv'
      BY <1>a, <2>1, <2>2, TameStep DEF SkinInv
    <2>4. TabProved'
      BY <1>a, TabsStayProved, TameKeepsClaims DEF SkinInv
    <2>. QED BY <1>a, <2>3, <2>4 DEF SkinInv
  <1>1. CASE Beside
    <2>. SUFFICES ASSUME NEW k \in Callers, Serve(k), FreshForTabs(call'[k].id),
                         UNCHANGED <<skin, task, lost>>
                  PROVE  StoreMoves /\ SkinInv'
      BY <1>1 DEF Beside
    <2>1. StoreMoves /\ IInv'
      BY NextIsScript, NextKeepsIInv DEF Next, SkinInv
    <2>2. TaskInv' /\ ChallengeInv' /\ ResolvesGoOn
      BY DEF SkinInv, TaskInv, ChallengeInv, CheckIsHeld, ChecksBelong, RejectedHasLost, ResolvesGoOn
    <2>3. TabProved'
      BY <2>2, ServeKeepsClaims, TabsStayProved DEF SkinInv, ClaimOfOther, FreshForTabs
    <2>. QED BY <2>1, <2>2, <2>3 DEF SkinInv
  <1>2. CASE SkinTick
    <2>1. Elapse /\ UNCHANGED call /\ History
      BY <1>2 DEF SkinTick, Tick
    <2>2. \A j \in Interactions : Tame(j)
      BY <2>1, ElapseKeepsStoreInv DEF SkinInv, IInv, Tame, SameButTimes
    <2>3. TaskInv' /\ ChallengeInv' /\ ResolvesGoOn
      BY <1>2, TickKeepsChallenges DEF SkinInv
    <2>. QED BY <1>a, <2>1, <2>2, <2>3 DEF StoreMoves
  <1>3. ASSUME NEW t \in Tabs, TabRests(t)
        PROVE  StoreMoves /\ SkinInv'
    <2>1. UNCHANGED storeVars /\ UNCHANGED call /\ History
      BY <1>3, TabRestsTame
    <2>2. StoreMoves /\ \A j \in Interactions : Tame(j)
      BY <2>1 DEF StoreMoves, storeVars, Tame
    <2>. QED BY <1>a, <1>3, <2>1, <2>2, TabRestsKeepsChallenges DEF SkinInv
  <1>4. ASSUME NEW t \in Tabs, TabScripts(t)
        PROVE  StoreMoves /\ SkinInv'
    BY <1>a, <1>4, TabScriptsTame, TabScriptsKeepChallenges DEF SkinInv
  <1>. QED BY <1>1, <1>2, <1>3, <1>4, TabClaims DEF SkinNext, TabRests, TabScripts

LEMMA StutterKeepsSkinInv ==
  ASSUME SkinInv, UNCHANGED svars
  PROVE  SkinInv'
  <1>1. IInv'
    BY StutterKeepsIInv DEF SkinInv, svars, vars
  <1>2. TaskInv' /\ ChallengeInv' /\ TabProved'
    BY DEF SkinInv, svars, TaskInv, ChallengeInv, CheckIsHeld, ChecksBelong, RejectedHasLost,
       TabProved, Holds
  <1>. QED BY <1>1, <1>2 DEF SkinInv

-----------------------------------------------------------------------------
(* The theorems.                                                           *)

\* What every step keeps, of the tabs and of the requests beside them.
THEOREM SkinInvariant == SkinSpec => []SkinInv
  <1>1. SkinInv /\ [SkinNext]_svars => SkinInv'
    BY SkinNextKeepsInv, StutterKeepsSkinInv
  <1>. QED BY SkinInitially, <1>1, PTL DEF SkinSpec

\* Challenges, requests and records keep their types, and a challenge that is
\* claimed is being checked, or the request that claimed it died or lost the record
\* (skin-verification-service.ts: check; redis-skin-verification-store.ts).
THEOREM ChallengesAlwaysInOrder == SkinSpec => []ChallengesInOrder
  <1>1. SkinInv => ChallengesInOrder
    BY DEF SkinInv, ChallengesInOrder, SkinTypeOK, TypeOK, IInv, StoreInv, CallInv, HistoryInv,
       TaskInv, ChallengeInv
  <1>. QED BY SkinInvariant, <1>1, PTL

\* "Not you" is final for a check in flight, whatever is issued and claimed since
\* (interaction-service.ts: resetVerification; the skin claim of
\* CLAIM_INTERACTION_SCRIPT).
THEOREM RejectedNeverClaimsARecord == SkinSpec => RejectedNeverClaims
  <1>1. ASSUME SkinInv, [SkinNext]_svars, NEW t \in Tabs,
               task[t].op = "match", task'[t].op = "resolve"
        PROVE  ~task[t].rejected
    <2>1. CASE UNCHANGED svars
      BY <1>1, <2>1 DEF svars
    <2>2. ASSUME ResolvesGoOn PROVE FALSE
      BY <1>1, <2>2 DEF ResolvesGoOn
    <2>3. CASE Beside \/ SkinTick
      BY <1>1, <2>3 DEF Beside, SkinTick
    <2>4. ASSUME NEW u \in Tabs, TabRests(u) \/ TabScripts(u) PROVE FALSE
      BY <1>1, <2>2, <2>4, TabRestsKeepsChallenges, TabScriptsKeepChallenges DEF SkinInv
    <2>5. ASSUME NEW u \in Tabs, NEW id \in FreshClaims, ClaimForSkin(u, id)
          PROVE  ~task[t].rejected
      <3>1. task \in [Tabs -> Task]
        BY <1>1 DEF SkinInv, TaskInv
      <3>2. t = u
        BY <1>1, <2>5, <3>1 DEF ClaimForSkin, Does, Goes
      <3>3. skin[task[t].i].claim = task[t].check
        BY <2>5, <3>2 DEF ClaimForSkin, HoldsCheck
      <3>. QED BY <1>1, <3>3 DEF SkinInv, ChallengeInv, RejectedHasLost, Checking
    <2>. QED BY <1>1, <2>1, <2>3, <2>4, <2>5 DEF SkinNext, TabRests, TabScripts
  <1>2. SkinInv /\ [SkinNext]_svars =>
          [\A t \in Tabs :
             task[t].op = "match" /\ task'[t].op = "resolve" => ~task[t].rejected]_svars
    BY <1>1
  <1>. QED BY SkinInvariant, <1>2, PTL DEF SkinSpec, RejectedNeverClaims

\* With skin sign-ins beside joins and Microsoft sign-ins, the identity on a record
\* is still of a player who claimed that record.
THEOREM SkinBindsByClaimant == SkinSpec => []BoundByItsClaimant
  <1>1. SkinInv => BoundByItsClaimant
    BY DEF SkinInv, IInv, HistoryInv
  <1>. QED BY SkinInvariant, <1>1, PTL

\* It stays on the record, with its count of wrong guesses.
THEOREM SkinIdentityStays == SkinSpec => IdentityIsFinal
  <1>1. SkinInv /\ [SkinNext]_svars =>
          [\A i \in Interactions : rec[i].player # None =>
             \/ rec'[i] = Absent
             \/ /\ rec'[i].player = rec[i].player
                /\ rec'[i].attempts >= rec[i].attempts]_vars
    <2>1. CASE UNCHANGED svars
      BY <2>1 DEF svars, vars
    <2>. QED BY <2>1, SkinNextKeepsInv, MovesKeepIdentity DEF SkinInv, IInv
  <1>. QED BY SkinInvariant, <1>1, PTL DEF SkinSpec, IdentityIsFinal

\* The store with its skin sign-ins still implements Redemption.
THEOREM SkinKeepsPromise == SkinSpec => KeepsPromise
  <1>1. SkinInv /\ [SkinNext]_svars => [Promise!Next]_SignIns
    <2>1. CASE UNCHANGED svars
      BY <2>1 DEF svars, SignIns
    <2>. QED BY <2>1, SkinNextKeepsInv, MovesKeepPromise DEF SkinInv, IInv
  <1>2. SkinInit => Promise!Init
    BY PromiseInitially DEF SkinInit
  <1>. QED BY SkinInvariant, <1>1, <1>2, PTL DEF SkinSpec, KeepsPromise, Promise!Spec

--------------------------------------------------------------------------------
(* The marker. *)

Tone == 0 .. 100 \cup {NoTone}

\* The lightnesses that a palette can have: the bounds from which everything
\* below follows.
LightnessRange(p) == IF p = "background" THEN 4 .. 90 ELSE 8 .. 90

LEMMA BytesAreBytes ==
  ASSUME NEW e \in Bytes, NEW i \in 0 .. 31
  PROVE  e[i] \in 0 .. 255
BY DEF Bytes

LEMMA NoBytesAreNoEntropy ==
  ASSUME NEW e \in Bytes
  PROVE  e # NoEntropy
<1>1. 0 \in DOMAIN e
  BY DEF Bytes
<1>2. DOMAIN NoEntropy = 1 .. 0
  BY DEF NoEntropy
<1> QED
  BY <1>1, <1>2

LEMMA Remainder ==
  ASSUME NEW a \in Nat, NEW b \in 1 .. 30
  PROVE  a % b \in 0 .. b - 1
OBVIOUS

\* What each palette's lightness may be, and how far the letters are from the
\* background.
LEMMA LightnessInRange ==
  ASSUME NEW e \in Bytes, NEW base \in Tone
  PROVE  /\ \A p \in Palettes : Lightness(p, base, e) \in LightnessRange(p)
         /\ \A p \in {"C", "L"} :
              IF base # NoTone /\ base >= 50
              THEN Lightness(p, base, e) <= Lightness("background", base, e) - 15
              ELSE Lightness(p, base, e) >= Lightness("background", base, e) + 15
<1> DEFINE B == BackgroundLightness(base, e)
<1>1. /\ e[2] \in Nat /\ e[3] \in Nat /\ e[6] \in Nat
  <2>1. 2 \in 0 .. 31 /\ 3 \in 0 .. 31 /\ 6 \in 0 .. 31
    OBVIOUS
  <2>2. e[2] \in 0 .. 255 /\ e[3] \in 0 .. 255 /\ e[6] \in 0 .. 255
    BY <2>1, BytesAreBytes
  <2> QED
    BY <2>2
<1>2. /\ e[6] % 15 \in 0 .. 14 /\ e[6] % 5 \in 0 .. 4
      /\ e[2] % 21 \in 0 .. 20 /\ e[2] % 7 \in 0 .. 6
      /\ e[3] % 21 \in 0 .. 20 /\ e[3] % 7 \in 0 .. 6
  BY <1>1
<1>3. /\ Lightness("background", base, e) = B
      /\ Lightness("C", base, e) = LetterLightnessC(base, e)
      /\ Lightness("L", base, e) = LetterLightnessL(base, e)
  BY DEF Lightness
<1>4. CASE base = NoTone
  <2>1. /\ B \in 4 .. 18 /\ LetterLightnessC(base, e) \in 70 .. 90
        /\ LetterLightnessL(base, e) \in 45 .. 65
    BY <1>2, <1>4 DEF BackgroundLightness, LetterLightnessC, LetterLightnessL
  <2> QED
    BY <1>3, <1>4, <2>1 DEF Palettes, LightnessRange
<1>5. CASE base # NoTone /\ base \in 0 .. 49
  <2>1. base \in 0 .. 49
    BY <1>5 DEF Tone
  <2>2. B \in 6 .. 40
    BY <1>2, <1>5, <2>1 DEF BackgroundLightness, ClampPercent
  <2>3. Direction(base) = 1
    BY <2>1 DEF Direction
  <2>4. /\ LetterLightnessC(base, e) \in B + 26 .. B + 32
        /\ LetterLightnessL(base, e) \in B + 15 .. B + 21
    BY <1>2, <1>5, <2>2, <2>3 DEF LetterLightnessC, LetterLightnessL, ClampPercent
  <2> HIDE DEF B
  <2>5. /\ LetterLightnessC(base, e) \in 26 .. 72
        /\ LetterLightnessL(base, e) \in 21 .. 61
        /\ LetterLightnessC(base, e) >= B + 15 /\ LetterLightnessL(base, e) >= B + 15
    BY <2>2, <2>4
  <2>6. ~(base >= 50)
    BY <2>1
  <2> QED
    BY <1>3, <1>5, <2>1, <2>2, <2>5, <2>6 DEF Palettes, LightnessRange
<1>6. CASE base # NoTone /\ base \in 50 .. 100
  <2>1. base \in 50 .. 100
    BY <1>6 DEF Tone
  <2>2. B \in 37 .. 90
    BY <1>2, <1>6, <2>1 DEF BackgroundLightness, ClampPercent
  <2>3. Direction(base) = -1
    BY <2>1 DEF Direction
  <2>4. /\ LetterLightnessC(base, e) \in 8 .. B - 26
        /\ LetterLightnessL(base, e) \in 16 .. B - 15
    BY <1>2, <1>6, <2>2, <2>3 DEF LetterLightnessC, LetterLightnessL, ClampPercent
  <2> HIDE DEF B
  <2>5. /\ LetterLightnessC(base, e) \in 8 .. 72
        /\ LetterLightnessL(base, e) \in 16 .. 75
        /\ LetterLightnessC(base, e) <= B - 15 /\ LetterLightnessL(base, e) <= B - 15
    BY <2>2, <2>4
  <2>6. ~(base < 50)
    BY <2>1
  <2> QED
    BY <1>3, <1>6, <2>1, <2>2, <2>5, <2>6 DEF Palettes, LightnessRange
<1> QED
  BY <1>4, <1>5, <1>6 DEF Tone, NoTone

\* The clamp to 0 .. 100 merges no two shades: it is met only by the darkest
\* shade of a letter C of lightness 8 or 9.
LEMMA ShadesDiffer ==
  ASSUME NEW e \in Bytes, NEW base \in Tone, NEW p \in Palettes,
         NEW i \in Shades, NEW j \in Shades, i # j
  PROVE  Shade(p, base, e, i) # Shade(p, base, e, j)
<1> DEFINE n == Lightness(p, base, e)
<1>1. n \in LightnessRange(p)
  BY LightnessInRange
<1> HIDE DEF n
<1>2. CASE p = "background"
  <2>1. n \in 4 .. 90
    BY <1>1, <1>2 DEF LightnessRange
  <2>2. \A k \in Shades : BackgroundDelta(k) \in -4 .. 5
    BY DEF Shades, BackgroundDelta
  <2>3. \A k \in Shades : Shade(p, base, e, k) = n + BackgroundDelta(k)
    BY <1>2, <2>1, <2>2 DEF Shade, ClampPercent, n
  <2>4. BackgroundDelta(i) # BackgroundDelta(j)
    BY DEF Shades, BackgroundDelta
  <2> QED
    BY <2>1, <2>2, <2>3, <2>4
<1>3. CASE p \in {"C", "L"}
  <2>1. n \in 8 .. 90
    BY <1>1, <1>3 DEF LightnessRange
  <2>2. \A k \in Shades : LetterDelta(k) \in {0, 6, -6, 10, -10, 3, -3, 8}
    BY DEF Shades, LetterDelta
  <2>3. \A k \in Shades :
          Shade(p, base, e, k) = IF n + LetterDelta(k) < 0 THEN 0 ELSE n + LetterDelta(k)
    BY <1>3, <2>1, <2>2 DEF Shade, ClampPercent, n
  <2>4. LetterDelta(i) # LetterDelta(j)
    BY DEF Shades, LetterDelta
  <2>5. i \in Shades /\ j \in Shades
    OBVIOUS
  <2> QED
    BY <2>1, <2>2, <2>3, <2>4, <2>5
<1> QED
  BY <1>2, <1>3 DEF Palettes

LEMMA LettersLieApart ==
  ASSUME NEW e \in Bytes, NEW base \in Tone, NEW p \in {"C", "L"},
         NEW i \in Shades, NEW j \in Shades
  PROVE  IF base # NoTone /\ base >= 50
         THEN Shade(p, base, e, i) < Shade("background", base, e, j)
         ELSE Shade(p, base, e, i) >= Shade("background", base, e, j)
<1> DEFINE n == Lightness(p, base, e)
           b == Lightness("background", base, e)
<1>1. /\ n \in LightnessRange(p) /\ b \in LightnessRange("background")
      /\ IF base # NoTone /\ base >= 50 THEN n <= b - 15 ELSE n >= b + 15
  BY LightnessInRange DEF Palettes
<1>2. Shade(p, base, e, i) = ClampPercent(n + LetterDelta(i), 0, 100)
  BY DEF Shade
<1>3. Shade("background", base, e, j) = ClampPercent(b + BackgroundDelta(j), 0, 100)
  BY DEF Shade
<1> HIDE DEF n, b
<1>4. n \in 8 .. 90 /\ b \in 4 .. 90
  BY <1>1 DEF LightnessRange
<1>5. LetterDelta(i) \in -10 .. 10 /\ BackgroundDelta(j) \in -4 .. 5
  BY DEF Shades, LetterDelta, BackgroundDelta
<1>6. CASE base # NoTone /\ base >= 50
  <2>1. n <= b - 15
    BY <1>1, <1>6
  <2>2. ClampPercent(n + LetterDelta(i), 0, 100) < ClampPercent(b + BackgroundDelta(j), 0, 100)
    BY <1>4, <1>5, <2>1 DEF ClampPercent
  <2> QED
    BY <1>2, <1>3, <1>6, <2>2
<1>7. CASE ~(base # NoTone /\ base >= 50)
  <2>1. n >= b + 15
    BY <1>1, <1>7
  <2>2. ClampPercent(n + LetterDelta(i), 0, 100) >= ClampPercent(b + BackgroundDelta(j), 0, 100)
    BY <1>4, <1>5, <2>1 DEF ClampPercent
  <2> QED
    BY <1>2, <1>3, <1>7, <2>2
<1> QED
  BY <1>6, <1>7

LEMMA ShadesAreShades ==
  ASSUME NEW e \in Bytes, NEW s \in Symbols
  PROVE  ShadeOf(e, s) \in Shades
<1>1. \A n \in 64 .. 255 : Bit(e, n) \in 0 .. 1
  <2> SUFFICES ASSUME NEW n \in 64 .. 255 PROVE Bit(e, n) \in 0 .. 1
    OBVIOUS
  <2>1. n \div 8 \in 0 .. 31 /\ n % 8 \in 0 .. 7
    OBVIOUS
  <2>2. e[n \div 8] \in 0 .. 255
    BY <2>1, BytesAreBytes
  <2>3. Weight(n % 8) \in {1, 2, 4, 8, 16, 32, 64, 128}
    BY <2>1 DEF Weight
  <2>4. e[n \div 8] \div Weight(n % 8) \in Int
    BY <2>2, <2>3
  <2> QED
    BY <2>4 DEF Bit
<1>2. 64 + 3 * s \in 64 .. 253
  BY DEF Symbols
<1>3. /\ Bit(e, 64 + 3 * s) \in 0 .. 1 /\ Bit(e, 64 + 3 * s + 1) \in 0 .. 1
      /\ Bit(e, 64 + 3 * s + 2) \in 0 .. 1
  BY <1>1, <1>2
<1>4. MARKER_SHADE_OFFSET * 8 + 3 * s = 64 + 3 * s
  BY <1>2 DEF MARKER_SHADE_OFFSET, Symbols
<1> QED
  BY <1>3, <1>4 DEF ShadeOf, ReadThreeBits, Shades

\* With the same palettes, other shades are another marker.
LEMMA OtherShadesDiffer ==
  ASSUME NEW e \in Bytes, NEW f \in Bytes, NEW base \in Tone,
         \A i \in {2, 3, 6} : f[i] = e[i],
         \E s \in Symbols : ShadeOf(f, s) # ShadeOf(e, s)
  PROVE  MarkerPixels(base, e) # MarkerPixels(base, f)
<1>1. PICK s \in Symbols : ShadeOf(f, s) # ShadeOf(e, s)
  OBVIOUS
<1>2. Glyph[s] \in Palettes
  BY DEF Glyph, Palettes
<1>3. f[2] = e[2] /\ f[3] = e[3] /\ f[6] = e[6]
  OBVIOUS
<1>4. \A p, i : Shade(p, base, f, i) = Shade(p, base, e, i)
  BY <1>3 DEF Shade, Lightness, BackgroundLightness, LetterLightnessC, LetterLightnessL
<1>5. Shade(Glyph[s], base, e, ShadeOf(e, s)) # Shade(Glyph[s], base, e, ShadeOf(f, s))
  BY <1>1, <1>2, ShadesAreShades, ShadesDiffer
<1>6. MarkerPixels(base, e)[s] # MarkerPixels(base, f)[s]
  BY <1>4, <1>5 DEF MarkerPixels
<1> QED
  BY <1>6

---------------------------------------------------------------------------
\* The worn marker was drawn with the palettes of the present challenge and
\* with other shades.
MarkerInv ==
  /\ tone \in Tone
  /\ entropy # NoEntropy => entropy \in Bytes
  /\ entropy = NoEntropy => worn = Unmarked
  /\ worn # Unmarked =>
       \E e \in Bytes : /\ \A i \in {2, 3, 6} : entropy[i] = e[i]
                        /\ \E s \in Symbols : ShadeOf(entropy, s) # ShadeOf(e, s)
                        /\ worn = MarkerPixels(tone, e)

\* What the worn marker was drawn from is never forgotten (skin-marker.ts:148-196).
THEOREM MarkerInvariant == MarkerSpec => []MarkerInv
<1>1. MarkerInit => MarkerInv
  BY DEF MarkerInit, MarkerInv, Tone
<1>2. MarkerInv /\ [MarkerNext]_markerVars => MarkerInv'
  <2> SUFFICES ASSUME MarkerInv, [MarkerNext]_markerVars PROVE MarkerInv'
    OBVIOUS
  <2>0. ASSUME NEW e \in Entropies, Draw(e) PROVE MarkerInv'
    <3>1. worn = Unmarked
      BY <2>0 DEF Draw, MarkerInv
    <3> QED
      BY <2>0, <3>1, EntropyAssumption, ToneAssumption
      DEF Draw, MarkerInv, SampleMarkerBaseColor, Tone
  <2>1. ASSUME NEW e \in Entropies, DrawAgain(e) PROVE MarkerInv'
    <3>1. /\ e \in Bytes /\ entropy \in Bytes /\ tone \in Tone
          /\ worn' = MarkerPixels(tone, entropy) /\ entropy' = e /\ tone' = tone
          /\ \A i \in {2, 3, 6} : e[i] = entropy[i]
          /\ \E s \in Symbols : ShadeOf(e, s) # ShadeOf(entropy, s)
      BY <2>1, EntropyAssumption DEF MarkerInv, DrawAgain
    <3>2. \E f \in Bytes : /\ \A i \in {2, 3, 6} : e[i] = f[i]
                           /\ \E s \in Symbols : ShadeOf(e, s) # ShadeOf(f, s)
                           /\ worn' = MarkerPixels(tone, f)
      BY <3>1
    <3> QED
      BY <3>1, <3>2, NoBytesAreNoEntropy DEF MarkerInv
  <2>2. CASE UNCHANGED markerVars
    BY <2>2 DEF markerVars, MarkerInv
  <2> QED
    BY <2>0, <2>1, <2>2 DEF MarkerNext
<1> QED
  BY <1>1, <1>2, PTL DEF MarkerSpec

\* skin-marker.ts:45-196: for every entropy and every tone of a skin the shades
\* are apart and the letters readable, an old marker is refused, and a marker
\* does not change what the next one is tinted by.
THEOREM MarkerAlwaysStandsOut == MarkerSpec => []MarkerStandsOut
<1>1. MarkerInv => MarkerStandsOut
  <2> SUFFICES ASSUME MarkerInv, entropy # NoEntropy
               PROVE  ShadesApart /\ LettersApart /\ OldMarkersFail /\ MarkerDoesNotTint
    BY DEF MarkerStandsOut
  <2>1. tone \in Tone /\ entropy \in Bytes
    BY DEF MarkerInv
  <2>2. ShadesApart
    BY <2>1, ShadesDiffer DEF ShadesApart
  <2>3. LettersApart
    BY <2>1, LettersLieApart DEF LettersApart
  <2>4. OldMarkersFail
    <3>1. ASSUME worn # Unmarked PROVE worn # MarkerPixels(tone, entropy)
      <4>1. PICK e \in Bytes : /\ \A i \in {2, 3, 6} : entropy[i] = e[i]
                               /\ \E s \in Symbols : ShadeOf(entropy, s) # ShadeOf(e, s)
                               /\ worn = MarkerPixels(tone, e)
        BY <3>1 DEF MarkerInv
      <4> QED
        BY <2>1, <4>1, OtherShadesDiffer
    <3> QED
      BY <3>1 DEF OldMarkersFail, SkinMatchesMarker
  <2>5. MarkerDoesNotTint
    <3>1. (opaque \ MarkedPixels) \cap Corner = opaque \cap Corner
      BY DEF MarkedPixels, Corner
    <3> QED
      BY <3>1 DEF MarkerDoesNotTint, Sampled
  <2> QED
    BY <2>2, <2>3, <2>4, <2>5
<1> QED
  BY <1>1, MarkerInvariant, PTL
=============================================================================
