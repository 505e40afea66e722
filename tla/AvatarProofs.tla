------------------------------ MODULE AvatarProofs ------------------------------
(***************************************************************************)
(* Proofs about AvatarService and the budgets it works within, for any     *)
(* finite set of callers, budgets, limits, URLs, workloads and mishaps.    *)
(*                                                                         *)
(* First WorkBudget by itself: SlotsMatch is inductive with the types, for *)
(* the slot of a job that leaves with others waiting stays counted because *)
(* the first of the queue, who holds no slot (QueueMatches), becomes a     *)
(* holder in the same step; and every step is one of BoundedWork.          *)
(*                                                                         *)
(* Then the service.  What it does with its budgets is a behaviour of the  *)
(* budgets, so all of that holds of it.  ServiceInv: the map of requests,  *)
(* those who asked and the budgets agree (FetchOK), what a lookup and the  *)
(* cache hold is true (CallsOK), and the map of pictures agrees with who   *)
(* is painting (MakingOK).                                                 *)
(*                                                                         *)
(* Then the choice of a cape (Capes), for any order of providers.  CapeInv *)
(* is about each call by itself: it asks a provider in its turn (TurnOK),  *)
(* and what it has of one was so at most as many ticks ago as the call is  *)
(* old, or as the caches may remember (KnowsOK).                           *)
(*                                                                         *)
(* Last the atlas of a skin (Figure), for any skin: the pixels of each box *)
(* by their coordinates, which shows that the base boxes lie in the base   *)
(* regions, that the outer boxes lie in none of them and in no face of a   *)
(* mirrored limb, and that each face of a left limb is one of those.       *)
(***************************************************************************)
EXTENDS AvatarService, Capes, Figure, FiniteSetTheorems, SequenceTheorems, WellFoundedInduction, TLAPS

(* The budgets.                                                            *)

BudgetInv == BudgetTypeOK /\ SlotsMatch

\* The slots of one budget.
HoldersOf(x) == {j \in Callers : x.phase[j] \in {"granted", "working"}}

\* The queue of one budget.
InLine(x) ==
  /\ \A i \in 1..Len(x.queue) : x.phase[x.queue[i]] = "queued"
  /\ \A i, k \in 1..Len(x.queue) : x.queue[i] = x.queue[k] => i = k
  /\ \A j \in Callers : x.phase[j] = "queued" => \E i \in 1..Len(x.queue) : x.queue[i] = j

Sound(x, limit, room) ==
  /\ x.active = Cardinality(HoldersOf(x))
  /\ x.active <= limit
  /\ Len(x.queue) <= room
  /\ x.queue # <<>> => x.active = limit
  /\ InLine(x)

LEMMA SlotsAreSound == SlotsMatch <=> \A b \in Budgets : Sound(budget[b], Concurrency[b], Waiting[b])
  BY DEF SlotsMatch, Sound, QueueMatches, InLine, Holders, HoldersOf

LEMMA FiniteHolders == ASSUME NEW x PROVE IsFiniteSet(HoldersOf(x))
  <1>1. HoldersOf(x) \subseteq Callers BY DEF HoldersOf
  <1>. QED BY <1>1, BudgetAssumption, FS_Subset

--------------------------------------------------------------------------------
(* One budget, whatever its limits.                                        *)

\* A job that finds a slot takes it.
LEMMA TakesSlot ==
  ASSUME NEW x \in Budget, NEW limit \in Nat, NEW room \in Nat, NEW j \in Callers,
         Sound(x, limit, room), x.phase[j] = "out", ~(x.active >= limit),
         NEW y, y = [active |-> x.active + 1, queue |-> x.queue,
                     phase |-> [x.phase EXCEPT ![j] = "working"]]
  PROVE  y \in Budget /\ Sound(y, limit, room) /\ HoldersOf(y) = HoldersOf(x) \cup {j}
  <1>1. y \in Budget BY DEF Budget, Phases
  <1>2. HoldersOf(y) = HoldersOf(x) \cup {j} BY DEF HoldersOf, Budget
  <1>3. j \notin HoldersOf(x) BY DEF HoldersOf
  <1>4. Cardinality(HoldersOf(y)) = Cardinality(HoldersOf(x)) + 1
    BY <1>2, <1>3, FiniteHolders, FS_AddElement
  <1>5. y.queue = x.queue /\ y.active = x.active + 1 BY DEF Budget
  <1>6. x.queue = <<>> BY DEF Sound, Budget
  <1>7. InLine(y) BY <1>5, <1>6 DEF Sound, InLine, Budget
  <1>. QED BY <1>1, <1>2, <1>4, <1>5, <1>6, <1>7 DEF Sound, Budget

\* A job that finds none waits behind the others.
LEMMA GetsInLine ==
  ASSUME NEW x \in Budget, NEW limit \in Nat, NEW room \in Nat, NEW j \in Callers,
         Sound(x, limit, room), x.phase[j] = "out", x.active >= limit,
         ~(Len(x.queue) >= room),
         NEW y, y = [active |-> x.active, queue |-> Append(x.queue, j),
                     phase |-> [x.phase EXCEPT ![j] = "queued"]]
  PROVE  y \in Budget /\ Sound(y, limit, room) /\ HoldersOf(y) = HoldersOf(x)
  <1>. DEFINE q == x.queue
  <1>0. q \in Seq(Callers) /\ Len(q) \in Nat BY DEF Budget
  <1>1. /\ Append(q, j) \in Seq(Callers) /\ Len(Append(q, j)) = Len(q) + 1
        /\ \A i \in 1..Len(q) : Append(q, j)[i] = q[i] /\ Append(q, j)[Len(q) + 1] = j
    BY <1>0, AppendProperties
  <1>2. y \in Budget BY <1>1 DEF Budget, Phases
  <1>3. HoldersOf(y) = HoldersOf(x) BY DEF HoldersOf, Budget
  <1>4. y.queue = Append(q, j) /\ y.active = x.active BY DEF Budget
  <1>5. \A k \in Callers : y.phase[k] = IF k = j THEN "queued" ELSE x.phase[k] BY DEF Budget
  <1>6. \A i \in 1..Len(q) : q[i] \in Callers /\ q[i] # j BY <1>0 DEF Sound, InLine, Budget
  <1>7. InLine(y)
    <2>1. \A i \in 1..Len(y.queue) : y.phase[y.queue[i]] = "queued"
      BY <1>0, <1>1, <1>4, <1>5, <1>6, AppendProperties DEF Sound, InLine
    <2>2. \A i, k \in 1..Len(y.queue) : y.queue[i] = y.queue[k] => i = k
      BY <1>0, <1>1, <1>4, <1>6, AppendProperties DEF Sound, InLine
    <2>3. ASSUME NEW k \in Callers, y.phase[k] = "queued"
          PROVE  \E i \in 1..Len(y.queue) : y.queue[i] = k
      <3>1. CASE k = j BY <3>1, <1>0, <1>1, <1>4, AppendProperties
      <3>2. CASE k # j
        <4>1. PICK i \in 1..Len(q) : q[i] = k BY <2>3, <3>2, <1>5 DEF Sound, InLine
        <4>2. /\ i \in 1..Len(y.queue)
              /\ y.queue[i] = k
          BY <4>1, <1>0, <1>1, <1>4
        <4>. QED BY <4>2
      <3>. QED BY <3>1, <3>2
    <2>. QED BY <2>1, <2>2, <2>3 DEF InLine
  <1>. QED BY <1>0, <1>1, <1>2, <1>3, <1>4, <1>7 DEF Sound, Budget

\* A job goes on with the slot it was handed.
LEMMA GoesOn ==
  ASSUME NEW x \in Budget, NEW limit \in Nat, NEW room \in Nat, NEW j \in Callers,
         Sound(x, limit, room), x.phase[j] = "granted",
         NEW y, y = [active |-> x.active, queue |-> x.queue,
                     phase |-> [x.phase EXCEPT ![j] = "working"]]
  PROVE  y \in Budget /\ Sound(y, limit, room) /\ HoldersOf(y) = HoldersOf(x)
  <1>1. y \in Budget BY DEF Budget, Phases
  <1>2. HoldersOf(y) = HoldersOf(x) BY DEF HoldersOf, Budget
  <1>3. y.queue = x.queue /\ y.active = x.active BY DEF Budget
  <1>4. \A k \in Callers : y.phase[k] = "queued" <=> x.phase[k] = "queued" BY DEF Budget
  <1>5. \A i \in 1..Len(x.queue) : x.queue[i] \in Callers BY DEF Budget
  <1>6. InLine(y) BY <1>3, <1>4, <1>5 DEF Sound, InLine
  <1>. QED BY <1>1, <1>2, <1>3, <1>6 DEF Sound

\* A job that nobody waits for gives its slot back.
LEMMA GivesBack ==
  ASSUME NEW x \in Budget, NEW limit \in Nat, NEW room \in Nat, NEW j \in Callers,
         Sound(x, limit, room), x.phase[j] = "working", x.queue = <<>>,
         NEW y, y = [active |-> x.active - 1, queue |-> x.queue,
                     phase |-> [x.phase EXCEPT ![j] = "out"]]
  PROVE  y \in Budget /\ Sound(y, limit, room) /\ HoldersOf(y) = HoldersOf(x) \ {j}
  <1>1. HoldersOf(y) = HoldersOf(x) \ {j} BY DEF HoldersOf, Budget
  <1>2. j \in HoldersOf(x) BY DEF HoldersOf
  <1>3. Cardinality(HoldersOf(y)) = Cardinality(HoldersOf(x)) - 1
    BY <1>1, <1>2, FiniteHolders, FS_RemoveElement
  <1>4. Cardinality(HoldersOf(y)) \in Nat BY FiniteHolders, FS_CardinalityType
  <1>5. x.active - 1 \in Nat BY <1>3, <1>4 DEF Sound, Budget
  <1>6. y \in Budget BY <1>5 DEF Budget, Phases
  <1>7. InLine(y) BY DEF Sound, InLine, Budget
  <1>. QED BY <1>1, <1>3, <1>6, <1>7 DEF Sound, Budget

\* A job that others wait for hands its slot to the first of them.
LEMMA HandsOn ==
  ASSUME NEW x \in Budget, NEW limit \in Nat, NEW room \in Nat, NEW j \in Callers,
         Sound(x, limit, room), x.phase[j] = "working", x.queue # <<>>,
         NEW y, y = [active |-> x.active, queue |-> Tail(x.queue),
                     phase |-> [x.phase EXCEPT ![j] = "out", ![Head(x.queue)] = "granted"]]
  PROVE  /\ y \in Budget /\ Sound(y, limit, room)
         /\ HoldersOf(y) = (HoldersOf(x) \ {j}) \cup {Head(x.queue)}
  <1>. DEFINE q == x.queue
              h == Head(q)
  <1>0. q \in Seq(Callers) /\ q # <<>> /\ Len(q) \in Nat /\ 1 \in 1..Len(q) BY DEF Budget
  <1>1. /\ h \in Callers /\ Tail(q) \in Seq(Callers) /\ Len(Tail(q)) = Len(q) - 1
        /\ \A i \in 1..Len(Tail(q)) : Tail(q)[i] = q[i + 1]
    BY <1>0, HeadTailProperties
  <1>2. h = q[1] BY <1>0
  <1>3. x.phase[h] = "queued" /\ h # j BY <1>0, <1>2 DEF Sound, InLine
  <1>4. \A k \in Callers : y.phase[k] = IF k = h THEN "granted"
                                        ELSE IF k = j THEN "out" ELSE x.phase[k]
    BY <1>1 DEF Budget
  <1>5. y \in Budget BY <1>1 DEF Budget, Phases
  <1>6. HoldersOf(y) = (HoldersOf(x) \ {j}) \cup {h} BY <1>1, <1>3, <1>4 DEF HoldersOf
  <1>7. Cardinality(HoldersOf(y)) = Cardinality(HoldersOf(x))
    <2>1. j \in HoldersOf(x) /\ h \notin HoldersOf(x) BY <1>3 DEF HoldersOf
    <2>2. /\ IsFiniteSet(HoldersOf(x) \ {j})
          /\ Cardinality(HoldersOf(x) \ {j}) = Cardinality(HoldersOf(x)) - 1
      BY <2>1, FiniteHolders, FS_RemoveElement
    <2>3. Cardinality(HoldersOf(x)) \in Nat BY FiniteHolders, FS_CardinalityType
    <2>4. h \notin HoldersOf(x) \ {j} BY <2>1
    <2>5. Cardinality((HoldersOf(x) \ {j}) \cup {h}) = Cardinality(HoldersOf(x) \ {j}) + 1
      BY <2>2, <2>4, FS_AddElement
    <2>6. Cardinality(HoldersOf(y)) = Cardinality(HoldersOf(x) \ {j}) + 1
      BY <1>6, <2>5, Zenon
    <2>. QED BY <2>2, <2>3, <2>6
  <1>8. InLine(y)
    <2>1. ASSUME NEW i \in 1..Len(Tail(q))
          PROVE  /\ i + 1 \in 1..Len(q) /\ q[i + 1] \in Callers /\ q[i + 1] # h
                 /\ x.phase[q[i + 1]] = "queued"
      <3>1. i + 1 \in 1..Len(q) /\ i + 1 # 1 BY <1>0, <1>1
      <3>2. \A k, l \in 1..Len(q) : q[k] = q[l] => k = l BY DEF Sound, InLine
      <3>3. \A k \in 1..Len(q) : x.phase[q[k]] = "queued" BY DEF Sound, InLine
      <3>4. q[i + 1] # h BY <1>0, <1>2, <3>1, <3>2
      <3>. QED BY <1>0, <3>1, <3>3, <3>4
    <2>0. y.queue = Tail(q) OBVIOUS
    <2>2. ASSUME NEW i \in 1..Len(Tail(q)) PROVE y.phase[Tail(q)[i]] = "queued"
      <3>1. /\ Tail(q)[i] = q[i + 1] /\ q[i + 1] \in Callers /\ q[i + 1] # h
            /\ x.phase[q[i + 1]] = "queued"
        BY <1>1, <2>1
      <3>2. q[i + 1] # j BY <3>1
      <3>. QED BY <1>4, <3>1, <3>2
    <2>3. \A i, k \in 1..Len(y.queue) : y.queue[i] = y.queue[k] => i = k
      BY <1>0, <1>1, <2>1 DEF Sound, InLine
    <2>4. ASSUME NEW k \in Callers, y.phase[k] = "queued"
          PROVE  \E i \in 1..Len(y.queue) : y.queue[i] = k
      <3>1. k # h /\ x.phase[k] = "queued" BY <2>4, <1>4
      <3>2. PICK i \in 1..Len(q) : q[i] = k BY <3>1 DEF Sound, InLine
      <3>3. i # 1 BY <1>2, <3>1, <3>2
      <3>4. i - 1 \in 1..Len(Tail(q)) /\ (i - 1) + 1 = i BY <1>0, <1>1, <3>3
      <3>5. Tail(q)[i - 1] = k BY <1>1, <3>2, <3>4
      <3>6. y.queue = Tail(q) OBVIOUS
      <3>. QED BY <3>4, <3>5, <3>6
    <2>5. \A i \in 1..Len(y.queue) : y.phase[y.queue[i]] = "queued" BY <2>0, <2>2
    <2>6. \A k \in Callers : y.phase[k] = "queued" => \E i \in 1..Len(y.queue) : y.queue[i] = k
      BY <2>4
    <2>. QED BY <2>3, <2>5, <2>6 DEF InLine
  <1>9. y.active = x.active /\ y.queue = Tail(q) OBVIOUS
  <1>10. Len(Tail(q)) <= room BY <1>0, <1>1 DEF Sound
  <1>11. x.active = limit BY DEF Sound
  <1>12. Sound(y, limit, room) BY <1>7, <1>8, <1>9, <1>10, <1>11 DEF Sound
  <1>. QED BY <1>5, <1>6, <1>12

--------------------------------------------------------------------------------
(* One step of the budgets.                                                *)

\* What a step of job j may make of a budget, as the bounded pool sees it.
Begins(x, z, j, limit) ==
  /\ j \notin HoldersOf(x) /\ x.queue = <<>> /\ Cardinality(HoldersOf(x)) < limit
  /\ HoldersOf(z) = HoldersOf(x) \cup {j} /\ z.queue = x.queue

Waits(x, z, j, limit, room) ==
  /\ j \notin HoldersOf(x) /\ \A i \in 1..Len(x.queue) : x.queue[i] # j
  /\ Cardinality(HoldersOf(x)) = limit /\ Len(x.queue) < room
  /\ HoldersOf(z) = HoldersOf(x) /\ z.queue = Append(x.queue, j)

GoesOnAlone(x, z) == HoldersOf(z) = HoldersOf(x) /\ z.queue = x.queue

EndsAlone(x, z, j) ==
  /\ j \in HoldersOf(x) /\ x.queue = <<>>
  /\ HoldersOf(z) = HoldersOf(x) \ {j} /\ z.queue = x.queue

HandsOver(x, z, j) ==
  /\ j \in HoldersOf(x) /\ x.queue # <<>>
  /\ HoldersOf(z) = (HoldersOf(x) \ {j}) \cup {Head(x.queue)} /\ z.queue = Tail(x.queue)

OneStep(x, z, j, limit, room) ==
  \/ Begins(x, z, j, limit) \/ Waits(x, z, j, limit, room) \/ GoesOnAlone(x, z)
  \/ EndsAlone(x, z, j) \/ HandsOver(x, z, j)

\* Enter, Resume and Leave make one sound budget of another.
LEMMA EveryStep ==
  ASSUME BudgetInv, NEW b \in Budgets, NEW j \in Callers,
         Enter(b, j) \/ Resume(b, j) \/ Leave(b, j)
  PROVE  \E z \in Budget :
           /\ budget' = [budget EXCEPT ![b] = z]
           /\ Sound(z, Concurrency[b], Waiting[b])
           /\ OneStep(budget[b], z, j, Concurrency[b], Waiting[b])
  <1>. DEFINE x == budget[b]
              limit == Concurrency[b]
              room == Waiting[b]
  <1>1. x \in Budget BY DEF BudgetInv, BudgetTypeOK
  <1>2. limit \in Nat /\ room \in Nat BY BudgetAssumption
  <1>3. Sound(x, limit, room) BY SlotsAreSound DEF BudgetInv
  <1>4. /\ x.active \in Nat /\ x.active = Cardinality(HoldersOf(x)) /\ x.active <= limit
        /\ x.queue # <<>> => x.active = limit
        /\ Len(x.queue) \in Nat
    BY <1>1, <1>3 DEF Budget, Sound
  <1>5. x = [active |-> x.active, queue |-> x.queue, phase |-> x.phase] BY <1>1 DEF Budget
  <1>6. CASE Enter(b, j)
    <2>1. x.phase[j] = "out" /\ ~Exhausted(b) /\ budget' = [budget EXCEPT ![b] = Entered(b, j)]
      BY <1>6 DEF Enter
    <2>2. j \notin HoldersOf(x) BY <2>1 DEF HoldersOf
    <2>3. CASE x.active >= limit
      <3>. DEFINE z == [active |-> x.active, queue |-> Append(x.queue, j),
                        phase |-> [x.phase EXCEPT ![j] = "queued"]]
      <3>1. Entered(b, j) = z BY <1>1, <2>3 DEF Entered, Full, Budget
      <3>2. ~(Len(x.queue) >= room) BY <2>1, <2>3 DEF Exhausted, Full
      <3>3. z \in Budget /\ Sound(z, limit, room) /\ HoldersOf(z) = HoldersOf(x)
        <4>. HIDE DEF x, limit, room
        <4>. QED BY <1>1, <1>2, <1>3, <2>1, <2>3, <3>2, GetsInLine
      <3>4. \A i \in 1..Len(x.queue) : x.queue[i] # j BY <1>3, <2>1 DEF Sound, InLine
      <3>5. Cardinality(HoldersOf(x)) = limit /\ Len(x.queue) < room
        BY <1>2, <1>4, <2>3, <3>2
      <3>6. z.queue = Append(x.queue, j) OBVIOUS
      <3>7. Waits(x, z, j, limit, room) BY <2>2, <3>3, <3>4, <3>5, <3>6 DEF Waits
      <3>. HIDE DEF z, x, limit, room
      <3>8. budget' = [budget EXCEPT ![b] = z] BY <2>1, <3>1
      <3>. QED BY <3>3, <3>7, <3>8 DEF OneStep, x, limit, room
    <2>4. CASE ~(x.active >= limit)
      <3>. DEFINE z == [active |-> x.active + 1, queue |-> x.queue,
                        phase |-> [x.phase EXCEPT ![j] = "working"]]
      <3>1. Entered(b, j) = z BY <1>1, <2>4 DEF Entered, Full, Budget
      <3>2. z \in Budget /\ Sound(z, limit, room) /\ HoldersOf(z) = HoldersOf(x) \cup {j}
        <4>. HIDE DEF x, limit, room
        <4>. QED BY <1>1, <1>2, <1>3, <2>1, <2>4, TakesSlot
      <3>3. x.queue = <<>> BY <1>2, <1>4, <2>4
      <3>4. Cardinality(HoldersOf(x)) < limit BY <1>2, <1>4, <2>4
      <3>5. z.queue = x.queue OBVIOUS
      <3>6. Begins(x, z, j, limit) BY <2>2, <3>2, <3>3, <3>4, <3>5 DEF Begins
      <3>. HIDE DEF z, x, limit, room
      <3>7. budget' = [budget EXCEPT ![b] = z] BY <2>1, <3>1
      <3>. QED BY <3>2, <3>6, <3>7 DEF OneStep, x, limit, room
    <2>. QED BY <2>3, <2>4
  <1>7. CASE Resume(b, j)
    <2>. DEFINE z == [active |-> x.active, queue |-> x.queue,
                      phase |-> [x.phase EXCEPT ![j] = "working"]]
    <2>1. x.phase[j] = "granted" BY <1>7 DEF Resume
    <2>2. budget' = [budget EXCEPT ![b] = z]
      <3>1. [x EXCEPT !.phase = [x.phase EXCEPT ![j] = "working"]] = z BY <1>1 DEF Budget
      <3>2. budget' = [budget EXCEPT ![b] = [x EXCEPT !.phase = [x.phase EXCEPT ![j] = "working"]]]
        BY <1>7, Zenon DEF Resume
      <3>. HIDE DEF z, x
      <3>. QED BY <3>1, <3>2
    <2>3. z \in Budget /\ Sound(z, limit, room) /\ HoldersOf(z) = HoldersOf(x)
      <3>. HIDE DEF x, limit, room
      <3>. QED BY <1>1, <1>2, <1>3, <2>1, GoesOn
    <2>4. GoesOnAlone(x, z) BY <2>3 DEF GoesOnAlone
    <2>. HIDE DEF z, x, limit, room
    <2>. QED BY <2>2, <2>3, <2>4 DEF OneStep, x, limit, room
  <1>8. CASE Leave(b, j)
    <2>1. x.phase[j] = "working" /\ budget' = [budget EXCEPT ![b] = Left(b, j)]
      BY <1>8 DEF Leave
    <2>2. j \in HoldersOf(x) BY <2>1 DEF HoldersOf
    <2>3. CASE x.queue = <<>>
      <3>. DEFINE z == [active |-> x.active - 1, queue |-> x.queue,
                        phase |-> [x.phase EXCEPT ![j] = "out"]]
      <3>1. Left(b, j) = z BY <2>3 DEF Left
      <3>2. z \in Budget /\ Sound(z, limit, room) /\ HoldersOf(z) = HoldersOf(x) \ {j}
        <4>. HIDE DEF x, limit, room
        <4>. QED BY <1>1, <1>2, <1>3, <2>1, <2>3, GivesBack
      <3>3. EndsAlone(x, z, j) BY <2>2, <2>3, <3>2 DEF EndsAlone
      <3>. HIDE DEF z, x, limit, room
      <3>4. budget' = [budget EXCEPT ![b] = z] BY <2>1, <3>1
      <3>. QED BY <3>2, <3>3, <3>4 DEF OneStep, x, limit, room
    <2>4. CASE x.queue # <<>>
      <3>. DEFINE z == [active |-> x.active, queue |-> Tail(x.queue),
                        phase |-> [x.phase EXCEPT ![j] = "out", ![Head(x.queue)] = "granted"]]
      <3>1. Left(b, j) = z BY <2>4 DEF Left
      <3>2. /\ z \in Budget /\ Sound(z, limit, room)
            /\ HoldersOf(z) = (HoldersOf(x) \ {j}) \cup {Head(x.queue)}
        <4>. HIDE DEF x, limit, room
        <4>. QED BY <1>1, <1>2, <1>3, <2>1, <2>4, HandsOn
      <3>3. HandsOver(x, z, j) BY <2>2, <2>4, <3>2 DEF HandsOver
      <3>. HIDE DEF z, x, limit, room
      <3>4. budget' = [budget EXCEPT ![b] = z] BY <2>1, <3>1
      <3>. QED BY <3>2, <3>3, <3>4 DEF OneStep, x, limit, room
    <2>. QED BY <2>3, <2>4
  <1>. QED BY <1>6, <1>7, <1>8

--------------------------------------------------------------------------------
(* The invariant.                                                          *)

LEMMA BudgetInvInit == BudgetInit => BudgetInv
  <1>. SUFFICES ASSUME BudgetInit PROVE BudgetInv OBVIOUS
  <1>. DEFINE x == [active |-> 0, queue |-> <<>>, phase |-> [j \in Callers |-> "out"]]
  <1>1. x \in Budget BY DEF Budget, Phases
  <1>2. HoldersOf(x) = {} BY DEF HoldersOf
  <1>3. Cardinality(HoldersOf(x)) = 0 BY <1>2, FS_EmptySet
  <1>4. InLine(x) BY DEF InLine
  <1>5. \A b \in Budgets : Sound(x, Concurrency[b], Waiting[b])
    BY <1>3, <1>4, BudgetAssumption DEF Sound
  <1>6. \A b \in Budgets : budget[b] = x BY DEF BudgetInit
  <1>7. budget \in [Budgets -> Budget]
    <2>. HIDE DEF x
    <2>1. budget = [b \in Budgets |-> x] BY DEF BudgetInit, x
    <2>. QED BY <1>1, <2>1
  <1>. HIDE DEF x
  <1>. QED BY <1>5, <1>6, <1>7, SlotsAreSound DEF BudgetInv, BudgetTypeOK

LEMMA BudgetInvStep == BudgetInv /\ [BudgetNext]_budget => BudgetInv'
  <1>1. ASSUME BudgetInv, BudgetNext PROVE BudgetInv'
    <2>1. PICK b \in Budgets, j \in Callers : Enter(b, j) \/ Resume(b, j) \/ Leave(b, j)
      BY <1>1 DEF BudgetNext
    <2>2. PICK z \in Budget : /\ budget' = [budget EXCEPT ![b] = z]
                              /\ Sound(z, Concurrency[b], Waiting[b])
      BY <1>1, <2>1, EveryStep
    <2>3. budget \in [Budgets -> Budget] BY <1>1 DEF BudgetInv, BudgetTypeOK
    <2>4. budget' \in [Budgets -> Budget] BY <2>2, <2>3
    <2>5. \A a \in Budgets : Sound(budget[a], Concurrency[a], Waiting[a])
      BY <1>1, SlotsAreSound DEF BudgetInv
    <2>6. \A a \in Budgets : Sound(budget'[a], Concurrency[a], Waiting[a])
      BY <2>2, <2>3, <2>5
    <2>7. SlotsMatch'
      BY <2>6 DEF SlotsMatch, Sound, QueueMatches, InLine, Holders, HoldersOf
    <2>. QED BY <2>4, <2>7 DEF BudgetInv, BudgetTypeOK
  <1>2. ASSUME BudgetInv, UNCHANGED budget PROVE BudgetInv'
    <2>1. \A a \in Budgets : Sound(budget'[a], Concurrency[a], Waiting[a])
      BY <1>2, SlotsAreSound DEF BudgetInv
    <2>2. SlotsMatch'
      BY <2>1 DEF SlotsMatch, Sound, QueueMatches, InLine, Holders, HoldersOf
    <2>. QED BY <1>2, <2>2 DEF BudgetInv, BudgetTypeOK
  <1>. QED BY <1>1, <1>2

\* The fields of a budget keep their types (work-budget.ts: WorkBudget).
THEOREM BudgetsAreTyped == BudgetSpec => []BudgetTypeOK
  <1>1. BudgetInv => BudgetTypeOK BY DEF BudgetInv
  <1>. QED BY <1>1, BudgetInvInit, BudgetInvStep, PTL DEF BudgetSpec

\* No slot is lost, handed out twice or left unused while somebody waits, over any
\* order of arriving, finishing and failing jobs (work-budget.ts: run).
THEOREM SlotsAlwaysMatch == BudgetSpec => []SlotsMatch
  <1>1. BudgetInv => SlotsMatch BY DEF BudgetInv
  <1>. QED BY <1>1, BudgetInvInit, BudgetInvStep, PTL DEF BudgetSpec

--------------------------------------------------------------------------------
(* The bounded first-in first-out pool.                                    *)

\* The pool counts as the budget does.
LEMMA SameCount == ASSUME NEW S PROVE Bounded!Cardinality(S) = Cardinality(S)
  BY DEF Bounded!Cardinality, Cardinality

LEMMA BoundedInitially == BudgetInit => Bounded!BoundedInit
  BY DEF BudgetInit, Bounded!BoundedInit, Holders

\* Every step of a budget is one of the bounded pool, or none.
LEMMA BoundedSteps ==
  BudgetInv /\ [BudgetNext]_budget =>
    [Bounded!BoundedNext]_<<[b \in Budgets |-> Holders(b)], [b \in Budgets |-> budget[b].queue]>>
  <1>. DEFINE running == [b \in Budgets |-> Holders(b)]
              waiting == [b \in Budgets |-> budget[b].queue]
  <1>1. ASSUME BudgetInv, BudgetNext
        PROVE  Bounded!BoundedNext \/ UNCHANGED <<running, waiting>>
    <2>1. PICK b \in Budgets, j \in Callers : Enter(b, j) \/ Resume(b, j) \/ Leave(b, j)
      BY <1>1 DEF BudgetNext
    <2>2. PICK z \in Budget :
            /\ budget' = [budget EXCEPT ![b] = z]
            /\ OneStep(budget[b], z, j, Concurrency[b], Waiting[b])
      BY <1>1, <2>1, EveryStep
    <2>. DEFINE x == budget[b]
    <2>3. budget \in [Budgets -> Budget] /\ x \in Budget
      BY <1>1 DEF BudgetInv, BudgetTypeOK
    <2>4. x.queue \in Seq(Callers) BY <2>3 DEF Budget
    <2>5. /\ Holders(b) = HoldersOf(x) /\ Holders(b)' = HoldersOf(z)
          /\ \A a \in Budgets \ {b} : Holders(a)' = Holders(a)
          /\ running[b] = HoldersOf(x) /\ waiting[b] = x.queue
      BY <2>2, <2>3 DEF Holders, HoldersOf
    <2>6. /\ running' = [running EXCEPT ![b] = HoldersOf(z)]
          /\ waiting' = [waiting EXCEPT ![b] = z.queue]
      BY <2>2, <2>3, <2>5
    <2>7. running'[b] = HoldersOf(z) /\ waiting'[b] = z.queue BY <2>6
    <2>8. CASE GoesOnAlone(x, z)
      <3>1. running' = running /\ waiting' = waiting
        BY <2>5, <2>6, <2>8 DEF GoesOnAlone
      <3>. QED BY <3>1
    <2>9. CASE Begins(x, z, j, Concurrency[b])
      <3>1. running'[b] # running[b] BY <2>5, <2>7, <2>9 DEF Begins
      <3>2. Bounded!Moves(b) BY <3>1 DEF Bounded!Moves
      <3>3. j \notin running[b] /\ waiting[b] = <<>> /\ Cardinality(running[b]) < Concurrency[b]
        BY <2>5, <2>9 DEF Begins
      <3>4. Bounded!IsNew(b, j) BY <3>3 DEF Bounded!IsNew
      <3>5. running' = [running EXCEPT ![b] = running[b] \cup {j}] BY <2>5, <2>6, <2>9 DEF Begins
      <3>6. waiting' = waiting BY <2>5, <2>6, <2>9 DEF Begins
      <3>7. Bounded!Begin(b, j) BY <3>3, <3>4, <3>5, <3>6, SameCount DEF Bounded!Begin
      <3>. QED BY <3>2, <3>7 DEF Bounded!BoundedNext
    <2>10. CASE Waits(x, z, j, Concurrency[b], Waiting[b])
      <3>1. Len(Append(x.queue, j)) = Len(x.queue) + 1 /\ Len(x.queue) \in Nat
        BY <2>4, AppendProperties
      <3>2. waiting'[b] # waiting[b] BY <2>5, <2>7, <2>10, <3>1 DEF Waits
      <3>3. Bounded!Moves(b) BY <3>2 DEF Bounded!Moves
      <3>4. Bounded!IsNew(b, j) BY <2>5, <2>10 DEF Waits, Bounded!IsNew
      <3>5. Cardinality(running[b]) = Concurrency[b] /\ Len(waiting[b]) < Waiting[b]
        BY <2>5, <2>10 DEF Waits
      <3>6. waiting' = [waiting EXCEPT ![b] = Append(waiting[b], j)]
        BY <2>5, <2>6, <2>10 DEF Waits
      <3>7. running' = running BY <2>5, <2>6, <2>10 DEF Waits
      <3>8. Bounded!Wait(b, j) BY <3>4, <3>5, <3>6, <3>7, SameCount DEF Bounded!Wait
      <3>. QED BY <3>3, <3>8 DEF Bounded!BoundedNext
    <2>11. CASE EndsAlone(x, z, j)
      <3>1. running'[b] # running[b] BY <2>5, <2>7, <2>11 DEF EndsAlone
      <3>2. Bounded!Moves(b) BY <3>1 DEF Bounded!Moves
      <3>3. Bounded!End(b, j) BY <2>5, <2>6, <2>11 DEF EndsAlone, Bounded!End
      <3>. QED BY <3>2, <3>3 DEF Bounded!BoundedNext
    <2>12. CASE HandsOver(x, z, j)
      <3>1. x.queue # <<>> /\ Len(Tail(x.queue)) = Len(x.queue) - 1 /\ Len(x.queue) \in Nat
        BY <2>4, <2>12, HeadTailProperties DEF HandsOver
      <3>5. z.queue # x.queue
        <4>1. z.queue = Tail(x.queue) BY <2>12 DEF HandsOver
        <4>2. Len(z.queue) # Len(x.queue) BY <3>1, <4>1
        <4>. QED BY <4>2
      <3>2. waiting'[b] # waiting[b] BY <2>5, <2>7, <3>5
      <3>3. Bounded!Moves(b) BY <3>2 DEF Bounded!Moves
      <3>4. Bounded!HandOver(b, j) BY <2>5, <2>6, <2>12 DEF HandsOver, Bounded!HandOver
      <3>. QED BY <3>3, <3>4 DEF Bounded!BoundedNext
    <2>. QED BY <2>2, <2>8, <2>9, <2>10, <2>11, <2>12 DEF OneStep
  <1>2. ASSUME UNCHANGED budget PROVE UNCHANGED <<running, waiting>>
    BY <1>2 DEF Holders
  <1>. QED BY <1>1, <1>2

\* Each budget is a bounded pool of work served in the order of arrival
\* (work-budget.ts: run).
THEOREM BudgetsImplementPools == BudgetSpec => BudgetsAreBounded
  BY BudgetInvInit, BudgetInvStep, BoundedInitially, BoundedSteps, PTL
  DEF BudgetSpec, BudgetsAreBounded, Bounded!BoundedSpec

--------------------------------------------------------------------------------
(* The service and its budgets.                                            *)

\* To enter, resume or leave is a step of the budgets (for something that is no
\* budget, it is none).
LEMMA BudgetMoves ==
  ASSUME BudgetTypeOK, NEW b, NEW c \in Callers, Enter(b, c) \/ Resume(b, c) \/ Leave(b, c)
  PROVE  [BudgetNext]_budget
  <1>1. CASE b \in Budgets BY <1>1 DEF BudgetNext
  <1>2. CASE b \notin Budgets
    <2>1. budget \in [Budgets -> Budget] BY DEF BudgetTypeOK
    <2>2. ASSUME NEW z PROVE [budget EXCEPT ![b] = z] = budget BY <1>2, <2>1
    <2>3. \E z : budget' = [budget EXCEPT ![b] = z] BY DEF Enter, Resume, Leave
    <2>. QED BY <2>2, <2>3
  <1>. QED BY <1>1, <1>2

\* A step of a lookup leaves the budgets to the fetch.
LEMMA LooksMoves ==
  ASSUME BudgetTypeOK, NEW c \in Callers, Looks(c)
  PROVE  [BudgetNext]_budget
  <1>1. CASE Read(c) \/ Take(c) \/ Keep(c) \/ Drop(c)
    BY <1>1 DEF Read, Take, Keep, Drop
  <1>2. CASE Go(c)
    <2>1. UNCHANGED budget \/ Fetch(c, Source(proc[c].on)) BY <1>2 DEF Go
    <2>2. ASSUME NEW u, Fetch(c, u) PROVE UNCHANGED budget \/ Enter(ProviderOf[u], c)
      BY <2>2 DEF Fetch
    <2>. QED BY <2>1, <2>2, BudgetMoves
  <1>3. CASE Upstream(c)
    <2>1. \E u \in Urls : Leave(ProviderOf[u], c) BY <1>3 DEF Upstream, Respond
    <2>. QED BY <2>1, BudgetMoves
  <1>. QED BY <1>1, <1>2, <1>3 DEF Looks

\* A step that makes a picture takes, holds or gives back one slot for renders.
LEMMA PaintsMoves ==
  ASSUME BudgetTypeOK, NEW c \in Callers, Paints(c)
  PROVE  [BudgetNext]_budget
  <1>1. UNCHANGED budget \/ Enter("render", c) \/ Leave("render", c)
    <2>1. CASE Clear(c) BY <2>1 DEF Clear
    <2>2. CASE ReadPicture(c) BY <2>2 DEF ReadPicture
    <2>3. CASE GoPicture(c) BY <2>3 DEF GoPicture
    <2>4. CASE Paint(c) BY <2>4 DEF Paint
    <2>5. CASE Store(c) BY <2>5 DEF Store
    <2>. QED BY <2>1, <2>2, <2>3, <2>4, <2>5 DEF Paints
  <1>. QED BY <1>1, BudgetMoves

\* Whatever the service does, its budgets make a step of their own or none.
LEMMA ServiceMovesBudgets == BudgetTypeOK /\ [AvatarNext]_allVars => [BudgetNext]_budget
  <1>1. ASSUME BudgetTypeOK, NEW c \in Callers, Works(c) PROVE [BudgetNext]_budget
    <2>1. CASE Slots(c)
      <3>1. \E b \in Budgets : Resume(b, c) BY <2>1 DEF Slots, Granted
      <3>. QED BY <3>1, <1>1, BudgetMoves
    <2>. QED BY <1>1, <2>1, LooksMoves, PaintsMoves DEF Works
  <1>2. ASSUME NEW c \in Callers, Ask(c) PROVE UNCHANGED budget BY <1>2 DEF Ask
  <1>3. ASSUME Passing PROVE UNCHANGED budget
    BY <1>3 DEF Passing, Age, CoolDownEnds, AgePicture
  <1>4. ASSUME UNCHANGED allVars PROVE UNCHANGED budget BY <1>4 DEF allVars
  <1>. QED BY <1>1, <1>2, <1>3, <1>4 DEF AvatarNext

\* The service uses its budgets as budgets: every call that entered one leaves it
\* once, in whatever way it ends (public-fetch.ts: publicFetch; service.ts: render).
THEOREM ServiceKeepsBudgets == AvatarSpec => BudgetSpec
  <1>1. AvatarInit => BudgetInit BY DEF AvatarInit, FetchInit
  <1>2. BudgetInv => BudgetTypeOK BY DEF BudgetInv
  <1>. QED BY <1>1, <1>2, BudgetInvInit, BudgetInvStep, ServiceMovesBudgets, PTL
       DEF AvatarSpec, BudgetSpec

\* In the running service no slot of a provider or of the renderer is lost, handed out
\* twice, or left unused while somebody waits (service.ts: render, work-budget.ts: run).
THEOREM ServiceSlotsMatch == AvatarSpec => []SlotsMatch
  BY ServiceKeepsBudgets, SlotsAlwaysMatch, PTL

\* Each budget of the service is a bounded pool served in the order of arrival
\* (work-budget.ts: run).
THEOREM ServiceImplementsPools == AvatarSpec => BudgetsAreBounded
  BY ServiceKeepsBudgets, BudgetsImplementPools, PTL

--------------------------------------------------------------------------------
(* What a call fetches next.                                               *)

Pictured == Renders \cup {"processed", "raw"}

\* The stage of a call is one that its kind comes to, and a default skin is one
\* that stands in for what the upstream does not have.
Placed(kind, p) ==
  /\ kind \in Lookups => p.on \in {"name", "id", "fresh", "keys"}
  /\ p.on = "picture" => kind \in Pictured
  /\ p.on = "default" => "skin" \in absent
  /\ p.on = "fallback" => {"name", "id"} \cap absent # {}

\* What the code knows of a call at each of its awaits.
Steady(kind, p) ==
  /\ Placed(kind, p)
  /\ p.at \in {"paint", "store", "follow"} => p.on = "picture"
  /\ p.at = "store" => kind # "raw"
  /\ p.out # None => p.at = "done"
  /\ p.at = "go" /\ p.seen = "null" /\ p.on # "cape" => Source(p.on) \in absent
  /\ p.at = "drop" /\ p.on # "cape" => Source(p.on) \in absent
  /\ kind \in Lookups /\ p.out = "missing" => Source(p.on) \in absent
  /\ kind \in {"byName", "byId"} /\ p.at = "done" /\ p.stale => p.out # "unavailable"

\* A call awaits what its stage asks for, and "gone" is the upstream's own word.
Asking(p, a, r) ==
  /\ a # None => p.at = "await" /\ r = None /\ a = Source(p.on)
  /\ r # None => p.at = "await"
  /\ r = "gone" => Source(p.on) \in absent

LEMMA FollowsIsStage ==
  ASSUME NEW kind \in Kinds, NEW on \in Stages, NEW o \in Outcomes
  PROVE  /\ Follows(kind, on, o) \in Stages \cup {"end"}
         /\ Answer(on, o) \in Outcomes
  BY DEF Kinds, Stages, Outcomes, Follows, CapeFollows, SourceFollows, Dressed, Answer

\* Where a call goes from a stage: only what is missing leads to a default skin, and
\* only who wants a picture comes to it.
LEMMA FollowsIsPlaced ==
  ASSUME NEW kind \in Kinds, NEW on \in Stages, NEW o \in Outcomes,
         NEW next, next = Follows(kind, on, o), next # "end"
  PROVE  /\ kind \notin Lookups
         /\ next = "picture" => kind \in Pictured
         /\ next = "default" => on = "skin" /\ o = "missing"
         /\ next = "fallback" => on \in {"name", "id"} /\ o = "missing"
  BY DEF Kinds, Lookups, Images, Pictured, Stages, Outcomes, Follows, CapeFollows,
     SourceFollows, Dressed

\* A call leaves its stage with an outcome that it may have.
LEMMA OnwardIsSteady ==
  ASSUME NEW kind \in Kinds, NEW p \in Proc, NEW o \in Outcomes,
         Placed(kind, p), p.out = None,
         o = "missing" => p.on = "cape" \/ Source(p.on) \in absent,
         o = "unavailable" => ~p.stale \/ kind \notin {"byName", "byId"}
  PROVE  /\ Onward(kind, p, o) \in Proc
         /\ Steady(kind, Onward(kind, p, o))
         /\ Onward(kind, p, o).at \in {"read", "done"}
  <1>. DEFINE next == Follows(kind, p.on, o)
              q == Onward(kind, p, o)
  <1>0. p.on \in Stages /\ next \in Stages \cup {"end"} /\ Answer(p.on, o) \in Outcomes
    BY FollowsIsStage DEF Proc
  <1>1. CASE next = "end"
    <2>1. q = [p EXCEPT !.at = "done", !.out = Answer(p.on, o)]
      BY <1>1 DEF Onward
    <2>2. /\ q \in Proc /\ q.at = "done" /\ q.on = p.on /\ q.stale = p.stale
          /\ q.out = Answer(p.on, o)
      BY <1>0, <2>1 DEF Proc
    <2>3. kind \in Lookups => q.out = o
      BY <1>0, <2>2 DEF Placed, Answer
    <2>4. Placed(kind, q)
      BY <2>2 DEF Placed
    <2>5. kind \in Lookups /\ q.out = "missing" => Source(q.on) \in absent
      BY <2>2, <2>3 DEF Placed
    <2>6. kind \in {"byName", "byId"} /\ q.stale => q.out # "unavailable"
      BY <2>2, <2>3 DEF Lookups
    <2>7. Steady(kind, q)
      <3>. HIDE DEF q
      <3>. QED BY <2>2, <2>4, <2>5, <2>6 DEF Steady
    <2>. QED BY <2>2, <2>7
  <1>2. CASE next # "end"
    <2>1. q = [p EXCEPT !.at = "read", !.on = next,
                        !.skin = IF next \in {"default", "fallback"} THEN "default" ELSE @,
                        !.cape = (p.on = "cape" /\ o = "found")]
      BY <1>2 DEF Onward
    <2>2. q \in Proc /\ q.at = "read" /\ q.on = next /\ q.out = None
      <3>1. (p.on = "cape" /\ o = "found") \in BOOLEAN
        OBVIOUS
      <3>2. (IF next \in {"default", "fallback"} THEN "default" ELSE p.skin) \in {"skin", "default"}
        BY DEF Proc
      <3>. QED BY <1>0, <1>2, <2>1, <3>1, <3>2 DEF Proc
    <2>3. Placed(kind, q)
      <3>1. next = "default" => "skin" \in absent
        BY <1>0, <1>2, FollowsIsPlaced DEF Source
      <3>2. next = "fallback" => {"name", "id"} \cap absent # {}
        BY <1>0, <1>2, FollowsIsPlaced DEF Source
      <3>3. kind \notin Lookups /\ (next = "picture" => kind \in Pictured)
        BY <1>0, <1>2, FollowsIsPlaced
      <3>. HIDE DEF q, next
      <3>. QED BY <2>2, <3>1, <3>2, <3>3 DEF Placed
    <2>4. kind \notin Lookups
      BY <1>0, <1>2, FollowsIsPlaced
    <2>5. kind \notin {"byName", "byId"} BY <2>4 DEF Lookups
    <2>6. Steady(kind, q)
      <3>. HIDE DEF q, next
      <3>. QED BY <2>2, <2>3, <2>4, <2>5 DEF Steady
    <2>. QED BY <2>2, <2>6
  <1>. QED BY <1>1, <1>2

--------------------------------------------------------------------------------
(* The requests.                                                           *)

\* c is in the budget b: it waits there, or has a slot.
Busy(b, c) == budget[b].phase[c] # "out"

LEMMA EnterBusy ==
  ASSUME BudgetTypeOK, NEW b \in Budgets, NEW j \in Callers, Enter(b, j)
  PROVE  /\ ~Busy(b, j)
         /\ \A a \in Budgets, c \in Callers : Busy(a, c)' <=> Busy(a, c) \/ (a = b /\ c = j)
  <1>. DEFINE x == budget[b]
              z == Entered(b, j)
  <1>1. x \in Budget /\ x.phase[j] = "out" /\ budget' = [budget EXCEPT ![b] = z]
    BY DEF Enter, BudgetTypeOK
  <1>2. \E s \in {"queued", "working"} : z.phase = [x.phase EXCEPT ![j] = s]
    BY <1>1 DEF Entered, Budget
  <1>3. \A c \in Callers : z.phase[c] # "out" <=> x.phase[c] # "out" \/ c = j
    BY <1>1, <1>2 DEF Budget
  <1>. HIDE DEF z
  <1>. QED BY <1>1, <1>3 DEF Busy, BudgetTypeOK

LEMMA ResumeBusy ==
  ASSUME BudgetTypeOK, NEW b \in Budgets, NEW j \in Callers, Resume(b, j)
  PROVE  \A a \in Budgets, c \in Callers : Busy(a, c)' <=> Busy(a, c)
  <1>1. /\ budget[b] \in Budget /\ budget[b].phase[j] = "granted"
        /\ budget' = [budget EXCEPT ![b].phase[j] = "working"]
    BY DEF Resume, BudgetTypeOK
  <1>. QED BY <1>1 DEF Busy, BudgetTypeOK, Budget

LEMMA LeaveBusy ==
  ASSUME BudgetInv, NEW b \in Budgets, NEW j \in Callers, Leave(b, j)
  PROVE  /\ Busy(b, j)
         /\ \A a \in Budgets, c \in Callers : Busy(a, c)' <=> Busy(a, c) /\ ~(a = b /\ c = j)
  <1>. DEFINE x == budget[b]
              z == Left(b, j)
              q == x.queue
  <1>1. x \in Budget /\ x.phase[j] = "working" /\ budget' = [budget EXCEPT ![b] = z]
    BY DEF Leave, BudgetInv, BudgetTypeOK
  <1>2. q # <<>> => Head(q) \in Callers /\ x.phase[Head(q)] = "queued"
    <2>1. q \in Seq(Callers) BY <1>1 DEF Budget
    <2>2. q # <<>> => Len(q) \in Nat /\ 1 \in 1..Len(q) /\ Head(q) = q[1] /\ q[1] \in Callers
      BY <2>1, HeadTailProperties, EmptySeq
    <2>3. \A i \in 1..Len(q) : x.phase[q[i]] = "queued"
      BY DEF BudgetInv, SlotsMatch, QueueMatches
    <2>. QED BY <2>2, <2>3
  <1>3. z.phase = IF q = <<>> THEN [x.phase EXCEPT ![j] = "out"]
                  ELSE [x.phase EXCEPT ![j] = "out", ![Head(q)] = "granted"]
    BY <1>1 DEF Left, Budget
  <1>4. \A c \in Callers : z.phase[c] # "out" <=> x.phase[c] # "out" /\ c # j
    <2>. HIDE DEF q, z
    <2>. QED BY <1>1, <1>2, <1>3 DEF Budget
  <1>. HIDE DEF z
  <1>. QED BY <1>1, <1>4 DEF Busy, BudgetInv, BudgetTypeOK

\* The operation that the map names for u is one of a caller that awaits u.
Requested(u) ==
  pending[u] # None => asked[pending[u]] = u /\ Busy(ProviderOf[u], pending[u])

\* Who is in the budget of a provider has its operation in the map.
InTheMap(b, c) == Busy(b, c) => \E u \in Urls : ProviderOf[u] = b /\ pending[u] = c

FetchOK ==
  /\ pending \in [Urls -> Callers \cup {None}]
  /\ asked \in [Callers -> Urls \cup {None}]
  /\ reply \in [Callers -> Replies \cup {None}]
  /\ cooling \subseteq Providers
  /\ \A u \in Urls : Requested(u)
  /\ \A c \in Callers : asked[c] # None => pending[asked[c]] # None
  /\ \A b \in Providers, c \in Callers : InTheMap(b, c)

LEMMA FetchGivesOne == BudgetTypeOK /\ FetchOK => OneRequestPerUrl
  <1>. SUFFICES ASSUME BudgetTypeOK, FetchOK PROVE OneRequestPerUrl OBVIOUS
  <1>1. ASSUME NEW b \in Budgets, NEW c \in Callers
        PROVE  Busy(b, c) <=> budget[b].phase[c] \in {"queued", "granted", "working"}
    BY DEF BudgetTypeOK, Budget, Phases, Busy
  <1>2. ASSUME NEW u \in Urls, NEW c \in Callers, Operation(c, u) PROVE pending[u] = c
    <2>1. ProviderOf[u] \in Budgets /\ ProviderOf[u] \in Providers
      BY FetchAssumption DEF Providers
    <2>2. PICK v \in Urls : pending[v] = c
      BY <1>1, <1>2, <2>1 DEF FetchOK, InTheMap, Operation
    <2>3. asked[c] = v BY <2>2, FetchAssumption DEF FetchOK, Requested
    <2>. QED BY <1>2, <2>2, <2>3 DEF Operation
  <1>3. ASSUME NEW u \in Urls, NEW c \in Callers, asked[c] = u
        PROVE  pending[u] # None /\ Operation(pending[u], u)
    <2>1. pending[u] # None BY <1>3, FetchAssumption DEF FetchOK
    <2>2. pending[u] \in Callers /\ ProviderOf[u] \in Budgets
      BY <2>1, FetchAssumption DEF FetchOK
    <2>. QED BY <1>1, <2>1, <2>2 DEF FetchOK, Requested, Operation
  <1>. QED BY <1>2, <1>3 DEF OneRequestPerUrl

\* Nothing moves but answers and what is no provider's.
LEMMA FetchRests ==
  ASSUME FetchOK, UNCHANGED <<pending, asked>>, cooling' \subseteq Providers,
         reply' \in [Callers -> Replies \cup {None}],
         \A b \in Providers, c \in Callers : Busy(b, c)' <=> Busy(b, c)
  PROVE  FetchOK'
  <1>1. \A u \in Urls : ProviderOf[u] \in Providers BY DEF Providers
  <1>2. \A u \in Urls : Requested(u)' BY <1>1, FetchAssumption DEF FetchOK, Requested
  <1>3. \A b \in Providers, c \in Callers : InTheMap(b, c)' BY DEF FetchOK, InTheMap
  <1>. QED BY <1>2, <1>3 DEF FetchOK

LEMMA FetchKeeps ==
  ASSUME BudgetInv, FetchOK, NEW c \in Callers, NEW u \in Urls, Fetch(c, u)
  PROVE  FetchOK'
  <1>. DEFINE b == ProviderOf[u]
  <1>1. b \in Budgets /\ b \in Providers /\ \A v \in Urls : ProviderOf[v] \in Providers /\ ProviderOf[v] \in Budgets
    BY FetchAssumption DEF Providers
  <1>0. BudgetTypeOK BY DEF BudgetInv
  <1>2. asked[c] = None /\ \A v \in Urls : pending[v] # c
    BY FetchAssumption DEF FetchOK, Requested, Fetch
  <1>3. CASE UNCHANGED <<budget, pending, asked, cooling>> /\ reply' = [reply EXCEPT ![c] = "error"]
    <2>1. reply' \in [Callers -> Replies \cup {None}] BY <1>3 DEF FetchOK, Replies
    <2>2. cooling' \subseteq Providers BY <1>3 DEF FetchOK
    <2>3. \A a \in Providers, d \in Callers : Busy(a, d)' <=> Busy(a, d) BY <1>3 DEF Busy
    <2>. QED BY <1>3, <2>1, <2>2, <2>3, FetchRests
  <1>4. CASE /\ pending[u] # None /\ asked' = [asked EXCEPT ![c] = u]
             /\ UNCHANGED <<budget, pending, reply, cooling>>
    <2>1. \A v \in Urls : Requested(v)'
      BY <1>2, <1>4, FetchAssumption DEF FetchOK, Requested, Busy
    <2>2. \A a \in Providers, d \in Callers : InTheMap(a, d)' BY <1>4 DEF FetchOK, InTheMap, Busy
    <2>. QED BY <1>2, <1>4, <2>1, <2>2 DEF FetchOK
  <1>5. CASE /\ pending[u] = None /\ Enter(b, c)
             /\ pending' = [pending EXCEPT ![u] = c] /\ asked' = [asked EXCEPT ![c] = u]
             /\ UNCHANGED <<reply, cooling>>
    <2>1. \A a \in Budgets, d \in Callers : Busy(a, d)' <=> Busy(a, d) \/ (a = b /\ d = c)
      BY <1>0, <1>1, <1>5, EnterBusy
    <2>2. ASSUME NEW v \in Urls PROVE Requested(v)'
      <3>1. CASE v = u BY <1>1, <1>5, <2>1, <3>1 DEF FetchOK, Requested
      <3>2. CASE v # u
        <4>1. pending'[v] = pending[v] /\ pending[v] # c BY <1>2, <1>5, <3>2 DEF FetchOK
        <4>2. pending[v] # None => /\ pending[v] \in Callers /\ asked'[pending[v]] = v
                                   /\ Busy(ProviderOf[v], pending[v])'
          BY <1>1, <1>5, <2>1, <4>1 DEF FetchOK, Requested
        <4>. QED BY <4>1, <4>2 DEF Requested
      <3>. QED BY <3>1, <3>2
    <2>3. ASSUME NEW a \in Providers, NEW d \in Callers PROVE InTheMap(a, d)'
      <3>0. a \in Budgets BY FetchAssumption DEF Providers
      <3>1. CASE a = b /\ d = c BY <1>5, <3>1 DEF FetchOK, InTheMap
      <3>2. CASE ~(a = b /\ d = c)
        <4>1. Busy(a, d)' => Busy(a, d) BY <2>1, <3>0, <3>2
        <4>2. ASSUME Busy(a, d) PROVE \E v \in Urls : ProviderOf[v] = a /\ pending'[v] = d
          <5>1. PICK v \in Urls : ProviderOf[v] = a /\ pending[v] = d
            BY <4>2 DEF FetchOK, InTheMap
          <5>2. v # u BY <1>5, <5>1, FetchAssumption
          <5>. QED BY <1>5, <5>1, <5>2 DEF FetchOK
        <4>. QED BY <4>1, <4>2 DEF InTheMap
      <3>. QED BY <3>1, <3>2
    <2>4. \A d \in Callers : asked'[d] # None => pending'[asked'[d]] # None
      BY <1>5, FetchAssumption DEF FetchOK
    <2>5. pending' \in [Urls -> Callers \cup {None}] /\ asked' \in [Callers -> Urls \cup {None}]
      BY <1>5 DEF FetchOK
    <2>. QED BY <1>5, <2>2, <2>3, <2>4, <2>5 DEF FetchOK
  <1>. QED BY <1>3, <1>4, <1>5 DEF Fetch, Shared

LEMMA RespondKeeps ==
  ASSUME BudgetInv, FetchOK, NEW c \in Callers, NEW u \in Urls, NEW r \in Replies, Respond(c, u, r)
  PROVE  /\ FetchOK'
         /\ asked' = [d \in Callers |-> IF asked[d] = u THEN None ELSE asked[d]]
         /\ reply' = [d \in Callers |-> IF asked[d] = u THEN r ELSE reply[d]]
  <1>. DEFINE b == ProviderOf[u]
  <1>1. b \in Budgets /\ b \in Providers /\ \A v \in Urls : ProviderOf[v] \in Providers /\ ProviderOf[v] \in Budgets
    BY FetchAssumption DEF Providers
  <1>2. asked[c] = u /\ Leave(b, c) /\ Settled(c, u, r) BY DEF Respond
  <1>3. /\ Busy(b, c)
        /\ \A a \in Budgets, d \in Callers : Busy(a, d)' <=> Busy(a, d) /\ ~(a = b /\ d = c)
    BY <1>1, <1>2, LeaveBusy
  <1>4. pending[u] = c
    <2>1. PICK v \in Urls : pending[v] = c BY <1>1, <1>3 DEF FetchOK, InTheMap
    <2>2. asked[c] = v BY <2>1, FetchAssumption DEF FetchOK, Requested
    <2>. QED BY <1>2, <2>1, <2>2
  <1>5. /\ pending' = [pending EXCEPT ![u] = None]
        /\ asked' = [d \in Callers |-> IF asked[d] = u THEN None ELSE asked[d]]
        /\ reply' = [d \in Callers |-> IF asked[d] = u THEN r ELSE reply[d]]
    BY <1>2, <1>4 DEF Settled, Awaiting
  <1>6. cooling' \subseteq Providers BY <1>1 DEF Respond, FetchOK
  <1>7. /\ pending' \in [Urls -> Callers \cup {None}] /\ asked' \in [Callers -> Urls \cup {None}]
        /\ reply' \in [Callers -> Replies \cup {None}]
    BY <1>5 DEF FetchOK
  <1>8. ASSUME NEW v \in Urls PROVE Requested(v)'
    <2>1. CASE v = u BY <1>5, <2>1 DEF FetchOK, Requested
    <2>2. CASE v # u /\ pending[v] # None
      <3>1. pending'[v] = pending[v] /\ pending[v] \in Callers BY <1>5, <2>2 DEF FetchOK
      <3>2. asked[pending[v]] = v /\ Busy(ProviderOf[v], pending[v])
        BY <2>2 DEF FetchOK, Requested
      <3>3. asked'[pending[v]] = v /\ pending[v] # c BY <1>2, <1>5, <2>2, <3>1, <3>2
      <3>4. Busy(ProviderOf[v], pending[v])' BY <1>1, <1>3, <3>1, <3>2, <3>3
      <3>. QED BY <3>1, <3>3, <3>4 DEF Requested
    <2>3. CASE v # u /\ pending[v] = None BY <1>5, <2>3 DEF FetchOK, Requested
    <2>. QED BY <2>1, <2>2, <2>3
  <1>9. ASSUME NEW d \in Callers, asked'[d] # None PROVE pending'[asked'[d]] # None
    <2>1. asked'[d] = asked[d] /\ asked[d] # u /\ asked[d] \in Urls /\ asked[d] # None
      BY <1>5, <1>9 DEF FetchOK
    <2>. QED BY <1>5, <2>1 DEF FetchOK
  <1>10. ASSUME NEW a \in Providers, NEW d \in Callers PROVE InTheMap(a, d)'
    <2>0. a \in Budgets BY FetchAssumption DEF Providers
    <2>1. ASSUME Busy(a, d), ~(a = b /\ d = c)
          PROVE  \E v \in Urls : ProviderOf[v] = a /\ pending'[v] = d
      <3>1. PICK v \in Urls : ProviderOf[v] = a /\ pending[v] = d
        BY <2>1 DEF FetchOK, InTheMap
      <3>2. v # u BY <1>4, <2>1, <3>1
      <3>. QED BY <1>5, <3>1, <3>2 DEF FetchOK
    <2>. QED BY <1>3, <2>0, <2>1 DEF InTheMap
  <1>. QED BY <1>5, <1>6, <1>7, <1>8, <1>9, <1>10 DEF FetchOK

--------------------------------------------------------------------------------
(* The calls.                                                              *)

CacheTrue(k) ==
  /\ k \in [Resources -> Entries]
  /\ \A r \in Resources \ {"cape"} : k[r] = "null" => r \in absent

CallsOK ==
  /\ call \in [Callers -> Kinds]
  /\ absent \subseteq Resources
  /\ proc \in [Callers -> Proc]
  /\ mishaps \in 0..MaxMishaps
  /\ CacheTrue(cache)
  /\ \A c \in Callers : Steady(call[c], proc[c]) /\ Asking(proc[c], asked[c], reply[c])

\* The call c goes on to q.
GoesTo(c, q) ==
  /\ q \in Proc /\ Steady(call[c], q)
  /\ proc' = [proc EXCEPT ![c] = q]

\* The call c makes a step; nobody else does.
StepsOn(c) ==
  /\ \E q \in Proc : GoesTo(c, q) /\ Asking(q, asked'[c], reply'[c])
  /\ \A d \in Callers \ {c} : asked'[d] = asked[d] /\ reply'[d] = reply[d]
  /\ UNCHANGED <<call, absent>>
  /\ CacheTrue(cache')
  /\ mishaps' \in 0..MaxMishaps

\* The step is one of a lookup: it does not come to the making of a picture.
LooksOn(c) ==
  /\ \E q \in Proc : /\ GoesTo(c, q)
                     /\ Asking(q, asked'[c], reply'[c])
                     /\ q.at \notin {"paint", "store", "follow"}
  /\ \A d \in Callers \ {c} : asked'[d] = asked[d] /\ reply'[d] = reply[d]
  /\ UNCHANGED <<call, absent>>
  /\ CacheTrue(cache')
  /\ mishaps' \in 0..MaxMishaps

LEMMA StepKeepsCalls == ASSUME CallsOK, NEW c \in Callers, StepsOn(c) PROVE CallsOK'
  <1>1. PICK q \in Proc : GoesTo(c, q) /\ Asking(q, asked'[c], reply'[c]) BY DEF StepsOn
  <1>2. proc' = [proc EXCEPT ![c] = q] /\ proc' \in [Callers -> Proc] BY <1>1 DEF GoesTo, CallsOK
  <1>3. ASSUME NEW d \in Callers PROVE Steady(call[d], proc'[d])
    <2>1. CASE d = c BY <1>1, <1>2, <2>1 DEF CallsOK, GoesTo
    <2>2. CASE d # c BY <1>2, <2>2 DEF CallsOK
    <2>. QED BY <2>1, <2>2
  <1>4. \A d \in Callers : Steady(call[d], proc[d])'
    BY <1>3 DEF StepsOn, Steady, Placed
  <1>5. ASSUME NEW d \in Callers PROVE Asking(proc'[d], asked'[d], reply'[d])
    <2>1. CASE d = c BY <1>1, <1>2, <2>1 DEF CallsOK
    <2>2. CASE d # c BY <1>2, <2>2 DEF CallsOK, StepsOn
    <2>. QED BY <2>1, <2>2
  <1>6. \A d \in Callers : Asking(proc[d], asked[d], reply[d])'
    BY <1>5 DEF StepsOn, Asking
  <1>7. CacheTrue(cache)' BY DEF StepsOn, CacheTrue
  <1>. QED BY <1>2, <1>4, <1>6, <1>7 DEF CallsOK, StepsOn

\* A call that is not at an end has no outcome, and one that does not wait asks nothing.
LEMMA Underway ==
  ASSUME CallsOK, NEW c \in Callers
  PROVE  /\ proc[c] \in Proc /\ call[c] \in Kinds /\ Placed(call[c], proc[c])
         /\ proc[c].at # "done" => proc[c].out = None
         /\ proc[c].at # "await" => asked[c] = None /\ reply[c] = None
  BY DEF CallsOK, Steady, Asking

LEMMA PassesOn ==
  ASSUME CallsOK, NEW c \in Callers, NEW o \in Outcomes, Passes(c, o), proc[c].at # "done",
         o = "missing" => proc[c].on = "cape" \/ Source(proc[c].on) \in absent,
         o = "unavailable" => ~proc[c].stale \/ call[c] \notin {"byName", "byId"}
  PROVE  \E q \in Proc : GoesTo(c, q) /\ q.at \in {"read", "done"}
  <1>1. Onward(call[c], proc[c], o) \in Proc BY Underway, OnwardIsSteady
  <1>2. Steady(call[c], Onward(call[c], proc[c], o)) /\ Onward(call[c], proc[c], o).at \in {"read", "done"}
    BY Underway, OnwardIsSteady
  <1>3. proc' = [proc EXCEPT ![c] = Onward(call[c], proc[c], o)] BY DEF Passes
  <1>. QED BY <1>1, <1>2, <1>3 DEF GoesTo

LEMMA FailsOn ==
  ASSUME CallsOK, NEW c \in Callers, Fails(c), proc[c].at # "done"
  PROVE  \E q \in Proc : GoesTo(c, q) /\ q.at \in {"read", "done"}
  <1>. DEFINE p == [proc[c] EXCEPT !.on = IF @ = "keys" THEN Profile(c) ELSE @]
              o == IF p.stale THEN "found" ELSE "unavailable"
  <1>0. proc[c] \in Proc /\ call[c] \in Kinds /\ Placed(call[c], proc[c]) /\ proc[c].out = None
    BY Underway
  <1>1. /\ p \in Proc /\ p.out = None /\ p.stale = proc[c].stale
        /\ p.on = (IF proc[c].on = "keys" THEN Profile(c) ELSE proc[c].on)
        /\ Profile(c) \in {"id", "fresh"}
    BY <1>0 DEF Proc, Profile, Stages
  <1>2. Placed(call[c], p) BY <1>0, <1>1 DEF Placed
  <1>3. o \in Outcomes /\ o # "missing" /\ (o = "unavailable" => ~p.stale) BY DEF Outcomes
  <1>4. proc' = [proc EXCEPT ![c] = Onward(call[c], p, o)] BY DEF Fails
  <1>. HIDE DEF p, o
  <1>5. /\ Onward(call[c], p, o) \in Proc /\ Steady(call[c], Onward(call[c], p, o))
        /\ Onward(call[c], p, o).at \in {"read", "done"}
    BY <1>0, <1>1, <1>2, <1>3, OnwardIsSteady
  <1>. QED BY <1>4, <1>5 DEF GoesTo

LEMMA AsksOn ==
  ASSUME CallsOK, NEW c \in Callers, Asks(c, "keep") \/ Asks(c, "await") \/ Asks(c, "read"),
         proc[c].at # "done"
  PROVE  \E q \in Proc : /\ GoesTo(c, q) /\ q.at \notin {"paint", "store", "follow"}
                         /\ q.on = proc[c].on /\ proc' = [proc EXCEPT ![c].at = q.at]
  <1>1. PICK s \in {"keep", "await", "read"} : proc' = [proc EXCEPT ![c].at = s]
    BY DEF Asks
  <1>. DEFINE q == [proc[c] EXCEPT !.at = s]
  <1>2. /\ q \in Proc /\ q.at = s /\ q.on = proc[c].on /\ q.out = None /\ Placed(call[c], q)
    BY <1>1, Underway DEF Proc, Placed
  <1>3. proc' = [proc EXCEPT ![c] = q] BY <1>1 DEF CallsOK
  <1>4. Steady(call[c], q)
    <2>. HIDE DEF q
    <2>. QED BY <1>2, LookupAssumption DEF Steady, Outcomes
  <1>. QED BY <1>1, <1>2, <1>3, <1>4 DEF GoesTo

LEMMA MishapCounts ==
  ASSUME CallsOK, Mishap \/ UNCHANGED mishaps PROVE mishaps' \in 0..MaxMishaps
  BY LookupAssumption DEF CallsOK, Mishap

LEMMA VerifiesOn ==
  ASSUME CallsOK, NEW c \in Callers, Verifies(c), proc[c].at # "done"
  PROVE  /\ \E q \in Proc : GoesTo(c, q) /\ q.at \in {"keep", "read", "done"}
         /\ mishaps' \in 0..MaxMishaps
  <1>0. /\ proc[c] \in Proc /\ call[c] \in Kinds /\ Placed(call[c], proc[c]) /\ proc[c].out = None
        /\ proc \in [Callers -> Proc]
    BY Underway DEF CallsOK
  <1>1. CASE /\ call[c] # "fresh" /\ UNCHANGED mishaps
             /\ proc' = [proc EXCEPT ![c].at = "keep", ![c].on = "id"]
    <2>. DEFINE q == [proc[c] EXCEPT !.at = "keep", !.on = "id"]
    <2>1. /\ q \in Proc /\ q.at = "keep" /\ q.on = "id" /\ q.out = None
      BY <1>0 DEF Proc, Stages
    <2>2. proc' = [proc EXCEPT ![c] = q] BY <1>0, <1>1
    <2>3. Steady(call[c], q)
      <3>. HIDE DEF q
      <3>. QED BY <2>1, LookupAssumption DEF Steady, Placed, Outcomes
    <2>. QED BY <1>1, <2>1, <2>2, <2>3, MishapCounts DEF GoesTo
  <1>2. CASE /\ call[c] = "fresh" /\ UNCHANGED mishaps
             /\ proc' = [proc EXCEPT ![c].at = "done", ![c].on = "fresh", ![c].out = "found"]
    <2>. DEFINE q == [proc[c] EXCEPT !.at = "done", !.on = "fresh", !.out = "found"]
    <2>1. /\ q \in Proc /\ q.at = "done" /\ q.on = "fresh" /\ q.out = "found"
      BY <1>0 DEF Proc, Stages, Outcomes
    <2>2. proc' = [proc EXCEPT ![c] = q] BY <1>0, <1>2
    <2>3. Steady(call[c], q)
      <3>. HIDE DEF q
      <3>. QED BY <2>1 DEF Steady, Placed
    <2>. QED BY <1>2, <2>1, <2>2, <2>3, MishapCounts DEF GoesTo
  <1>3. CASE Mishap /\ Fails(c)
    BY <1>3, FailsOn, MishapCounts
  <1>. QED BY <1>1, <1>2, <1>3 DEF Verifies

\* A step of c alone, while it awaits nothing.
LEMMA QuietStep ==
  ASSUME CallsOK, NEW c \in Callers,
         \E q \in Proc : GoesTo(c, q) /\ q.at \notin {"await", "paint", "store", "follow"},
         proc[c].at # "await", UNCHANGED <<asked, reply, call, absent>>,
         CacheTrue(cache'), mishaps' \in 0..MaxMishaps
  PROVE  LooksOn(c)
  <1>1. asked[c] = None /\ reply[c] = None BY Underway
  <1>2. \A q : Asking(q, asked'[c], reply'[c]) BY <1>1, FetchAssumption DEF Asking
  <1>. QED BY <1>2 DEF LooksOn

LEMMA ReadLooks == ASSUME CallsOK, NEW c \in Callers, Read(c) PROVE LooksOn(c)
  <1>0. /\ proc[c] \in Proc /\ call[c] \in Kinds /\ Placed(call[c], proc[c]) /\ proc[c].out = None
        /\ proc[c].at = "read" /\ proc[c].on # "picture" /\ proc \in [Callers -> Proc]
    BY Underway DEF CallsOK, Read
  <1>1. PICK seen \in Entries \cup {"broken"} :
          /\ Sees(c, seen)
          /\ proc' = [proc EXCEPT ![c].at = "go", ![c].seen = seen,
                                  ![c].stale = IF proc[c].on = "keys" THEN @ ELSE seen = "stale"]
    BY DEF Read
  <1>. DEFINE still == IF proc[c].on = "keys" THEN proc[c].stale ELSE seen = "stale"
              q == [proc[c] EXCEPT !.at = "go", !.seen = seen, !.stale = still]
  <1>2. still \in BOOLEAN BY <1>0 DEF Proc
  <1>3. proc' = [proc EXCEPT ![c] = q] BY <1>0, <1>1, Zenon
  <1>. HIDE DEF still
  <1>4. q \in Proc /\ q.at = "go" /\ q.seen = seen /\ q.on = proc[c].on /\ q.out = None
    BY <1>0, <1>2 DEF Proc
  <1>5. seen = "null" /\ proc[c].on # "cape" => Source(proc[c].on) \in absent
    <2>1. proc[c].on \in Stages \ {"picture"} BY <1>0 DEF Proc
    <2>2. proc[c].on # "cape" => Source(proc[c].on) \in Resources \ {"cape"}
      BY <2>1 DEF Source, Stages, Resources
    <2>3. seen = "null" => cache[Source(proc[c].on)] = "null" BY <1>1 DEF Sees
    <2>. QED BY <2>2, <2>3 DEF CallsOK, CacheTrue
  <1>6. Steady(call[c], q)
    <2>. HIDE DEF q
    <2>. QED BY <1>0, <1>4, <1>5, LookupAssumption DEF Steady, Placed, Outcomes
  <1>. HIDE DEF q
  <1>7. mishaps' \in 0..MaxMishaps BY <1>1, MishapCounts DEF Sees
  <1>8. CacheTrue(cache') /\ UNCHANGED <<asked, reply, call, absent>>
    BY DEF CallsOK, CacheTrue, Read, fvars
  <1>9. GoesTo(c, q) BY <1>3, <1>4, <1>6 DEF GoesTo
  <1>. QED BY <1>0, <1>4, <1>7, <1>8, <1>9, QuietStep

LEMMA FetchAsks ==
  ASSUME FetchOK, NEW c \in Callers, NEW u, Fetch(c, u)
  PROVE  /\ \A d \in Callers \ {c} : asked'[d] = asked[d] /\ reply'[d] = reply[d]
         /\ \/ asked'[c] = None /\ reply'[c] = "error"
            \/ asked'[c] = u /\ reply'[c] = reply[c]
  <1>1. asked[c] = None BY DEF Fetch
  <1>2. \/ UNCHANGED asked /\ reply' = [reply EXCEPT ![c] = "error"]
        \/ asked' = [asked EXCEPT ![c] = u] /\ UNCHANGED reply
    BY DEF Fetch
  <1>. QED BY <1>1, <1>2 DEF FetchOK

LEMMA GoLooks == ASSUME CallsOK, FetchOK, NEW c \in Callers, Go(c) PROVE LooksOn(c)
  <1>0. /\ proc[c] \in Proc /\ call[c] \in Kinds /\ Placed(call[c], proc[c]) /\ proc[c].out = None
        /\ proc[c].at = "go" /\ proc[c].on # "picture" /\ proc \in [Callers -> Proc]
        /\ asked[c] = None /\ reply[c] = None
    BY Underway DEF CallsOK, Go
  <1>1. UNCHANGED <<call, absent, cache>> /\ CacheTrue(cache') BY DEF CallsOK, CacheTrue, Go
  <1>2. CASE proc[c].seen = "null" /\ Passes(c, "missing") /\ UNCHANGED <<fvars, mishaps>>
    <2>1. proc[c].on = "cape" \/ Source(proc[c].on) \in absent BY <1>0, <1>2 DEF CallsOK, Steady
    <2>2. \E q \in Proc : GoesTo(c, q) /\ q.at \in {"read", "done"}
      BY <1>0, <1>2, <2>1, PassesOn DEF Outcomes
    <2>. QED BY <1>0, <1>1, <1>2, <2>2, QuietStep, MishapCounts DEF fvars
  <1>3. CASE Passes(c, "found") /\ UNCHANGED <<fvars, mishaps>>
    <2>1. \E q \in Proc : GoesTo(c, q) /\ q.at \in {"read", "done"}
      BY <1>0, <1>3, PassesOn DEF Outcomes
    <2>. QED BY <1>0, <1>1, <1>3, <2>1, QuietStep, MishapCounts DEF fvars
  <1>4. CASE Verifies(c) /\ UNCHANGED fvars
    <2>1. \E q \in Proc : GoesTo(c, q) /\ q.at \in {"keep", "read", "done"}
      BY <1>0, <1>4, VerifiesOn
    <2>2. mishaps' \in 0..MaxMishaps BY <1>0, <1>4, VerifiesOn
    <2>. QED BY <1>0, <1>1, <1>4, <2>1, <2>2, QuietStep DEF fvars
  <1>5. CASE Fails(c) /\ UNCHANGED <<fvars, mishaps>>
    <2>1. \E q \in Proc : GoesTo(c, q) /\ q.at \in {"read", "done"}
      BY <1>0, <1>5, FailsOn
    <2>. QED BY <1>0, <1>1, <1>5, <2>1, QuietStep, MishapCounts DEF fvars
  <1>6. CASE /\ Fetch(c, Source(proc[c].on)) /\ proc' = [proc EXCEPT ![c].at = "await"]
             /\ UNCHANGED mishaps
    <2>. DEFINE q == [proc[c] EXCEPT !.at = "await"]
    <2>1. q \in Proc /\ q.at = "await" /\ q.on = proc[c].on /\ q.out = None /\ Placed(call[c], q)
      BY <1>0 DEF Proc, Placed
    <2>2. proc' = [proc EXCEPT ![c] = q] BY <1>0, <1>6
    <2>. HIDE DEF q
    <2>3. Steady(call[c], q) BY <2>1, LookupAssumption DEF Steady, Outcomes
    <2>4. Asking(q, asked'[c], reply'[c])
      BY <1>0, <1>6, <2>1, FetchAsks, FetchAssumption DEF Asking
    <2>5. \A d \in Callers \ {c} : asked'[d] = asked[d] /\ reply'[d] = reply[d]
      BY <1>6, FetchAsks
    <2>. QED BY <1>1, <1>6, <2>1, <2>2, <2>3, <2>4, <2>5, MishapCounts DEF LooksOn, GoesTo
  <1>. QED BY <1>2, <1>3, <1>4, <1>5, <1>6 DEF Go

LEMMA TakeLooks == ASSUME CallsOK, FetchOK, NEW c \in Callers, Take(c) PROVE LooksOn(c)
  <1>0. /\ proc[c] \in Proc /\ call[c] \in Kinds /\ Placed(call[c], proc[c]) /\ proc[c].out = None
        /\ proc[c].at = "await" /\ proc \in [Callers -> Proc]
        /\ reply[c] # None /\ (reply[c] = "gone" => Source(proc[c].on) \in absent)
        /\ asked[c] = None
    BY Underway DEF CallsOK, Take, Asking
  <1>1. reply' = [reply EXCEPT ![c] = None] /\ UNCHANGED <<asked, call, absent, cache, mishaps>>
    BY DEF Take, Taken
  <1>2. asked'[c] = None /\ reply'[c] = None /\ \A d \in Callers \ {c} : asked'[d] = asked[d] /\ reply'[d] = reply[d]
    BY <1>0, <1>1 DEF FetchOK
  <1>3. \A q : Asking(q, asked'[c], reply'[c]) BY <1>2, FetchAssumption DEF Asking
  <1>4. SUFFICES \E q \in Proc : GoesTo(c, q) /\ q.at \notin {"paint", "store", "follow"}
    BY <1>1, <1>2, <1>3, MishapCounts DEF LooksOn, CallsOK, CacheTrue
  <1>5. CASE TakesIt(c)
    <2>1. CASE proc' = [proc EXCEPT ![c].at = "read", ![c].on = "keys"]
      <3>. DEFINE q == [proc[c] EXCEPT !.at = "read", !.on = "keys"]
      <3>1. q \in Proc /\ q.at = "read" /\ q.on = "keys" /\ q.out = None BY <1>0 DEF Proc, Stages
      <3>2. proc' = [proc EXCEPT ![c] = q] BY <1>0, <2>1
      <3>. HIDE DEF q
      <3>3. Steady(call[c], q) BY <3>1, LookupAssumption DEF Steady, Placed, Outcomes
      <3>. QED BY <3>1, <3>2, <3>3 DEF GoesTo
    <2>2. CASE Asks(c, "keep") BY <1>0, <2>2, AsksOn
    <2>. QED BY <1>5, <2>1, <2>2 DEF TakesIt
  <1>6. CASE Misses(c)
    <2>1. proc[c].on = "cape" \/ Source(proc[c].on) \in absent BY <1>0, <1>6 DEF Misses
    <2>2. CASE Passes(c, "missing")
      <3>1. \E q \in Proc : GoesTo(c, q) /\ q.at \in {"read", "done"}
        BY <1>0, <2>1, <2>2, PassesOn DEF Outcomes
      <3>. QED BY <3>1
    <2>3. CASE Asks(c, "drop")
      <3>. DEFINE q == [proc[c] EXCEPT !.at = "drop"]
      <3>1. q \in Proc /\ q.at = "drop" /\ q.on = proc[c].on /\ q.out = None /\ Placed(call[c], q)
        BY <1>0 DEF Proc, Placed
      <3>2. proc' = [proc EXCEPT ![c] = q] BY <1>0, <2>3 DEF Asks
      <3>. HIDE DEF q
      <3>3. Steady(call[c], q) BY <2>1, <3>1, LookupAssumption DEF Steady, Outcomes
      <3>. QED BY <3>1, <3>2, <3>3 DEF GoesTo
    <2>. QED BY <1>6, <2>2, <2>3 DEF Misses
  <1>7. CASE GoesWithout(c)
    <2>1. \E q \in Proc : GoesTo(c, q) /\ q.at \in {"read", "done"}
      BY <1>0, <1>7, FailsOn DEF GoesWithout
    <2>. QED BY <2>1
  <1>. QED BY <1>5, <1>6, <1>7 DEF Take

\* To write an entry leaves the cache true.
LEMMA CacheStaysTrue ==
  ASSUME CallsOK, NEW r, NEW e \in Entries, cache' = [cache EXCEPT ![r] = e],
         e = "null" => r = "cape" \/ r \in absent
  PROVE  CacheTrue(cache')
  BY DEF CallsOK, CacheTrue

LEMMA KeepLooks == ASSUME CallsOK, NEW c \in Callers, Keep(c) PROVE LooksOn(c)
  <1>0. proc[c].at = "keep" /\ UNCHANGED <<asked, reply, call, absent>> BY DEF Keep, fvars
  <1>1. CASE cache' = [cache EXCEPT ![Source(proc[c].on)] = "fresh"] /\ Verifies(c)
    <2>1. CacheTrue(cache') BY <1>1, CacheStaysTrue DEF Entries
    <2>2. \E q \in Proc : GoesTo(c, q) /\ q.at \in {"keep", "read", "done"}
      BY <1>0, <1>1, VerifiesOn
    <2>3. mishaps' \in 0..MaxMishaps BY <1>0, <1>1, VerifiesOn
    <2>. QED BY <1>0, <2>1, <2>2, <2>3, QuietStep
  <1>2. CASE /\ cache' = [cache EXCEPT ![Source(proc[c].on)] = "fresh"] \/ UNCHANGED cache
             /\ Passes(c, "found") /\ mishaps' \in 0..MaxMishaps
    <2>1. CacheTrue(cache') BY <1>2, CacheStaysTrue DEF Entries, CallsOK, CacheTrue
    <2>2. \E q \in Proc : GoesTo(c, q) /\ q.at \in {"read", "done"}
      BY <1>0, <1>2, PassesOn DEF Outcomes
    <2>. QED BY <1>0, <1>2, <2>1, <2>2, QuietStep
  <1>3. CASE UNCHANGED cache /\ Fails(c) /\ mishaps' \in 0..MaxMishaps
    <2>1. CacheTrue(cache') BY <1>3 DEF CallsOK, CacheTrue
    <2>2. \E q \in Proc : GoesTo(c, q) /\ q.at \in {"read", "done"} BY <1>0, <1>3, FailsOn
    <2>. QED BY <1>0, <1>3, <2>1, <2>2, QuietStep
  <1>4. Mishap \/ UNCHANGED mishaps => mishaps' \in 0..MaxMishaps BY MishapCounts
  <1>. QED BY <1>1, <1>2, <1>3, <1>4 DEF Keep

LEMMA DropLooks == ASSUME CallsOK, NEW c \in Callers, Drop(c) PROVE LooksOn(c)
  <1>0. /\ proc[c].at = "drop" /\ UNCHANGED <<asked, reply, call, absent>>
        /\ proc[c].on = "cape" \/ Source(proc[c].on) \in absent
    BY DEF Drop, fvars, CallsOK, Steady
  <1>1. CASE /\ cache' = [cache EXCEPT ![Source(proc[c].on)] = "null"] \/ UNCHANGED cache
             /\ Passes(c, "missing") /\ mishaps' \in 0..MaxMishaps
    <2>0. proc[c].on = "cape" => Source(proc[c].on) = "cape" BY DEF Source
    <2>1. CacheTrue(cache') BY <1>0, <1>1, <2>0, CacheStaysTrue DEF Entries, CallsOK, CacheTrue
    <2>2. \E q \in Proc : GoesTo(c, q) /\ q.at \in {"read", "done"}
      BY <1>0, <1>1, PassesOn DEF Outcomes
    <2>. QED BY <1>0, <1>1, <2>1, <2>2, QuietStep
  <1>2. CASE UNCHANGED cache /\ Fails(c) /\ mishaps' \in 0..MaxMishaps
    <2>1. CacheTrue(cache') BY <1>2 DEF CallsOK, CacheTrue
    <2>2. \E q \in Proc : GoesTo(c, q) /\ q.at \in {"read", "done"} BY <1>0, <1>2, FailsOn
    <2>. QED BY <1>0, <1>2, <2>1, <2>2, QuietStep
  <1>4. Mishap \/ UNCHANGED mishaps => mishaps' \in 0..MaxMishaps BY MishapCounts
  <1>. QED BY <1>1, <1>2, <1>4 DEF Drop

\* The upstream's answer comes to all who await it: "gone" only for what is gone.
LEMMA UpstreamKeeps ==
  ASSUME BudgetInv, FetchOK, CallsOK, NEW c \in Callers, Upstream(c)
  PROVE  FetchOK' /\ CallsOK'
  <1>1. PICK u \in Urls, r \in Replies :
          Respond(c, u, r) /\ (r = "gone" => u \in absent) /\ (Mishap \/ UNCHANGED mishaps)
    BY DEF Upstream, Replies
  <1>2. /\ FetchOK'
        /\ asked' = [d \in Callers |-> IF asked[d] = u THEN None ELSE asked[d]]
        /\ reply' = [d \in Callers |-> IF asked[d] = u THEN r ELSE reply[d]]
    BY <1>1, RespondKeeps
  <1>3. UNCHANGED <<call, absent, proc, cache>> BY DEF Upstream
  <1>4. mishaps' \in 0..MaxMishaps BY <1>1, MishapCounts
  <1>5. ASSUME NEW d \in Callers PROVE Asking(proc[d], asked'[d], reply'[d])
    <2>1. Asking(proc[d], asked[d], reply[d]) BY DEF CallsOK
    <2>2. CASE asked[d] = u
      <3>1. asked'[d] = None /\ reply'[d] = r BY <1>2, <2>2
      <3>2. asked[d] # None BY <2>2, FetchAssumption
      <3>. QED BY <1>1, <2>1, <2>2, <3>1, <3>2 DEF Asking
    <2>3. CASE asked[d] # u
      <3>1. asked'[d] = asked[d] /\ reply'[d] = reply[d] BY <1>2, <2>3
      <3>. QED BY <2>1, <3>1
    <2>. QED BY <2>2, <2>3
  <1>6. \A d \in Callers : Asking(proc[d], asked[d], reply[d])' BY <1>3, <1>5 DEF Asking
  <1>7. \A d \in Callers : Steady(call[d], proc[d])' BY <1>3 DEF CallsOK, Steady, Placed
  <1>8. CacheTrue(cache)' BY <1>3 DEF CallsOK, CacheTrue
  <1>. QED BY <1>2, <1>3, <1>4, <1>6, <1>7, <1>8 DEF CallsOK

\* The steps of a lookup keep what holds of the requests and of the calls.
LEMMA LooksKeep ==
  ASSUME BudgetInv, FetchOK, CallsOK, NEW c \in Callers, Looks(c)
  PROVE  FetchOK' /\ CallsOK'
  <1>1. ASSUME LooksOn(c) PROVE CallsOK' BY <1>1, StepKeepsCalls DEF LooksOn, StepsOn
  <1>2. ASSUME UNCHANGED <<budget, fvars>> PROVE FetchOK'
    BY <1>2, FetchRests DEF fvars, Busy, FetchOK
  <1>3. CASE Read(c) \/ Keep(c) \/ Drop(c)
    BY <1>1, <1>2, <1>3, ReadLooks, KeepLooks, DropLooks DEF Read, Keep, Drop
  <1>4. CASE Take(c)
    <2>1. UNCHANGED <<budget, pending, asked, cooling>> /\ reply' = [reply EXCEPT ![c] = None]
      BY <1>4 DEF Take, Taken
    <2>2. FetchOK' BY <2>1, FetchRests DEF FetchOK, Busy
    <2>. QED BY <1>1, <1>4, <2>2, TakeLooks
  <1>5. CASE Go(c)
    <2>1. proc[c].at = "go" /\ proc[c].on # "picture" /\ proc[c].on \in Stages
      BY <1>5 DEF Go, CallsOK, Proc
    <2>2. Source(proc[c].on) \in Urls
      BY <2>1, LookupAssumption DEF Stages, Resources, Source
    <2>3. UNCHANGED <<budget, fvars>> \/ Fetch(c, Source(proc[c].on)) BY <1>5 DEF Go
    <2>4. FetchOK' BY <1>2, <2>2, <2>3, FetchKeeps
    <2>. QED BY <1>1, <1>5, <2>4, GoLooks
  <1>6. CASE Upstream(c) BY <1>6, UpstreamKeeps
  <1>. QED BY <1>3, <1>4, <1>5, <1>6 DEF Looks

\* A call that awaits nothing goes on, for a picture.
LEMMA QuietKeeps ==
  ASSUME CallsOK, NEW c \in Callers, NEW q \in Proc, GoesTo(c, q), proc[c].at # "await",
         UNCHANGED <<asked, reply, call, absent, cache>>, mishaps' \in 0..MaxMishaps
  PROVE  CallsOK'
  <1>1. asked'[c] = None /\ reply'[c] = None BY Underway
  <1>2. Asking(q, asked'[c], reply'[c]) BY <1>1, FetchAssumption DEF Asking
  <1>3. CacheTrue(cache') BY DEF CallsOK, CacheTrue
  <1>4. StepsOn(c) BY <1>2, <1>3 DEF StepsOn
  <1>. QED BY <1>4, StepKeepsCalls

\* Calls for images end together.
LEMMA EndsKeep ==
  ASSUME CallsOK, NEW S, NEW o \in Outcomes \cup {None}, Ends(S, o),
         \A d \in Callers : d \in S => proc[d].at # "await" /\ call[d] \notin Lookups,
         UNCHANGED <<asked, reply, call, absent, cache>>, mishaps' \in 0..MaxMishaps
  PROVE  CallsOK'
  <1>1. proc' = [d \in Callers |-> IF d \in S THEN [proc[d] EXCEPT !.at = "done", !.out = o] ELSE proc[d]]
    BY DEF Ends
  <1>2. ASSUME NEW d \in Callers
        PROVE  proc'[d] \in Proc /\ Steady(call[d], proc'[d]) /\ Asking(proc'[d], asked[d], reply[d])
    <2>0. proc'[d] = IF d \in S THEN [proc[d] EXCEPT !.at = "done", !.out = o] ELSE proc[d]
      BY <1>1
    <2>1. CASE d \notin S BY <2>0, <2>1 DEF CallsOK
    <2>2. CASE d \in S
      <3>. DEFINE q == [proc[d] EXCEPT !.at = "done", !.out = o]
      <3>1. q \in Proc /\ q.at = "done" /\ q.out = o /\ q.on = proc[d].on /\ Placed(call[d], q)
        BY Underway DEF Proc, Placed
      <3>2. proc'[d] = q BY <2>0, <2>2
      <3>3. call[d] \notin Lookups /\ asked[d] = None /\ reply[d] = None BY <2>2, Underway
      <3>4. call[d] \notin {"byName", "byId"} BY <3>3 DEF Lookups
      <3>. HIDE DEF q
      <3>5. Steady(call[d], q) BY <3>1, <3>3, <3>4 DEF Steady
      <3>6. Asking(q, asked[d], reply[d]) BY <3>3, FetchAssumption DEF Asking
      <3>. QED BY <3>1, <3>2, <3>5, <3>6
    <2>. QED BY <2>1, <2>2
  <1>3. proc' \in [Callers -> Proc] BY <1>1, <1>2
  <1>4. \A d \in Callers : Steady(call[d], proc[d])' /\ Asking(proc[d], asked[d], reply[d])'
    BY <1>2 DEF Steady, Placed, Asking
  <1>5. CacheTrue(cache)' BY DEF CallsOK, CacheTrue
  <1>. QED BY <1>3, <1>4, <1>5 DEF CallsOK

--------------------------------------------------------------------------------
(* The pictures.                                                           *)

AtWork(c) == proc[c].at \in {"paint", "store"} /\ call[c] # "raw"

\* The map names the one who makes a picture, for those who make it and follow it.
MakingOK ==
  /\ inflight \in [SharedKinds -> Callers \cup {None}]
  /\ making \in [Pictures -> Callers \cup {None}]
  /\ shelf \subseteq Pictures
  /\ \A c \in Callers : AtWork(c) => making[Key(c)] = c
  /\ \A c \in Callers : proc[c].at = "follow" => call[c] # "raw" /\ making[Key(c)] # None

LEMMA MakingGivesOne == MakingOK => OneRenderPerKey
  BY DEF MakingOK, AtWork, OneRenderPerKey

LEMMA KeyIsPicture ==
  ASSUME CallsOK, NEW c \in Callers, proc[c].on = "picture", call[c] # "raw"
  PROVE  Key(c) \in Pictures
  <1>1. call[c] \in Renders \cup {"processed"} /\ proc[c] \in Proc
    BY DEF CallsOK, Steady, Placed, Pictured
  <1>2. View(call[c]) \in {"head", "back", "processed"} BY <1>1 DEF View, Renders
  <1>. QED BY <1>1, <1>2 DEF Key, Pictures, Proc

\* A step that begins no picture and ends none.
LEMMA MakingRests ==
  ASSUME MakingOK, UNCHANGED <<call, making>>, NEW c \in Callers,
         proc'[c].at \notin {"paint", "store", "follow"},
         \A d \in Callers \ {c} : proc'[d] = proc[d],
         inflight' \in [SharedKinds -> Callers \cup {None}], shelf' \subseteq Pictures
  PROVE  MakingOK'
  <1>1. \A d \in Callers : AtWork(d)' => d # c /\ AtWork(d) /\ Key(d)' = Key(d)
    BY DEF AtWork, Key
  <1>2. \A d \in Callers : proc'[d].at = "follow" => d # c /\ proc[d].at = "follow" /\ Key(d)' = Key(d)
    BY DEF Key
  <1>. QED BY <1>1, <1>2 DEF MakingOK

\* Calls end together, and what others make or follow stays in the map.
LEMMA EndsMaking ==
  ASSUME MakingOK, NEW S, NEW o, Ends(S, o), UNCHANGED call,
         \A d \in Callers : d \notin S /\ (AtWork(d) \/ proc[d].at = "follow")
           => making'[Key(d)] = making[Key(d)],
         making' \in [Pictures -> Callers \cup {None}],
         inflight' \in [SharedKinds -> Callers \cup {None}], shelf' \subseteq Pictures,
         proc \in [Callers -> Proc]
  PROVE  MakingOK'
  <1>1. ASSUME NEW d \in Callers
        PROVE  \/ proc'[d].at = "done"
               \/ d \notin S /\ proc'[d] = proc[d]
    BY DEF Ends, Proc
  <1>2. \A d \in Callers : AtWork(d)' => d \notin S /\ AtWork(d) /\ Key(d)' = Key(d)
    BY <1>1 DEF AtWork, Key
  <1>3. \A d \in Callers : proc'[d].at = "follow"
          => d \notin S /\ proc[d].at = "follow" /\ Key(d)' = Key(d)
    BY <1>1 DEF Key
  <1>. QED BY <1>2, <1>3 DEF MakingOK

\* A picture that c made, or could not make, leaves the map.
LEMMA MadeKeeps ==
  ASSUME MakingOK, CallsOK, NEW c \in Callers, NEW o \in Outcomes, Made(c, o),
         proc[c].at \in {"paint", "store"},
         UNCHANGED <<asked, reply, call, absent, cache, inflight>>,
         mishaps' \in 0..MaxMishaps, shelf' \subseteq Pictures
  PROVE  CallsOK' /\ MakingOK'
  <1>1. /\ making' = [k \in Pictures |-> IF making[k] = c THEN None ELSE making[k]]
        /\ Ends({c} \cup Following(c), o)
    BY DEF Made
  <1>2. making' \in [Pictures -> Callers \cup {None}] BY <1>1 DEF MakingOK
  <1>3. ASSUME NEW d \in Callers, proc[d].at \in {"paint", "store", "follow"}
        PROVE  /\ proc[d].on = "picture" /\ call[d] \notin Lookups
               /\ proc[d].at # "await"
    <2>1. proc[d].on = "picture" /\ call[d] \in Pictured BY <1>3 DEF CallsOK, Steady, Placed
    <2>. QED BY <1>3, <2>1 DEF Pictured, Renders, Lookups
  <1>4. \A d \in Callers : d \in {c} \cup Following(c) => proc[d].at # "await" /\ call[d] \notin Lookups
    BY <1>3 DEF Following
  <1>5. CallsOK' BY <1>1, <1>4, EndsKeep
  <1>6. ASSUME NEW d \in Callers, d \notin {c} \cup Following(c), AtWork(d) \/ proc[d].at = "follow"
        PROVE  making'[Key(d)] = making[Key(d)]
    <2>1. proc[d].on = "picture" /\ call[d] # "raw"
      BY <1>3, <1>6 DEF AtWork, MakingOK
    <2>2. Key(d) \in Pictures BY <2>1, KeyIsPicture
    <2>3. making[Key(d)] # c BY <1>6 DEF Following, MakingOK
    <2>. QED BY <1>1, <2>2, <2>3
  <1>7. inflight' \in [SharedKinds -> Callers \cup {None}] /\ proc \in [Callers -> Proc]
    BY DEF MakingOK, CallsOK
  <1>8. MakingOK' BY <1>1, <1>2, <1>6, <1>7, EndsMaking
  <1>. QED BY <1>5, <1>8

\* The renderer is no provider.
LEMMA RenderIsApart ==
  ASSUME BudgetInv, FetchOK, NEW c \in Callers,
         UNCHANGED budget \/ Enter("render", c) \/ Leave("render", c), UNCHANGED fvars
  PROVE  FetchOK'
  <1>1. \A b \in Providers : b \in Budgets /\ b # "render"
    BY AvatarAssumption, FetchAssumption DEF Providers
  <1>2. "render" \in Budgets /\ BudgetTypeOK BY AvatarAssumption DEF BudgetInv
  <1>3. \A b \in Providers, d \in Callers : Busy(b, d)' <=> Busy(b, d)
    <2>1. CASE UNCHANGED budget BY <2>1 DEF Busy
    <2>2. CASE Enter("render", c) BY <1>1, <1>2, <2>2, EnterBusy
    <2>3. CASE Leave("render", c) BY <1>1, <1>2, <2>3, LeaveBusy
    <2>. QED BY <2>1, <2>2, <2>3
  <1>. QED BY <1>3, FetchRests DEF fvars, FetchOK

\* To go on at one more place, with all else as it was.
LEMMA AtKeeps ==
  ASSUME CallsOK, NEW c \in Callers, NEW s \in {"read", "share", "follow", "paint", "store"},
         Asks(c, s), proc[c].at \notin {"await", "done"},
         s \in {"follow", "paint", "store"} => proc[c].on = "picture",
         s = "store" => call[c] # "raw",
         UNCHANGED <<asked, reply, call, absent, cache>>, mishaps' \in 0..MaxMishaps
  PROVE  CallsOK'
  <1>. DEFINE q == [proc[c] EXCEPT !.at = s]
  <1>0. /\ proc[c] \in Proc /\ Placed(call[c], proc[c]) /\ proc[c].out = None
        /\ proc \in [Callers -> Proc]
    BY Underway DEF CallsOK
  <1>1. q \in Proc /\ q.at = s /\ q.on = proc[c].on /\ q.out = None /\ Placed(call[c], q)
    BY <1>0 DEF Proc, Placed
  <1>2. proc' = [proc EXCEPT ![c] = q] BY <1>0 DEF Asks
  <1>. HIDE DEF q
  <1>3. Steady(call[c], q) BY <1>1, LookupAssumption DEF Steady, Outcomes
  <1>. QED BY <1>1, <1>2, <1>3, QuietKeeps DEF GoesTo

LEMMA OneEnds ==
  ASSUME CallsOK, MakingOK, NEW c \in Callers, NEW o \in Outcomes, Ends({c}, o),
         proc[c].at # "await", call[c] \notin Lookups,
         UNCHANGED <<asked, reply, call, absent, cache, mishaps, making, inflight, shelf>>
  PROVE  CallsOK' /\ MakingOK'
  <1>1. CallsOK' BY EndsKeep, MishapCounts
  <1>2. MakingOK' BY EndsMaking DEF MakingOK, CallsOK
  <1>. QED BY <1>1, <1>2

LEMMA AskKeeps ==
  ASSUME CallsOK, MakingOK, NEW c \in Callers, Ask(c)
  PROVE  CallsOK' /\ MakingOK'
  <1>0. /\ proc[c].at = "idle" /\ proc \in [Callers -> Proc] /\ call[c] \in Kinds
        /\ UNCHANGED <<asked, reply, call, absent, cache, mishaps, making, shelf>>
    BY DEF Ask, CallsOK, fvars
  <1>1. CASE /\ Asks(c, "read") \/ Asks(c, "share")
             /\ inflight' \in [SharedKinds -> Callers \cup {None}]
    <2>1. CallsOK' BY <1>0, <1>1, AtKeeps, MishapCounts
    <2>2. proc'[c].at \notin {"paint", "store", "follow"} /\ \A d \in Callers \ {c} : proc'[d] = proc[d]
      BY <1>0, <1>1 DEF Asks, Proc
    <2>3. MakingOK' BY <1>0, <1>1, <2>2, MakingRests DEF MakingOK
    <2>. QED BY <2>1, <2>3
  <1>2. CASE call[c] \in Renders /\ Ends({c}, "unavailable") /\ UNCHANGED inflight
    <2>1. call[c] \notin Lookups BY <1>2 DEF Renders, Lookups
    <2>. QED BY <1>0, <1>2, <2>1, OneEnds DEF Outcomes
  <1>3. inflight' = [inflight EXCEPT ![call[c]] = c] \/ UNCHANGED inflight
          => inflight' \in [SharedKinds -> Callers \cup {None}]
    BY DEF MakingOK
  <1>. QED BY <1>1, <1>2, <1>3 DEF Ask

LEMMA ClearKeeps ==
  ASSUME CallsOK, MakingOK, NEW c \in Callers, Clear(c)
  PROVE  CallsOK' /\ MakingOK'
  <1>0. /\ UNCHANGED <<asked, reply, call, absent, cache, mishaps, making, shelf>>
        /\ call[c] \in SharedKinds /\ Ends(Sharing(c), proc[c].out)
        /\ inflight' = [inflight EXCEPT ![call[c]] = None]
        /\ proc[c].out \in Outcomes \cup {None}
    BY DEF Clear, fvars, CallsOK, Proc
  <1>1. \A d \in Callers : d \in Sharing(c) => proc[d].at # "await" /\ call[d] \notin Lookups
    BY <1>0 DEF Sharing, SharedKinds, Renders, Lookups
  <1>2. CallsOK' BY <1>0, <1>1, EndsKeep, MishapCounts
  <1>3. inflight' \in [SharedKinds -> Callers \cup {None}] BY <1>0 DEF MakingOK
  <1>4. MakingOK' BY <1>0, <1>3, EndsMaking DEF MakingOK, CallsOK
  <1>. QED BY <1>2, <1>4

LEMMA ReadPictureKeeps ==
  ASSUME CallsOK, MakingOK, NEW c \in Callers, ReadPicture(c)
  PROVE  CallsOK' /\ MakingOK'
  <1>0. /\ proc[c].at = "read" /\ proc[c].on = "picture" /\ proc[c] \in Proc /\ proc[c].out = None
        /\ Placed(call[c], proc[c]) /\ proc \in [Callers -> Proc]
        /\ UNCHANGED <<asked, reply, call, absent, cache, inflight, making, shelf>>
    BY Underway DEF CallsOK, ReadPicture, fvars, uvars
  <1>1. PICK seen \in {"none", "fresh", "broken"} :
          proc' = [proc EXCEPT ![c].at = "go", ![c].seen = seen] /\ (Mishap \/ UNCHANGED mishaps)
    BY DEF ReadPicture
  <1>. DEFINE q == [proc[c] EXCEPT !.at = "go", !.seen = seen]
  <1>2. /\ q \in Proc /\ q.at = "go" /\ q.on = "picture" /\ q.out = None /\ q.seen # "null"
        /\ Placed(call[c], q)
    BY <1>0 DEF Proc, Entries, Placed
  <1>3. proc' = [proc EXCEPT ![c] = q] BY <1>0, <1>1
  <1>. HIDE DEF q
  <1>4. Steady(call[c], q) BY <1>2, LookupAssumption DEF Steady, Outcomes
  <1>5. CallsOK' BY <1>0, <1>1, <1>2, <1>3, <1>4, QuietKeeps, MishapCounts DEF GoesTo
  <1>6. MakingOK' BY <1>0, <1>2, <1>3, MakingRests DEF MakingOK
  <1>. QED BY <1>5, <1>6

LEMMA GoPictureKeeps ==
  ASSUME CallsOK, MakingOK, NEW c \in Callers, GoPicture(c)
  PROVE  CallsOK' /\ MakingOK'
  <1>0. /\ proc[c].at = "go" /\ proc[c].on = "picture" /\ proc \in [Callers -> Proc]
        /\ call[c] \in Pictured
        /\ UNCHANGED <<asked, reply, call, absent, cache, mishaps, inflight, shelf>>
    BY DEF CallsOK, GoPicture, fvars, Steady, Placed
  <1>1. call[c] \notin Lookups BY <1>0 DEF Pictured, Renders, Lookups
  <1>2. CASE (Ends({c}, "found") \/ Ends({c}, "unavailable")) /\ UNCHANGED making
    BY <1>0, <1>1, <1>2, OneEnds DEF Outcomes
  <1>3. CASE BeingMade(c) /\ Asks(c, "follow") /\ UNCHANGED making
    <2>1. CallsOK' BY <1>0, <1>3, AtKeeps, MishapCounts
    <2>2. proc'[c].at = "follow" /\ Key(c)' = Key(c) /\ \A d \in Callers \ {c} : proc'[d] = proc[d]
      BY <1>0, <1>3 DEF Asks, Key, Proc
    <2>3. \A d \in Callers : AtWork(d)' => AtWork(d) /\ Key(d)' = Key(d)
      BY <1>0, <2>2 DEF AtWork, Key
    <2>4. \A d \in Callers : proc'[d].at = "follow" =>
             Key(d)' = Key(d) /\ (proc[d].at = "follow" \/ d = c)
      BY <1>0, <2>2 DEF Key
    <2>5. MakingOK' BY <1>0, <1>3, <2>3, <2>4 DEF MakingOK, BeingMade
    <2>. QED BY <2>1, <2>5
  <1>4. CASE /\ ~BeingMade(c) /\ Asks(c, "paint")
             /\ making' = IF call[c] = "raw" THEN making ELSE [making EXCEPT ![Key(c)] = c]
    <2>1. CallsOK' BY <1>0, <1>4, AtKeeps, MishapCounts
    <2>2. proc'[c].at = "paint" /\ Key(c)' = Key(c) /\ \A d \in Callers \ {c} : proc'[d] = proc[d]
      BY <1>0, <1>4 DEF Asks, Key, Proc
    <2>3. \A d \in Callers : AtWork(d)' => Key(d)' = Key(d) /\ (AtWork(d) \/ d = c)
      BY <1>0, <2>2 DEF AtWork, Key
    <2>4. \A d \in Callers : proc'[d].at = "follow" => proc[d].at = "follow" /\ d # c /\ Key(d)' = Key(d)
      BY <1>0, <2>2 DEF Key
    <2>5. CASE call[c] = "raw"
      <3>1. \A d \in Callers : AtWork(d)' => AtWork(d) BY <1>0, <2>3, <2>5 DEF AtWork
      <3>. QED BY <1>0, <1>4, <2>1, <2>3, <2>4, <2>5, <3>1 DEF MakingOK
    <2>6. CASE call[c] # "raw"
      <3>1. Key(c) \in Pictures BY <1>0, <2>6, KeyIsPicture
      <3>2. making[Key(c)] = None BY <1>4, <2>6 DEF BeingMade
      <3>3. making' = [making EXCEPT ![Key(c)] = c] BY <1>4, <2>6
      <3>4. \A d \in Callers : AtWork(d) => Key(d) # Key(c)
        BY <3>2, FetchAssumption DEF MakingOK
      <3>5. \A d \in Callers : AtWork(d)' => making'[Key(d)'] = d
        BY <2>3, <3>1, <3>3, <3>4 DEF MakingOK
      <3>6. \A d \in Callers : proc'[d].at = "follow" => call[d] # "raw" /\ making'[Key(d)'] # None
        BY <2>4, <3>1, <3>3, FetchAssumption DEF MakingOK
      <3>7. making' \in [Pictures -> Callers \cup {None}] BY <3>3 DEF MakingOK
      <3>. QED BY <1>0, <2>1, <3>5, <3>6, <3>7 DEF MakingOK
    <2>. QED BY <2>5, <2>6
  <1>. QED BY <1>2, <1>3, <1>4 DEF GoPicture

LEMMA PaintKeeps ==
  ASSUME CallsOK, MakingOK, NEW c \in Callers, Paint(c)
  PROVE  CallsOK' /\ MakingOK'
  <1>0. /\ proc[c].at = "paint" /\ proc[c].on = "picture" /\ proc \in [Callers -> Proc]
        /\ UNCHANGED <<asked, reply, call, absent, cache, inflight, shelf>>
        /\ shelf' \subseteq Pictures
    BY DEF CallsOK, Paint, fvars, Steady, MakingOK
  <1>1. CASE /\ call[c] \in Renders \cup {"processed"} /\ Asks(c, "store")
             /\ UNCHANGED <<making, mishaps>>
    <2>0. call[c] # "raw" BY <1>1 DEF Renders
    <2>1. CallsOK' BY <1>0, <1>1, <2>0, AtKeeps, MishapCounts
    <2>2. proc'[c].at = "store" /\ Key(c)' = Key(c) /\ \A d \in Callers \ {c} : proc'[d] = proc[d]
      BY <1>0, <1>1 DEF Asks, Key, Proc
    <2>3. \A d \in Callers : AtWork(d)' => AtWork(d) /\ Key(d)' = Key(d)
      BY <1>0, <2>0, <2>2 DEF AtWork, Key
    <2>4. \A d \in Callers : proc'[d].at = "follow" => proc[d].at = "follow" /\ Key(d)' = Key(d)
      BY <1>0, <2>2 DEF Key
    <2>5. MakingOK' BY <1>0, <1>1, <2>3, <2>4 DEF MakingOK
    <2>. QED BY <2>1, <2>5
  <1>2. CASE (Made(c, "found") /\ UNCHANGED mishaps) \/ (Made(c, "unavailable") /\ Mishap)
    <2>1. mishaps' \in 0..MaxMishaps BY <1>2, MishapCounts
    <2>2. "found" \in Outcomes /\ "unavailable" \in Outcomes BY DEF Outcomes
    <2>. QED BY <1>0, <1>2, <2>1, <2>2, MadeKeeps
  <1>. QED BY <1>1, <1>2 DEF Paint

LEMMA StoreKeeps ==
  ASSUME CallsOK, MakingOK, NEW c \in Callers, Store(c)
  PROVE  CallsOK' /\ MakingOK'
  <1>0. /\ proc[c].at = "store" /\ proc[c].on = "picture" /\ call[c] # "raw"
        /\ UNCHANGED <<asked, reply, call, absent, cache, inflight>>
        /\ Made(c, "found") /\ (shelf' = shelf \cup {Key(c)} \/ UNCHANGED shelf)
        /\ (UNCHANGED mishaps \/ Mishap)
    BY DEF CallsOK, Store, fvars, Steady
  <1>1. shelf' \subseteq Pictures BY <1>0, KeyIsPicture DEF MakingOK
  <1>2. mishaps' \in 0..MaxMishaps BY <1>0, MishapCounts
  <1>. QED BY <1>0, <1>1, <1>2, MadeKeeps DEF Outcomes

\* The steps that make a picture keep what holds of the requests, of the calls and
\* of the pictures.
LEMMA PaintsKeep ==
  ASSUME BudgetInv, FetchOK, CallsOK, MakingOK, NEW c \in Callers, Paints(c)
  PROVE  FetchOK' /\ CallsOK' /\ MakingOK'
  <1>1. CallsOK' /\ MakingOK'
    BY ClearKeeps, ReadPictureKeeps, GoPictureKeeps, PaintKeeps, StoreKeeps DEF Paints
  <1>2. UNCHANGED fvars /\ (UNCHANGED budget \/ Enter("render", c) \/ Leave("render", c))
    <2>1. CASE Clear(c) BY <2>1 DEF Clear
    <2>2. CASE ReadPicture(c) BY <2>2 DEF ReadPicture
    <2>3. CASE GoPicture(c) BY <2>3 DEF GoPicture
    <2>4. CASE Paint(c) BY <2>4 DEF Paint
    <2>5. CASE Store(c) BY <2>5 DEF Store
    <2>. QED BY <2>1, <2>2, <2>3, <2>4, <2>5 DEF Paints
  <1>. QED BY <1>1, <1>2, RenderIsApart

\* What grows old in the cache makes nothing false.
LEMMA AgeKeeps == ASSUME CallsOK, Age PROVE CallsOK'
  <1>1. /\ UNCHANGED <<asked, reply, call, absent, proc>> /\ mishaps' \in 0..MaxMishaps
    BY MishapCounts DEF Age, fvars
  <1>2. PICK r \in Resources, e \in {"stale", "none"} : cache' = [cache EXCEPT ![r] = e]
    BY DEF Age, CallsOK, CacheTrue
  <1>3. CacheTrue(cache') BY <1>2, CacheStaysTrue DEF Entries
  <1>4. CacheTrue(cache)' BY <1>1, <1>3 DEF CacheTrue
  <1>5. \A d \in Callers : Steady(call[d], proc[d])' /\ Asking(proc[d], asked[d], reply[d])'
    BY <1>1 DEF CallsOK, Steady, Placed, Asking
  <1>. QED BY <1>1, <1>4, <1>5 DEF CallsOK

--------------------------------------------------------------------------------
(* The invariant of the service.                                           *)

ServiceInv == BudgetInv /\ FetchOK /\ CallsOK /\ MakingOK

LEMMA ServiceInvInit == AvatarInit => ServiceInv
  <1>. SUFFICES ASSUME AvatarInit PROVE ServiceInv OBVIOUS
  <1>1. BudgetInv BY BudgetInvInit DEF AvatarInit, FetchInit
  <1>2. FetchOK
    <2>1. \A b \in Budgets, c \in Callers : ~Busy(b, c) BY DEF AvatarInit, FetchInit, BudgetInit, Busy
    <2>2. \A b \in Providers : b \in Budgets BY FetchAssumption DEF Providers
    <2>. QED BY <2>1, <2>2 DEF AvatarInit, FetchInit, FetchOK, Requested, InTheMap
  <1>3. CallsOK
    <2>1. PICK w \in Workloads : call = w.call /\ absent = w.absent /\ cache = w.cache
      BY DEF AvatarInit
    <2>2. call \in [Callers -> Kinds] /\ absent \subseteq Resources /\ CacheTrue(cache)
      BY <2>1, WorkloadAssumption DEF CacheTrue
    <2>3. mishaps \in 0..MaxMishaps BY LookupAssumption DEF AvatarInit
    <2>4. ASSUME NEW c \in Callers
          PROVE  proc[c] \in Proc /\ Steady(call[c], proc[c]) /\ Asking(proc[c], asked[c], reply[c])
      <3>1. proc[c] = Fresh(call[c]) BY DEF AvatarInit
      <3>2. First(call[c]) \in {"name", "id", "fresh", "skin"} /\ (call[c] \in Lookups => First(call[c]) # "skin")
        BY <2>2 DEF First, Lookups
      <3>3. /\ proc[c] \in Proc /\ proc[c].at = "idle" /\ proc[c].on = First(call[c])
            /\ proc[c].out = None
        BY <3>1, <3>2 DEF Fresh, Proc, Stages, Entries
      <3>4. Steady(call[c], proc[c]) BY <3>2, <3>3, LookupAssumption DEF Steady, Placed, Outcomes
      <3>5. asked[c] = None /\ reply[c] = None BY DEF AvatarInit, FetchInit
      <3>. QED BY <3>3, <3>4, <3>5, FetchAssumption DEF Asking
    <2>5. proc \in [Callers -> Proc]
      <3>1. proc = [c \in Callers |-> Fresh(call[c])] BY DEF AvatarInit
      <3>. QED BY <2>4, <3>1
    <2>. QED BY <2>2, <2>3, <2>4, <2>5 DEF CallsOK
  <1>4. MakingOK
    <2>1. \A c \in Callers : proc[c].at = "idle" BY DEF AvatarInit, Fresh
    <2>. QED BY <2>1 DEF AvatarInit, MakingOK, AtWork
  <1>. QED BY <1>1, <1>2, <1>3, <1>4 DEF ServiceInv

LEMMA ServiceInvStep == ServiceInv /\ [AvatarNext]_allVars => ServiceInv'
  <1>. SUFFICES ASSUME ServiceInv, [AvatarNext]_allVars PROVE ServiceInv' OBVIOUS
  <1>0. BudgetInv /\ FetchOK /\ CallsOK /\ MakingOK BY DEF ServiceInv
  <1>1. BudgetInv' BY <1>0, ServiceMovesBudgets, BudgetInvStep DEF BudgetInv
  <1>2. ASSUME UNCHANGED <<asked, reply, lvars>> PROVE CallsOK'
    BY <1>0, <1>2 DEF lvars, CallsOK, Steady, Placed, Asking, CacheTrue
  <1>3. ASSUME UNCHANGED <<call, proc, uvars>> PROVE MakingOK'
    BY <1>0, <1>3 DEF uvars, MakingOK, AtWork, Key
  <1>4. ASSUME UNCHANGED <<budget, fvars>> PROVE FetchOK'
    BY <1>0, <1>4, FetchRests DEF fvars, Busy, FetchOK
  <1>5. CASE \E c \in Callers : Ask(c)
    <2>1. PICK c \in Callers : Ask(c) BY <1>5
    <2>. QED BY <1>0, <1>1, <1>4, <2>1, AskKeeps DEF ServiceInv, Ask
  <1>6. CASE \E c \in Callers : Slots(c)
    <2>1. PICK c \in Callers : Slots(c) BY <1>6
    <2>2. PICK b \in Budgets : Resume(b, c) BY <2>1 DEF Slots, Granted
    <2>3. UNCHANGED <<fvars, lvars, uvars>> BY <2>1 DEF Slots, Granted
    <2>4. \A a \in Budgets, d \in Callers : Busy(a, d)' <=> Busy(a, d)
      BY <1>0, <2>2, ResumeBusy DEF BudgetInv
    <2>5. \A a \in Providers : a \in Budgets BY FetchAssumption DEF Providers
    <2>6. FetchOK' BY <1>0, <2>3, <2>4, <2>5, FetchRests DEF fvars, FetchOK
    <2>7. CallsOK' BY <1>2, <2>3 DEF fvars
    <2>8. MakingOK' BY <1>3, <2>3 DEF lvars
    <2>. QED BY <1>1, <2>6, <2>7, <2>8 DEF ServiceInv
  <1>7. CASE \E c \in Callers : Looks(c)
    <2>1. PICK c \in Callers : Looks(c) BY <1>7
    <2>2. FetchOK' /\ CallsOK' BY <1>0, <2>1, LooksKeep
    <2>3. MakingOK'
      <3>1. UNCHANGED uvars /\ UNCHANGED call
        BY <2>1 DEF Looks, Read, Go, Take, Keep, Drop, Upstream
      <3>2. CASE Upstream(c) BY <1>3, <3>1, <3>2 DEF Upstream
      <3>3. CASE LooksOn(c)
        <4>1. PICK q \in Proc : proc' = [proc EXCEPT ![c] = q] /\ q.at \notin {"paint", "store", "follow"}
          BY <3>3 DEF LooksOn, GoesTo
        <4>2. proc'[c].at \notin {"paint", "store", "follow"} /\ \A d \in Callers \ {c} : proc'[d] = proc[d]
          BY <1>0, <4>1 DEF CallsOK
        <4>. QED BY <1>0, <3>1, <4>2, MakingRests DEF uvars, MakingOK
      <3>. QED BY <1>0, <2>1, <3>2, <3>3, ReadLooks, GoLooks, TakeLooks, KeepLooks, DropLooks DEF Looks
    <2>. QED BY <1>1, <2>2, <2>3 DEF ServiceInv
  <1>8. CASE \E c \in Callers : Paints(c)
    BY <1>0, <1>1, <1>8, PaintsKeep DEF ServiceInv
  <1>9. CASE Age /\ UNCHANGED uvars
    <2>1. UNCHANGED <<budget, fvars, call, proc, uvars>> BY <1>9 DEF Age
    <2>. QED BY <1>0, <1>1, <1>3, <1>4, <1>9, <2>1, AgeKeeps DEF ServiceInv
  <1>10. CASE CoolDownEnds /\ UNCHANGED <<lvars, uvars>>
    <2>1. cooling' \subseteq Providers /\ UNCHANGED <<budget, pending, asked, reply, lvars, uvars>>
      BY <1>0, <1>10 DEF CoolDownEnds, FetchOK
    <2>2. FetchOK' BY <1>0, <2>1, FetchRests DEF Busy, FetchOK
    <2>3. CallsOK' BY <1>2, <2>1
    <2>4. MakingOK' BY <1>3, <2>1 DEF lvars
    <2>. QED BY <1>1, <2>2, <2>3, <2>4 DEF ServiceInv
  <1>11. CASE AgePicture
    <2>1. /\ UNCHANGED <<budget, fvars, call, absent, proc, cache, inflight, making>>
          /\ shelf' \subseteq Pictures /\ mishaps' \in 0..MaxMishaps
      BY <1>0, <1>11, MishapCounts DEF AgePicture, MakingOK
    <2>2. CallsOK' BY <1>0, <2>1 DEF fvars, CallsOK, Steady, Placed, Asking, CacheTrue
    <2>3. MakingOK' BY <1>0, <2>1 DEF MakingOK, AtWork, Key
    <2>. QED BY <1>1, <1>4, <2>1, <2>2, <2>3 DEF ServiceInv
  <1>12. CASE UNCHANGED allVars
    BY <1>1, <1>2, <1>3, <1>4, <1>12 DEF ServiceInv, allVars, lvars, fvars
  <1>. QED BY <1>5, <1>6, <1>7, <1>8, <1>9, <1>10, <1>11, <1>12 DEF AvatarNext, Works, Passing

\* Whatever the requests, and in whatever order the caches and the upstreams answer or
\* fail, nothing is asked for or made twice at a time and no slot is lost
\* (public-fetch.ts: publicFetch; service.ts: inFlightRenders).
THEOREM LookupsAlwaysInOrder == AvatarSpec => []LookupsInOrder
  <1>1. ServiceInv => LookupsInOrder
    BY FetchGivesOne, MakingGivesOne
    DEF ServiceInv, LookupsInOrder, LookupTypeOK, FetchTypeOK, BudgetInv, FetchOK, CallsOK,
        MakingOK, CacheTrue
  <1>. QED BY <1>1, ServiceInvInit, ServiceInvStep, PTL DEF AvatarSpec

\* A failure is never taken for the upstream's word that there is nothing, nor is a
\* profile that is known refused for it, over any number of failures (client.ts:
\* staleFallback; service.ts: findSource).
THEOREM AnswersAlwaysTrue == AvatarSpec => []AnswersAreTrue
  <1>1. ServiceInv => AnswersAreTrue
    BY DEF ServiceInv, CallsOK, CacheTrue, Steady, Placed, AnswersAreTrue, KnownIsAnswered,
           NoFalseMiss
  <1>. QED BY <1>1, ServiceInvInit, ServiceInvStep, PTL DEF AvatarSpec

(* Which cape a player is shown with (Capes). *)

CapeStages == {"none", "begun", "recall", "fetch", "keep", "note"} \cup Settled3
CapeLooks == [ToSet(Order) -> CapeStages]
CapeCalls == [kind : CapeKinds, out : CapeReplies \cup ToSet(Order), age : 0 .. MaxFetch]

\* Of a call that has asked l so far and answered q.
SettledOf(l) == \A p \in ToSet(Order) : l[p] \in Settled3 \cup {"none"}

\* What it is about to remember, or answers with, has been so.
KnowsOK(l, q, lackedThen, hadThen) ==
  \A p \in Others :
    /\ l[p] = "note" => lackedThen[p] <= q.age
    /\ l[p] = "keep" => hadThen[p] <= q.age
    /\ q.kind # "none" /\ q.out = "none" =>
         /\ l[p] = "missing" => lackedThen[p] < MissingTtl + MaxFetch + q.age
         /\ l[p] = "found" => hadThen[p] < CapeTtl + MaxFetch + q.age

\* A provider is asked in its turn: when each before it has none, or, for a render,
\* together with all others.
TurnOK(l, q) ==
  /\ q.kind = "none" => q.out = "none" /\ \A p \in ToSet(Order) : l[p] = "none"
  /\ q.out # "none" => SettledOf(l)
  /\ q.kind = "find" => \A k \in DOMAIN Order : \A j \in 1 .. k - 1 :
                          l[Order[k]] # "none" => l[Order[j]] = "missing"
  /\ q.kind = "render" => /\ l[Mojang] # "none"
                          /\ \A p, o \in Others : l[p] # "none" => l[o] # "none"

AnswerOK(l, q) ==
  /\ \A k \in DOMAIN Order :
       q.out = Order[k] /\ q.kind \in {"find", "render"} =>
         \A j \in 1 .. k - 1 :
           l[Order[j]] \in {"missing"} \cup (IF q.kind = "render" THEN {"failed"} ELSE {})
  /\ q.out = "not-found" => \A p \in ToSet(Order) : l[p] # "failed"
  /\ q.out \in {"plain", "not-found"} => \A p \in ToSet(Order) : l[p] # "found"
  /\ q.out = "plain" => \A p \in ToSet(Order) : l[p] # "none"

CapeCallOK(l, q, lackedThen, hadThen) ==
  l \in CapeLooks /\ q \in CapeCalls /\ KnowsOK(l, q, lackedThen, hadThen) /\ TurnOK(l, q) /\ AnswerOK(l, q)

RemembersOK ==
  \A p \in Others :
    /\ missing[p] > 0 => lacked[p] <= MissingTtl - missing[p] + MaxFetch
    /\ kept[p] > 0 => had[p] <= CapeTtl - kept[p] + MaxFetch

MemoryTyped ==
  /\ lacked \in [Others -> Nat] /\ had \in [Others -> Nat]
  /\ missing \in [Others -> Nat] /\ kept \in [Others -> Nat]

CapeInv ==
  /\ plan \in Plans /\ MemoryTyped /\ RemembersOK
  /\ look \in [Calls -> CapeLooks] /\ capeCall \in [Calls -> CapeCalls]
  /\ \A c \in Calls : CapeCallOK(look[c], capeCall[c], lacked, had)

LEMMA LeastOf ==
  ASSUME NEW S \in SUBSET Nat, S # {}
  PROVE  Min(S) \in S /\ \A k \in S : Min(S) <= k
  <1>1. PICK m \in S : \A k \in S : ~ (<<k, m>> \in OpToRel(<, Nat))
    <2>. DEFINE Below == OpToRel(<, Nat)
    <2>1. IsWellFoundedOn(Below, Nat) BY NatLessThanWellFounded
    <2>. HIDE DEF Below
    <2>2. \E m \in S : \A k \in S : ~ (<<k, m>> \in Below) BY <2>1, WFMin
    <2>. QED BY <2>2 DEF Below
  <1>2. \A k \in S : ~ (k < m) BY <1>1 DEF OpToRel
  <1>3. \A k \in S : m <= k BY <1>2
  <1>4. \E x \in S : \A k \in S : x <= k BY <1>3
  <1>. QED BY <1>4, Zenon DEF Min

LEMMA CapeNumbers ==
  /\ MissingTtl \in Nat \ {0} /\ CapeTtl \in Nat \ {0} /\ MaxFetch \in Nat
  BY CapesAssumption DEF CapesAssumption

LEMMA OrderIs ==
  /\ Len(Order) \in Nat /\ Len(Order) > 1 /\ DOMAIN Order = 1 .. Len(Order)
  /\ \A k \in DOMAIN Order : Order[k] \in ToSet(Order)
  /\ \A p \in ToSet(Order) : \E k \in DOMAIN Order : p = Order[k]
  /\ \A j, k \in DOMAIN Order : Order[j] = Order[k] => j = k
  /\ Mojang \in ToSet(Order) /\ 1 \in DOMAIN Order
  /\ \A j, k : k \in DOMAIN Order /\ j \in 1 .. k - 1 => j \in DOMAIN Order /\ j # k
  <1>1. Order \in Seq(STRING) /\ Len(Order) > 1 /\ IsInjective(Order)
    BY CapesAssumption DEF CapesAssumption
  <1>2. Len(Order) \in Nat /\ DOMAIN Order = 1 .. Len(Order) BY <1>1
  <1>3. 1 \in DOMAIN Order BY <1>1, <1>2
  <1>4. \A j, k \in DOMAIN Order : Order[j] = Order[k] => j = k BY <1>1 DEF IsInjective
  <1>5. \A j, k : k \in DOMAIN Order /\ j \in 1 .. k - 1 => j \in DOMAIN Order /\ j # k BY <1>2
  <1>. HIDE DEF CapesAssumption
  <1>. QED BY <1>1, <1>2, <1>3, <1>4, <1>5 DEF ToSet, Mojang

LEMMA OthersAre ==
  /\ Others \subseteq ToSet(Order) /\ Mojang \notin Others
  /\ \A p \in ToSet(Order) : p = Mojang \/ p \in Others
  <1>1. Order \in Seq(STRING) /\ Len(Order) > 1 BY CapesAssumption DEF CapesAssumption
  <1>2. Tail(Order) \in Seq(STRING) /\ Len(Tail(Order)) = Len(Order) - 1 BY <1>1
  <1>3. DOMAIN Tail(Order) = 1 .. Len(Order) - 1 BY <1>2
  <1>4. \A i \in 1 .. Len(Order) - 1 : Tail(Order)[i] = Order[i + 1] BY <1>1
  <1>5. \A p \in Others : \E i \in 1 .. Len(Order) - 1 : p = Order[i + 1]
    BY <1>3, <1>4 DEF Others, ToSet
  <1>6. \A i \in 1 .. Len(Order) - 1 : Order[i + 1] \in Others BY <1>3, <1>4 DEF Others, ToSet
  <1>7. \A i \in 1 .. Len(Order) - 1 : i + 1 \in DOMAIN Order /\ i + 1 # 1 BY OrderIs
  <1>8. \A k \in DOMAIN Order : k # 1 => k - 1 \in 1 .. Len(Order) - 1 /\ (k - 1) + 1 = k BY OrderIs
  <1>9. \A k \in DOMAIN Order : k # 1 => Order[k] \in Others BY <1>6, <1>8
  <1>10. Mojang \notin Others BY <1>5, <1>7, OrderIs DEF Mojang
  <1>11. Others \subseteq ToSet(Order) BY <1>5, <1>7, OrderIs
  <1>. QED BY <1>9, <1>10, <1>11, OrderIs DEF Mojang

LEMMA NoProviderIsAReply == \A p \in ToSet(Order) : p \notin CapeReplies
  BY CapesAssumption DEF CapesAssumption

\* A step of one call: what the others know stays so, for an age only falls.
LEMMA CallMoves ==
  ASSUME CapeInv, NEW c \in Calls, NEW l, NEW q,
         look' = [look EXCEPT ![c] = l], capeCall' = [capeCall EXCEPT ![c] = q], plan' = plan,
         MemoryTyped', RemembersOK',
         \A p \in Others : lacked'[p] <= lacked[p] /\ had'[p] <= had[p],
         CapeCallOK(l, q, lacked', had')
  PROVE  CapeInv'
  <1>1. look' \in [Calls -> CapeLooks] /\ capeCall' \in [Calls -> CapeCalls] BY DEF CapeInv, CapeCallOK
  <1>2. ASSUME NEW d \in Calls PROVE CapeCallOK(look'[d], capeCall'[d], lacked', had')
    <2>1. CASE d = c BY <2>1 DEF CapeInv
    <2>2. CASE d # c
      <3>1. look'[d] = look[d] /\ capeCall'[d] = capeCall[d] BY <2>2 DEF CapeInv
      <3>2. CapeCallOK(look[d], capeCall[d], lacked, had) BY DEF CapeInv
      <3>3. KnowsOK(look[d], capeCall[d], lacked', had')
        <4>1. \A p \in Others : /\ lacked[p] \in Nat /\ lacked'[p] \in Nat /\ lacked'[p] <= lacked[p]
                                /\ had[p] \in Nat /\ had'[p] \in Nat /\ had'[p] <= had[p]
          BY DEF CapeInv, MemoryTyped
        <4>2. capeCall[d].age \in Nat BY <3>2, CapeNumbers DEF CapeCallOK, CapeCalls
        <4>3. KnowsOK(look[d], capeCall[d], lacked, had) BY <3>2 DEF CapeCallOK
        <4>4. MissingTtl + MaxFetch + capeCall[d].age \in Nat /\ CapeTtl + MaxFetch + capeCall[d].age \in Nat
          BY <4>2, CapeNumbers
        <4>. HIDE DEF CapeInv
        <4>. QED BY <4>1, <4>2, <4>3, <4>4 DEF KnowsOK
      <3>. QED BY <3>1, <3>2, <3>3 DEF CapeCallOK
    <2>. QED BY <2>1, <2>2
  <1>. QED BY <1>1, <1>2 DEF CapeInv

\* A call gets on with a provider that it has asked.
LEMMA StageMoves ==
  ASSUME CapeInv, NEW c \in Calls, NEW p \in ToSet(Order), look[c][p] \notin Settled3 \cup {"none"},
         NEW stage \in CapeStages \ {"none"}, Reaches(c, p, stage), capeCall' = capeCall, plan' = plan,
         MemoryTyped', RemembersOK',
         \A o \in Others : lacked'[o] <= lacked[o] /\ had'[o] <= had[o],
         p \in Others =>
           /\ stage = "note" => lacked'[p] <= capeCall[c].age
           /\ stage = "keep" => had'[p] <= capeCall[c].age
           /\ stage = "missing" => lacked'[p] < MissingTtl + MaxFetch + capeCall[c].age
           /\ stage = "found" => had'[p] < CapeTtl + MaxFetch + capeCall[c].age
  PROVE  CapeInv'
  <1>. DEFINE q == capeCall[c]
              old == look[c]
              l == [old EXCEPT ![p] = stage]
  <1>1. /\ look \in [Calls -> CapeLooks] /\ capeCall \in [Calls -> CapeCalls] /\ old \in CapeLooks
        /\ CapeCallOK(old, q, lacked, had)
    BY DEF CapeInv
  <1>2. look' = [look EXCEPT ![c] = l] BY <1>1 DEF Reaches
  <1>3. capeCall' = [capeCall EXCEPT ![c] = q] BY <1>1
  <1>4. l \in CapeLooks /\ l[p] = stage /\ \A o \in ToSet(Order) : o # p => l[o] = old[o]
    BY <1>1 DEF CapeLooks
  <1>. HIDE DEF l
  <1>5. q.out = "none" /\ q.kind # "none" BY <1>1 DEF CapeCallOK, TurnOK, SettledOf
  <1>6. \A o \in ToSet(Order) : /\ l[o] # "none" <=> old[o] # "none"
                                /\ old[o] = "missing" => l[o] = "missing"
    BY <1>4 DEF Settled3
  <1>7. TurnOK(l, q) BY <1>1, <1>5, <1>6, OrderIs, OthersAre DEF CapeCallOK, TurnOK
  <1>8. AnswerOK(l, q)
    <2>1. \A k \in DOMAIN Order : q.out # Order[k]
      BY <1>5, OrderIs, NoProviderIsAReply DEF CapeReplies
    <2>. QED BY <1>5, <2>1 DEF AnswerOK
  <1>9. KnowsOK(l, q, lacked', had')
    <2>1. \A o \in Others : /\ lacked[o] \in Nat /\ lacked'[o] \in Nat /\ lacked'[o] <= lacked[o]
                            /\ had[o] \in Nat /\ had'[o] \in Nat /\ had'[o] <= had[o]
      BY DEF CapeInv, MemoryTyped
    <2>2. q.age \in Nat BY <1>1, CapeNumbers DEF CapeCallOK, CapeCalls
    <2>3. MissingTtl + MaxFetch + q.age \in Nat /\ CapeTtl + MaxFetch + q.age \in Nat
      BY <2>2, CapeNumbers
    <2>4. KnowsOK(old, q, lacked, had) BY <1>1 DEF CapeCallOK
    <2>5. ASSUME NEW o \in Others, o = p
          PROVE  /\ l[o] = "note" => lacked'[o] <= q.age
                 /\ l[o] = "keep" => had'[o] <= q.age
                 /\ l[o] = "missing" => lacked'[o] < MissingTtl + MaxFetch + q.age
                 /\ l[o] = "found" => had'[o] < CapeTtl + MaxFetch + q.age
      BY <1>4, <2>5
    <2>6. ASSUME NEW o \in Others, o # p
          PROVE  /\ l[o] = "note" => lacked'[o] <= q.age
                 /\ l[o] = "keep" => had'[o] <= q.age
                 /\ l[o] = "missing" => lacked'[o] < MissingTtl + MaxFetch + q.age
                 /\ l[o] = "found" => had'[o] < CapeTtl + MaxFetch + q.age
      <3>1. l[o] = old[o] BY <1>4, <2>6, OthersAre
      <3>2. /\ old[o] = "note" => lacked[o] <= q.age
            /\ old[o] = "keep" => had[o] <= q.age
            /\ old[o] = "missing" => lacked[o] < MissingTtl + MaxFetch + q.age
            /\ old[o] = "found" => had[o] < CapeTtl + MaxFetch + q.age
        BY <1>5, <2>4 DEF KnowsOK
      <3>. QED BY <2>1, <2>2, <2>3, <3>1, <3>2
    <2>. QED BY <2>5, <2>6 DEF KnowsOK
  <1>10. CapeCallOK(l, q, lacked', had') BY <1>1, <1>4, <1>7, <1>8, <1>9 DEF CapeCallOK
  <1>. QED BY <1>2, <1>3, <1>10, CallMoves

\* A call that has begun no look at the caches leaves them and their ages.
LEMMA MemoryStands ==
  CapeInv /\ CachesStand =>
    /\ plan' = plan /\ MemoryTyped' /\ RemembersOK' /\ lacked' = lacked /\ had' = had
    /\ \A p \in Others : lacked'[p] <= lacked[p] /\ had'[p] <= had[p]
  BY DEF CapeInv, CachesStand, MemoryTyped, RemembersOK

LEMMA SeekStep ==
  ASSUME CapeInv, NEW c \in Calls, NEW kind \in CapeKinds \ {"none"}, NEW ps,
         Seek(c, kind, ps), kind \in {"find", "render"} => ps = {Mojang}
  PROVE  CapeInv'
  <1>. DEFINE q == [capeCall[c] EXCEPT !.kind = kind]
              l == [p \in ToSet(Order) |-> IF p \in ps THEN "begun" ELSE "none"]
  <1>1. /\ capeCall[c].kind = "none" /\ capeCall' = [capeCall EXCEPT ![c] = q]
        /\ look' = [look EXCEPT ![c] = l] /\ CachesStand
    BY DEF Seek
  <1>2. capeCall[c] \in CapeCalls /\ CapeCallOK(look[c], capeCall[c], lacked, had) BY DEF CapeInv
  <1>3. capeCall[c].out = "none" BY <1>1, <1>2 DEF CapeCallOK, TurnOK
  <1>4. q \in CapeCalls /\ q.kind = kind /\ q.out = "none" BY <1>2, <1>3 DEF CapeCalls
  <1>5. l \in CapeLooks /\ \A p \in ToSet(Order) : l[p] = IF p \in ps THEN "begun" ELSE "none"
    BY DEF CapeLooks, CapeStages
  <1>. HIDE DEF q, l
  <1>6. KnowsOK(l, q, lacked', had') BY <1>5, OthersAre DEF KnowsOK
  <1>7. TurnOK(l, q)
    <2>1. kind = "find" => \A k \in DOMAIN Order : \A j \in 1 .. k - 1 : l[Order[k]] = "none"
      <3>. SUFFICES ASSUME kind = "find", NEW k \in DOMAIN Order, NEW j \in 1 .. k - 1
                    PROVE  l[Order[k]] = "none"
        OBVIOUS
      <3>1. k # 1 BY OrderIs
      <3>2. Order[k] # Mojang BY <3>1, OrderIs DEF Mojang
      <3>. QED BY <1>5, <3>2, OrderIs
    <2>2. kind = "render" => l[Mojang] # "none" /\ \A p \in Others : l[p] = "none"
      BY <1>5, OrderIs, OthersAre
    <2>. QED BY <1>4, <2>1, <2>2 DEF TurnOK
  <1>8. AnswerOK(l, q)
    <2>1. \A k \in DOMAIN Order : q.out # Order[k]
      BY <1>4, OrderIs, NoProviderIsAReply DEF CapeReplies
    <2>. QED BY <1>4, <2>1 DEF AnswerOK
  <1>9. CapeCallOK(l, q, lacked', had') BY <1>4, <1>5, <1>6, <1>7, <1>8 DEF CapeCallOK
  <1>. QED BY <1>1, <1>9, CallMoves, MemoryStands

LEMMA MojangStep ==
  ASSUME CapeInv, NEW c \in Calls, MojangCape(c)
  PROVE  CapeInv'
  <1>1. PICK result \in Settled3 : Reaches(c, Mojang, result) BY DEF MojangCape, Settled3
  <1>2. look[c][Mojang] \notin Settled3 \cup {"none"} BY DEF MojangCape, Settled3
  <1>3. capeCall' = capeCall /\ CachesStand BY DEF MojangCape
  <1>4. result \in CapeStages \ {"none"} BY DEF CapeStages, Settled3
  <1>. QED BY <1>1, <1>2, <1>3, <1>4, MemoryStands, StageMoves, OrderIs, OthersAre

\* The steps of a call with one of the others.
LEMMA OtherStep ==
  ASSUME CapeInv, NEW c \in Calls, NEW p \in Others,
         ReadMissing(c, p) \/ ReadKept(c, p) \/ FetchCape(c, p) \/ NoteMissing(c, p) \/ KeepCape(c, p)
  PROVE  CapeInv'
  <1>. DEFINE age == capeCall[c].age
  <1>0. p \in ToSet(Order) BY OthersAre
  <1>1. MissingTtl \in Nat \ {0} /\ CapeTtl \in Nat \ {0} /\ MaxFetch \in Nat BY CapeNumbers
  <1>2. /\ age \in 0 .. MaxFetch /\ lacked[p] \in Nat /\ had[p] \in Nat
        /\ missing[p] \in Nat /\ kept[p] \in Nat
        /\ missing[p] > 0 => lacked[p] <= MissingTtl - missing[p] + MaxFetch
        /\ kept[p] > 0 => had[p] <= CapeTtl - kept[p] + MaxFetch
        /\ look[c][p] = "note" => lacked[p] <= age
        /\ look[c][p] = "keep" => had[p] <= age
        /\ capeCall[c] \in CapeCalls
    BY DEF CapeInv, MemoryTyped, RemembersOK, CapeCallOK, KnowsOK, CapeCalls
  <1>3. {"missing", "recall", "fetch", "found", "keep", "note"} \subseteq CapeStages \ {"none"}
    BY DEF CapeStages, Settled3
  <1>4. CASE ReadMissing(c, p)
    <2>1. look[c][p] \notin Settled3 \cup {"none"} /\ capeCall' = capeCall /\ CachesStand
      BY <1>4 DEF ReadMissing, Settled3
    <2>2. PICK stage \in {"missing", "recall", "fetch"} :
            Reaches(c, p, stage) /\ (stage = "missing" => missing[p] > 0)
      BY <1>4 DEF ReadMissing
    <2>3. stage = "missing" => lacked[p] < MissingTtl + MaxFetch + age BY <1>1, <1>2, <2>2
    <2>. QED BY <1>0, <1>3, <2>1, <2>2, <2>3, MemoryStands, StageMoves
  <1>5. CASE ReadKept(c, p)
    <2>1. look[c][p] \notin Settled3 \cup {"none"} /\ capeCall' = capeCall /\ CachesStand
      BY <1>5 DEF ReadKept, Settled3
    <2>2. PICK stage \in {"found", "fetch"} : Reaches(c, p, stage) /\ (stage = "found" => kept[p] > 0)
      BY <1>5 DEF ReadKept
    <2>3. stage = "found" => had[p] < CapeTtl + MaxFetch + age BY <1>1, <1>2, <2>2
    <2>. QED BY <1>0, <1>3, <2>1, <2>2, <2>3, MemoryStands, StageMoves
  <1>6. CASE FetchCape(c, p)
    <2>1. /\ look[c][p] \notin Settled3 \cup {"none"} /\ capeCall' = capeCall /\ plan' = plan
          /\ missing' = missing /\ kept' = kept
      BY <1>6 DEF FetchCape, Settled3
    <2>2. PICK stage \in {"keep", "note"} :
            /\ Reaches(c, p, stage)
            /\ lacked' = (IF stage = "note" THEN [lacked EXCEPT ![p] = 0] ELSE lacked)
            /\ had' = (IF stage = "keep" THEN [had EXCEPT ![p] = 0] ELSE had)
      <3>1. CASE Reaches(c, p, "keep") /\ had' = [had EXCEPT ![p] = 0] /\ lacked' = lacked BY <3>1
      <3>2. CASE Reaches(c, p, "note") /\ lacked' = [lacked EXCEPT ![p] = 0] /\ had' = had BY <3>2
      <3>. QED BY <1>6, <3>1, <3>2 DEF FetchCape
    <2>3. /\ lacked \in [Others -> Nat] /\ had \in [Others -> Nat]
          /\ missing \in [Others -> Nat] /\ kept \in [Others -> Nat] /\ RemembersOK
      BY DEF CapeInv, MemoryTyped
    <2>4. /\ lacked' \in [Others -> Nat] /\ had' \in [Others -> Nat]
          /\ \A o \in Others : lacked'[o] <= lacked[o] /\ had'[o] <= had[o]
          /\ stage = "note" => lacked'[p] = 0
          /\ stage = "keep" => had'[p] = 0
      BY <2>2, <2>3
    <2>5. MemoryTyped' BY <2>1, <2>3, <2>4 DEF MemoryTyped
    <2>6. RemembersOK'
      <3>1. \A o \in Others : /\ missing[o] \in Nat /\ kept[o] \in Nat /\ lacked[o] \in Nat
                              /\ had[o] \in Nat /\ lacked'[o] \in Nat /\ had'[o] \in Nat
        BY <2>3, <2>4
      <3>. QED BY <1>1, <2>1, <2>3, <2>4, <3>1 DEF RemembersOK
    <2>. QED BY <1>0, <1>2, <1>3, <2>1, <2>2, <2>4, <2>5, <2>6, StageMoves
  <1>7. CASE NoteMissing(c, p)
    <2>1. /\ look[c][p] = "note" /\ capeCall' = capeCall /\ plan' = plan /\ lacked' = lacked
          /\ had' = had /\ kept' = kept /\ Reaches(c, p, "missing")
          /\ missing' = [missing EXCEPT ![p] = MissingTtl] \/ missing' = missing
      BY <1>7 DEF NoteMissing
    <2>2. look[c][p] \notin Settled3 \cup {"none"} BY <2>1 DEF Settled3
    <2>3. /\ missing \in [Others -> Nat] /\ kept \in [Others -> Nat] /\ RemembersOK /\ MemoryTyped
          /\ lacked \in [Others -> Nat] /\ had \in [Others -> Nat]
      BY DEF CapeInv, MemoryTyped
    <2>4. missing' \in [Others -> Nat]
          /\ \A o \in Others : missing'[o] = missing[o] \/ (o = p /\ missing'[o] = MissingTtl)
      <3>1. CASE missing' = [missing EXCEPT ![p] = MissingTtl] BY <1>1, <2>3, <3>1
      <3>2. CASE missing' = missing BY <2>3, <3>2
      <3>. QED BY <2>1, <3>1, <3>2
    <2>5. MemoryTyped' BY <2>1, <2>3, <2>4 DEF MemoryTyped
    <2>6. lacked[p] <= MissingTtl - MissingTtl + MaxFetch BY <1>1, <1>2, <2>1
    <2>7. RemembersOK' BY <2>1, <2>3, <2>4, <2>6 DEF RemembersOK
    <2>8. lacked[p] < MissingTtl + MaxFetch + age BY <1>1, <1>2, <2>1
    <2>9. \A o \in Others : lacked'[o] <= lacked[o] /\ had'[o] <= had[o] BY <2>1, <2>3
    <2>. QED BY <1>0, <1>3, <2>1, <2>2, <2>5, <2>7, <2>8, <2>9, StageMoves
  <1>8. CASE KeepCape(c, p)
    <2>1. /\ look[c][p] = "keep" /\ capeCall' = capeCall /\ plan' = plan /\ lacked' = lacked
          /\ had' = had /\ missing' = missing /\ Reaches(c, p, "found")
          /\ kept' = [kept EXCEPT ![p] = CapeTtl] \/ kept' = kept
      BY <1>8 DEF KeepCape
    <2>2. look[c][p] \notin Settled3 \cup {"none"} BY <2>1 DEF Settled3
    <2>3. /\ missing \in [Others -> Nat] /\ kept \in [Others -> Nat] /\ RemembersOK /\ MemoryTyped
          /\ lacked \in [Others -> Nat] /\ had \in [Others -> Nat]
      BY DEF CapeInv, MemoryTyped
    <2>4. kept' \in [Others -> Nat]
          /\ \A o \in Others : kept'[o] = kept[o] \/ (o = p /\ kept'[o] = CapeTtl)
      <3>1. CASE kept' = [kept EXCEPT ![p] = CapeTtl] BY <1>1, <2>3, <3>1
      <3>2. CASE kept' = kept BY <2>3, <3>2
      <3>. QED BY <2>1, <3>1, <3>2
    <2>5. MemoryTyped' BY <2>1, <2>3, <2>4 DEF MemoryTyped
    <2>6. had[p] <= CapeTtl - CapeTtl + MaxFetch BY <1>1, <1>2, <2>1
    <2>7. RemembersOK' BY <2>1, <2>3, <2>4, <2>6 DEF RemembersOK
    <2>8. had[p] < CapeTtl + MaxFetch + age BY <1>1, <1>2, <2>1
    <2>9. \A o \in Others : lacked'[o] <= lacked[o] /\ had'[o] <= had[o] BY <2>1, <2>3
    <2>. QED BY <1>0, <1>3, <2>1, <2>2, <2>5, <2>7, <2>8, <2>9, StageMoves
  <1>. QED BY <1>4, <1>5, <1>6, <1>7, <1>8

\* What the places of a stage say of the call.
LEMMA PlacesOf ==
  ASSUME CapeInv, NEW c \in Calls, NEW stage
  PROVE  /\ Places(c, stage) = {} <=> \A p \in ToSet(Order) : look[c][p] # stage
         /\ Places(c, stage) # {} =>
              \E n \in DOMAIN Order :
                /\ FirstAt(c, stage) = Order[n] /\ look[c][Order[n]] = stage
                /\ \A j \in 1 .. n - 1 : look[c][Order[j]] # stage
  <1>1. Places(c, stage) = {} <=> \A p \in ToSet(Order) : look[c][p] # stage
    BY OrderIs DEF Places
  <1>2. ASSUME Places(c, stage) # {}
        PROVE  \E n \in DOMAIN Order :
                 /\ FirstAt(c, stage) = Order[n] /\ look[c][Order[n]] = stage
                 /\ \A j \in 1 .. n - 1 : look[c][Order[j]] # stage
    <2>. DEFINE S == Places(c, stage)
                n == Min(S)
    <2>1. S \in SUBSET Nat /\ S # {} BY <1>2, OrderIs DEF Places
    <2>. HIDE DEF S
    <2>2. n \in S /\ \A k \in S : n <= k BY <2>1, LeastOf
    <2>3. n \in DOMAIN Order /\ look[c][Order[n]] = stage BY <2>2 DEF S, Places
    <2>4. FirstAt(c, stage) = Order[n] BY DEF FirstAt, S
    <2>. HIDE DEF n
    <2>5. ASSUME NEW j \in 1 .. n - 1 PROVE look[c][Order[j]] # stage
      <3>1. j \in DOMAIN Order /\ ~ (n <= j) BY <2>3, OrderIs
      <3>2. j \notin S BY <2>2, <3>1
      <3>. QED BY <3>1, <3>2 DEF S, Places
    <2>. QED BY <2>3, <2>4, <2>5
  <1>. QED BY <1>1, <1>2

\* A call is answered: it knows no more than before, and all it has asked is settled.
LEMMA AnswerStep ==
  ASSUME CapeInv, NEW c \in Calls, NEW out \in CapeReplies \cup ToSet(Order),
         capeCall[c].kind # "none", capeCall[c].out = "none", Pending(c) = {}, CapeAnswers(c, out), CachesStand,
         AnswerOK(look[c], [capeCall[c] EXCEPT !.out = out])
  PROVE  CapeInv'
  <1>. DEFINE q == [capeCall[c] EXCEPT !.out = out]
              l == look[c]
  <1>1. /\ look \in [Calls -> CapeLooks] /\ capeCall \in [Calls -> CapeCalls] /\ l \in CapeLooks
        /\ capeCall[c] \in CapeCalls /\ CapeCallOK(l, capeCall[c], lacked, had)
    BY DEF CapeInv
  <1>2. capeCall' = [capeCall EXCEPT ![c] = q] /\ look' = [look EXCEPT ![c] = l]
    BY <1>1 DEF CapeAnswers
  <1>3. q \in CapeCalls /\ q.kind = capeCall[c].kind /\ q.age = capeCall[c].age /\ q.out = out
    BY <1>1 DEF CapeCalls
  <1>4. SettledOf(l) BY DEF Pending, SettledOf
  <1>5. TurnOK(l, q) BY <1>1, <1>3, <1>4 DEF CapeCallOK, TurnOK
  <1>6. lacked' = lacked /\ had' = had BY DEF CachesStand
  <1>7. KnowsOK(l, q, lacked', had')
    <2>1. \A p \in Others : l[p] # "note" /\ l[p] # "keep"
      BY <1>4, OthersAre DEF SettledOf, Settled3
    <2>. QED BY <1>1, <1>3, <1>6, <2>1 DEF CapeCallOK, KnowsOK
  <1>8. CapeCallOK(l, q, lacked', had') BY <1>1, <1>3, <1>5, <1>7 DEF CapeCallOK
  <1>. QED BY <1>2, <1>8, CallMoves, MemoryStands

\* One that asks more of its providers.
LEMMA AskStep ==
  ASSUME CapeInv, NEW c \in Calls, NEW l \in CapeLooks, NEW kind \in {"find", "render"},
         kind = capeCall[c].kind, capeCall[c].out = "none", Pending(c) = {},
         look' = [look EXCEPT ![c] = l], capeCall' = capeCall, CachesStand,
         \A p \in ToSet(Order) : l[p] = look[c][p] \/ l[p] = "begun",
         TurnOK(l, capeCall[c])
  PROVE  CapeInv'
  <1>. DEFINE q == capeCall[c]
              old == look[c]
  <1>1. capeCall \in [Calls -> CapeCalls] /\ CapeCallOK(old, q, lacked, had) BY DEF CapeInv
  <1>2. capeCall' = [capeCall EXCEPT ![c] = q] BY <1>1
  <1>3. lacked' = lacked /\ had' = had BY DEF CachesStand
  <1>4. KnowsOK(l, q, lacked', had')
    <2>1. \A p \in Others : l[p] = old[p] \/ l[p] = "begun" BY OthersAre
    <2>. QED BY <1>1, <1>3, <2>1 DEF CapeCallOK, KnowsOK
  <1>5. AnswerOK(l, q)
    <2>1. \A k \in DOMAIN Order : q.out # Order[k]
      BY OrderIs, NoProviderIsAReply DEF CapeReplies
    <2>. QED BY <2>1 DEF AnswerOK
  <1>6. CapeCallOK(l, q, lacked', had') BY <1>1, <1>4, <1>5 DEF CapeCallOK
  <1>. QED BY <1>2, <1>6, CallMoves, MemoryStands

\* A call that has heard from all it asked is answered, or asks on.
LEMMA DecideStep ==
  ASSUME CapeInv, NEW c \in Calls, Decides(c)
  PROVE  CapeInv'
  <1>. DEFINE q == capeCall[c]
              old == look[c]
  <1>1. /\ q.kind # "none" /\ q.out = "none" /\ Pending(c) = {} /\ CachesStand
        /\ q.kind \in {"find", "findOf"} => NextProvider(c)
        /\ q.kind = "render" => OtherProviders(c)
        /\ q.kind = "overview" => CapeAnswers(c, "listed")
    BY DEF Decides
  <1>2. /\ q \in CapeCalls /\ old \in CapeLooks /\ look \in [Calls -> CapeLooks]
        /\ CapeCallOK(old, q, lacked, had) /\ TurnOK(old, q)
        /\ q.kind \in {"find", "findOf", "render", "overview"}
    BY <1>1 DEF CapeInv, CapeCallOK, CapeCalls, CapeKinds
  <1>3. \A p \in ToSet(Order) : old[p] \in {"found", "missing", "failed", "none"}
    BY <1>1 DEF Pending, Settled3
  <1>4. \A out \in CapeReplies \cup ToSet(Order) :
          [q EXCEPT !.out = out].out = out /\ [q EXCEPT !.out = out].kind = q.kind
    BY <1>2 DEF CapeCalls
  <1>5. \A out \in CapeReplies : \A k \in DOMAIN Order : out # Order[k]
    BY OrderIs, NoProviderIsAReply
  <1>6. ASSUME NEW out \in {"unavailable", "listed"}, CapeAnswers(c, out) PROVE CapeInv'
    <2>1. out \in CapeReplies /\ out \notin {"plain", "not-found"} BY <1>6 DEF CapeReplies
    <2>2. AnswerOK(old, [q EXCEPT !.out = out]) BY <1>4, <1>5, <2>1 DEF AnswerOK
    <2>. QED BY <1>1, <1>6, <2>1, <2>2, AnswerStep
  <1>7. ASSUME Places(c, "found") # {}, CapeAnswers(c, FirstAt(c, "found")), q.kind # "overview"
        PROVE  CapeInv'
    <2>1. PICK n \in DOMAIN Order :
            /\ FirstAt(c, "found") = Order[n] /\ old[Order[n]] = "found"
            /\ \A j \in 1 .. n - 1 : old[Order[j]] # "found"
      BY <1>7, PlacesOf
    <2>. DEFINE out == Order[n]
    <2>2. out \in ToSet(Order) BY OrderIs
    <2>3. out \notin CapeReplies BY <2>2, NoProviderIsAReply
    <2>4. ASSUME NEW j \in 1 .. n - 1, q.kind = "find" PROVE old[Order[j]] = "missing"
      BY <1>2, <2>1, <2>4 DEF TurnOK
    <2>5. ASSUME NEW j \in 1 .. n - 1, q.kind = "render" PROVE old[Order[j]] \in {"missing", "failed"}
      <3>1. j \in DOMAIN Order /\ j # n /\ Order[j] \in ToSet(Order) BY OrderIs
      <3>2. old[Order[j]] # "none"
        <4>1. n # 1 BY OrderIs
        <4>2. Order[n] \in Others BY <2>2, <4>1, OthersAre, OrderIs DEF Mojang
        <4>3. Order[j] = Mojang \/ Order[j] \in Others BY <3>1, OthersAre
        <4>. QED BY <1>2, <2>1, <2>5, <4>2, <4>3 DEF TurnOK
      <3>. QED BY <1>3, <2>1, <3>1, <3>2
    <2>6. AnswerOK(old, [q EXCEPT !.out = out])
      <3>1. \A k \in DOMAIN Order : out = Order[k] => k = n BY OrderIs
      <3>2. out \notin {"not-found", "plain"} BY <2>3 DEF CapeReplies
      <3>3. \A k \in DOMAIN Order : out = Order[k] /\ q.kind \in {"find", "render"} =>
              \A j \in 1 .. k - 1 :
                old[Order[j]] \in {"missing"} \cup (IF q.kind = "render" THEN {"failed"} ELSE {})
        BY <2>4, <2>5, <3>1
      <3>. HIDE DEF out
      <3>. QED BY <1>4, <2>2, <3>2, <3>3 DEF AnswerOK
    <2>. QED BY <1>1, <1>7, <2>1, <2>2, <2>6, AnswerStep
  <1>8. ASSUME Places(c, "found") = {}, Places(c, "failed") = {}, CapeAnswers(c, "not-found")
        PROVE  CapeInv'
    <2>1. "not-found" \in CapeReplies BY DEF CapeReplies
    <2>2. \A p \in ToSet(Order) : old[p] # "found" /\ old[p] # "failed" BY <1>8, PlacesOf
    <2>3. AnswerOK(old, [q EXCEPT !.out = "not-found"]) BY <1>4, <1>5, <2>1, <2>2 DEF AnswerOK
    <2>. QED BY <1>1, <1>8, <2>1, <2>3, AnswerStep
  <1>9. ASSUME Places(c, "found") = {}, Places(c, "none") = {}, CapeAnswers(c, "plain")
        PROVE  CapeInv'
    <2>1. "plain" \in CapeReplies BY DEF CapeReplies
    <2>2. \A p \in ToSet(Order) : old[p] # "found" /\ old[p] # "none" BY <1>9, PlacesOf
    <2>3. AnswerOK(old, [q EXCEPT !.out = "plain"]) BY <1>4, <1>5, <2>1, <2>2 DEF AnswerOK
    <2>. QED BY <1>1, <1>9, <2>1, <2>3, AnswerStep
  <1>10. ASSUME q.kind = "find", Places(c, "found") = {}, Places(c, "failed") = {},
                Places(c, "none") # {}, Reaches(c, FirstAt(c, "none"), "begun"), capeCall' = capeCall
         PROVE  CapeInv'
    <2>1. PICK n \in DOMAIN Order :
            /\ FirstAt(c, "none") = Order[n] /\ old[Order[n]] = "none"
            /\ \A j \in 1 .. n - 1 : old[Order[j]] # "none"
      BY <1>10, PlacesOf
    <2>. DEFINE l == [old EXCEPT ![Order[n]] = "begun"]
    <2>2. look' = [look EXCEPT ![c] = l] BY <1>2, <1>10, <2>1 DEF Reaches
    <2>3. Order[n] \in ToSet(Order) BY OrderIs
    <2>4. /\ l \in CapeLooks /\ l[Order[n]] = "begun"
          /\ \A p \in ToSet(Order) : p # Order[n] => l[p] = old[p]
      BY <1>2, <2>3 DEF CapeLooks, CapeStages
    <2>. HIDE DEF l
    <2>5. \A p \in ToSet(Order) : old[p] \in {"missing", "none"} BY <1>3, <1>10, PlacesOf
    <2>6. ASSUME NEW k \in DOMAIN Order, NEW j \in 1 .. k - 1, l[Order[k]] # "none"
          PROVE  l[Order[j]] = "missing"
      <3>1. j \in DOMAIN Order /\ Order[j] \in ToSet(Order) /\ Order[k] \in ToSet(Order) BY OrderIs
      <3>2. old[Order[j]] = "missing"
        <4>1. CASE k = n BY <2>1, <2>5, <3>1, <4>1
        <4>2. CASE k # n
          <5>1. old[Order[k]] # "none" BY <2>4, <2>6, <3>1, <4>2, OrderIs
          <5>. QED BY <1>2, <1>10, <5>1 DEF TurnOK
        <4>. QED BY <4>1, <4>2
      <3>3. Order[j] # Order[n] BY <2>1, <3>2
      <3>. QED BY <2>4, <3>1, <3>2, <3>3
    <2>7. TurnOK(l, q) BY <1>1, <1>10, <2>6 DEF TurnOK
    <2>8. \A p \in ToSet(Order) : l[p] = old[p] \/ l[p] = "begun" BY <2>4
    <2>. QED BY <1>1, <1>10, <2>2, <2>4, <2>7, <2>8, AskStep
  <1>11. ASSUME q.kind = "render", capeCall' = capeCall,
                look' = [look EXCEPT ![c] = [p \in ToSet(Order) |->
                                               IF p = Mojang THEN look[c][p] ELSE "begun"]]
         PROVE  CapeInv'
    <2>. DEFINE l == [p \in ToSet(Order) |-> IF p = Mojang THEN old[p] ELSE "begun"]
    <2>1. /\ l \in CapeLooks
          /\ \A p \in ToSet(Order) : l[p] = IF p = Mojang THEN old[p] ELSE "begun"
      BY <1>2 DEF CapeLooks, CapeStages
    <2>2. look' = [look EXCEPT ![c] = l] BY <1>11
    <2>. HIDE DEF l
    <2>3. TurnOK(l, q)
      <3>1. l[Mojang] # "none" BY <1>2, <1>11, <2>1, OrderIs DEF TurnOK
      <3>2. \A p \in Others : l[p] = "begun" BY <2>1, OthersAre
      <3>. QED BY <1>1, <1>11, <3>1, <3>2 DEF TurnOK
    <2>4. \A p \in ToSet(Order) : l[p] = old[p] \/ l[p] = "begun" BY <2>1
    <2>. QED BY <1>1, <1>11, <2>1, <2>2, <2>3, <2>4, AskStep
  <1>12. CASE q.kind \in {"find", "findOf"}
    <2>1. NextProvider(c) BY <1>1, <1>12
    <2>2. q.kind # "findOf" => q.kind = "find" BY <1>12
    <2>. QED BY <1>6, <1>7, <1>8, <1>10, <1>12, <2>1, <2>2 DEF NextProvider
  <1>13. CASE q.kind = "render"
    <2>1. OtherProviders(c) BY <1>1, <1>13
    <2>. QED BY <1>7, <1>9, <1>11, <1>13, <2>1 DEF OtherProviders
  <1>14. CASE q.kind = "overview" BY <1>1, <1>6, <1>14
  <1>. QED BY <1>2, <1>12, <1>13, <1>14

\* A tick: what is remembered goes on for as much less as its age is more.
LEMMA CapeTickStep ==
  ASSUME CapeInv, CapeTick
  PROVE  CapeInv'
  <1>0. MissingTtl \in Nat \ {0} /\ CapeTtl \in Nat \ {0} /\ MaxFetch \in Nat BY CapeNumbers
  <1>1. LongAgo \in Nat BY <1>0 DEF LongAgo
  <1>2. \A a \in Nat : Older(a) \in Nat /\ Older(a) <= a + 1 BY <1>1 DEF Older
  <1>3. \A t \in Nat : Shorter(t) \in Nat /\ (Shorter(t) > 0 => t = Shorter(t) + 1) BY DEF Shorter
  <1>4. MemoryTyped /\ RemembersOK BY DEF CapeInv
  <1>5. \A p \in Others :
          /\ lacked[p] \in Nat /\ had[p] \in Nat /\ missing[p] \in Nat /\ kept[p] \in Nat
          /\ lacked'[p] = Older(lacked[p]) /\ had'[p] = Older(had[p])
          /\ missing'[p] = Shorter(missing[p]) /\ kept'[p] = Shorter(kept[p])
    BY <1>4 DEF CapeTick, MemoryTyped
  <1>6. MemoryTyped' BY <1>2, <1>3, <1>5 DEF CapeTick, MemoryTyped
  <1>7. \A p \in Others :
          /\ lacked'[p] \in Nat /\ lacked'[p] <= lacked[p] + 1
          /\ had'[p] \in Nat /\ had'[p] <= had[p] + 1
          /\ missing'[p] \in Nat /\ (missing'[p] > 0 => missing[p] = missing'[p] + 1)
          /\ kept'[p] \in Nat /\ (kept'[p] > 0 => kept[p] = kept'[p] + 1)
    BY <1>2, <1>3, <1>5
  <1>8. RemembersOK'
    <2>. SUFFICES ASSUME NEW p \in Others
                  PROVE  /\ missing'[p] > 0 => lacked'[p] <= MissingTtl - missing'[p] + MaxFetch
                         /\ kept'[p] > 0 => had'[p] <= CapeTtl - kept'[p] + MaxFetch
      BY DEF RemembersOK
    <2>1. /\ missing[p] > 0 => lacked[p] <= MissingTtl - missing[p] + MaxFetch
          /\ kept[p] > 0 => had[p] <= CapeTtl - kept[p] + MaxFetch
      BY <1>4 DEF RemembersOK
    <2>. QED BY <1>0, <1>5, <1>7, <2>1
  <1>9. ASSUME NEW c \in Calls
        PROVE  capeCall'[c] \in CapeCalls /\ CapeCallOK(look'[c], capeCall'[c], lacked', had')
    <2>. DEFINE q == capeCall[c]
                l == look[c]
    <2>1. q \in CapeCalls /\ CapeCallOK(l, q, lacked, had) /\ q.age \in Nat /\ q.age <= MaxFetch
      BY <1>0 DEF CapeInv, CapeCalls
    <2>2. look' = look BY DEF CapeTick
    <2>3. CASE UnderWay(c)
      <3>. DEFINE y == [q EXCEPT !.age = q.age + 1]
      <3>1. capeCall'[c] = y /\ q.age < MaxFetch BY <2>3 DEF CapeTick
      <3>2. q.age + 1 \in 0 .. MaxFetch BY <1>0, <2>1, <3>1
      <3>3. y \in CapeCalls /\ y.kind = q.kind /\ y.out = q.out /\ y.age = q.age + 1
        BY <2>1, <3>2 DEF CapeCalls
      <3>. HIDE DEF y
      <3>4. TurnOK(l, y) /\ AnswerOK(l, y) BY <2>1, <3>3 DEF CapeCallOK, TurnOK, AnswerOK
      <3>5. KnowsOK(l, y, lacked', had')
        <4>. SUFFICES ASSUME NEW p \in Others
                      PROVE  /\ l[p] = "note" => lacked'[p] <= q.age + 1
                             /\ l[p] = "keep" => had'[p] <= q.age + 1
                             /\ q.kind # "none" /\ q.out = "none" =>
                                  /\ l[p] = "missing" => lacked'[p] < MissingTtl + MaxFetch + (q.age + 1)
                                  /\ l[p] = "found" => had'[p] < CapeTtl + MaxFetch + (q.age + 1)
          BY <3>3 DEF KnowsOK
        <4>1. /\ l[p] = "note" => lacked[p] <= q.age
              /\ l[p] = "keep" => had[p] <= q.age
              /\ q.kind # "none" /\ q.out = "none" =>
                   /\ l[p] = "missing" => lacked[p] < MissingTtl + MaxFetch + q.age
                   /\ l[p] = "found" => had[p] < CapeTtl + MaxFetch + q.age
          BY <2>1 DEF CapeCallOK, KnowsOK
        <4>. QED BY <1>0, <1>5, <1>7, <2>1, <4>1
      <3>. QED BY <2>1, <2>2, <3>1, <3>3, <3>4, <3>5 DEF CapeCallOK
    <2>4. CASE ~ UnderWay(c)
      <3>1. capeCall'[c] = q BY <2>4 DEF CapeTick
      <3>2. \A p \in Others : l[p] # "note" /\ l[p] # "keep"
        BY <2>1, <2>4, OthersAre DEF CapeCallOK, TurnOK, SettledOf, Settled3, UnderWay
      <3>3. KnowsOK(l, q, lacked', had') BY <2>4, <3>2 DEF KnowsOK, UnderWay
      <3>. QED BY <2>1, <2>2, <3>1, <3>3 DEF CapeCallOK
    <2>. QED BY <2>3, <2>4
  <1>10. capeCall' \in [Calls -> CapeCalls] BY <1>9 DEF CapeTick
  <1>. QED BY <1>6, <1>8, <1>9, <1>10 DEF CapeInv, CapeTick

LEMMA CapeInvInit == CapesInit => CapeInv
  <1>. SUFFICES ASSUME CapesInit PROVE CapeInv OBVIOUS
  <1>0. MissingTtl \in Nat \ {0} /\ CapeTtl \in Nat \ {0} /\ MaxFetch \in Nat BY CapeNumbers
  <1>1. LongAgo \in Nat BY <1>0 DEF LongAgo
  <1>2. MemoryTyped BY <1>1 DEF CapesInit, MemoryTyped
  <1>3. RemembersOK BY DEF CapesInit, RemembersOK
  <1>4. ASSUME NEW c \in Calls
        PROVE  /\ look[c] \in CapeLooks /\ capeCall[c] \in CapeCalls
               /\ CapeCallOK(look[c], capeCall[c], lacked, had)
    <2>1. look[c] = [p \in ToSet(Order) |-> "none"] /\ capeCall[c] = [kind |-> "none", out |-> "none", age |-> 0]
      BY DEF CapesInit
    <2>2. look[c] \in CapeLooks /\ \A p \in ToSet(Order) : look[c][p] = "none"
      BY <2>1 DEF CapeLooks, CapeStages
    <2>3. capeCall[c] \in CapeCalls /\ capeCall[c].kind = "none" /\ capeCall[c].out = "none"
      BY <1>0, <2>1 DEF CapeCalls, CapeKinds, CapeReplies
    <2>4. KnowsOK(look[c], capeCall[c], lacked, had) BY <2>2, <2>3, OthersAre DEF KnowsOK
    <2>5. TurnOK(look[c], capeCall[c]) BY <2>2, <2>3 DEF TurnOK
    <2>6. AnswerOK(look[c], capeCall[c]) BY <2>3 DEF AnswerOK
    <2>. QED BY <2>2, <2>3, <2>4, <2>5, <2>6 DEF CapeCallOK
  <1>5. look \in [Calls -> CapeLooks] /\ capeCall \in [Calls -> CapeCalls] BY <1>4 DEF CapesInit
  <1>. QED BY <1>2, <1>3, <1>4, <1>5 DEF CapeInv, CapesInit

\* Each step of a call, of the player, and a tick.
LEMMA CapeInvStep == CapeInv /\ [CapesNext]_capeVars => CapeInv'
  <1>. SUFFICES ASSUME CapeInv, [CapesNext]_capeVars PROVE CapeInv' OBVIOUS
  <1>1. ASSUME NEW c \in Calls, FindCape(c) \/ FindCapeOf(c) \/ FindAvailableCapes(c) \/ RenderWithCape(c)
        PROVE  CapeInv'
    <2>1. {"find", "findOf", "overview", "render"} \subseteq CapeKinds \ {"none"} BY DEF CapeKinds
    <2>2. CASE FindCape(c) BY <2>1, <2>2, SeekStep DEF FindCape, Asked
    <2>3. CASE FindCapeOf(c) BY <2>1, <2>3, SeekStep DEF FindCapeOf
    <2>4. CASE FindAvailableCapes(c) BY <2>1, <2>4, SeekStep DEF FindAvailableCapes
    <2>5. CASE RenderWithCape(c) BY <2>1, <2>5, SeekStep DEF RenderWithCape, Asked
    <2>. QED BY <1>1, <2>2, <2>3, <2>4, <2>5
  <1>2. ASSUME NEW c \in Calls, MojangCape(c) PROVE CapeInv' BY <1>2, MojangStep
  <1>3. ASSUME NEW c \in Calls, Decides(c) PROVE CapeInv' BY <1>3, DecideStep
  <1>4. ASSUME NEW c \in Calls, NEW p \in Others,
               ReadMissing(c, p) \/ ReadKept(c, p) \/ FetchCape(c, p) \/ NoteMissing(c, p) \/ KeepCape(c, p)
        PROVE  CapeInv'
    BY <1>4, OtherStep
  <1>5. ASSUME NEW p \in Others, CapeChanges(p) PROVE CapeInv'
    BY <1>5 DEF CapeChanges, CapeInv, MemoryTyped, RemembersOK
  <1>6. CASE CapeTick BY <1>6, CapeTickStep
  <1>7. CASE UNCHANGED capeVars BY <1>7 DEF capeVars, CapeInv, MemoryTyped, RemembersOK
  <1>. QED BY <1>1, <1>2, <1>3, <1>4, <1>5, <1>6, <1>7 DEF CapesNext

\* What each call knows of each provider, at every step of any number of calls.
THEOREM CapeInvariant == CapesSpec => []CapeInv
  BY CapeInvInit, CapeInvStep, PTL DEF CapesSpec

LEMMA CapesFromInv == CapeInv => CapesAreTrue
  <1>. SUFFICES ASSUME CapeInv PROVE CapesAreTrue OBVIOUS
  <1>1. MemoryIsRecent BY DEF CapeInv, RemembersOK, CapeCallOK, KnowsOK, UnderWay, MemoryIsRecent
  <1>2. FirstOfThoseWhoHave BY DEF CapeInv, CapeCallOK, AnswerOK, FirstOfThoseWhoHave
  <1>3. NoneIsMissed
    <2>. SUFFICES ASSUME NEW c \in Calls
                  PROVE  /\ capeCall[c].out = "not-found" => Places(c, "failed") = {}
                         /\ capeCall[c].out \in {"plain", "not-found"} =>
                              Places(c, "found") = {} /\ Pending(c) = {}
                         /\ capeCall[c].out = "plain" => Places(c, "none") = {}
      BY DEF NoneIsMissed
    <2>1. TurnOK(look[c], capeCall[c]) /\ AnswerOK(look[c], capeCall[c]) BY DEF CapeInv, CapeCallOK
    <2>2. capeCall[c].out # "none" => Pending(c) = {} BY <2>1 DEF TurnOK, SettledOf, Pending
    <2>. QED BY <2>1, <2>2, PlacesOf DEF AnswerOK
  <1>. QED BY <1>1, <1>2, <1>3 DEF CapesAreTrue

\* Which cape is shown: the first of the providers that have one, in the order of
\* priority; that there is none only when all who were asked have said so; and no
\* answer is remembered for longer than its time (service.ts: findCape, resolveCape,
\* resolveRenderCape, thirdPartyCapeBody).
THEOREM CapesAlwaysTrue == CapesSpec => []CapesAreTrue
  BY CapeInvariant, CapesFromInv, PTL

--------------------------------------------------------------------------------
(* The atlas of a skin (Figure).                                           *)

\* The pixels of an atlas, by their coordinates.
LEMMA PixelIs ==
  ASSUME NEW x \in Int, NEW y \in Int, NEW u \in Int, NEW v \in Int, NEW w \in Int, NEW h \in Int
  PROVE  <<x, y>> \in Pixels(u, v, w, h) <=> u <= x /\ x < u + w /\ v <= y /\ y < v + h
  BY DEF Pixels

In(x, y, u, v, w, h) == u <= x /\ x < u + w /\ v <= y /\ y < v + h

\* A pixel of the faces of a box.
OnBox(b, x, y) ==
  \/ In(x, y, b.u + b.depth, b.v, b.width, b.depth)
  \/ In(x, y, b.u + b.depth + b.width, b.v, b.width, b.depth)
  \/ In(x, y, b.u, b.v + b.depth, b.depth, b.height)
  \/ In(x, y, b.u + b.depth, b.v + b.depth, b.width, b.height)
  \/ In(x, y, b.u + b.depth + b.width, b.v + b.depth, b.depth, b.height)
  \/ In(x, y, b.u + 2 * b.depth + b.width, b.v + b.depth, b.width, b.height)

Whole4(b) == b.u \in Int /\ b.v \in Int /\ b.width \in Int /\ b.height \in Int /\ b.depth \in Int

LEMMA BoxPixels ==
  ASSUME NEW b, Whole4(b), NEW q \in AllTexels(b)
  PROVE  \E x, y \in Int : q = <<x, y>> /\ OnBox(b, x, y)
  <1>1. PICK f \in Sides : q \in Texels(BoxFaces(b)[f]) BY DEF AllTexels
  <1>2. PICK u, v, w, h \in Int :
           /\ q \in Pixels(u, v, w, h)
           /\ \A x, y \in Int : In(x, y, u, v, w, h) => OnBox(b, x, y)
    <2>1. b.u \in Int /\ b.v \in Int /\ b.width \in Int /\ b.height \in Int /\ b.depth \in Int
      BY DEF Whole4
    <2>2. CASE f = "top"
      <3>1. q \in Pixels(b.u + b.depth, b.v, b.width, b.depth)
        BY <1>1, <2>2 DEF BoxFaces, Texels, TextureRect
      <3>2. \A x, y \in Int : In(x, y, b.u + b.depth, b.v, b.width, b.depth) => OnBox(b, x, y) BY DEF OnBox
      <3>. QED BY <2>1, <3>1, <3>2
    <2>3. CASE f = "bottom"
      <3>1. q \in Pixels(b.u + b.depth + b.width, b.v, b.width, b.depth)
        BY <1>1, <2>3 DEF BoxFaces, Texels, TextureRect
      <3>2. \A x, y \in Int : In(x, y, b.u + b.depth + b.width, b.v, b.width, b.depth) => OnBox(b, x, y) BY DEF OnBox
      <3>. QED BY <2>1, <3>1, <3>2
    <2>4. CASE f = "right"
      <3>1. q \in Pixels(b.u, b.v + b.depth, b.depth, b.height)
        BY <1>1, <2>4 DEF BoxFaces, Texels, TextureRect
      <3>2. \A x, y \in Int : In(x, y, b.u, b.v + b.depth, b.depth, b.height) => OnBox(b, x, y) BY DEF OnBox
      <3>. QED BY <2>1, <3>1, <3>2
    <2>5. CASE f = "front"
      <3>1. q \in Pixels(b.u + b.depth, b.v + b.depth, b.width, b.height)
        BY <1>1, <2>5 DEF BoxFaces, Texels, TextureRect
      <3>2. \A x, y \in Int : In(x, y, b.u + b.depth, b.v + b.depth, b.width, b.height) => OnBox(b, x, y) BY DEF OnBox
      <3>. QED BY <2>1, <3>1, <3>2
    <2>6. CASE f = "left"
      <3>1. q \in Pixels(b.u + b.depth + b.width, b.v + b.depth, b.depth, b.height)
        BY <1>1, <2>6 DEF BoxFaces, Texels, TextureRect
      <3>2. \A x, y \in Int : In(x, y, b.u + b.depth + b.width, b.v + b.depth, b.depth, b.height) => OnBox(b, x, y) BY DEF OnBox
      <3>. QED BY <2>1, <3>1, <3>2
    <2>7. CASE f = "back"
      <3>1. q \in Pixels(b.u + 2 * b.depth + b.width, b.v + b.depth, b.width, b.height)
        BY <1>1, <2>7 DEF BoxFaces, Texels, TextureRect
      <3>2. \A x, y \in Int : In(x, y, b.u + 2 * b.depth + b.width, b.v + b.depth, b.width, b.height) => OnBox(b, x, y) BY DEF OnBox
      <3>3. b.u + 2 * b.depth + b.width \in Int /\ b.v + b.depth \in Int BY <2>1
      <3>. QED BY <2>1, <3>1, <3>2, <3>3, Zenon
    <2>. QED BY <2>2, <2>3, <2>4, <2>5, <2>6, <2>7 DEF Sides
  <1>3. PICK x, y \in Int : q = <<x, y>> BY <1>2 DEF Pixels
  <1>4. In(x, y, u, v, w, h) BY <1>2, <1>3, PixelIs DEF In
  <1>. QED BY <1>2, <1>3, <1>4

\* What the parts of a model are.
PartIs(p, part, width, height, u, v, outerU, outerV) ==
  /\ p.part = part /\ p.width = width /\ p.height = height
  /\ p.depth = (IF part = "head" THEN 8 ELSE 4)
  /\ p.u = u /\ p.v = v /\ p.outerU = outerU /\ p.outerV = outerV

IsAPart(p, arm) ==
  \/ PartIs(p, "head", 8, 8, 0, 0, 32, 0)
  \/ PartIs(p, "torso", 8, 12, 16, 16, 16, 32)
  \/ PartIs(p, "rightArm", arm, 12, 40, 16, 40, 32)
  \/ PartIs(p, "leftArm", arm, 12, 32, 48, 48, 48)
  \/ PartIs(p, "rightLeg", 4, 12, 0, 16, 0, 32)
  \/ PartIs(p, "leftLeg", 4, 12, 16, 48, 0, 48)

\* The six parts of a model differ from one another, and between models in the arms.
LEMMA PartsAre ==
  ASSUME NEW model, NEW p \in PartsOf(model)
  PROVE  IsAPart(p, ArmWidth(model))
  <1>1. PICK arm \in {3, 4} : arm = ArmWidth(model) BY DEF ArmWidth
  <1>2. PICK i \in 1 .. 6 : p = Parts(model)[i] BY DEF PartsOf
  <1>3. i = 1 \/ i = 2 \/ i = 3 \/ i = 4 \/ i = 5 \/ i = 6 OBVIOUS
  <1>4. CASE i = 1 BY <1>1, <1>2, <1>4 DEF Parts, Part, PartIs, IsAPart
  <1>5. CASE i = 2 BY <1>1, <1>2, <1>5 DEF Parts, Part, PartIs, IsAPart
  <1>6. CASE i = 3 BY <1>1, <1>2, <1>6 DEF Parts, Part, PartIs, IsAPart
  <1>7. CASE i = 4 BY <1>1, <1>2, <1>7 DEF Parts, Part, PartIs, IsAPart
  <1>8. CASE i = 5 BY <1>1, <1>2, <1>8 DEF Parts, Part, PartIs, IsAPart
  <1>9. CASE i = 6 BY <1>1, <1>2, <1>9 DEF Parts, Part, PartIs, IsAPart
  <1>. QED BY <1>3, <1>4, <1>5, <1>6, <1>7, <1>8, <1>9

\* The names of the limbs are those of parts.
LEMMA LimbsAre ==
  \A part \in {"rightArm", "leftArm", "rightLeg", "leftLeg"} :
    \E p \in PartsOf("classic") : p.part = part
  <1>1. \A i \in 1 .. 6 : Parts("classic")[i] \in PartsOf("classic") BY DEF PartsOf
  <1>2. /\ Parts("classic")[3].part = "rightArm" /\ Parts("classic")[4].part = "leftArm"
        /\ Parts("classic")[5].part = "rightLeg" /\ Parts("classic")[6].part = "leftLeg"
    BY DEF Parts, Part
  <1>3. 3 \in 1 .. 6 /\ 4 \in 1 .. 6 /\ 5 \in 1 .. 6 /\ 6 \in 1 .. 6 OBVIOUS
  <1>. QED BY <1>1, <1>2, <1>3

BoxOf(u, v, width, height, depth) ==
  [u |-> u, v |-> v, width |-> width, height |-> height, depth |-> depth]

LEMMA BoxesAre ==
  ASSUME NEW p, NEW part, NEW width, NEW height, NEW u, NEW v, NEW outerU, NEW outerV,
         PartIs(p, part, width, height, u, v, outerU, outerV)
  PROVE  /\ Cuboid(p, "base").box
              = BoxOf(u, v, width, height, IF part = "head" THEN 8 ELSE 4)
         /\ Cuboid(p, "outer").box
              = BoxOf(outerU, outerV, width, height, IF part = "head" THEN 8 ELSE 4)
  BY DEF PartIs, Cuboid, BoxOf

--------------------------------------------------------------------------------
\* The regions of the atlas, by coordinates.
InBase(x, y) ==
  \/ In(x, y, 8, 0, 16, 8)   \/ In(x, y, 0, 8, 32, 8)
  \/ In(x, y, 20, 16, 16, 4) \/ In(x, y, 16, 20, 24, 12)
  \/ In(x, y, 44, 16, 8, 4)  \/ In(x, y, 40, 20, 16, 12)
  \/ In(x, y, 4, 16, 8, 4)   \/ In(x, y, 0, 20, 16, 12)
  \/ In(x, y, 36, 48, 8, 4)  \/ In(x, y, 32, 52, 16, 12)
  \/ In(x, y, 20, 48, 8, 4)  \/ In(x, y, 16, 52, 16, 12)

\* Where a skin is made opaque.
LEMMA BaseRegionsAre ==
  ASSUME NEW x \in Int, NEW y \in Int
  PROVE  InBaseRegions(<<x, y>>) <=> InBase(x, y)
  BY DEF InBaseRegions, InBase, Pixels, In

OnHelmet(x, y) == In(x, y, 32, 0, 32, 16)
InOuter(x, y) ==
  \/ In(x, y, 0, 32, 64, 16) \/ In(x, y, 0, 48, 16, 16) \/ In(x, y, 48, 48, 16, 16)

\* Where a skin saved without transparency loses its overlays.
LEMMA OuterRegionsAre ==
  ASSUME NEW x \in Int, NEW y \in Int, NEW legacy
  PROVE  InCompatibilityLayers(legacy, <<x, y>>) <=> OnHelmet(x, y) \/ (~legacy /\ InOuter(x, y))
  <1>1. \A u, v, w, h \in Int : <<x, y>> \in Pixels(u, v, w, h) <=> In(x, y, u, v, w, h)
    BY PixelIs DEF In
  <1>. QED BY <1>1 DEF InCompatibilityLayers, OnHelmet, InOuter

LEMMA AtlasIs ==
  ASSUME NEW x \in Int, NEW y \in Int
  PROVE  <<x, y>> \in Atlas <=> In(x, y, 0, 0, 64, 64)
  BY PixelIs DEF Atlas, In, SKIN_WIDTH


\* The base boxes, by coordinates.
LEMMA BasesAreInside ==
  ASSUME NEW arm \in {3, 4}, NEW x \in Int, NEW y \in Int,
         \/ OnBox(BoxOf(0, 0, 8, 8, 8), x, y)
         \/ OnBox(BoxOf(16, 16, 8, 12, 4), x, y)
         \/ OnBox(BoxOf(40, 16, arm, 12, 4), x, y)
         \/ OnBox(BoxOf(32, 48, arm, 12, 4), x, y)
         \/ OnBox(BoxOf(0, 16, 4, 12, 4), x, y)
         \/ OnBox(BoxOf(16, 48, 4, 12, 4), x, y)
  PROVE  In(x, y, 0, 0, 64, 64) /\ InBase(x, y)
  <1>1. CASE OnBox(BoxOf(0, 0, 8, 8, 8), x, y) BY <1>1 DEF OnBox, BoxOf, In, InBase
  <1>2. CASE OnBox(BoxOf(16, 16, 8, 12, 4), x, y) BY <1>2 DEF OnBox, BoxOf, In, InBase
  <1>3. CASE OnBox(BoxOf(40, 16, arm, 12, 4), x, y) BY <1>3 DEF OnBox, BoxOf, In, InBase
  <1>4. CASE OnBox(BoxOf(32, 48, arm, 12, 4), x, y) BY <1>4 DEF OnBox, BoxOf, In, InBase
  <1>5. CASE OnBox(BoxOf(0, 16, 4, 12, 4), x, y) BY <1>5 DEF OnBox, BoxOf, In, InBase
  <1>6. CASE OnBox(BoxOf(16, 48, 4, 12, 4), x, y) BY <1>6 DEF OnBox, BoxOf, In, InBase
  <1>. QED BY <1>1, <1>2, <1>3, <1>4, <1>5, <1>6

\* The outer boxes but the helmet are below the old layout, apart from the base boxes.
LEMMA OutersAreOutside ==
  ASSUME NEW arm \in {3, 4}, NEW x \in Int, NEW y \in Int,
         \/ OnBox(BoxOf(16, 32, 8, 12, 4), x, y)
         \/ OnBox(BoxOf(40, 32, arm, 12, 4), x, y)
         \/ OnBox(BoxOf(48, 48, arm, 12, 4), x, y)
         \/ OnBox(BoxOf(0, 32, 4, 12, 4), x, y)
         \/ OnBox(BoxOf(0, 48, 4, 12, 4), x, y)
  PROVE  In(x, y, 0, 32, 64, 32) /\ InOuter(x, y) /\ ~InBase(x, y)
  <1>1. CASE OnBox(BoxOf(16, 32, 8, 12, 4), x, y) BY <1>1 DEF OnBox, BoxOf, In, InBase, InOuter
  <1>2. CASE OnBox(BoxOf(40, 32, arm, 12, 4), x, y) BY <1>2 DEF OnBox, BoxOf, In, InBase, InOuter
  <1>3. CASE OnBox(BoxOf(48, 48, arm, 12, 4), x, y) BY <1>3 DEF OnBox, BoxOf, In, InBase, InOuter
  <1>4. CASE OnBox(BoxOf(0, 32, 4, 12, 4), x, y) BY <1>4 DEF OnBox, BoxOf, In, InBase, InOuter
  <1>5. CASE OnBox(BoxOf(0, 48, 4, 12, 4), x, y) BY <1>5 DEF OnBox, BoxOf, In, InBase, InOuter
  <1>. QED BY <1>1, <1>2, <1>3, <1>4, <1>5

\* The helmet is apart from the base boxes too, in the old layout already.
LEMMA HelmetIsOutside ==
  ASSUME NEW x \in Int, NEW y \in Int, OnBox(BoxOf(32, 0, 8, 8, 8), x, y)
  PROVE  In(x, y, 0, 0, 64, 32) /\ OnHelmet(x, y) /\ ~InBase(x, y)
  BY DEF OnBox, BoxOf, In, InBase, OnHelmet

LEMMA PixelsOfBox ==
  ASSUME NEW u \in Int, NEW v \in Int, NEW w \in Int, NEW h \in Int, NEW d \in Int,
         NEW q \in AllTexels(BoxOf(u, v, w, h, d))
  PROVE  \E x, y \in Int : q = <<x, y>> /\ OnBox(BoxOf(u, v, w, h, d), x, y)
  BY BoxPixels DEF Whole4, BoxOf

\* Every pixel of a base box is in a base region.
LEMMA BasesAreOpaque ==
  ASSUME NEW arm \in {3, 4}, NEW p, IsAPart(p, arm), NEW q \in AllTexels(Cuboid(p, "base").box)
  PROVE  q \in Atlas /\ InBaseRegions(q)
  <1> DEFINE Found(u, v, w, h, d) == \E x, y \in Int : q = <<x, y>> /\ OnBox(BoxOf(u, v, w, h, d), x, y)
  <1>1. \/ Found(0, 0, 8, 8, 8) \/ Found(16, 16, 8, 12, 4) \/ Found(40, 16, arm, 12, 4)
        \/ Found(32, 48, arm, 12, 4) \/ Found(0, 16, 4, 12, 4) \/ Found(16, 48, 4, 12, 4)
    <2>1. CASE PartIs(p, "head", 8, 8, 0, 0, 32, 0)
      <3>1. Cuboid(p, "base").box = BoxOf(0, 0, 8, 8, 8) BY <2>1, BoxesAre
      <3>. QED BY <3>1, PixelsOfBox
    <2>2. CASE PartIs(p, "torso", 8, 12, 16, 16, 16, 32)
      <3>1. Cuboid(p, "base").box = BoxOf(16, 16, 8, 12, 4) BY <2>2, BoxesAre
      <3>. QED BY <3>1, PixelsOfBox
    <2>3. CASE PartIs(p, "rightArm", arm, 12, 40, 16, 40, 32)
      <3>1. Cuboid(p, "base").box = BoxOf(40, 16, arm, 12, 4) BY <2>3, BoxesAre
      <3>. QED BY <3>1, PixelsOfBox
    <2>4. CASE PartIs(p, "leftArm", arm, 12, 32, 48, 48, 48)
      <3>1. Cuboid(p, "base").box = BoxOf(32, 48, arm, 12, 4) BY <2>4, BoxesAre
      <3>. QED BY <3>1, PixelsOfBox
    <2>5. CASE PartIs(p, "rightLeg", 4, 12, 0, 16, 0, 32)
      <3>1. Cuboid(p, "base").box = BoxOf(0, 16, 4, 12, 4) BY <2>5, BoxesAre
      <3>. QED BY <3>1, PixelsOfBox
    <2>6. CASE PartIs(p, "leftLeg", 4, 12, 16, 48, 0, 48)
      <3>1. Cuboid(p, "base").box = BoxOf(16, 48, 4, 12, 4) BY <2>6, BoxesAre
      <3>. QED BY <3>1, PixelsOfBox
    <2>. QED BY <2>1, <2>2, <2>3, <2>4, <2>5, <2>6 DEF IsAPart
  <1>2. PICK x, y \in Int : q = <<x, y>> /\ In(x, y, 0, 0, 64, 64) /\ InBase(x, y)
    BY <1>1, BasesAreInside
  <1>. QED BY <1>2, AtlasIs, BaseRegionsAre

\* A pixel of an outer box: of the helmet, or of another below the old layout.
LEMMA OutersAreKept ==
  ASSUME NEW arm \in {3, 4}, NEW p, IsAPart(p, arm), NEW q \in AllTexels(Cuboid(p, "outer").box)
  PROVE  \E x, y \in Int :
           /\ q = <<x, y>> /\ ~InBase(x, y)
           /\ IF p.part = "head" THEN In(x, y, 0, 0, 64, 32) /\ OnHelmet(x, y)
              ELSE In(x, y, 0, 32, 64, 32) /\ InOuter(x, y)
  <1> DEFINE Found(u, v, w, h, d) == \E x, y \in Int : q = <<x, y>> /\ OnBox(BoxOf(u, v, w, h, d), x, y)
  <1>1. CASE PartIs(p, "head", 8, 8, 0, 0, 32, 0)
    <2>1. Cuboid(p, "outer").box = BoxOf(32, 0, 8, 8, 8) BY <1>1, BoxesAre
    <2>2. Found(32, 0, 8, 8, 8) BY <2>1, PixelsOfBox
    <2>3. p.part = "head" BY <1>1 DEF PartIs
    <2>. QED BY <2>2, <2>3, HelmetIsOutside
  <1>2. CASE ~PartIs(p, "head", 8, 8, 0, 0, 32, 0)
    <2>1. p.part # "head" BY <1>2 DEF IsAPart, PartIs
    <2>2. \/ Found(16, 32, 8, 12, 4) \/ Found(40, 32, arm, 12, 4) \/ Found(48, 48, arm, 12, 4)
          \/ Found(0, 32, 4, 12, 4) \/ Found(0, 48, 4, 12, 4)
      <3>2. CASE PartIs(p, "torso", 8, 12, 16, 16, 16, 32)
        <4>1. Cuboid(p, "outer").box = BoxOf(16, 32, 8, 12, 4) BY <3>2, BoxesAre
        <4>. QED BY <4>1, PixelsOfBox
      <3>3. CASE PartIs(p, "rightArm", arm, 12, 40, 16, 40, 32)
        <4>1. Cuboid(p, "outer").box = BoxOf(40, 32, arm, 12, 4) BY <3>3, BoxesAre
        <4>. QED BY <4>1, PixelsOfBox
      <3>4. CASE PartIs(p, "leftArm", arm, 12, 32, 48, 48, 48)
        <4>1. Cuboid(p, "outer").box = BoxOf(48, 48, arm, 12, 4) BY <3>4, BoxesAre
        <4>. QED BY <4>1, PixelsOfBox
      <3>5. CASE PartIs(p, "rightLeg", 4, 12, 0, 16, 0, 32)
        <4>1. Cuboid(p, "outer").box = BoxOf(0, 32, 4, 12, 4) BY <3>5, BoxesAre
        <4>. QED BY <4>1, PixelsOfBox
      <3>6. CASE PartIs(p, "leftLeg", 4, 12, 16, 48, 0, 48)
        <4>1. Cuboid(p, "outer").box = BoxOf(0, 48, 4, 12, 4) BY <3>6, BoxesAre
        <4>. QED BY <4>1, PixelsOfBox
      <3>. QED BY <1>2, <3>2, <3>3, <3>4, <3>5, <3>6 DEF IsAPart
    <2>. QED BY <2>1, <2>2, OutersAreOutside
  <1>. QED BY <1>1, <1>2

--------------------------------------------------------------------------------
\* The left limbs of the old layout.

\* A face of a limb and where it goes.
FaceIs(f, height, sourceX, sourceY, targetX, targetY) ==
  /\ f.height = height
  /\ f.source[1] = sourceX /\ f.source[2] = sourceY
  /\ f.target[1] = targetX /\ f.target[2] = targetY

LEMMA FacesAre ==
  ASSUME NEW f \in MirroredFaces
  PROVE  \/ FaceIs(f, 4, 4, 16, 20, 48) \/ FaceIs(f, 4, 8, 16, 24, 48)
         \/ FaceIs(f, 12, 0, 20, 24, 52) \/ FaceIs(f, 12, 4, 20, 20, 52)
         \/ FaceIs(f, 12, 8, 20, 16, 52) \/ FaceIs(f, 12, 12, 20, 28, 52)
         \/ FaceIs(f, 4, 44, 16, 36, 48) \/ FaceIs(f, 4, 48, 16, 40, 48)
         \/ FaceIs(f, 12, 40, 20, 40, 52) \/ FaceIs(f, 12, 44, 20, 36, 52)
         \/ FaceIs(f, 12, 48, 20, 32, 52) \/ FaceIs(f, 12, 52, 20, 44, 52)
  BY DEF MirroredFaces, Mirrored, FaceIs


\* A face by the pixel it goes to.
LEMMA CoveredAre ==
  ASSUME NEW x \in Int, NEW y \in Int, NEW f \in MirroredFaces, Covers(f, <<x, y>>)
  PROVE  \/ FaceIs(f, 4, 4, 16, 20, 48) /\ In(x, y, 20, 48, 4, 4)
         \/ FaceIs(f, 4, 8, 16, 24, 48) /\ In(x, y, 24, 48, 4, 4)
         \/ FaceIs(f, 12, 0, 20, 24, 52) /\ In(x, y, 24, 52, 4, 12)
         \/ FaceIs(f, 12, 4, 20, 20, 52) /\ In(x, y, 20, 52, 4, 12)
         \/ FaceIs(f, 12, 8, 20, 16, 52) /\ In(x, y, 16, 52, 4, 12)
         \/ FaceIs(f, 12, 12, 20, 28, 52) /\ In(x, y, 28, 52, 4, 12)
         \/ FaceIs(f, 4, 44, 16, 36, 48) /\ In(x, y, 36, 48, 4, 4)
         \/ FaceIs(f, 4, 48, 16, 40, 48) /\ In(x, y, 40, 48, 4, 4)
         \/ FaceIs(f, 12, 40, 20, 40, 52) /\ In(x, y, 40, 52, 4, 12)
         \/ FaceIs(f, 12, 44, 20, 36, 52) /\ In(x, y, 36, 52, 4, 12)
         \/ FaceIs(f, 12, 48, 20, 32, 52) /\ In(x, y, 32, 52, 4, 12)
         \/ FaceIs(f, 12, 52, 20, 44, 52) /\ In(x, y, 44, 52, 4, 12)
  <1>1. CASE FaceIs(f, 4, 4, 16, 20, 48)
    <2>1. <<x, y>> \in Pixels(20, 48, 4, 4) BY <1>1 DEF Covers, FaceIs
    <2>. QED BY <1>1, <2>1, PixelIs DEF In
  <1>2. CASE FaceIs(f, 4, 8, 16, 24, 48)
    <2>1. <<x, y>> \in Pixels(24, 48, 4, 4) BY <1>2 DEF Covers, FaceIs
    <2>. QED BY <1>2, <2>1, PixelIs DEF In
  <1>3. CASE FaceIs(f, 12, 0, 20, 24, 52)
    <2>1. <<x, y>> \in Pixels(24, 52, 4, 12) BY <1>3 DEF Covers, FaceIs
    <2>. QED BY <1>3, <2>1, PixelIs DEF In
  <1>4. CASE FaceIs(f, 12, 4, 20, 20, 52)
    <2>1. <<x, y>> \in Pixels(20, 52, 4, 12) BY <1>4 DEF Covers, FaceIs
    <2>. QED BY <1>4, <2>1, PixelIs DEF In
  <1>5. CASE FaceIs(f, 12, 8, 20, 16, 52)
    <2>1. <<x, y>> \in Pixels(16, 52, 4, 12) BY <1>5 DEF Covers, FaceIs
    <2>. QED BY <1>5, <2>1, PixelIs DEF In
  <1>6. CASE FaceIs(f, 12, 12, 20, 28, 52)
    <2>1. <<x, y>> \in Pixels(28, 52, 4, 12) BY <1>6 DEF Covers, FaceIs
    <2>. QED BY <1>6, <2>1, PixelIs DEF In
  <1>7. CASE FaceIs(f, 4, 44, 16, 36, 48)
    <2>1. <<x, y>> \in Pixels(36, 48, 4, 4) BY <1>7 DEF Covers, FaceIs
    <2>. QED BY <1>7, <2>1, PixelIs DEF In
  <1>8. CASE FaceIs(f, 4, 48, 16, 40, 48)
    <2>1. <<x, y>> \in Pixels(40, 48, 4, 4) BY <1>8 DEF Covers, FaceIs
    <2>. QED BY <1>8, <2>1, PixelIs DEF In
  <1>9. CASE FaceIs(f, 12, 40, 20, 40, 52)
    <2>1. <<x, y>> \in Pixels(40, 52, 4, 12) BY <1>9 DEF Covers, FaceIs
    <2>. QED BY <1>9, <2>1, PixelIs DEF In
  <1>10. CASE FaceIs(f, 12, 44, 20, 36, 52)
    <2>1. <<x, y>> \in Pixels(36, 52, 4, 12) BY <1>10 DEF Covers, FaceIs
    <2>. QED BY <1>10, <2>1, PixelIs DEF In
  <1>11. CASE FaceIs(f, 12, 48, 20, 32, 52)
    <2>1. <<x, y>> \in Pixels(32, 52, 4, 12) BY <1>11 DEF Covers, FaceIs
    <2>. QED BY <1>11, <2>1, PixelIs DEF In
  <1>12. CASE FaceIs(f, 12, 52, 20, 44, 52)
    <2>1. <<x, y>> \in Pixels(44, 52, 4, 12) BY <1>12 DEF Covers, FaceIs
    <2>. QED BY <1>12, <2>1, PixelIs DEF In
  <1>. QED BY <1>1, <1>2, <1>3, <1>4, <1>5, <1>6, <1>7, <1>8, <1>9, <1>10, <1>11, <1>12, FacesAre

\* No two faces go to the same pixel.
LEMMA OneFaceCovers ==
  ASSUME NEW x \in Int, NEW y \in Int,
         NEW f \in MirroredFaces, NEW g \in MirroredFaces, Covers(f, <<x, y>>), Covers(g, <<x, y>>)
  PROVE  /\ f.source[1] = g.source[1] /\ f.source[2] = g.source[2]
         /\ f.target[1] = g.target[1] /\ f.target[2] = g.target[2]
  BY CoveredAre DEF FaceIs, In

\* Every pixel that a face goes to is in a base region.
LEMMA CoveredIsBase ==
  ASSUME NEW x \in Int, NEW y \in Int, NEW f \in MirroredFaces, Covers(f, <<x, y>>)
  PROVE  InBase(x, y)
  BY CoveredAre DEF In, InBase

\* A face is seen in a mirror where it goes.
LEMMA FacesAreMirrored ==
  ASSUME NEW x \in Int, NEW y \in Int, NEW f \in MirroredFaces, Covers(f, <<x, y>>)
  PROVE  NormalizeLegacySkin(<<x, y>>)
           = <<f.source[1] + 3 - (x - f.target[1]), f.source[2] + y - f.target[2]>>
  <1>1. PICK g \in MirroredFaces : g = CHOOSE k \in MirroredFaces : Covers(k, <<x, y>>) OBVIOUS
  <1>2. Covers(g, <<x, y>>) BY <1>1
  <1>3. NormalizeLegacySkin(<<x, y>>) = CopyAndMirror(g, <<x, y>>)
    BY <1>1 DEF NormalizeLegacySkin
  <1>. QED BY <1>2, <1>3, OneFaceCovers DEF CopyAndMirror

--------------------------------------------------------------------------------
\* The skins.

\* A skin without a veil is saved without transparency, and no other is.
LEMMA OpaqueIs ==
  ASSUME NEW a \in Orders
  PROVE  IsFullyOpaque(a.skin) <=> a.skin.veil = {}
  <1>1. a.skin.height \in {32, 64} /\ a.skin.veil \subseteq (0 .. 63) \X (0 .. a.skin.height - 1)
        /\ a.skin.thin # 255
    BY SkinsAssumption
  <1>2. Pixels(0, 0, SKIN_WIDTH, a.skin.height) = (0 .. 63) \X (0 .. a.skin.height - 1)
    BY <1>1 DEF Pixels, SKIN_WIDTH
  <1>. QED BY <1>1, <1>2 DEF IsFullyOpaque

LEMMA BasesArePainted ==
  ASSUME NEW a \in Orders, NEW model, NEW p \in PartsOf(model),
         NEW q \in AllTexels(Cuboid(p, "base").box)
  PROVE  q \in Atlas /\ Processed(a.skin, q) = 255
  <1>1. ArmWidth(model) \in {3, 4} BY DEF ArmWidth
  <1>2. IsAPart(p, ArmWidth(model)) BY PartsAre
  <1>. QED BY <1>1, <1>2, BasesAreOpaque DEF Processed

LEMMA OutersArePainted ==
  ASSUME NEW a \in Orders, NEW model, NEW p \in PartsOf(model),
         NEW q \in AllTexels(Cuboid(p, "outer").box)
  PROVE  /\ q \in Atlas
         /\ Processed(a.skin, q)
              = IF a.skin.veil = {} \/ (Legacy(a.skin) /\ p.part # "head")
                THEN 0 ELSE Alpha(a.skin, q)
  <1>1. ArmWidth(model) \in {3, 4} BY DEF ArmWidth
  <1>2. IsAPart(p, ArmWidth(model)) BY PartsAre
  <1>3. PICK x, y \in Int :
           /\ q = <<x, y>> /\ ~InBase(x, y)
           /\ IF p.part = "head" THEN In(x, y, 0, 0, 64, 32) /\ OnHelmet(x, y)
              ELSE In(x, y, 0, 32, 64, 32) /\ InOuter(x, y)
    BY <1>1, <1>2, OutersAreKept
  <1>4. In(x, y, 0, 0, 64, 64) BY <1>3 DEF In
  <1>5. q \in Atlas BY <1>3, <1>4, AtlasIs
  <1>6. Processed(a.skin, q) = Decoded(a.skin, q)
    BY <1>3, BaseRegionsAre DEF Processed
  <1>7. \A f \in MirroredFaces : ~Covers(f, q) BY <1>3, CoveredIsBase
  <1>8. q # Nowhere /\ (q[2] < 32 <=> p.part = "head")
    BY <1>3 DEF In, Nowhere
  <1>9. SourceOf(a.skin, q) = IF Legacy(a.skin) /\ p.part # "head" THEN Nowhere ELSE q
    BY <1>7, <1>8 DEF SourceOf, NormalizeLegacySkin
  <1>10. CASE Legacy(a.skin) /\ p.part # "head"
    BY <1>5, <1>6, <1>9, <1>10 DEF Decoded
  <1>11. CASE ~(Legacy(a.skin) /\ p.part # "head")
    <2>1. InCompatibilityLayers(Legacy(a.skin), q) BY <1>3, <1>11, OuterRegionsAre
    <2>. QED BY <1>5, <1>6, <1>8, <1>9, <1>11, <2>1, OpaqueIs DEF Decoded
  <1>. QED BY <1>10, <1>11

\* The boxes of the limbs.
LEMMA LimbBoxes ==
  /\ Box("leftArm", "base") = BoxOf(32, 48, 4, 12, 4)
  /\ Box("rightArm", "base") = BoxOf(40, 16, 4, 12, 4)
  /\ Box("leftLeg", "base") = BoxOf(16, 48, 4, 12, 4)
  /\ Box("rightLeg", "base") = BoxOf(0, 16, 4, 12, 4)
  <1>1. ArmWidth("classic") = 4 BY DEF ArmWidth
  <1>2. \A p \in PartsOf("classic") : IsAPart(p, 4) BY <1>1, PartsAre
  <1>3. ASSUME NEW part \in {"rightArm", "leftArm", "rightLeg", "leftLeg"}
        PROVE  \E p : /\ p.part = part /\ IsAPart(p, 4)
                      /\ Box(part, "base") = Cuboid(p, "base").box
    BY <1>2, LimbsAre DEF Box
  <1>4. PICK p : p.part = "leftArm" /\ IsAPart(p, 4) /\ Box("leftArm", "base") = Cuboid(p, "base").box
    BY <1>3
  <1>5. PICK r : r.part = "rightArm" /\ IsAPart(r, 4) /\ Box("rightArm", "base") = Cuboid(r, "base").box
    BY <1>3
  <1>6. PICK l : l.part = "leftLeg" /\ IsAPart(l, 4) /\ Box("leftLeg", "base") = Cuboid(l, "base").box
    BY <1>3
  <1>7. PICK g : g.part = "rightLeg" /\ IsAPart(g, 4) /\ Box("rightLeg", "base") = Cuboid(g, "base").box
    BY <1>3
  <1>8. Box("leftArm", "base") = BoxOf(32, 48, 4, 12, 4)
    <2>1. PartIs(p, "leftArm", 4, 12, 32, 48, 48, 48) BY <1>4 DEF IsAPart, PartIs
    <2>. QED BY <2>1, <1>4, BoxesAre
  <1>9. Box("rightArm", "base") = BoxOf(40, 16, 4, 12, 4)
    <2>1. PartIs(r, "rightArm", 4, 12, 40, 16, 40, 32) BY <1>5 DEF IsAPart, PartIs
    <2>. QED BY <2>1, <1>5, BoxesAre
  <1>10. Box("leftLeg", "base") = BoxOf(16, 48, 4, 12, 4)
    <2>1. PartIs(l, "leftLeg", 4, 12, 16, 48, 0, 48) BY <1>6 DEF IsAPart, PartIs
    <2>. QED BY <2>1, <1>6, BoxesAre
  <1>11. Box("rightLeg", "base") = BoxOf(0, 16, 4, 12, 4)
    <2>1. PartIs(g, "rightLeg", 4, 12, 0, 16, 0, 32) BY <1>7 DEF IsAPart, PartIs
    <2>. QED BY <2>1, <1>7, BoxesAre
  <1>. QED BY <1>8, <1>9, <1>10, <1>11

Limbs == {<<"leftArm", "rightArm">>, <<"leftLeg", "rightLeg">>}

\* A face of a left limb is where one of the right limb goes.
LEMMA FacesMeet ==
  ASSUME NEW limb \in Limbs, NEW f \in Sides
  PROVE  \E h, sx, sy, tx, ty \in Nat :
           /\ \E m \in MirroredFaces : FaceIs(m, h, sx, sy, tx, ty)
           /\ BoxFaces(Box(limb[1], "base"))[f] = TextureRect(tx, ty, 4, h)
           /\ BoxFaces(Box(limb[2], "base"))[OtherSide(f)] = TextureRect(sx, sy, 4, h)
  <1> DEFINE Found(h, sx, sy, tx, ty) == \E m \in MirroredFaces : FaceIs(m, h, sx, sy, tx, ty)
  <1>1. CASE limb = <<"leftArm", "rightArm">>
    <2>0. /\ Box(limb[1], "base") = BoxOf(32, 48, 4, 12, 4)
          /\ Box(limb[2], "base") = BoxOf(40, 16, 4, 12, 4)
      BY <1>1, LimbBoxes
    <2>1. CASE f = "top"
      <3>1. Found(4, 44, 16, 36, 48) BY DEF MirroredFaces, Mirrored, FaceIs
      <3>2. BoxFaces(BoxOf(32, 48, 4, 12, 4))[f] = TextureRect(36, 48, 4, 4)
        BY <2>1 DEF BoxFaces, BoxOf, TextureRect
      <3>3. BoxFaces(BoxOf(40, 16, 4, 12, 4))[OtherSide(f)] = TextureRect(44, 16, 4, 4)
        BY <2>1 DEF BoxFaces, BoxOf, TextureRect, OtherSide
      <3>. QED BY <2>0, <3>1, <3>2, <3>3
    <2>2. CASE f = "bottom"
      <3>1. Found(4, 48, 16, 40, 48) BY DEF MirroredFaces, Mirrored, FaceIs
      <3>2. BoxFaces(BoxOf(32, 48, 4, 12, 4))[f] = TextureRect(40, 48, 4, 4)
        BY <2>2 DEF BoxFaces, BoxOf, TextureRect
      <3>3. BoxFaces(BoxOf(40, 16, 4, 12, 4))[OtherSide(f)] = TextureRect(48, 16, 4, 4)
        BY <2>2 DEF BoxFaces, BoxOf, TextureRect, OtherSide
      <3>. QED BY <2>0, <3>1, <3>2, <3>3
    <2>3. CASE f = "right"
      <3>1. Found(12, 48, 20, 32, 52) BY DEF MirroredFaces, Mirrored, FaceIs
      <3>2. BoxFaces(BoxOf(32, 48, 4, 12, 4))[f] = TextureRect(32, 52, 4, 12)
        BY <2>3 DEF BoxFaces, BoxOf, TextureRect
      <3>3. BoxFaces(BoxOf(40, 16, 4, 12, 4))[OtherSide(f)] = TextureRect(48, 20, 4, 12)
        BY <2>3 DEF BoxFaces, BoxOf, TextureRect, OtherSide
      <3>. QED BY <2>0, <3>1, <3>2, <3>3
    <2>4. CASE f = "front"
      <3>1. Found(12, 44, 20, 36, 52) BY DEF MirroredFaces, Mirrored, FaceIs
      <3>2. BoxFaces(BoxOf(32, 48, 4, 12, 4))[f] = TextureRect(36, 52, 4, 12)
        BY <2>4 DEF BoxFaces, BoxOf, TextureRect
      <3>3. BoxFaces(BoxOf(40, 16, 4, 12, 4))[OtherSide(f)] = TextureRect(44, 20, 4, 12)
        BY <2>4 DEF BoxFaces, BoxOf, TextureRect, OtherSide
      <3>. QED BY <2>0, <3>1, <3>2, <3>3
    <2>5. CASE f = "left"
      <3>1. Found(12, 40, 20, 40, 52) BY DEF MirroredFaces, Mirrored, FaceIs
      <3>2. BoxFaces(BoxOf(32, 48, 4, 12, 4))[f] = TextureRect(40, 52, 4, 12)
        BY <2>5 DEF BoxFaces, BoxOf, TextureRect
      <3>3. BoxFaces(BoxOf(40, 16, 4, 12, 4))[OtherSide(f)] = TextureRect(40, 20, 4, 12)
        BY <2>5 DEF BoxFaces, BoxOf, TextureRect, OtherSide
      <3>. QED BY <2>0, <3>1, <3>2, <3>3
    <2>6. CASE f = "back"
      <3>1. Found(12, 52, 20, 44, 52) BY DEF MirroredFaces, Mirrored, FaceIs
      <3>2. BoxFaces(BoxOf(32, 48, 4, 12, 4))[f] = TextureRect(44, 52, 4, 12)
        BY <2>6 DEF BoxFaces, BoxOf, TextureRect
      <3>3. BoxFaces(BoxOf(40, 16, 4, 12, 4))[OtherSide(f)] = TextureRect(52, 20, 4, 12)
        BY <2>6 DEF BoxFaces, BoxOf, TextureRect, OtherSide
      <3>. QED BY <2>0, <3>1, <3>2, <3>3
    <2>. QED BY <2>1, <2>2, <2>3, <2>4, <2>5, <2>6 DEF Sides
  <1>2. CASE limb = <<"leftLeg", "rightLeg">>
    <2>0. /\ Box(limb[1], "base") = BoxOf(16, 48, 4, 12, 4)
          /\ Box(limb[2], "base") = BoxOf(0, 16, 4, 12, 4)
      BY <1>2, LimbBoxes
    <2>1. CASE f = "top"
      <3>1. Found(4, 4, 16, 20, 48) BY DEF MirroredFaces, Mirrored, FaceIs
      <3>2. BoxFaces(BoxOf(16, 48, 4, 12, 4))[f] = TextureRect(20, 48, 4, 4)
        BY <2>1 DEF BoxFaces, BoxOf, TextureRect
      <3>3. BoxFaces(BoxOf(0, 16, 4, 12, 4))[OtherSide(f)] = TextureRect(4, 16, 4, 4)
        BY <2>1 DEF BoxFaces, BoxOf, TextureRect, OtherSide
      <3>. QED BY <2>0, <3>1, <3>2, <3>3
    <2>2. CASE f = "bottom"
      <3>1. Found(4, 8, 16, 24, 48) BY DEF MirroredFaces, Mirrored, FaceIs
      <3>2. BoxFaces(BoxOf(16, 48, 4, 12, 4))[f] = TextureRect(24, 48, 4, 4)
        BY <2>2 DEF BoxFaces, BoxOf, TextureRect
      <3>3. BoxFaces(BoxOf(0, 16, 4, 12, 4))[OtherSide(f)] = TextureRect(8, 16, 4, 4)
        BY <2>2 DEF BoxFaces, BoxOf, TextureRect, OtherSide
      <3>. QED BY <2>0, <3>1, <3>2, <3>3
    <2>3. CASE f = "right"
      <3>1. Found(12, 8, 20, 16, 52) BY DEF MirroredFaces, Mirrored, FaceIs
      <3>2. BoxFaces(BoxOf(16, 48, 4, 12, 4))[f] = TextureRect(16, 52, 4, 12)
        BY <2>3 DEF BoxFaces, BoxOf, TextureRect
      <3>3. BoxFaces(BoxOf(0, 16, 4, 12, 4))[OtherSide(f)] = TextureRect(8, 20, 4, 12)
        BY <2>3 DEF BoxFaces, BoxOf, TextureRect, OtherSide
      <3>. QED BY <2>0, <3>1, <3>2, <3>3
    <2>4. CASE f = "front"
      <3>1. Found(12, 4, 20, 20, 52) BY DEF MirroredFaces, Mirrored, FaceIs
      <3>2. BoxFaces(BoxOf(16, 48, 4, 12, 4))[f] = TextureRect(20, 52, 4, 12)
        BY <2>4 DEF BoxFaces, BoxOf, TextureRect
      <3>3. BoxFaces(BoxOf(0, 16, 4, 12, 4))[OtherSide(f)] = TextureRect(4, 20, 4, 12)
        BY <2>4 DEF BoxFaces, BoxOf, TextureRect, OtherSide
      <3>. QED BY <2>0, <3>1, <3>2, <3>3
    <2>5. CASE f = "left"
      <3>1. Found(12, 0, 20, 24, 52) BY DEF MirroredFaces, Mirrored, FaceIs
      <3>2. BoxFaces(BoxOf(16, 48, 4, 12, 4))[f] = TextureRect(24, 52, 4, 12)
        BY <2>5 DEF BoxFaces, BoxOf, TextureRect
      <3>3. BoxFaces(BoxOf(0, 16, 4, 12, 4))[OtherSide(f)] = TextureRect(0, 20, 4, 12)
        BY <2>5 DEF BoxFaces, BoxOf, TextureRect, OtherSide
      <3>. QED BY <2>0, <3>1, <3>2, <3>3
    <2>6. CASE f = "back"
      <3>1. Found(12, 12, 20, 28, 52) BY DEF MirroredFaces, Mirrored, FaceIs
      <3>2. BoxFaces(BoxOf(16, 48, 4, 12, 4))[f] = TextureRect(28, 52, 4, 12)
        BY <2>6 DEF BoxFaces, BoxOf, TextureRect
      <3>3. BoxFaces(BoxOf(0, 16, 4, 12, 4))[OtherSide(f)] = TextureRect(12, 20, 4, 12)
        BY <2>6 DEF BoxFaces, BoxOf, TextureRect, OtherSide
      <3>. QED BY <2>0, <3>1, <3>2, <3>3
    <2>. QED BY <2>1, <2>2, <2>3, <2>4, <2>5, <2>6 DEF Sides
  <1>. QED BY <1>1, <1>2 DEF Limbs

\* normalizeLegacySkin: the left limbs are the right ones in a mirror.
LEMMA LimbsAreMirrored ==
  ASSUME NEW limb \in Limbs, NEW f \in Sides, NEW here, NEW there,
         here = BoxFaces(Box(limb[1], "base"))[f],
         there = BoxFaces(Box(limb[2], "base"))[OtherSide(f)],
         NEW x \in 0 .. here.width - 1, NEW y \in 0 .. here.height - 1
  PROVE  NormalizeLegacySkin(At(here, x, y)) = InMirror(there, x, y)
  <1>1. PICK h, sx, sy, tx, ty \in Nat :
           /\ \E m \in MirroredFaces : FaceIs(m, h, sx, sy, tx, ty)
           /\ here = TextureRect(tx, ty, 4, h) /\ there = TextureRect(sx, sy, 4, h)
    BY FacesMeet
  <1>2. PICK m \in MirroredFaces : FaceIs(m, h, sx, sy, tx, ty) BY <1>1
  <1>3. x \in 0 .. 3 /\ y \in 0 .. h - 1 BY <1>1 DEF TextureRect
  <1>4. PICK atX, atY \in Int : atX = tx + x /\ atY = ty + y BY <1>3
  <1>5. At(here, x, y) = <<atX, atY>> BY <1>1, <1>4 DEF At, TextureRect
  <1>6. Covers(m, <<atX, atY>>)
    <2>1. <<atX, atY>> \in Pixels(tx, ty, 4, h) BY <1>3, <1>4, PixelIs
    <2>. QED BY <1>2, <2>1 DEF Covers, FaceIs
  <1>7. NormalizeLegacySkin(<<atX, atY>>)
          = <<m.source[1] + 3 - (atX - m.target[1]), m.source[2] + atY - m.target[2]>>
    BY <1>6, FacesAreMirrored
  <1>8. NormalizeLegacySkin(<<atX, atY>>) = <<sx + 3 - (atX - tx), sy + atY - ty>>
    BY <1>2, <1>7 DEF FaceIs
  <1>9. InMirror(there, x, y) = <<sx + 4 - 1 - x, sy + y>> BY <1>1 DEF InMirror, TextureRect
  <1>. QED BY <1>3, <1>4, <1>5, <1>8, <1>9

--------------------------------------------------------------------------------
FigureInv ==
  /\ order \in Orders
  /\ atlas # <<>> => atlas = [p \in Atlas |-> Processed(order.skin, p)]

\* An atlas is that of the skin ordered.
LEMMA FigureInvariant == FigureSpec => []FigureInv
  <1>1. FigureInit => FigureInv BY DEF FigureInit, FigureInv
  <1>2. FigureInv /\ [Render]_figureVars => FigureInv'
    BY DEF FigureInv, Render, figureVars
  <1>. QED BY <1>1, <1>2, PTL DEF FigureSpec

\* The atlas of any skin that is handed out: nothing can be seen through a base layer,
\* the overlays are kept or dropped as a whole, and a legacy skin has its left limbs
\* from its right ones (skin-texture.ts: decodeSkinTexture, processSkinTexture).
THEOREM SkinAlwaysWhole == FigureSpec => []SkinIsWhole
  <1>1. FigureInv => SkinIsWhole
    <2> SUFFICES ASSUME FigureInv, atlas # <<>>
                 PROVE  SkinIsWhole
      BY DEF SkinIsWhole
    <2>1. order \in Orders /\ atlas = [p \in Atlas |-> Processed(order.skin, p)]
      BY DEF FigureInv
    <2>2. ASSUME NEW p \in PartsOf("classic") \cup PartsOf("slim")
          PROVE  /\ \A q \in AllTexels(Cuboid(p, "base").box) : atlas[q] = 255
                 /\ \A q \in AllTexels(Cuboid(p, "outer").box) :
                      atlas[q] = IF \/ order.skin.veil = {}
                                    \/ Legacy(order.skin) /\ p.part # "head"
                                 THEN 0 ELSE Alpha(order.skin, q)
      <3>1. PICK model : p \in PartsOf(model) OBVIOUS
      <3>. QED BY <2>1, <3>1, BasesArePainted, OutersArePainted
    <2>3. ASSUME Legacy(order.skin), NEW limb \in Limbs, NEW f \in Sides
          PROVE  LET here == BoxFaces(Box(limb[1], "base"))[f]
                     there == BoxFaces(Box(limb[2], "base"))[OtherSide(f)]
                 IN \A x \in 0 .. here.width - 1, y \in 0 .. here.height - 1 :
                      SourceOf(order.skin, At(here, x, y)) = InMirror(there, x, y)
      BY <2>3, LimbsAreMirrored DEF SourceOf
    <2>. QED BY <2>2, <2>3 DEF SkinIsWhole, Limbs
  <1>. QED BY <1>1, FigureInvariant, PTL
================================================================================
