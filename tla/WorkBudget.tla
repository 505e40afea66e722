------------------------------- MODULE WorkBudget -------------------------------
(***************************************************************************)
(* The budgets of the process (src/src/infrastructure/work-budget.ts): one *)
(* for each provider a public fetch talks to, one for renders.  A job is a *)
(* call of `run`; here at most one at a time of a caller on a budget.      *)
(*                                                                         *)
(* Whoever releases a slot with others waiting does not decrement          *)
(* `active`: the slot passes to the first of the queue, which goes on only *)
(* in a later microtask ("granted").                                       *)
(***************************************************************************)
EXTENDS Integers, Sequences, FiniteSets

CONSTANTS Callers,      \* those who call run
          Budgets,      \* the budgets
          Concurrency,  \* of each budget, the jobs that may run at once
          Waiting       \* of each budget, the jobs that may wait

ASSUME BudgetAssumption ==
  /\ IsFiniteSet(Callers)
  /\ Concurrency \in [Budgets -> Nat \ {0}]
  /\ Waiting \in [Budgets -> Nat]

VARIABLE budget

Phases == {"out", "queued", "granted", "working"}
Budget == [active : Nat, queue : Seq(Callers), phase : [Callers -> Phases]]

BudgetInit ==
  budget = [b \in Budgets |->
             [active |-> 0, queue |-> <<>>, phase |-> [j \in Callers |-> "out"]]]

Full(b) == budget[b].active >= Concurrency[b]
Exhausted(b) == Full(b) /\ Len(budget[b].queue) >= Waiting[b]

\* The job that hands on a slot.
Holders(b) == {j \in Callers : budget[b].phase[j] \in {"granted", "working"}}

\* The effect of run up to its first await.
Entered(b, j) ==
  IF Full(b)
  THEN [budget[b] EXCEPT !.queue = Append(@, j), !.phase[j] = "queued"]
  ELSE [budget[b] EXCEPT !.active = @ + 1, !.phase[j] = "working"]

\* Mutant: the last of the queue is taken first.
LeftToLast(b, j) ==
  LET q == budget[b].queue
      gone == [budget[b].phase EXCEPT ![j] = "out"]
  IN IF q = <<>>
     THEN [active |-> budget[b].active - 1, queue |-> q, phase |-> gone]
     ELSE [active |-> budget[b].active, queue |-> SubSeq(q, 1, Len(q) - 1),
           phase |-> [gone EXCEPT ![q[Len(q)]] = "granted"]]

\* The effect of the finally block.
Left(b, j) ==
  LET q == budget[b].queue
      gone == [budget[b].phase EXCEPT ![j] = "out"]
  IN IF q = <<>>
     THEN [active |-> budget[b].active - 1, queue |-> q, phase |-> gone]
     ELSE [active |-> budget[b].active, queue |-> Tail(q),
           phase |-> [gone EXCEPT ![Head(q)] = "granted"]]

Enter(b, j) ==
  /\ budget[b].phase[j] = "out" /\ ~Exhausted(b)
  /\ budget' = [budget EXCEPT ![b] = Entered(b, j)]

Resume(b, j) ==
  /\ budget[b].phase[j] = "granted"
  /\ budget' = [budget EXCEPT ![b].phase[j] = "working"]

Leave(b, j) ==
  /\ budget[b].phase[j] = "working"
  /\ budget' = [budget EXCEPT ![b] = Left(b, j)]

BudgetNext == \E b \in Budgets, j \in Callers : Enter(b, j) \/ Resume(b, j) \/ Leave(b, j)

BudgetSpec == BudgetInit /\ [][BudgetNext]_budget
--------------------------------------------------------------------------------
BudgetTypeOK == budget \in [Budgets -> Budget]

\* The queue of a budget holds each of those who wait in it, once.
QueueMatches(b) ==
  LET q == budget[b].queue IN
    /\ \A i \in 1..Len(q) : budget[b].phase[q[i]] = "queued"
    /\ \A i, k \in 1..Len(q) : q[i] = q[k] => i = k
    /\ \A j \in Callers : budget[b].phase[j] = "queued" => \E i \in 1..Len(q) : q[i] = j

\* `active` counts exactly the jobs that run or are about to, never more than
\* the limit; jobs wait, no more than the queue takes, only while all slots are
\* taken; and no slot is lost or handed out twice over any order of failing,
\* finishing and arriving jobs (work-budget.ts: run).
SlotsMatch ==
  \A b \in Budgets :
    /\ budget[b].active = Cardinality(Holders(b))
    /\ budget[b].active <= Concurrency[b]
    /\ Len(budget[b].queue) <= Waiting[b]
    /\ budget[b].queue # <<>> => budget[b].active = Concurrency[b]
    /\ QueueMatches(b)

Bounded == INSTANCE BoundedWork WITH
  Jobs <- Callers, Pools <- Budgets, Limit <- Concurrency, Capacity <- Waiting,
  running <- [b \in Budgets |-> Holders(b)],
  waiting <- [b \in Budgets |-> budget[b].queue]

\* Each budget is a bounded first-in first-out pool of work: the slot a job hands
\* on is taken by the one that has waited longest, also before that one goes on
\* (work-budget.ts: run).
BudgetsAreBounded == Bounded!BoundedSpec
=============================================================================
