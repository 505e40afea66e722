------------------------------ MODULE BoundedWork ------------------------------
(***************************************************************************)
(* What the work budgets promise: in each pool at most Limit jobs run and  *)
(* at most Capacity wait, nobody waits while there is room, and those who  *)
(* wait are taken in the order they came.                                  *)
(***************************************************************************)
EXTENDS Naturals, Sequences, FiniteSets

CONSTANTS Jobs, Pools, Limit, Capacity

VARIABLES running, waiting

IsNew(p, j) == j \notin running[p] /\ \A i \in 1..Len(waiting[p]) : waiting[p][i] # j

BoundedInit ==
  /\ running = [p \in Pools |-> {}]
  /\ waiting = [p \in Pools |-> <<>>]

Begin(p, j) ==
  /\ IsNew(p, j)
  /\ waiting[p] = <<>> /\ Cardinality(running[p]) < Limit[p]
  /\ running' = [running EXCEPT ![p] = @ \cup {j}]
  /\ UNCHANGED waiting

Wait(p, j) ==
  /\ IsNew(p, j)
  /\ Cardinality(running[p]) = Limit[p] /\ Len(waiting[p]) < Capacity[p]
  /\ waiting' = [waiting EXCEPT ![p] = Append(@, j)]
  /\ UNCHANGED running

End(p, j) ==
  /\ j \in running[p] /\ waiting[p] = <<>>
  /\ running' = [running EXCEPT ![p] = @ \ {j}]
  /\ UNCHANGED waiting

HandOver(p, j) ==
  /\ j \in running[p] /\ waiting[p] # <<>>
  /\ running' = [running EXCEPT ![p] = (@ \ {j}) \cup {Head(waiting[p])}]
  /\ waiting' = [waiting EXCEPT ![p] = Tail(@)]

Moves(p) == <<running[p], waiting[p]>>' # <<running[p], waiting[p]>>

\* Every step moves one pool.
BoundedNext ==
  \E p \in Pools :
    /\ Moves(p)
    /\ \E j \in Jobs : Begin(p, j) \/ Wait(p, j) \/ End(p, j) \/ HandOver(p, j)

BoundedSpec == BoundedInit /\ [][BoundedNext]_<<running, waiting>>
=============================================================================
