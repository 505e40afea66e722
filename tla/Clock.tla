--------------------------------- MODULE Clock ---------------------------------
(***************************************************************************)
(* The clock of the server, in whole seconds, as Date.now() / 1000 gives   *)
(* it to the code and as the expiry of a Redis key follows it.             *)
(***************************************************************************)
EXTENDS Integers

CONSTANT MaxTime  \* bound: the last second

VARIABLE now

Times == 0..MaxTime

Tick == now < MaxTime /\ now' = now + 1
=============================================================================
