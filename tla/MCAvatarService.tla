----------------------------- MODULE MCAvatarService -----------------------------
(***************************************************************************)
(* The instance of AvatarService for TLC: three callers, one slot in each  *)
(* budget and none to two places to wait, so that jobs are refused in one  *)
(* and queue up in another; what they ask for is chosen so that they meet  *)
(* at each of the maps and budgets.  Beside it, in behaviours of their own,*)
(* the pictures it makes (Figure) and the choice of a cape (Capes).        *)
(***************************************************************************)
EXTENDS AvatarService, MCFigure, Capes, TLC

VARIABLE part

\* One provider stands for the hosts of Mojang, one for those of the skins: so
\* requests for different URLs meet in a budget, as those for different players do.
MCBudgets == {"mojang", "textures", "capes", "render"}
MCUrls == {"name", "id", "keys", "skin", "default", "cape"}
MCProviderOf ==
  [u \in MCUrls |->
    CASE u \in {"name", "id", "keys"} -> "mojang"
      [] u \in {"skin", "default"} -> "textures"
      [] u = "cape" -> "capes"]
MCConcurrency == [b \in MCBudgets |-> 1]
MCWaiting == [b \in MCBudgets |-> CASE b = "mojang" -> 2 [] b = "textures" -> 0 [] OTHER -> 1]

CONSTANTS c1, c2, c3

MCCallers == {c1, c2, c3}

Cold == [u \in MCUrls |-> "none"]
Warm == [u \in MCUrls |-> "fresh"]
Old == [u \in MCUrls |-> IF u \in {"keys", "cape"} THEN "none" ELSE "stale"]

Ask3(x, y, z, gone, entries) ==
  [call |-> c1 :> x @@ c2 :> y @@ c3 :> z, absent |-> gone, cache |-> entries]

But(entries, u) == [entries EXCEPT ![u] = "none"]

MCWorkloads ==
  {Ask3("byName", "byId", "fresh", {}, Old),
   Ask3("byId", "byName", "byName", {"id"}, Cold),
   Ask3("fresh", "byId", "cape", {"cape"}, Cold),
   Ask3("headByName", "headByName", "headByTexture", {"name"}, Cold),
   Ask3("headById", "headByTexture", "raw", {}, Warm),
   Ask3("headById", "processed", "processed", {"skin", "default"}, But(But(Warm, "skin"), "default")),
   Ask3("backById", "backById", "processed", {"skin"}, But(Warm, "skin")),
   Ask3("cape", "backById", "headById", {}, Warm)}

Plan(x, y, p) == [c \in MCCallers |-> CASE c = c1 -> <<x, p>> [] c = c2 -> <<y, p>> [] OTHER -> <<"none", p>>]

\* Two providers beside Mojang: a call for any meets one for the first of them, and
\* those that ask several at once run alone.
MCOrder == <<"mojang", "first", "second">>
MCPlans == {Plan("find", "findOf", "first"), Plan("overview", "none", "first"), Plan("render", "none", "first")}

AnyWorkload == CHOOSE w \in MCWorkloads : TRUE
AnyPlan == CHOOSE x \in MCPlans : TRUE
AnyOrder == CHOOSE a \in MCOrders : TRUE

\* A part that does not run stays in one state.
ServiceRests ==
  /\ AvatarInit
  /\ [call |-> call, absent |-> absent, cache |-> cache] = AnyWorkload

PicturesRest == order = AnyOrder /\ painted = <<>> /\ atlas = <<>>

CapesRest ==
  /\ CapesInit
  /\ plan = AnyPlan /\ ~ signed /\ wears = {}

MCInit ==
  \/ part = "service" /\ AvatarInit /\ PicturesRest /\ CapesRest
  \/ part = "pictures" /\ FigureInit /\ ServiceRests /\ CapesRest
  \/ part = "capes" /\ CapesInit /\ ServiceRests /\ PicturesRest

MCNext ==
  /\ UNCHANGED part
  /\ \/ part = "service" /\ AvatarNext /\ UNCHANGED <<figureVars, capeVars>>
     \/ part = "pictures" /\ Render /\ UNCHANGED <<allVars, capeVars>>
     \/ part = "capes" /\ CapesNext /\ UNCHANGED <<allVars, figureVars>>

MCSpec == /\ MCInit /\ [][MCNext]_<<allVars, figureVars, capeVars, part>>
          /\ \A c \in Callers : WF_allVars(Works(c))
=============================================================================
