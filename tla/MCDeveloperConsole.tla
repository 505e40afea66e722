--------------------------- MODULE MCDeveloperConsole ---------------------------
(***************************************************************************)
(* The developer console, how a browser signs in to it (ConsoleLogin) and  *)
(* the limits that its pages share with all of the API (Throttles).  They  *)
(* have no state in common: a behaviour is about one of them, and the      *)
(* others rest.  Their sets have the same elements, so that the            *)
(* permutations of three of them serve for all.  A workload is a set of    *)
(* routes whose requests meet; each is explored on its own.                *)
(***************************************************************************)
EXTENDS DeveloperConsole, ConsoleLogin, Throttles, TLC

VARIABLE part

mcVars == <<cvars, loginVars, throttleVars, part>>

Symmetry == Permutations(Users) \cup Permutations(Sids) \cup Permutations(Requests)

WAccess == {"grant", "revoke", "erase"}
WBoot == {"boot", "erase", "cli", "verify"}
WSessions == {"end", "grant", "time"}
WRenewal == {"login", "pages", "time"}
WLogin == {"login", "logout", "erase", "pages"}
WApps == {"register", "edit", "remove", "erase"}
WVerification == {"ask", "decide", "edit", "boot"}

MCWorkloads == {WAccess, WBoot, WSessions, WRenewal, WLogin, WApps, WVerification}

MCMaximum == [bucket \in Buckets |-> 1]

\* The console before anyone has used it.
ConsoleRests ==
  /\ ConsoleInit
  /\ workload = WSessions /\ owner = None
  /\ developer = [u \in Users |-> "none"] /\ verified = {}
  /\ app = [a \in Apps |-> Unborn] /\ \A s \in Sids : Fresh(s)

MCInit ==
  /\ LoginInit /\ ThrottleInit
  /\ \/ part = "console" /\ ConsoleInit
     \/ part \in {"login", "limits"} /\ ConsoleRests

MCNext ==
  /\ UNCHANGED part
  /\ \/ part = "console" /\ ConsoleNext /\ UNCHANGED <<loginVars, throttleVars>>
     \/ part = "login" /\ LoginNext /\ UNCHANGED <<cvars, throttleVars>>
     \/ part = "limits" /\ ThrottleNext /\ UNCHANGED <<cvars, loginVars>>

MCSpec == MCInit /\ [][MCNext]_mcVars
=============================================================================
