-------------------------------- MODULE MCGrants --------------------------------
(***************************************************************************)
(* Instances for TLC of Grants and of the reads that the requests of the   *)
(* API and the token endpoint share (SharedReads).  They have no state in  *)
(* common: a behaviour is about the grants, about the origins that may     *)
(* read, or about the health of the server, and the others rest.           *)
(***************************************************************************)
EXTENDS Grants, SharedReads, TLC

VARIABLE part

Symmetry == Permutations(GrantIds) \cup Permutations(AuthCodes)
              \cup Permutations(AccessTokens) \cup Permutations(RefreshTokens)
              \cup Permutations(Requests) \cup Permutations(Callers)

MCInit ==
  /\ GrantsInit /\ SharedInit
  /\ part \in {"grants", "origins", "health"} /\ (part # "origins" => registered = {})

MCNext ==
  /\ UNCHANGED part
  /\ \/ part = "grants" /\ GrantsNext /\ UNCHANGED sharedVars
     \/ part = "origins" /\ OriginsNext /\ UNCHANGED gvars
     \/ part = "health" /\ HealthNext /\ UNCHANGED gvars

MCSpec == MCInit /\ [][MCNext]_<<gvars, sharedVars, part>>
=============================================================================
