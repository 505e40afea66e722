------------------------------- MODULE Identities -------------------------------
(***************************************************************************)
(* The players that the developer console's modules speak of, and the      *)
(* roles of src/src/developers/developer-repository.ts.                    *)
(***************************************************************************)
EXTENDS Naturals

CONSTANTS Users, None

ASSUME IdentitiesAssumption == None \notin Users

Roles == {"developer", "admin"}
=============================================================================
