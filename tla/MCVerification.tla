---------------------------- MODULE MCVerification ----------------------------
(***************************************************************************)
(* Instances of Verification for TLC.                                      *)
(***************************************************************************)
EXTENDS Verification, TLC

Symmetry == Permutations(Codes) \cup Permutations(Players)
              \cup Permutations(Claims) \cup Permutations(Callers)
              \cup Permutations(Interactions)
=============================================================================
