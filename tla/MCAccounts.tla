------------------------------- MODULE MCAccounts -------------------------------
(***************************************************************************)
(* What a browser's sessions go through, in two parts that share nothing:  *)
(* the sessions and the row of one account (Accounts), and interactions    *)
(* (SignInFlow); a behaviour is of one part.  Accounts: two requests at a  *)
(* time, two ids and one uid, each drawn again when nothing knows of it;   *)
(* seven days are two seconds and twelve hours one.  SignInFlow: two       *)
(* interactions, players, codes, transactions, requests at a time, three   *)
(* claims and grants.  The parts take the model values that are alike in   *)
(* one and in the other from the same sets, so one permutation serves both.*)
(***************************************************************************)
EXTENDS Accounts, SignInFlow, TLC

CONSTANTS a1, a2, b1, b2, d1, d2, u1, c1, c2, k1, k2, k3, g1, g2, g3, x1, x2,
          theAccount, nothing

VARIABLE part

MCRequests == {a1, a2}
MCIds == {b1, b2}
MCVerifications == {d1, d2}
MCUids == {u1}
MCCodes == {c1, c2}
MCClaims == {k1, k2, k3}
MCGrants == {g1, g2, g3}
MCTransactions == {x1, x2}
MCMethods == {"online", "skin", "microsoft"}
MCAsks == {MCMethods, {"microsoft"}}
Symmetry == Permutations(MCRequests) \cup Permutations(MCIds)
            \cup Permutations(MCVerifications)

\* The part that does not run starts in one state only.
MCInit ==
  /\ Init /\ FlowInit /\ part \in {"accounts", "interactions"}
  /\ part = "accounts" => about = "answers" /\ browser = Nil
  /\ part = "interactions" => focus = "sessions"

MCNext ==
  \/ part = "accounts" /\ Next /\ UNCHANGED <<flowVars, part>>
  \/ part = "interactions" /\ FlowNext /\ UNCHANGED <<vars, part>>

MCSpec == MCInit /\ [][MCNext]_<<vars, flowVars, part>>
=============================================================================
