------------------------------ MODULE VerifiedUsers ------------------------------
(***************************************************************************)
(* The User row of one account: written by verifications                   *)
(* (src/src/users/verified-user-repository.ts), which may arrive in        *)
(* another order than they were made in, and by the resolver of usernames  *)
(* (username-resolver.ts), which may be told an old name from a cache.  A  *)
(* name is known by the second since which it is the player's.             *)
(***************************************************************************)
EXTENDS Clock

CONSTANT Verifications  \* the verifications of a behaviour

VARIABLES name,     \* the player's name, at Mojang
          made,     \* the verifications on their way to the database
          row,      \* the User row
          arrived,  \* history: the verifications that made the row
          resolved  \* history: the resolver wrote the name since

nvars == <<name, made, row, arrived, resolved>>

Verification == [at : Times, name : Times]
Row == [present : BOOLEAN, name : Times, first : Times, last : Times]
NoRow == [present |-> FALSE, name |-> 0, first |-> 0, last |-> 0]

UsersTypeOK ==
  /\ name \in Times
  /\ made \subseteq [id : Verifications, v : Verification]
  /\ row \in Row
  /\ arrived \subseteq [id : Verifications, v : Verification]
  /\ resolved \in BOOLEAN

Known == {m.id : m \in made \cup arrived}

\* The player takes a new name.
Rename ==
  /\ name' = now
  /\ UNCHANGED <<made, row, arrived, resolved>>

\* The player is verified, under the name of the moment.
Verify(id) ==
  /\ id \notin Known
  /\ made' = made \cup {[id |-> id, v |-> [at |-> now, name |-> name]]}
  /\ UNCHANGED <<name, row, arrived, resolved>>

\* Mutant: whichever verification arrives last gives the name.
UpsertedLast(v) ==
  [row EXCEPT !.name = v.name,
              !.first = IF v.at < @ THEN v.at ELSE @,
              !.last = IF v.at > @ THEN v.at ELSE @]

\* Of the row that is there, only a later verification changes the name.
Upserted(v) ==
  [row EXCEPT !.name = IF v.at > row.last THEN v.name ELSE @,
              !.first = IF v.at < @ THEN v.at ELSE @,
              !.last = IF v.at > @ THEN v.at ELSE @]

\* upsertVerifiedUser
UpsertVerifiedUser(m) ==
  /\ m \in made /\ made' = made \ {m}
  /\ row' = IF row.present THEN Upserted(m.v)
            ELSE [present |-> TRUE, name |-> m.v.name, first |-> m.v.at, last |-> m.v.at]
  /\ arrived' = arrived \cup {m}
  /\ resolved' = (resolved /\ row'.name = row.name)
  /\ UNCHANGED name

\* The resolver writes the name it was told; a row that is gone stays so.
ResolveUsername ==
  /\ \E told \in 0..name :
       /\ row.present /\ told # row.name
       /\ row' = [row EXCEPT !.name = told]
  /\ resolved' = TRUE
  /\ UNCHANGED <<name, made, arrived>>

\* The row is deleted with the account.
DeleteRow ==
  /\ row' = NoRow
  /\ arrived' = {} /\ resolved' = FALSE
  /\ UNCHANGED <<name, made>>
--------------------------------------------------------------------------------
\* Whatever the order in which verifications arrive, the row has the times of the
\* first and the last of them, and the name of the last unless the resolver wrote
\* another since (verified-user-repository.ts: "Arrival order is not verification
\* order").
NewestNameStands ==
  row.present =>
    /\ \E m \in arrived : m.v.at = row.last /\ (resolved \/ m.v.name = row.name)
    /\ \E m \in arrived : m.v.at = row.first
    /\ \A m \in arrived : row.first <= m.v.at /\ m.v.at <= row.last
=============================================================================
