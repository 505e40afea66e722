----------------------------- MODULE DeveloperAccess -----------------------------
(***************************************************************************)
(* The Developer table of PostgreSQL and the repository that changes it    *)
(* (src/src/developers/developer-repository.ts): who may use the developer *)
(* console, and as what.  Grants and revocations are serializable          *)
(* transactions that are tried a bounded number of times.                  *)
(*                                                                         *)
(* A transaction is two steps: its snapshot, which is all it reads, and    *)
(* its end.  PostgreSQL refuses to commit one that wrote a row another     *)
(* wrote since the snapshot, or that both missed a write of another and    *)
(* was missed by it (write skew); it may also refuse without such a        *)
(* reason whenever two transactions overlap.                               *)
(***************************************************************************)
EXTENDS Identities

CONSTANTS Requests,     \* who runs transactions
          MaxAttempts   \* MAX_TRANSACTION_ATTEMPTS

ASSUME AccessAssumption == MaxAttempts \in Nat \ {0} /\ None \notin Requests

VARIABLES owner,      \* the configured owner (protectedUuid), or None; never changes
          developer,  \* the role of each user's row, "none" without a row
          verified,   \* the users whose row has verifiedAt set
          tx          \* the transaction of each request

avars == <<owner, developer, verified, tx>>

Access == Roles \cup {"none"}

\* What a committed transaction read and wrote.
Footprint == [reads : SUBSET Users, writes : SUBSET Users]

\* to is the access the transaction gives; "none" revokes.
Transaction == [user    : Users,
                to      : Access,
                attempt : 1..MaxAttempts,
                snap    : [Users -> Access],
                since   : SUBSET Footprint]

NoTx == [user |-> None]

AccessTypeOK ==
  /\ owner \in Users \cup {None}
  /\ developer \in [Users -> Access]
  /\ verified \subseteq Users
  /\ tx \in [Requests -> Transaction \cup {NoTx}]

AccessInit ==
  /\ owner \in Users \cup {None}
  /\ developer \in [Users -> Access]
  /\ verified = {}
  /\ tx = [r \in Requests |-> NoTx]

Administrators == {u \in Users : developer[u] = "admin"}

Open(r) == tx[r] # NoTx

-----------------------------------------------------------------------------

\* Taking an administrator's role away; such a transaction counts the others.
Counts(t) == t.snap[t.user] = "admin" /\ t.to # "admin"

\* No other administrator in the snapshot: LastAdministratorError.
LastInSnapshot(t) == Counts(t) /\ \A u \in Users \ {t.user} : t.snap[u] # "admin"

\* A revocation of a row that is not there writes nothing.
Writes(t) == IF t.to = "none" /\ t.snap[t.user] = "none" THEN {} ELSE {t.user}
Reads(t) == IF Counts(t) THEN Users ELSE {t.user}

\* Mutant: an isolation that only sees two writes of one row.
ConflictsOnWrites(t) == \E f \in t.since : f.writes \cap Writes(t) # {}

Conflicts(t) ==
  \E f \in t.since :
    \/ f.writes \cap Writes(t) # {}
    \/ f.writes \cap Reads(t) # {} /\ f.reads \cap Writes(t) # {}

\* Every open transaction but r's has the write behind its snapshot.
Passed(r, reads, writes) ==
  [q \in Requests |->
     IF q = r THEN NoTx
     ELSE IF Open(q) /\ writes # {}
     THEN [tx[q] EXCEPT !.since = @ \cup {[reads |-> reads, writes |-> writes]}]
     ELSE tx[q]]

Snapshot(u, to, n) ==
  [user |-> u, to |-> to, attempt |-> n, snap |-> developer, since |-> {}]

\* The owner is refused before a transaction begins: OwnerAccessError.
Protects(u, to) == u = owner /\ to # "admin"

Begins(r, u, to) ==
  /\ ~ Open(r)
  /\ ~ Protects(u, to)
  /\ tx' = [tx EXCEPT ![r] = Snapshot(u, to, 1)]
  /\ UNCHANGED <<owner, developer, verified>>

\* Rolled back by LastAdministratorError.
Refuses(r) ==
  /\ Open(r) /\ LastInSnapshot(tx[r])
  /\ tx' = [tx EXCEPT ![r] = NoTx]
  /\ UNCHANGED <<owner, developer, verified>>

Commits(r) ==
  /\ Open(r) /\ ~ LastInSnapshot(tx[r]) /\ ~ Conflicts(tx[r])
  /\ LET t == tx[r]
     IN /\ developer' = [u \in Users |-> IF u \in Writes(t) THEN t.to ELSE developer[u]]
        /\ verified' = IF t.to = "none" THEN verified \ Writes(t) ELSE verified
        /\ tx' = Passed(r, Reads(t), Writes(t))
  /\ UNCHANGED owner

\* PostgreSQL may report a serialization failure.
MayFail(r) == tx[r].since # {} \/ \E q \in Requests \ {r} : Open(q)

\* The whole operation runs again on a new snapshot.
Retries(r) ==
  /\ Open(r) /\ MayFail(r) /\ ~ LastInSnapshot(tx[r])
  /\ tx[r].attempt < MaxAttempts
  /\ tx' = [tx EXCEPT ![r] = Snapshot(@.user, @.to, @.attempt + 1)]
  /\ UNCHANGED <<owner, developer, verified>>

\* The last attempt failed, or the connection did.
GivesUp(r) ==
  /\ Open(r)
  /\ tx' = [tx EXCEPT ![r] = NoTx]
  /\ UNCHANGED <<owner, developer, verified>>

\* setVerified, one statement outside a serializable transaction: only a row
\* in the opposite state is written.
SetVerified(u, v) ==
  /\ developer[u] # "none"
  /\ v = (u \notin verified)
  /\ verified' = IF v THEN verified \cup {u} ELSE verified \ {u}
  /\ tx' = Passed(None, {}, {u})
  /\ UNCHANGED <<owner, developer>>

-----------------------------------------------------------------------------
\* The repository by itself, used in any way.

AccessStep(r) ==
  \/ \E u \in Users, to \in Access : Begins(r, u, to)
  \/ Refuses(r)
  \/ Commits(r)
  \/ Retries(r)
  \/ GivesUp(r)

AccessNext ==
  \/ \E r \in Requests : AccessStep(r)
  \/ \E u \in Users, v \in BOOLEAN : SetVerified(u, v)

AccessSpec == AccessInit /\ [][AccessNext]_avars

-----------------------------------------------------------------------------

\* Once there is an administrator there always is one: however demotions,
\* revocations and account deletions overlap and are retried, the last
\* administrator keeps the role (grant, revoke).
AdministratorRemains ==
  [][Administrators # {} => Administrators' # {}]_avars

\* The configured owner, once an administrator, is never anything else.
OwnerRemains ==
  [][(owner \in Administrators) => (owner \in Administrators')]_avars
=============================================================================
