---------------------------- MODULE DeveloperSessions ----------------------------
(***************************************************************************)
(* The developer console's sessions in Redis                               *)
(* (src/src/developers/session-store.ts): a record per session with a      *)
(* sliding and an absolute lifetime, and a set per user that lists the     *)
(* user's sessions.  Every Lua script is one step.                         *)
(*                                                                         *)
(* Time is counted down in ticks.  A key with ttl 0 is in its last         *)
(* millisecond: it can be read, and the next tick removes it.  left is     *)
(* what remains of the absolute lifetime.  A session id and the hash that  *)
(* names its key are the same here.                                        *)
(***************************************************************************)
EXTENDS Identities

CONSTANTS Sids,
          SlidingTtl,   \* SESSION_SLIDING_TTL_SECONDS, in ticks
          AbsoluteTtl   \* SESSION_ABSOLUTE_TTL_SECONDS, in ticks

ASSUME SessionsAssumption ==
  /\ SlidingTtl \in Nat \ {0}
  /\ AbsoluteTtl \in Nat /\ SlidingTtl <= AbsoluteTtl
  /\ None \notin Sids

VARIABLES session,  \* the record of each session id
          index,    \* the listed sessions of each user
          root      \* history: the sign-in each drawn session id descends from

svars == <<session, index, root>>

Session == [user : Users,
            role : Roles,
            ttl  : 0..SlidingTtl,
            left : 0..AbsoluteTtl]

NoSession == [user |-> None]

Index == [members : SUBSET Sids, ttl : 0..AbsoluteTtl]

SessionsTypeOK ==
  /\ session \in [Sids -> Session \cup {NoSession}]
  /\ index \in [Users -> Index]
  /\ root \in [Sids -> Sids \cup {None}]

Live(s) == session[s] # NoSession

SmallerOf(m, n) == IF m < n THEN m ELSE n
LargerOf(m, n) == IF m > n THEN m ELSE n

\* An empty set is no key.
Listed(members, ttl) ==
  [members |-> members, ttl |-> IF members = {} THEN 0 ELSE ttl]

\* Mutant: the list's time is set to that of the session last used.
AddedForAsLong(ix, s, ttl) == Listed(ix.members \cup {s}, ttl)

\* The list's time is never shortened.
Added(ix, s, ttl) ==
  Listed(ix.members \cup {s}, IF ix.members = {} THEN ttl ELSE LargerOf(ix.ttl, ttl))

Removed(ix, s) == Listed(ix.members \ {s}, ix.ttl)

NewSession(u, role) ==
  [user |-> u, role |-> role, ttl |-> SlidingTtl, left |-> AbsoluteTtl]

\* Some users have just signed in.
SessionsInit ==
  \E own \in [Users -> Sids \cup {None}], role \in [Users -> Roles] :
    LET of(s) == {u \in Users : own[u] = s}
    IN /\ \A u, v \in Users : own[u] = own[v] => u = v \/ own[u] = None
       /\ session = [s \in Sids |->
            IF of(s) = {} THEN NoSession
            ELSE LET u == CHOOSE v \in of(s) : TRUE IN NewSession(u, role[u])]
       /\ index = [u \in Users |-> Listed({own[u]} \ {None}, AbsoluteTtl)]
       /\ root = [s \in Sids |-> IF of(s) = {} THEN None ELSE s]

\* Never drawn: the ids are 256 random bits.
Fresh(s) == root[s] = None

-----------------------------------------------------------------------------
(* The scripts.                                                            *)

CreateSession(s, u, role) ==
  /\ Fresh(s)
  /\ session' = [session EXCEPT ![s] = NewSession(u, role)]
  /\ index' = [index EXCEPT ![u] = Listed(@.members \cup {s}, AbsoluteTtl)]
  /\ root' = [root EXCEPT ![s] = s]

Forget(s) ==
  /\ session' = [session EXCEPT ![s] = NoSession]
  /\ index' = [index EXCEPT ![session[s].user] = Removed(@, s)]
  /\ UNCHANGED root

\* The absolute lifetime is over although the key is still there.
PastLifetime(s) == Live(s) /\ session[s].left = 0

Renewed(s) == SmallerOf(SlidingTtl, session[s].left)

\* READ_SESSION_SCRIPT found a session and renewed it.
ReadSession(s) ==
  /\ Live(s) /\ ~ PastLifetime(s)
  /\ session' = [session EXCEPT ![s].ttl = Renewed(s)]
  /\ index' = [index EXCEPT ![session[s].user] = Added(@, s, Renewed(s))]
  /\ UNCHANGED root

\* ... or found none.
ReadNothing(s) ==
  \/ ~ Live(s) /\ UNCHANGED svars
  \/ PastLifetime(s) /\ Forget(s)

\* ROTATE_SESSION_SCRIPT; it fails as a read does.
RotateSession(s, n, role) ==
  /\ Live(s) /\ ~ PastLifetime(s)
  /\ Fresh(n)
  /\ session' = [session EXCEPT ![s] = NoSession,
                                ![n] = [session[s] EXCEPT !.role = role, !.ttl = Renewed(s)]]
  /\ index' = [index EXCEPT ![session[s].user] = Added(Removed(@, s), n, Renewed(s))]
  /\ root' = [root EXCEPT ![n] = root[s]]

RevokeSession(s) ==
  \/ Live(s) /\ Forget(s)
  \/ ~ Live(s) /\ UNCHANGED svars

\* LIST_SESSIONS_SCRIPT drops the members that are over and returns the rest.
Ongoing(u) == {s \in index[u].members : Live(s) /\ ~ PastLifetime(s)}

ListSessions(u) ==
  /\ session' = [s \in Sids |->
       IF s \in index[u].members \ Ongoing(u) THEN NoSession ELSE session[s]]
  /\ index' = [index EXCEPT ![u] = Listed(Ongoing(u), @.ttl)]
  /\ UNCHANGED root

\* The next tick: keys expire.
Tick ==
  /\ session' = [s \in Sids |->
       IF ~ Live(s) \/ session[s].ttl = 0 THEN NoSession
       ELSE [session[s] EXCEPT !.ttl = @ - 1, !.left = @ - 1]]
  /\ index' = [u \in Users |->
       IF index[u].ttl = 0 THEN Listed({}, 0)
       ELSE [index[u] EXCEPT !.ttl = @ - 1]]
  /\ UNCHANGED root

-----------------------------------------------------------------------------
\* The store by itself, used in any way.

SessionsNext ==
  \/ \E s \in Sids, u \in Users, role \in Roles : CreateSession(s, u, role)
  \/ \E s \in Sids : ReadSession(s) \/ ReadNothing(s) \/ RevokeSession(s)
  \/ \E s, n \in Sids, role \in Roles : RotateSession(s, n, role)
  \/ \E u \in Users : ListSessions(u)
  \/ Tick

SessionsSpec == SessionsInit /\ [][SessionsNext]_svars

-----------------------------------------------------------------------------

\* Whatever renews, rotates, lists and expires sessions and their index apart
\* from each other: a live session is listed under its user, and the list does
\* not expire before it, so its user can always see and end it.
LiveIsListed ==
  \A s \in Sids :
    Live(s) => /\ s \in index[session[s].user].members
               /\ session[s].ttl <= index[session[s].user].ttl

\* No use of a session keeps it beyond seven days from the sign-in, and a
\* rotation does not start them again.
WithinLifetime == \A s \in Sids : Live(s) => session[s].ttl <= session[s].left

\* One sign-in is one session: requests that rotate it at the same time never
\* leave two of it.
OneSessionPerSignIn ==
  \A s, n \in Sids : Live(s) /\ Live(n) /\ root[s] = root[n] => s = n
=============================================================================
