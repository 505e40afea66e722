------------------------------ MODULE OidcSessions ------------------------------
(***************************************************************************)
(* The sessions of the OIDC library in Redis, as src/src/oauth/            *)
(* redis-oidc-adapter.ts keeps them and session-security.ts bounds them:   *)
(* a record per session id, an index from the uid of a session to its id,  *)
(* and a marker per erased account.  Each script is one operator; the      *)
(* clock counts whole seconds.  One account; a session is its or nobody's. *)
(***************************************************************************)
EXTENDS Clock

CONSTANTS Ids,        \* session ids; one is drawn at most once
          Uids,       \* uids, which a session keeps when its id is replaced
          Account, None,
          SlidingTtl, AbsoluteTtl,
          Tolerance   \* for how long a record outlives its TTL

ASSUME SessionsAssumption ==
  /\ {SlidingTtl, AbsoluteTtl, MaxTime, Tolerance} \subseteq Nat
  /\ 0 < SlidingTtl /\ SlidingTtl <= AbsoluteTtl
  /\ None \notin Ids \cup Uids \cup {Account}

VARIABLES record,  \* of each id, the session stored for it, or nothing
          index,   \* of each uid, the id it leads to
          marker   \* when the account was erased, as Redis remembers it

rvars == <<record, index, marker>>

Payload == [account : {Account, None}, iat : Times, uid : Uids]
NoMarker == [at |-> 0, set |-> FALSE]

\* A record and the second in which Redis drops it.
Record == [payload : Payload, until : 0..(MaxTime + AbsoluteTtl + Tolerance)]

\* Nothing is not something that is stored.
ASSUME NothingAssumption == None \notin Payload \cup Record

OidcTypeOK ==
  /\ now \in Times
  /\ record \in [Ids -> {None} \cup Record]
  /\ index \in [Uids -> Ids \cup {None}]
  /\ marker \in [at : Times, set : BOOLEAN]

Live(s) == record[s] # None

\* Mutant: a session lives as long as it is used.
PastSlidingLifetime(p) == p.iat + SlidingTtl + AbsoluteTtl <= now

PastAbsoluteLifetime(p) == p.iat + AbsoluteTtl <= now

Invalidated(p) == p.account # None /\ marker.set /\ p.iat <= marker.at

Least(a, b) == IF a <= b THEN a ELSE b

\* calculateSessionTtl
Ttl(iat) ==
  IF iat + AbsoluteTtl <= now THEN 1 ELSE Least(SlidingTtl, iat + AbsoluteTtl - now)

Unindexed(s) ==
  IF Live(s) /\ index[record[s].payload.uid] = s
  THEN [index EXCEPT ![record[s].payload.uid] = None]
  ELSE index

\* UPSERT_SCRIPT
Upsert(s, p, ttl) ==
  /\ index' = [Unindexed(s) EXCEPT ![p.uid] = s]
  /\ record' = [record EXCEPT ![s] = [payload |-> p, until |-> now + ttl + Tolerance]]
  /\ UNCHANGED marker

\* Mutant: the index goes with the record whatever it leads to.
DestroyWithIndex(s) ==
  /\ index' = IF Live(s) THEN [index EXCEPT ![record[s].payload.uid] = None] ELSE index
  /\ record' = [record EXCEPT ![s] = None]
  /\ UNCHANGED marker

\* DESTROY_SCRIPT
Destroy(s) ==
  /\ index' = Unindexed(s)
  /\ record' = [record EXCEPT ![s] = None]
  /\ UNCHANGED marker

Invalidate ==
  /\ marker' = [at |-> now, set |-> TRUE]
  /\ UNCHANGED <<record, index>>

\* Mutant: the marker is kept no longer than a session that is not used.
ElapseForgetting ==
  /\ Tick
  /\ record' = [s \in Ids |-> IF Live(s) /\ record[s].until <= now' THEN None ELSE record[s]]
  /\ index' = [u \in Uids |->
       IF index[u] # None /\ record'[index[u]] = None THEN None ELSE index[u]]
  /\ marker' = IF marker.at + SlidingTtl <= now' THEN NoMarker ELSE marker

\* A second passes.  Redis drops a record, its index, and a marker in time.
Elapse ==
  /\ Tick
  /\ record' = [s \in Ids |-> IF Live(s) /\ record[s].until <= now' THEN None ELSE record[s]]
  /\ index' = [u \in Uids |->
       IF index[u] # None /\ record'[index[u]] = None THEN None ELSE index[u]]
  /\ marker' = IF marker.at + AbsoluteTtl <= now' THEN NoMarker ELSE marker
=============================================================================
