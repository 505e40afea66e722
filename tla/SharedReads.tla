-------------------------------- MODULE SharedReads --------------------------------
(***************************************************************************)
(* The reads that the requests of one process share: the scan for the      *)
(* origins that may read the API (src/src/api/client-directory.ts) and the *)
(* probe of PostgreSQL and Redis behind /health                            *)
(* (src/src/infrastructure/readiness.ts, src/src/api/health-route.ts).     *)
(* Who comes while a read is under way waits for it, and its result is     *)
(* remembered for a while.  The promise of a read settles everyone who     *)
(* waits for it in one turn.  Time is in ticks.                            *)
(***************************************************************************)
EXTENDS Integers, FiniteSets

CONSTANTS
  Callers,         \* bound: the requests of a behaviour, each made once
  Origins,
  OriginsTtl,      \* ALLOWED_ORIGINS_TTL_MS, in ticks
  HealthyFor,      \* the second that a probe is good for
  HealthTimeout,   \* READINESS_TIMEOUT_MS
  MaxScan,         \* bound: the ticks that a scan takes at most
  NoCaller

ASSUME SharedReadsAssumption ==
  /\ {OriginsTtl, HealthyFor, HealthTimeout, MaxScan} \subseteq Nat
  /\ NoCaller \notin Callers
  /\ "ok" \notin Origins      \* what /health says is no answer about origins

VARIABLES
  registered,      \* the origins of the redirect URIs of all applications
  changed,         \* history: ticks since each of them was added or withdrawn
  snapshot,        \* OriginAllowlistCache.snapshot
  inflight,        \* ... and the caller whose scan it shares
  healthyLeft,     \* ticks until healthyUntil
  pending,         \* the caller whose probe is shared
  read,            \* what each caller has started
  caller

sharedVars == <<registered, changed, snapshot, inflight, healthyLeft, pending, read, caller>>

NoRead == [of |-> "none", results |-> <<>>, age |-> 0]
Scan == [of |-> "scan", results |-> <<>>, age |-> 0]
Probe == [of |-> "probe", results |-> [on \in {"database", "redis"} |-> "asked"], age |-> 0]
NoSnapshot == [known |-> FALSE, origins |-> {}, age |-> 0]
NoCall == [at |-> "idle", on |-> NoCaller, waited |-> 0, said |-> {}]

SharedInit ==
  /\ registered \in SUBSET Origins
  /\ changed = [o \in Origins |-> OriginsTtl + MaxScan + 1]
  /\ snapshot = NoSnapshot /\ inflight = NoCaller
  /\ healthyLeft = 0 /\ pending = NoCaller
  /\ read = [c \in Callers |-> NoRead]
  /\ caller = [c \in Callers |-> NoCall]

Says(c, what) == [caller[c] EXCEPT !.at = "answered", !.said = what]
WaitsFor(kind, c) == [caller[c] EXCEPT !.at = kind, !.on = IF kind = "origins" THEN inflight' ELSE pending']

\* Everyone who waits for what d started hears the same.
Hear(d, at, what) ==
  caller' = [c \in Callers |-> IF caller[c].on = d /\ caller[c].at \in {"origins", "health"}
                               THEN [caller[c] EXCEPT !.at = at, !.said = what] ELSE caller[c]]

-----------------------------------------------------------------------------
(* The origins that may read the API                                       *)

SnapshotIsFresh == snapshot.known /\ snapshot.age <= OriginsTtl

\* OriginAllowlistCache.get
GetOrigins(c) ==
  /\ caller[c].at = "idle"
  /\ \/ /\ SnapshotIsFresh
        /\ caller' = [caller EXCEPT ![c] = Says(c, snapshot.origins)]
        /\ UNCHANGED <<inflight, read>>
     \/ /\ ~ SnapshotIsFresh
        /\ inflight' = IF inflight = NoCaller THEN c ELSE inflight
        /\ read' = IF inflight = NoCaller THEN [read EXCEPT ![c] = Scan] ELSE read
        /\ caller' = [caller EXCEPT ![c] = WaitsFor("origins", c)]
  /\ UNCHANGED <<registered, changed, snapshot, healthyLeft, pending>>

\* scanOrigins: the database reads, and its answer is on the way.
ScanOrigins(c) ==
  /\ read[c].of = "scan" /\ read[c].results = <<>>
  /\ read' = [read EXCEPT ![c].results = <<registered>>]
  /\ UNCHANGED <<registered, changed, snapshot, inflight, healthyLeft, pending, caller>>

\* loadOnce, after its await, and the finally of everyone who waits.
ScanEnds(c) ==
  /\ read[c].of = "scan" /\ read[c].results # <<>>
  /\ snapshot' = [known |-> TRUE, origins |-> read[c].results[1], age |-> 0]
  /\ inflight' = NoCaller
  /\ read' = [read EXCEPT ![c] = NoRead]
  /\ Hear(c, "answered", read[c].results[1])
  /\ UNCHANGED <<registered, changed, healthyLeft, pending>>

\* The database fails: what was known goes on to hold, without being renewed.
ScanFails(c) ==
  /\ read[c].of = "scan"
  /\ inflight' = NoCaller
  /\ read' = [read EXCEPT ![c] = NoRead]
  /\ Hear(c, IF snapshot.known THEN "stale" ELSE "failed", snapshot.origins)
  /\ UNCHANGED <<registered, changed, snapshot, healthyLeft, pending>>

-----------------------------------------------------------------------------
(* Whether the server is ready                                             *)

\* InfrastructureReadinessCheck.check, and the timer of the route.
CheckHealth(c) ==
  /\ caller[c].at = "idle"
  /\ \/ /\ healthyLeft > 0
        /\ caller' = [caller EXCEPT ![c] = Says(c, {"ok"})]
        /\ UNCHANGED <<pending, read>>
     \/ /\ healthyLeft = 0
        /\ pending' = IF pending = NoCaller THEN c ELSE pending
        /\ read' = IF pending = NoCaller THEN [read EXCEPT ![c] = Probe] ELSE read
        /\ caller' = [caller EXCEPT ![c] = WaitsFor("health", c)]
  /\ UNCHANGED <<registered, changed, snapshot, inflight, healthyLeft>>

Settled(c) == read[c].of = "probe" /\ \A on \in DOMAIN read[c].results : read[c].results[on] # "asked"

\* PostgreSQL or Redis answers, or stalls for as long as it likes.
Reply(c, on, result) ==
  /\ read[c].of = "probe" /\ read[c].results[on] = "asked"
  /\ read' = [read EXCEPT ![c].results[on] = result]
  /\ UNCHANGED <<registered, changed, snapshot, inflight, healthyLeft, pending, caller>>

\* allSettled, its then and its finally.
ProbeEnds(c) ==
  /\ Settled(c)
  /\ LET up == \A on \in DOMAIN read[c].results : read[c].results[on] = "up"
     IN /\ healthyLeft' = IF up THEN HealthyFor ELSE healthyLeft
        /\ Hear(c, IF up THEN "answered" ELSE "failed", IF up THEN {"ok"} ELSE {})
  /\ pending' = NoCaller
  /\ read' = [read EXCEPT ![c].of = "ended"]
  /\ UNCHANGED <<registered, changed, snapshot, inflight>>

\* Mutant: a route that gives up clears the probe.
TimesOutClearing(c) ==
  /\ caller[c].at = "health" /\ caller[c].waited = HealthTimeout
  /\ caller' = [caller EXCEPT ![c].at = "failed"]
  /\ pending' = NoCaller
  /\ UNCHANGED <<registered, changed, snapshot, inflight, healthyLeft, read>>

\* checkReadiness: the route gives up, the probe does not.
TimesOut(c) ==
  /\ caller[c].at = "health" /\ caller[c].waited = HealthTimeout
  /\ caller' = [caller EXCEPT ![c].at = "failed"]
  /\ UNCHANGED <<registered, changed, snapshot, inflight, healthyLeft, pending, read>>

-----------------------------------------------------------------------------

\* An application that uses the origin is registered, changed or removed.
OriginChanges(o) ==
  /\ registered' = IF o \in registered THEN registered \ {o} ELSE registered \cup {o}
  /\ changed' = [changed EXCEPT ![o] = 0]
  /\ UNCHANGED <<snapshot, inflight, healthyLeft, pending, read, caller>>

UpTo(bound, age) == IF age < bound THEN age + 1 ELSE age

SharedTick ==
  /\ \A c \in Callers : ~ Settled(c) /\ (read[c].of = "scan" => read[c].age < MaxScan)
  /\ changed' = [o \in Origins |-> UpTo(OriginsTtl + MaxScan + 1, changed[o])]
  /\ snapshot' = IF snapshot.known THEN [snapshot EXCEPT !.age = UpTo(OriginsTtl + 1, @)] ELSE snapshot
  /\ healthyLeft' = IF healthyLeft > 0 THEN healthyLeft - 1 ELSE 0
  /\ read' = [c \in Callers |->
       IF read[c].of \in {"scan", "ended"}
       THEN [read[c] EXCEPT !.age = UpTo(MaxScan + HealthyFor, @)] ELSE read[c]]
  /\ caller' = [c \in Callers |->
       IF caller[c].at = "health" THEN [caller[c] EXCEPT !.waited = UpTo(HealthTimeout, @)] ELSE caller[c]]
  /\ UNCHANGED <<registered, inflight, pending>>

OriginsNext ==
  \/ \E c \in Callers : GetOrigins(c) \/ ScanOrigins(c) \/ ScanEnds(c) \/ ScanFails(c)
  \/ \E o \in Origins : OriginChanges(o)
  \/ SharedTick

HealthNext ==
  \/ \E c \in Callers :
       \/ CheckHealth(c) \/ ProbeEnds(c) \/ TimesOut(c)
       \/ \E on \in {"database", "redis"}, result \in {"up", "down"} : Reply(c, on, result)
  \/ SharedTick

SharedNext == OriginsNext \/ HealthNext

SharedSpec == SharedInit /\ [][SharedNext]_sharedVars

-----------------------------------------------------------------------------

\* However many come, wait and give up, the database is scanned once at a time
\* and probed once at a time (readiness.ts:25: "timed-out probes cannot multiply
\* work"; client-directory.ts:31: "Concurrent misses share one scan").
OneAtATime ==
  \A kind \in {"scan", "probe"} : Cardinality({c \in Callers : read[c].of = kind}) <= 1

Hears(c, at) == caller[c].at # at /\ caller'[c].at = at

\* Unless a scan has just failed, what is said of an origin has been so within
\* the lifetime of a snapshot and the time that a scan takes.
OriginsAreRecent ==
  [][\A c \in Callers : Hears(c, "answered") /\ caller'[c].said # {"ok"} =>
       \A o \in Origins :
         (o \in caller'[c].said) # (o \in registered) => changed[o] <= OriginsTtl + MaxScan]_sharedVars

\* "ok" is said of a probe in which both have answered well, and which ended no
\* longer ago than it is good for.
HealthIsTrue ==
  [][\A c \in Callers : Hears(c, "answered") /\ caller'[c].said = {"ok"} =>
       \E d \in Callers :
         /\ read'[d].of = "ended" /\ \A on \in DOMAIN read'[d].results : read'[d].results[on] = "up"
         /\ read'[d].age < HealthyFor \/ read[d].of = "probe"]_sharedVars

\* The reads that requests share are made once, and are as recent as they say.
SharedReadsHold == [][OneAtATime']_sharedVars /\ OriginsAreRecent /\ HealthIsTrue
=============================================================================
