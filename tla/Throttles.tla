-------------------------------- MODULE Throttles --------------------------------
(***************************************************************************)
(* What keeps requests within bounds: the rate limits of the API           *)
(* (src/src/api/rate-limit.ts, oauth-http-routes.ts), whose counters are   *)
(* in Redis and outlive a process, and the pacing of connections to the    *)
(* ghost server (ghost-server.ts), whose map is in memory.  A request      *)
(* passes its buckets one after the other, and others run between them.    *)
(* The library counts in windows that begin with the first request; time   *)
(* is in ticks.  Four endpoints stand for those of their chain of buckets. *)
(***************************************************************************)
EXTENDS Integers, Sequences, FiniteSets

CONSTANTS
  Arrivals,       \* bound: the requests of a behaviour
  Addresses, Uids,
  Maximum,        \* of each bucket: the requests of a window
  Window,         \* in ticks
  MaxEntries      \* CONNECTION_PACING_MAP_MAX_ENTRIES

Endpoints == {"token", "authorize", "status", "join"}
Buckets == {"token", "global", "authorize", "poll", "status", "pacing"}

ASSUME ThrottleAssumption ==
  Maximum \in [Buckets -> Nat \ {0}] /\ Window \in Nat \ {0} /\ MaxEntries \in Nat \ {0}

VARIABLES
  counter,        \* of each key in Redis, [count, left]
  pacing,         \* connectionPacing
  sinceSweep,     \* ticks since lastPacingSweep, up to Window
  request         \* each request

throttleVars == <<counter, pacing, sinceSweep, request>>

\* The onRequest hooks of an endpoint; that of the server comes before the route's.
Chain(endpoint) ==
  CASE endpoint = "token" -> <<"token", "global">>
    [] endpoint = "authorize" -> <<"authorize">>
    [] endpoint = "status" -> <<"poll", "status">>
    [] endpoint = "join" -> <<"pacing">>

\* What a bucket is of: all requests, those of an address, or its polls of a uid.
Owner(bucket, r) ==
  CASE bucket = "global" -> <<>>
    [] bucket = "status" -> <<request[r].address, request[r].uid>>
    [] OTHER -> <<request[r].address>>

\* Mutant: keys without the prefix that tells the limiters of one store apart.
KeyOfOwner(bucket, r) == Owner(bucket, r)

KeyGenerator(bucket, r) == <<bucket>> \o Owner(bucket, r)

NoCount == [count |-> 0, left |-> 0]
Never == -1

\* A request: how many of its buckets have let it pass, and how long ago each of
\* them has counted it, up to Window.
NoRequest == [endpoint |-> "token", address |-> "none", uid |-> "none", passed |-> 0,
         out |-> "idle", ages |-> <<Never, Never>>]

ThrottleInit ==
  /\ counter = <<>>
  /\ pacing = [a \in Addresses |-> NoCount]
  /\ sinceSweep = Window
  /\ request = [r \in Arrivals |-> NoRequest]

Next1(r) == Chain(request[r].endpoint)[request[r].passed + 1]
Waits(r) == request[r].out = "waiting"

Arrive(r, endpoint, a, u) ==
  /\ request[r].out = "idle"
  /\ u # "none" <=> endpoint = "status"
  /\ request' = [request EXCEPT ![r] = [NoRequest EXCEPT !.endpoint = endpoint, !.address = a,
                                                    !.uid = u, !.out = "waiting"]]
  /\ UNCHANGED <<counter, pacing, sinceSweep>>

\* The next bucket has counted r and lets it pass, or does not.
CountedNow(r, passes) ==
  LET k == request[r].passed + 1
      last == k = Len(Chain(request[r].endpoint))
  IN request' = [request EXCEPT
       ![r].ages[k] = 0,
       ![r].passed = IF passes THEN k ELSE k - 1,
       ![r].out = IF ~passes THEN "refused" ELSE IF last THEN "served" ELSE "waiting"]

CounterOf(key) == IF key \in DOMAIN counter THEN counter[key] ELSE NoCount

Incremented(entry) ==
  [count |-> entry.count + 1, left |-> IF entry.left = 0 THEN Window ELSE entry.left]

\* The library counts a request, in one script, and compares.
Count(r) ==
  /\ Waits(r) /\ Next1(r) # "pacing"
  /\ LET key == KeyGenerator(Next1(r), r)
         entry == Incremented(CounterOf(key))
     IN /\ counter' = [k \in DOMAIN counter \cup {key} |-> IF k = key THEN entry ELSE counter[k]]
        /\ CountedNow(r, entry.count <= Maximum[Next1(r)])
  /\ UNCHANGED <<pacing, sinceSweep>>

\* Redis cannot be reached: no request goes unlimited (skipOnError: false).
CountFails(r) ==
  /\ Waits(r) /\ Next1(r) # "pacing"
  /\ request' = [request EXCEPT ![r].out = "failed"]
  /\ UNCHANGED <<counter, pacing, sinceSweep>>

LiveEntries(map) == {a \in Addresses : map[a].left > 0}
HeldEntries(map) == {a \in Addresses : map[a].count > 0}   \* expired entries included

\* A connection.  A new entry in a full map first sweeps the expired ones away,
\* once in a window; between two sweeps the map grows.
Pace(r) ==
  LET a == request[r].address
      new == a \notin LiveEntries(pacing)
      sweeps == new /\ Cardinality(HeldEntries(pacing)) >= MaxEntries /\ sinceSweep >= Window
      swept == IF sweeps THEN [b \in Addresses |-> IF b \in LiveEntries(pacing) THEN pacing[b] ELSE NoCount]
               ELSE pacing
      full == sweeps /\ Cardinality(HeldEntries(swept)) >= MaxEntries
      entry == Incremented(IF new THEN NoCount ELSE swept[a])
  IN /\ Waits(r) /\ Next1(r) = "pacing"
     /\ sinceSweep' = IF sweeps THEN 0 ELSE sinceSweep
     /\ pacing' = IF full THEN swept ELSE [swept EXCEPT ![a] = entry]
     /\ CountedNow(r, ~full /\ entry.count <= Maximum["pacing"])
     /\ UNCHANGED counter

Aged(age) == IF age = Never \/ age = Window THEN age ELSE age + 1

\* A tick passes: keys expire in Redis; entries of the map stay, expired.
WindowTick ==
  /\ \E r \in Arrivals : request[r].out = "idle" \/ Waits(r)
  /\ counter' = [k \in {j \in DOMAIN counter : counter[j].left > 1} |->
                   [counter[k] EXCEPT !.left = @ - 1]]
  /\ pacing' = [a \in Addresses |->
                  IF pacing[a].left > 0 THEN [pacing[a] EXCEPT !.left = @ - 1] ELSE pacing[a]]
  /\ sinceSweep' = IF sinceSweep < Window THEN sinceSweep + 1 ELSE sinceSweep
  /\ request' = [r \in Arrivals |->
                   [request[r] EXCEPT !.ages = <<Aged(@[1]), Aged(@[2])>>]]

ThrottleNext ==
  \/ \E r \in Arrivals, e \in Endpoints, a \in Addresses, u \in Uids \cup {"none"} : Arrive(r, e, a, u)
  \/ \E r \in Arrivals : Count(r) \/ CountFails(r) \/ Pace(r)
  \/ WindowTick

ThrottleSpec == ThrottleInit /\ [][ThrottleNext]_throttleVars

---------------------------------------------------------------------------
\* The requests that the bucket of r has counted within the last window.
Position(bucket, r) ==
  CHOOSE k \in DOMAIN Chain(request[r].endpoint) : Chain(request[r].endpoint)[k] = bucket

CountedBy(bucket, owner) ==
  {r \in Arrivals :
     /\ \E k \in DOMAIN Chain(request[r].endpoint) : Chain(request[r].endpoint)[k] = bucket
     /\ Owner(bucket, r) = owner
     /\ request[r].ages[Position(bucket, r)] \in 0 .. Window - 1}

PassedBy(bucket, owner) ==
  {r \in CountedBy(bucket, owner) : request[r].passed >= Position(bucket, r)}

\* No window, wherever it begins, lets more than twice its maximum pass.
NoneBeyond ==
  \A r \in Arrivals : \A k \in 1 .. request[r].passed :
    LET bucket == Chain(request[r].endpoint)[k]
    IN Cardinality(PassedBy(bucket, Owner(bucket, r))) <= 2 * Maximum[bucket]

\* A request is refused only by a bucket that as many of its own kind have filled
\* within the window, or by a map that is full of live entries.
RefusedForCause ==
  \A r \in Arrivals :
    request[r].out = "refused" /\ request[r].ages[request[r].passed + 1] = 0 =>
      LET bucket == Next1(r) IN
      \/ Cardinality(CountedBy(bucket, Owner(bucket, r)) \ {r}) >= Maximum[bucket]
      \/ bucket = "pacing" /\ Cardinality(LiveEntries(pacing)) >= MaxEntries

\* oauth-http-routes.ts:73: "Rejected per-address traffic must never consume the
\* shared budget"; and the polls that an address is refused are not counted as
\* polls of their sign-in.
RejectedSpendNothing ==
  \A r \in Arrivals :
    request[r].out = "refused" /\ request[r].passed = 0 => request[r].ages[2] = Never

LimitsHold == NoneBeyond /\ RefusedForCause /\ RejectedSpendNothing
=============================================================================
