------------------------------- MODULE Lifecycle -------------------------------
(***************************************************************************)
(* The life of a process: src/src/main.ts, which runs both servers, and    *)
(* src/src/api/main.ts and src/src/mc-server/main.ts, which run one each.  *)
(* Connections are opened together, the rest of the start is one await     *)
(* after the other, and any of them may fail; a failure or a signal closes *)
(* what there is, in one order.  Requests, the sweeper of expired          *)
(* authorizations and lost connections go on beside it.                    *)
(***************************************************************************)
EXTENDS Naturals, Sequences

CONSTANT MaxFaults  \* bound: connections lost and calls that fail

ASSUME LifecycleAssumption == MaxFaults \in Nat

VARIABLES program,  \* "main", "api" or "minecraft"
          stage,    \* what the process is at: a step of its start, or what it closes
          state,    \* its connections and servers
          busy,     \* servers with a request, or a resolution of a code, under way
          timer,    \* the sweeper's interval is set
          sweep,    \* the statement that the sweeper waits for
          handlers, \* signals that have a handler
          failed,   \* the exit code will be 1
          faults

lifeVars == <<program, stage, state, busy, timer, sweep, handlers, failed, faults>>

Servers == {"api", "minecraft"}
Stores == {"redis", "cache", "database"}

Runs(p) == IF p = "main" THEN Servers ELSE {p}
Opens(p) == IF p = "minecraft" THEN Stores \ {"cache"} ELSE Stores

StartOrder ==
  [main |-> <<"connect", "ghost", "owner", "client", "register", "listen", "up">>,
   api |-> <<"connect", "owner", "client", "register", "listen", "up">>,
   minecraft |-> <<"connect", "ghost", "up">>]

CloseOrder == <<"api", "minecraft", "redis", "cache", "database", "over">>

Steps(order) == {order[i] : i \in DOMAIN order}

Follows(order, s) == order[1 + CHOOSE i \in DOMAIN order : order[i] = s]

Closes == Servers \cup Stores
Starts == Steps(StartOrder[program]) \ {"up"}

\* The process is up until it closes; the sweeper runs from the connections on.
LifecycleTypeOK ==
  /\ program \in {"main", "api", "minecraft"}
  /\ stage \in Steps(StartOrder[program]) \cup Closes \cup {"over", "exited", "killed"}
  /\ state \in [Closes -> {"none", "opening", "made", "open", "lost", "closing", "closed", "stuck"}]
  /\ busy \subseteq Runs(program)
  /\ timer \in BOOLEAN /\ (timer => stage \in (Starts \ {"connect"}) \cup {"up", "killed"})
  /\ sweep \in {"none", "tokens", "grants"}
  /\ handlers \subseteq {"SIGINT", "SIGTERM"}
  /\ failed \in BOOLEAN /\ faults \in 0..MaxFaults

LifeInit ==
  /\ program \in {"main", "api", "minecraft"}
  /\ stage = "connect"
  /\ state = [r \in Closes |-> IF r \in Opens(program) THEN "opening" ELSE "none"]
  /\ busy = {} /\ timer = FALSE /\ sweep = "none" /\ handlers = {}
  /\ failed = FALSE /\ faults = 0

Fault == faults < MaxFaults /\ faults' = faults + 1

Running == stage \notin {"exited", "killed"}

Becomes(r, s) == state' = [state EXCEPT ![r] = s]
--------------------------------------------------------------------------------
(* Start. *)

\* closeResources: the sweeper's interval goes at once.
BeginsToClose == stage' = Head(CloseOrder) /\ timer' = FALSE

\* closeAfterStartupFailure
StartFails == BeginsToClose /\ failed' = TRUE /\ UNCHANGED <<sweep, handlers>>

\* A step of the start is done; after the last one signals are handled.
Proceeds ==
  /\ stage' = Follows(StartOrder[program], stage)
  /\ handlers' = IF stage' = "up" THEN {"SIGINT", "SIGTERM"} ELSE {}
  /\ UNCHANGED failed

\* Each connection is made, whatever has become of the start meanwhile; the last of
\* them starts the sweeper, which begins with a sweep.
Connects(r) ==
  /\ Running /\ r \in Stores /\ state[r] = "opening"
  /\ Becomes(r, "open")
  /\ IF stage = "connect" /\ \A x \in Opens(program) : state'[x] # "opening"
     THEN /\ Proceeds
          /\ timer' = ("api" \in Runs(program))
          /\ sweep' = IF timer' THEN "tokens" ELSE "none"
     ELSE UNCHANGED <<stage, handlers, failed, timer, sweep>>
  /\ UNCHANGED <<program, busy, faults>>

\* The Redis client goes on trying after its first attempt failed.
ConnectFails(r) ==
  /\ Running /\ r \in Stores /\ state[r] = "opening" /\ Fault
  /\ Becomes(r, IF r = "database" THEN "closed" ELSE "lost")
  /\ IF stage = "connect" THEN StartFails
                          ELSE UNCHANGED <<stage, handlers, failed, timer, sweep>>
  /\ UNCHANGED <<program, busy>>

\* What a step of the start leaves open: a server that listens, or one that is made.
Opened ==
  CASE stage = "ghost" -> [state EXCEPT !["minecraft"] = "open"]
    [] stage = "register" -> [state EXCEPT !["api"] = "made"]
    [] stage = "listen" -> [state EXCEPT !["api"] = "open"]
    [] OTHER -> state

\* startGhostServer, resolveOwnerProfile with the grants of the owner, ensureConsole-
\* Client, createApiServer, listen
StartStep ==
  /\ stage \in Starts \ {"connect"}
  /\ \/ state' = Opened /\ Proceeds /\ UNCHANGED <<timer, sweep, faults>>
     \/ Fault /\ StartFails /\ UNCHANGED state
  /\ UNCHANGED <<program, busy>>
--------------------------------------------------------------------------------
(* Beside it. *)

LosesConnection(r) ==
  /\ Running /\ r \in {"redis", "cache"} /\ state[r] = "open" /\ Fault
  /\ Becomes(r, "lost")
  /\ UNCHANGED <<program, stage, busy, timer, sweep, handlers, failed>>

Reconnects(r) ==
  /\ Running /\ state[r] = "lost" /\ Becomes(r, "open")
  /\ UNCHANGED <<program, stage, busy, timer, sweep, handlers, failed, faults>>

Serve(r) ==
  /\ Running /\ r \in Servers /\ state[r] = "open" /\ r \notin busy
  /\ busy' = busy \cup {r}
  /\ UNCHANGED <<program, stage, state, timer, sweep, handlers, failed, faults>>

Served(r) ==
  /\ Running /\ r \in busy /\ busy' = busy \ {r}
  /\ UNCHANGED <<program, stage, state, timer, sweep, handlers, failed, faults>>

\* One sweep at a time, every minute.
SweepBegins ==
  /\ Running /\ timer /\ sweep = "none" /\ sweep' = "tokens"
  /\ UNCHANGED <<program, stage, state, busy, timer, handlers, failed, faults>>

\* Mutant: a sweep begins again when it has removed what it may.
SweepsOn(statement) == IF statement = "tokens" THEN "grants" ELSE "tokens"

AfterStatement(statement) == IF statement = "tokens" THEN "grants" ELSE "none"

\* A statement after the database was left makes the pool connect again, or fails.
SweepStep ==
  /\ Running /\ sweep # "none"
  /\ \/ /\ state["database"] \in {"open", "closed"} /\ Becomes("database", "open")
        /\ sweep' = AfterStatement(sweep)
        /\ UNCHANGED faults
     \/ Fault /\ sweep' = "none" /\ UNCHANGED state
     \/ state["database"] \in {"closed", "stuck"} /\ sweep' = "none" /\ UNCHANGED <<state, faults>>
  /\ UNCHANGED <<program, stage, busy, timer, handlers, failed>>

\* The pool's idle connections end by themselves.
PoolIdles ==
  /\ stage = "over" /\ sweep = "none" /\ state["database"] = "open"
  /\ Becomes("database", "closed")
  /\ UNCHANGED <<program, stage, busy, timer, sweep, handlers, failed, faults>>

\* The first signal closes the resources; one without a handler kills the process.
Signal(s) ==
  /\ Running
  /\ IF s \in handlers
     THEN /\ handlers' = handlers \ {s}
          /\ IF stage = "up" THEN BeginsToClose ELSE UNCHANGED <<stage, timer>>
     ELSE stage' = "killed" /\ UNCHANGED <<handlers, timer>>
  /\ UNCHANGED <<program, state, busy, sweep, failed, faults>>
--------------------------------------------------------------------------------
(* closeResources *)

Onward == stage' = Follows(CloseOrder, stage)

NothingToClose ==
  /\ stage \in Closes /\ state[stage] = "none" /\ Onward
  /\ UNCHANGED <<program, state, busy, timer, sweep, handlers, failed, faults>>

\* A server takes no more requests,
StopsServing ==
  /\ stage \in Servers /\ state[stage] \in {"made", "open"}
  /\ Becomes(stage, "closing")
  /\ UNCHANGED <<program, stage, busy, timer, sweep, handlers, failed, faults>>

\* and is closed when those under way are answered; the ghost server has its players
\* sent away, and does not wait for the resolution of their codes.
ServerCloses ==
  /\ stage \in Servers /\ state[stage] = "closing" /\ Onward
  /\ \/ /\ stage = "api" => "api" \notin busy
        /\ Becomes(stage, "closed") /\ UNCHANGED <<failed, faults>>
     \/ Becomes(stage, "stuck") /\ failed' = TRUE /\ Fault
  /\ UNCHANGED <<program, busy, timer, sweep, handlers>>

\* Mutant: a client that is not ready is left alone.
LeavesUnready(r) == IF state[r] = "open" THEN "closed" ELSE state[r]

\* quit, or disconnect of a client that is not ready
LeavesRedis(r) == "closed"

\* quit may fail: the client is disconnected then.
RedisCloses ==
  /\ stage \in {"redis", "cache"} /\ state[stage] # "none" /\ Onward
  /\ Becomes(stage, LeavesRedis(stage))
  /\ \/ UNCHANGED <<failed, faults>>
     \/ state[stage] = "open" /\ failed' = TRUE /\ Fault
  /\ UNCHANGED <<program, busy, timer, sweep, handlers>>

\* $disconnect comes after a $connect that is under way.
DatabaseCloses ==
  /\ stage = "database" /\ state["database"] # "opening" /\ Onward
  /\ \/ Becomes(stage, "closed") /\ UNCHANGED <<failed, faults>>
     \/ Becomes(stage, "stuck") /\ failed' = TRUE /\ Fault
  /\ UNCHANGED <<program, busy, timer, sweep, handlers>>

CloseStep == NothingToClose \/ StopsServing \/ ServerCloses \/ RedisCloses \/ DatabaseCloses

\* Node ends when nothing is left to wait for.
Exits ==
  /\ stage = "over" /\ busy = {} /\ sweep = "none"
  /\ \A r \in Closes : state[r] \in {"none", "closed"}
  /\ stage' = "exited"
  /\ UNCHANGED <<program, state, busy, timer, sweep, handlers, failed, faults>>
--------------------------------------------------------------------------------
LifeNext ==
  \/ \E r \in Stores : Connects(r) \/ ConnectFails(r) \/ LosesConnection(r) \/ Reconnects(r)
  \/ \E r \in Servers : Serve(r) \/ Served(r)
  \/ \E s \in {"SIGINT", "SIGTERM"} : Signal(s)
  \/ StartStep \/ SweepBegins \/ SweepStep \/ PoolIdles \/ CloseStep \/ Exits

LifeSpec == LifeInit /\ [][LifeNext]_lifeVars

\* Connections, requests and statements have timeouts, and promises settle.
LifeFairness ==
  /\ \A r \in Stores : WF_lifeVars(Connects(r))
  /\ \A r \in Servers : WF_lifeVars(Served(r))
  /\ WF_lifeVars(SweepStep) /\ WF_lifeVars(PoolIdles)
  /\ WF_lifeVars(CloseStep) /\ WF_lifeVars(Exits)

LifeFairSpec == LifeSpec /\ LifeFairness
--------------------------------------------------------------------------------
\* No request of the API finds its connections closed by the process itself: they
\* come before the server and go after it, also when the start fails between.  Only
\* a server that could not be closed may go on without them.
ServedWithStores ==
  "api" \in busy /\ state["api"] # "stuck" =>
    \A r \in Opens(program) : state[r] \in {"open", "lost"}

\* Whatever failed on the way, in the start or in closing, nothing is left open or
\* trying to connect at its end that could have been closed; and what could not be
\* is reported by the exit code.
NothingLeftOpen ==
  stage = "over" =>
    \A r \in Closes \ {"database"} :
      state[r] \in {"none", "closed"} \/ (state[r] = "stuck" /\ failed)

\* A process that closes ends, by itself or by another signal, unless something
\* could not be closed: no sweep or request keeps it forever.
ProcessEnds ==
  stage \in Closes \cup {"over"} ~>
    \/ stage \in {"exited", "killed"}
    \/ \E r \in Closes : state[r] = "stuck"

\* What is opened is there for those who use it, and closed after them.
ResourcesInOrder == LifecycleTypeOK /\ ServedWithStores /\ NothingLeftOpen
=============================================================================
