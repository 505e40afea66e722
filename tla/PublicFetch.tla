------------------------------ MODULE PublicFetch ------------------------------
(***************************************************************************)
(* The fetch for public assets (src/src/infrastructure/public-fetch.ts):   *)
(* requests for one URL are shared while they are in flight, each provider *)
(* has its work budget, and a provider that answers 429 or 5xx, or whose   *)
(* request fails, is left alone for five seconds.                          *)
(*                                                                         *)
(* A caller awaits one fetch at a time.  An operation is known by the      *)
(* caller that began it.  What the upstream answers is "ok", "gone" (204   *)
(* or 404) or "error" (any other status, a body too large or malformed, a  *)
(* network error, either of the timeouts); an error may or may not be one  *)
(* that starts the cool-down.  The cool-down ends at any time.  No more    *)
(* providers are talked to than the sixteen the map takes.                 *)
(***************************************************************************)
EXTENDS WorkBudget

CONSTANTS Urls,
          ProviderOf,  \* of each URL, the budget of its origin
          None

ASSUME FetchAssumption ==
  /\ ProviderOf \in [Urls -> Budgets]
  /\ None \notin Callers \cup Urls \cup {"ok", "gone", "error"}

VARIABLES pending,  \* of each URL, the caller whose operation is in flight
          asked,    \* of each caller, the URL whose answer it awaits
          reply,    \* of each caller, the answer it was given
          cooling   \* the providers whose retryAt has not come

fvars == <<pending, asked, reply, cooling>>

Replies == {"ok", "gone", "error"}
Providers == {ProviderOf[u] : u \in Urls}

FetchTypeOK ==
  /\ BudgetTypeOK
  /\ pending \in [Urls -> Callers \cup {None}]
  /\ asked \in [Callers -> Urls \cup {None}]
  /\ reply \in [Callers -> Replies \cup {None}]
  /\ cooling \subseteq Providers

FetchInit ==
  /\ BudgetInit
  /\ pending = [u \in Urls |-> None]
  /\ asked = [c \in Callers |-> None]
  /\ reply = [c \in Callers |-> None]
  /\ cooling = {}

\* Mutant: only requests that already went upstream are shared.
SharedOnceSent(u) ==
  pending[u] # None /\ budget[ProviderOf[u]].phase[pending[u]] = "working"

Shared(u) == pending[u] # None

Throws(u) ==
  \/ ProviderOf[u] \in cooling
  \/ ~Shared(u) /\ Exhausted(ProviderOf[u])

\* The caller c asks for u: it is refused at once, joins, or begins a request.
Fetch(c, u) ==
  /\ asked[c] = None
  /\ \/ /\ Throws(u)
        /\ reply' = [reply EXCEPT ![c] = "error"]
        /\ UNCHANGED <<budget, pending, asked, cooling>>
     \/ /\ ~Throws(u) /\ Shared(u)
        /\ asked' = [asked EXCEPT ![c] = u]
        /\ UNCHANGED <<budget, pending, reply, cooling>>
     \/ /\ ~Throws(u) /\ ~Shared(u)
        /\ Enter(ProviderOf[u], c)
        /\ pending' = [pending EXCEPT ![u] = c]
        /\ asked' = [asked EXCEPT ![c] = u]
        /\ UNCHANGED <<reply, cooling>>

\* Those who await the operation of c for u.
Awaiting(c, u) == IF pending[u] = c THEN {d \in Callers : asked[d] = u} ELSE {c}

\* The operation settles: all who await it go on, the URL is free again.
Settled(c, u, r) ==
  /\ pending' = [pending EXCEPT ![u] = None]
  /\ asked' = [d \in Callers |-> IF d \in Awaiting(c, u) THEN None ELSE asked[d]]
  /\ reply' = [d \in Callers |-> IF d \in Awaiting(c, u) THEN r ELSE reply[d]]

\* The upstream answers r to a request of c for u; only an error may start the
\* cool-down.
Respond(c, u, r) ==
  /\ asked[c] = u
  /\ Leave(ProviderOf[u], c)
  /\ Settled(c, u, r)
  /\ \/ r = "error" /\ cooling' = cooling \cup {ProviderOf[u]}
     \/ UNCHANGED cooling

\* The slot handed over while c waited in the queue becomes its own.
Granted(c) ==
  /\ \E b \in Budgets : Resume(b, c)
  /\ UNCHANGED fvars

CoolDownEnds ==
  /\ cooling # {}
  /\ \E p \in cooling : cooling' = cooling \ {p}
  /\ UNCHANGED <<budget, pending, asked, reply>>

\* The answer is taken by the caller.
Taken(c) == reply' = [reply EXCEPT ![c] = None]
--------------------------------------------------------------------------------
Operation(c, u) ==
  asked[c] = u /\ budget[ProviderOf[u]].phase[c] \in {"queued", "granted", "working"}

\* No two requests for the same URL are under way or in the queue, and whoever
\* awaits a URL awaits an operation that exists: it is the one the map names
\* (public-fetch.ts: pending).
OneRequestPerUrl ==
  \A u \in Urls :
    /\ \A c, d \in Callers : Operation(c, u) /\ Operation(d, u) => c = d
    /\ \A c \in Callers : asked[c] = u => pending[u] # None /\ Operation(pending[u], u)
=============================================================================
