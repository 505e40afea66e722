----------------------------- MODULE AvatarService -----------------------------
(***************************************************************************)
(* The avatar service (src/src/avatars/service.ts) over the lookups: equal *)
(* requests for a render or a cape are shared, pictures are cached, equal  *)
(* pictures are made once at a time, and what is made passes through the   *)
(* render budget.  A render keeps its slot until its picture is stored; a  *)
(* processed skin only until it is encoded, and a raw skin is only decoded.*)
(***************************************************************************)
EXTENDS ProfileLookup

CONSTANTS Workloads,   \* bound: what the callers ask for, what the upstream does not have
                       \* and what the cache holds, as a behaviour begins
          MaxInFlight  \* the requests in flight beyond which no render is taken

VARIABLES inflight,  \* of each shared kind of request, the caller whose promise is in the map
          making,    \* of each picture, the caller that makes it
          shelf      \* the pictures in the cache

ASSUME AvatarAssumption == "render" \in Budgets \ Providers /\ MaxInFlight \in Nat \ {0}

\* What the cache holds as a behaviour begins was true when it was written.
ASSUME WorkloadAssumption ==
  \A w \in Workloads :
    /\ w.call \in [Callers -> Kinds]
    /\ w.absent \subseteq Resources
    /\ w.cache \in [Resources -> Entries]
    /\ \A r \in Resources \ {"cape"} : w.cache[r] = "null" => r \in w.absent

uvars == <<inflight, making, shelf>>
allVars == <<budget, fvars, lvars, uvars>>

SharedKinds == Renders \cup {"cape"}

Key(c) == [view |-> View(call[c]), skin |-> proc[c].skin, cape |-> proc[c].cape]

LookupTypeOK ==
  /\ FetchTypeOK
  /\ call \in [Callers -> Kinds]
  /\ proc \in [Callers -> Proc]
  /\ cache \in [Resources -> Entries]
  /\ absent \subseteq Resources
  /\ mishaps \in 0..MaxMishaps
  /\ inflight \in [SharedKinds -> Callers \cup {None}]
  /\ making \in [Pictures -> Callers \cup {None}]
  /\ shelf \subseteq Pictures

AvatarInit ==
  /\ FetchInit
  /\ \E w \in Workloads : call = w.call /\ absent = w.absent /\ cache = w.cache
  /\ proc = [c \in Callers |-> Fresh(call[c])]
  /\ mishaps = 0
  /\ inflight = [k \in SharedKinds |-> None]
  /\ making = [k \in Pictures |-> None]
  /\ shelf = {}

Ends(S, o) ==
  proc' = [c \in Callers |->
            IF c \in S THEN [proc[c] EXCEPT !.at = "done", !.out = o] ELSE proc[c]]

InFlight == {k \in SharedKinds : inflight[k] # None}

\* A call comes in.  Only renders are refused when too much is in flight.
Ask(c) ==
  LET kind == call[c] IN
    /\ proc[c].at = "idle"
    /\ \/ /\ kind \notin SharedKinds
          /\ Asks(c, "read")
          /\ UNCHANGED inflight
       \/ /\ kind \in SharedKinds /\ inflight[kind] # None
          /\ Asks(c, "share")
          /\ UNCHANGED inflight
       \/ /\ kind \in Renders /\ inflight[kind] = None
          /\ Cardinality(InFlight) >= MaxInFlight
          /\ Ends({c}, "unavailable")
          /\ UNCHANGED inflight
       \/ /\ kind \in SharedKinds /\ inflight[kind] = None
          /\ kind \in Renders => Cardinality(InFlight) < MaxInFlight
          /\ Asks(c, "read")
          /\ inflight' = [inflight EXCEPT ![kind] = c]
    /\ UNCHANGED <<budget, fvars, call, absent, cache, mishaps, making, shelf>>

Sharing(c) == {d \in Callers : proc[d].at = "share" /\ call[d] = call[c]}

\* Mutant: a request that failed stays in the map.
ClearFound(c) ==
  /\ proc[c].at = "done"
  /\ call[c] \in SharedKinds /\ inflight[call[c]] = c
  /\ proc[c].out # "unavailable"
  /\ inflight' = [inflight EXCEPT ![call[c]] = None]
  /\ Ends(Sharing(c), proc[c].out)
  /\ UNCHANGED <<budget, fvars, call, absent, cache, mishaps, making, shelf>>

\* A request that ended leaves the map, and those who share it are answered.
Clear(c) ==
  /\ proc[c].at = "done"
  /\ call[c] \in SharedKinds /\ inflight[call[c]] = c
  /\ inflight' = [inflight EXCEPT ![call[c]] = None]
  /\ Ends(Sharing(c), proc[c].out)
  /\ UNCHANGED <<budget, fvars, call, absent, cache, mishaps, making, shelf>>

\* The cache is read for the picture; a raw skin is not kept there.
ReadPicture(c) ==
  /\ proc[c].at = "read" /\ proc[c].on = "picture"
  /\ \E seen \in {"none", "fresh", "broken"} :
       /\ \/ seen = (IF Key(c) \in shelf THEN "fresh" ELSE "none") /\ UNCHANGED mishaps
          \/ seen = "broken" /\ call[c] # "raw" /\ Mishap
       /\ proc' = [proc EXCEPT ![c].at = "go", ![c].seen = seen]
  /\ UNCHANGED <<budget, fvars, call, absent, cache, uvars>>

BeingMade(c) == call[c] # "raw" /\ making[Key(c)] # None

\* The picture was cached, is being made, cannot be queued, or is begun.
GoPicture(c) ==
  /\ proc[c].at = "go" /\ proc[c].on = "picture"
  /\ \/ /\ proc[c].seen = "fresh"
        /\ Ends({c}, "found")
        /\ UNCHANGED <<budget, making>>
     \/ /\ proc[c].seen # "fresh" /\ BeingMade(c)
        /\ Asks(c, "follow")
        /\ UNCHANGED <<budget, making>>
     \/ /\ proc[c].seen # "fresh" /\ ~BeingMade(c) /\ Exhausted("render")
        /\ Ends({c}, "unavailable")
        /\ UNCHANGED <<budget, making>>
     \/ /\ proc[c].seen # "fresh" /\ ~BeingMade(c)
        /\ Enter("render", c)
        /\ Asks(c, "paint")
        /\ making' = IF call[c] = "raw" THEN making ELSE [making EXCEPT ![Key(c)] = c]
  /\ UNCHANGED <<fvars, call, absent, cache, mishaps, inflight, shelf>>

\* Those who wait for the picture that c makes.
Following(c) == {d \in Callers : proc[d].at = "follow" /\ making[Key(d)] = c}

\* The making of a picture is over, for c and for all who follow.
Made(c, o) ==
  /\ making' = [k \in Pictures |-> IF making[k] = c THEN None ELSE making[k]]
  /\ Ends({c} \cup Following(c), o)

\* The picture is made, or cannot be.
Paint(c) ==
  /\ proc[c].at = "paint"
  /\ \/ /\ call[c] \in Renders
        /\ budget["render"].phase[c] = "working"
        /\ Asks(c, "store")
        /\ UNCHANGED <<budget, making, mishaps>>
     \/ /\ call[c] = "processed"
        /\ Leave("render", c)
        /\ Asks(c, "store")
        /\ UNCHANGED <<making, mishaps>>
     \/ /\ call[c] = "raw"
        /\ Leave("render", c)
        /\ Made(c, "found")
        /\ UNCHANGED mishaps
     \/ /\ Mishap
        /\ Leave("render", c)
        /\ Made(c, "unavailable")
  /\ UNCHANGED <<fvars, call, absent, cache, inflight, shelf>>

\* The picture is written to the cache; it is found even if that fails.
Store(c) ==
  /\ proc[c].at = "store"
  /\ \/ shelf' = shelf \cup {Key(c)} /\ UNCHANGED mishaps
     \/ Mishap /\ UNCHANGED shelf
  /\ IF call[c] \in Renders THEN Leave("render", c) ELSE UNCHANGED budget
  /\ Made(c, "found")
  /\ UNCHANGED <<fvars, call, absent, cache, inflight>>

\* A picture is not kept for longer than a day.
AgePicture ==
  /\ Mishap
  /\ \E k \in shelf : shelf' = shelf \ {k}
  /\ UNCHANGED <<budget, fvars, call, absent, proc, cache, inflight, making>>

Slots(c) == Granted(c) /\ UNCHANGED <<lvars, uvars>>
Looks(c) == (Read(c) \/ Go(c) \/ Take(c) \/ Keep(c) \/ Drop(c) \/ Upstream(c)) /\ UNCHANGED uvars
Paints(c) == Clear(c) \/ ReadPicture(c) \/ GoPicture(c) \/ Paint(c) \/ Store(c)
Works(c) == Slots(c) \/ Looks(c) \/ Paints(c)

Passing == (Age /\ UNCHANGED uvars) \/ (CoolDownEnds /\ UNCHANGED <<lvars, uvars>>) \/ AgePicture

AvatarNext == (\E c \in Callers : Ask(c) \/ Works(c)) \/ Passing

AvatarSpec == AvatarInit /\ [][AvatarNext]_allVars

\* Continuations are run, Redis answers or fails, a request ends by its timeout
\* at the latest, and a render ends.
AvatarFairSpec == AvatarSpec /\ \A c \in Callers : WF_allVars(Works(c))
--------------------------------------------------------------------------------
\* A picture is made by one caller at a time, whatever the requests that need it,
\* and nobody waits for one that nobody makes (service.ts: inFlightRenders,
\* inFlightTextures).
OneRenderPerKey ==
  /\ \A c, d \in Callers :
       /\ {proc[c].at, proc[d].at} \subseteq {"paint", "store"}
       /\ Key(c) = Key(d) /\ "raw" \notin {call[c], call[d]}
       => c = d
  /\ \A c \in Callers : proc[c].at = "follow" => making[Key(c)] # None

\* A call that was begun is answered, also one that shares the request, the
\* picture or the upstream request of another which fails, or one that waits for
\* a slot behind it (service.ts: render; public-fetch.ts; work-budget.ts).
EveryCallAnswers == []<>(\A c \in Callers : proc[c].at \in {"idle", "done"})

\* Nothing is asked for or made twice at a time, and the slots of the budgets are
\* those of the work under way (public-fetch.ts, work-budget.ts, service.ts).
LookupsInOrder == LookupTypeOK /\ SlotsMatch /\ OneRequestPerUrl /\ OneRenderPerKey

\* What a call answers is what the upstream has said, now or before.
AnswersAreTrue == KnownIsAnswered /\ NoFalseMiss
=============================================================================
