----------------------------- MODULE ProfileLookup -----------------------------
(***************************************************************************)
(* Cached lookups: profiles and their signing keys                         *)
(* (src/src/mojang/client.ts), skins (skin-store.ts), default skins        *)
(* (default-skins.ts) and capes (src/src/avatars/service.ts:               *)
(* thirdPartyCapeBody), over the cache in Redis (cache.ts) and the public  *)
(* fetch.                                                                  *)
(*                                                                         *)
(* An entry of the cache is "fresh", "stale" (kept to fall back on),       *)
(* "null" (the upstream said there is nothing) or "none".  The keys are    *)
(* kept no longer than they are fresh, and neither are capes.  Reading and *)
(* writing are awaited, and either can fail.  What the upstream has does   *)
(* not change; whether it says so is another matter.                       *)
(***************************************************************************)
EXTENDS PublicFetch

CONSTANT MaxMishaps  \* bound: how often something fails, or ages in the cache

VARIABLES call,    \* what each caller asks for (it stays)
          absent,  \* what the upstream does not have (it stays)
          proc,    \* the progress of each call
          cache,   \* the entries of Redis
          mishaps  \* how many there were

lvars == <<call, absent, proc, cache, mishaps>>

-----------------------------------------------------------------------------
(* What each call fetches and in which order: the lookups of               *)
(* src/src/mojang/client.ts by themselves, and the images of               *)
(* src/src/avatars/service.ts (findSource, resolveCape, resolveRenderCape) *)
(* for one player, who wears a skin and no Mojang cape; the five providers *)
(* of other capes stand as one.                                            *)

Lookups == {"byName", "byId", "fresh"}
Renders == {"headByName", "headById", "headByTexture", "backById"}
Images == Renders \cup {"processed", "raw", "cape"}
Kinds == Lookups \cup Images

\* The stages of a call.  "fresh" is the profile past the cache, "fallback" the
\* default skin of one who has no profile, "default" that of one who has.
Stages == {"name", "id", "fresh", "keys", "skin", "default", "fallback", "cape", "picture"}

View(kind) ==
  CASE kind \in {"headByName", "headById", "headByTexture"} -> "head"
    [] kind = "backById" -> "back"
    [] kind = "processed" -> "processed"
    [] OTHER -> "none"

\* The identity under which a picture is cached and shared.
Pictures == [view : {"head", "back", "processed"}, skin : {"skin", "default"},
             cape : BOOLEAN]

First(kind) ==
  CASE kind \in {"byName", "headByName"} -> "name"
    [] kind = "fresh" -> "fresh"
    [] kind = "headByTexture" -> "skin"
    [] OTHER -> "id"

\* Only some views show a cape.
Dressed(kind) == IF kind = "backById" THEN "cape" ELSE "picture"

\* Looking for a cape alone: the profile, and then the cape.
CapeFollows(on, o) == IF on = "id" /\ o = "found" THEN "cape" ELSE "end"

\* Looking for a skin: by name, by profile, by texture, or a default one.
SourceFollows(kind, on, o) ==
  CASE on = "name" -> IF o = "found" THEN "id" ELSE "fallback"
    [] on = "id" -> IF o = "found" THEN "skin" ELSE "fallback"
    [] on = "skin" -> IF o = "found" THEN Dressed(kind)
                      ELSE IF kind = "headByTexture" THEN "end" ELSE "default"
    [] on = "default" -> IF o = "found" THEN Dressed(kind) ELSE "end"
    [] on = "fallback" -> IF o = "found" THEN "picture" ELSE "end"
    [] on = "cape" -> "picture"
    [] OTHER -> "end"

\* The stage that follows the outcome o of a stage; "end" when the call ends.
Follows(kind, on, o) ==
  CASE o = "unavailable" \/ kind \in Lookups -> "end"
    [] kind = "cape" -> CapeFollows(on, o)
    [] OTHER -> SourceFollows(kind, on, o)

\* The answer of a call that ends with the outcome o of a stage: a default skin
\* that is not there is a failure.
Answer(on, o) == IF on \in {"default", "fallback"} /\ o = "missing" THEN "unavailable" ELSE o

-----------------------------------------------------------------------------

Resources == {"name", "id", "keys", "skin", "default", "cape"}
Source(on) == CASE on = "fresh" -> "id" [] on = "fallback" -> "default" [] OTHER -> on

Outcomes == {"found", "missing", "unavailable"}
Entries == {"none", "fresh", "stale", "null"}

ASSUME LookupAssumption ==
  Urls = Resources /\ MaxMishaps \in Nat /\ None \notin Outcomes

Proc == [at    : {"idle", "share", "read", "go", "await", "keep", "drop", "follow", "paint",
                  "store", "done"},
         on    : Stages,
         seen  : Entries \cup {"broken"},  \* what the cache was read as
         stale : BOOLEAN,                  \* there is a stale value to fall back on
         skin  : {"skin", "default"},
         cape  : BOOLEAN,
         out   : Outcomes \cup {None}]

Fresh(kind) == [at |-> "idle", on |-> First(kind), seen |-> "none", stale |-> FALSE,
                skin |-> "skin", cape |-> FALSE, out |-> None]

Profile(c) == IF call[c] = "fresh" THEN "fresh" ELSE "id"

\* A call whose progress is p leaves its stage with the outcome o.
Onward(kind, p, o) ==
  LET next == Follows(kind, p.on, o)
  IN IF next = "end"
     THEN [p EXCEPT !.at = "done", !.out = Answer(p.on, o)]
     ELSE [p EXCEPT !.at = "read", !.on = next,
                    !.skin = IF next \in {"default", "fallback"} THEN "default" ELSE @,
                    !.cape = (p.on = "cape" /\ o = "found")]

Passes(c, o) == proc' = [proc EXCEPT ![c] = Onward(call[c], @, o)]

\* A lookup fails: a stale value is used when there is one (staleFallback).  What
\* fails while a profile is verified fails the profile.
Fails(c) ==
  LET p == [proc[c] EXCEPT !.on = IF @ = "keys" THEN Profile(c) ELSE @]
      o == IF p.stale THEN "found" ELSE "unavailable"
  IN proc' = [proc EXCEPT ![c] = Onward(call[c], p, o)]

\* Something goes wrong.
Mishap == mishaps < MaxMishaps /\ mishaps' = mishaps + 1

\* With the keys at hand the profile is verified; a cached lookup then writes it.
Verifies(c) ==
  \/ /\ call[c] # "fresh"
     /\ proc' = [proc EXCEPT ![c].at = "keep", ![c].on = "id"]
     /\ UNCHANGED mishaps
  \/ /\ call[c] = "fresh"
     /\ proc' = [proc EXCEPT ![c].at = "done", ![c].on = "fresh", ![c].out = "found"]
     /\ UNCHANGED mishaps
  \/ Mishap /\ Fails(c)

\* What the cache is read as; a fresh lookup does not look there.
Sees(c, seen) ==
  \/ seen = (IF proc[c].on = "fresh" THEN "none" ELSE cache[Source(proc[c].on)]) /\ UNCHANGED mishaps
  \/ seen = "broken" /\ proc[c].on # "fresh" /\ Mishap

\* The cache is read.
Read(c) ==
  /\ proc[c].at = "read" /\ proc[c].on # "picture"
  /\ \E seen \in Entries \cup {"broken"} :
       /\ Sees(c, seen)
       /\ proc' = [proc EXCEPT ![c].at = "go", ![c].seen = seen,
                               ![c].stale = IF proc[c].on = "keys" THEN @ ELSE seen = "stale"]
  /\ UNCHANGED <<budget, fvars, call, absent, cache>>

\* The cache answers, or it failed (which only a cape outlives), or the upstream
\* is asked.
Go(c) ==
  LET p == proc[c] IN
    /\ p.at = "go" /\ p.on # "picture"
    /\ \/ /\ p.seen = "null" /\ Passes(c, "missing")
          /\ UNCHANGED <<budget, fvars, mishaps>>
       \/ /\ p.seen = "fresh" /\ p.on # "keys" /\ Passes(c, "found")
          /\ UNCHANGED <<budget, fvars, mishaps>>
       \/ /\ p.seen = "fresh" /\ p.on = "keys" /\ Verifies(c)
          /\ UNCHANGED <<budget, fvars>>
       \/ /\ p.seen = "broken" /\ p.on # "cape" /\ Fails(c)
          /\ UNCHANGED <<budget, fvars, mishaps>>
       \/ /\ \/ p.seen \in {"none", "stale"}
             \/ p.seen = "broken" /\ p.on = "cape"
          /\ Fetch(c, Source(p.on))
          /\ proc' = [proc EXCEPT ![c].at = "await"]
          /\ UNCHANGED mishaps
    /\ UNCHANGED <<call, absent, cache>>

Asks(c, step) == proc' = [proc EXCEPT ![c].at = step]

\* The answer is that it is there.  A profile is verified first.
TakesIt(c) ==
  /\ reply[c] = "ok"
  /\ IF proc[c].on \in {"id", "fresh"}
     THEN proc' = [proc EXCEPT ![c].at = "read", ![c].on = "keys"]
     ELSE Asks(c, "keep")

\* Mutant: a lookup that fails with nothing to fall back on counts as missing.
MissesOnFailure(c) ==
  /\ \/ reply[c] = "gone" /\ proc[c].on # "keys"
     \/ reply[c] = "error" /\ ~proc[c].stale /\ proc[c].on # "keys"
  /\ IF proc[c].on = "fresh" THEN Passes(c, "missing") ELSE Asks(c, "drop")

\* The answer is that it is not there.  A cape that cannot be had, for whatever
\* reason, is one that is not there.
Misses(c) ==
  /\ \/ reply[c] = "gone" /\ proc[c].on # "keys"
     \/ reply[c] = "error" /\ proc[c].on = "cape"
  /\ IF proc[c].on = "fresh" THEN Passes(c, "missing") ELSE Asks(c, "drop")

\* There is no answer; keys that are not there are none.
GoesWithout(c) ==
  /\ \/ reply[c] = "error" /\ proc[c].on # "cape"
     \/ reply[c] = "gone" /\ proc[c].on = "keys"
  /\ Fails(c)

\* The answer of the upstream is taken.
Take(c) ==
  /\ proc[c].at = "await" /\ reply[c] # None
  /\ Taken(c)
  /\ TakesIt(c) \/ Misses(c) \/ GoesWithout(c)
  /\ UNCHANGED <<budget, pending, asked, cooling, call, absent, cache, mishaps>>

\* The value is written to the cache.  A write that fails counts as a failed
\* lookup, except for a cape.
Keep(c) ==
  LET p == proc[c] IN
    /\ p.at = "keep"
    /\ \/ /\ cache' = [cache EXCEPT ![Source(p.on)] = "fresh"]
          /\ IF p.on = "keys" THEN Verifies(c) ELSE Passes(c, "found") /\ UNCHANGED mishaps
       \/ /\ Mishap
          /\ IF p.on = "cape" THEN Passes(c, "found") ELSE Fails(c)
          /\ UNCHANGED cache
    /\ UNCHANGED <<budget, fvars, call, absent>>

\* That there is nothing is written to the cache, for a short time.
Drop(c) ==
  LET p == proc[c] IN
    /\ p.at = "drop"
    /\ \/ /\ cache' = [cache EXCEPT ![Source(p.on)] = "null"]
          /\ Passes(c, "missing")
          /\ UNCHANGED mishaps
       \/ /\ Mishap
          /\ IF p.on = "cape" THEN Passes(c, "missing") ELSE Fails(c)
          /\ UNCHANGED cache
    /\ UNCHANGED <<budget, fvars, call, absent>>

\* The upstream answers a request of c, truly or with an error.
Upstream(c) ==
  /\ \E u \in Urls :
       \/ Respond(c, u, IF u \in absent THEN "gone" ELSE "ok") /\ UNCHANGED mishaps
       \/ Respond(c, u, "error") /\ Mishap
  /\ UNCHANGED <<call, absent, proc, cache>>

Age ==
  /\ Mishap
  /\ \E r \in Resources :
       /\ cache[r] # "none"
       /\ cache' = [cache EXCEPT ![r] =
            IF @ = "fresh" /\ r \notin {"keys", "cape"} THEN "stale" ELSE "none"]
  /\ UNCHANGED <<budget, fvars, call, absent, proc>>
--------------------------------------------------------------------------------
\* A call ends without an answer only if it had none to fall back on: a profile
\* in the cache outlives an upstream that fails, refuses, cools down or signs
\* with other keys, and a cache that cannot be written (client.ts:
\* staleFallback).
KnownIsAnswered ==
  \A c \in Callers :
    call[c] \in {"byName", "byId"} /\ proc[c].at = "done" /\ proc[c].stale
      => proc[c].out # "unavailable"

\* Only the upstream's own word makes something missing: a
\* failure, of whichever of those who share a request, leaves neither a marker
\* of absence nor the default skin of another face (client.ts:147-164;
\* service.ts: "transient upstream failures above return unavailable, never a
\* default").  A cape is the exception the code makes.
NoFalseMiss ==
  /\ \A r \in Resources \ {"cape"} : cache[r] = "null" => r \in absent
  /\ \A c \in Callers :
       LET p == proc[c] IN
         /\ p.on = "default" => "skin" \in absent
         /\ p.on = "fallback" => {"name", "id"} \cap absent # {}
         /\ call[c] \in Lookups /\ p.out = "missing" => Source(p.on) \in absent
=============================================================================
