---------------------------------- MODULE Capes ----------------------------------
(***************************************************************************)
(* Which cape a player is shown with (src/src/avatars/service.ts:          *)
(* findCape, findAvailableCapes, resolveRenderCape): Mojang's, or that of  *)
(* another provider, with what is remembered of the others' answers        *)
(* (thirdPartyCapeBody, cape-providers.ts).  The player's profile has been *)
(* read; a call goes through its providers one by one, or asks them at     *)
(* once.  AvatarService has the requests that are shared and the budgets,  *)
(* with one provider.  Time is in ticks.                                   *)
(***************************************************************************)
EXTENDS Integers, Sequences, SequencesExt

CONSTANTS
  Order,        \* SPECIFIC_CAPE_PROVIDERS; the first is Mojang
  Calls,        \* bound: the calls of a behaviour, each made once
  Plans,        \* bound: what each of them asks for, <<kind, provider>>
  MissingTtl,   \* CAPE_MISSING_CACHE_SECONDS, in ticks
  CapeTtl,      \* CAPE_CACHE_SECONDS
  MaxFetch      \* bound: the ticks that a call sees pass

CapeKinds == {"none", "find", "findOf", "overview", "render"}
CapeReplies == {"none", "not-found", "unavailable", "listed", "plain"}

\* A provider is named unlike a reply, and what is remembered is kept for a while.
ASSUME CapesAssumption ==
  /\ Order \in Seq(STRING) /\ Len(Order) > 1 /\ IsInjective(Order)
  /\ ToSet(Order) \cap CapeReplies = {}
  /\ Plans \subseteq [Calls -> CapeKinds \X ToSet(Order)]
  /\ {MissingTtl, CapeTtl} \subseteq Nat \ {0} /\ MaxFetch \in Nat

Mojang == Order[1]
Others == ToSet(Tail(Order))

VARIABLES
  plan,         \* one of Plans; never changes
  signed,       \* the profile carries a cape of Mojang
  wears,        \* the providers that have a cape of the player
  lacked,       \* history: ticks since each of them gave none
  had,          \* history: ticks since each of them gave one
  missing,      \* ticks for which avatar-cape-miss:... is kept
  kept,         \* ticks for which avatar-cape:... is kept
  look,         \* how far each call is with each provider
  capeCall

capeVars == <<plan, signed, wears, lacked, had, missing, kept, look, capeCall>>

Settled3 == {"found", "missing", "failed"}
LongAgo == MissingTtl + CapeTtl + 2 * MaxFetch

CapesInit ==
  /\ plan \in Plans
  /\ signed \in BOOLEAN
  /\ wears \in SUBSET Others
  /\ lacked = [p \in Others |-> LongAgo] /\ had = [p \in Others |-> LongAgo]
  /\ missing = [p \in Others |-> 0] /\ kept = [p \in Others |-> 0]
  /\ look = [c \in Calls |-> [p \in ToSet(Order) |-> "none"]]
  /\ capeCall = [c \in Calls |-> [kind |-> "none", out |-> "none", age |-> 0]]

Reaches(c, p, stage) == look' = [look EXCEPT ![c][p] = stage]
CachesStand == UNCHANGED <<plan, signed, wears, lacked, had, missing, kept>>

\* A call for one provider asks it, one for any asks Mojang first, and the
\* overview all of them.
Asked(kind) ==
  CASE kind \in {"find", "render"} -> {Mojang}
    [] kind = "overview" -> ToSet(Order)

Seek(c, kind, ps) ==
  /\ capeCall[c].kind = "none" /\ plan[c][1] = kind
  /\ capeCall' = [capeCall EXCEPT ![c].kind = kind]
  /\ look' = [look EXCEPT ![c] = [p \in ToSet(Order) |-> IF p \in ps THEN "begun" ELSE "none"]]
  /\ CachesStand

FindCape(c) == Seek(c, "find", Asked("find"))
FindCapeOf(c) == Seek(c, "findOf", {plan[c][2]})
FindAvailableCapes(c) == Seek(c, "overview", Asked("overview"))
RenderWithCape(c) == Seek(c, "render", Asked("render"))

\* Mojang's is on the profile, and its texture is there, gone or cannot be had.
MojangCape(c) ==
  /\ look[c][Mojang] = "begun"
  /\ \E result \in IF signed THEN Settled3 ELSE {"missing"} : Reaches(c, Mojang, result)
  /\ UNCHANGED capeCall /\ CachesStand

\* Redis is asked for what is known; when it fails, the provider is.
ReadMissing(c, p) ==
  /\ look[c][p] = "begun" /\ p # Mojang
  /\ \/ missing[p] > 0 /\ Reaches(c, p, "missing")
     \/ missing[p] = 0 /\ Reaches(c, p, "recall")
     \/ Reaches(c, p, "fetch")
  /\ UNCHANGED capeCall /\ CachesStand

ReadKept(c, p) ==
  /\ look[c][p] = "recall"
  /\ (kept[p] > 0 /\ Reaches(c, p, "found")) \/ Reaches(c, p, "fetch")
  /\ UNCHANGED capeCall /\ CachesStand

\* Whatever goes wrong with a provider counts as no cape.
FetchCape(c, p) ==
  /\ look[c][p] = "fetch"
  /\ \/ /\ p \in wears
        /\ Reaches(c, p, "keep")
        /\ had' = [had EXCEPT ![p] = 0] /\ UNCHANGED lacked
     \/ /\ Reaches(c, p, "note")
        /\ lacked' = [lacked EXCEPT ![p] = 0] /\ UNCHANGED had
  /\ UNCHANGED <<plan, signed, wears, missing, kept, capeCall>>

\* Mutant: that there is none is noted for as long as a cape is kept.
NoteMissingForLong(c, p) ==
  /\ look[c][p] = "note"
  /\ missing' = [missing EXCEPT ![p] = CapeTtl] \/ UNCHANGED missing
  /\ Reaches(c, p, "missing")
  /\ UNCHANGED <<plan, signed, wears, lacked, had, kept, capeCall>>

NoteMissing(c, p) ==
  /\ look[c][p] = "note"
  /\ missing' = [missing EXCEPT ![p] = MissingTtl] \/ UNCHANGED missing
  /\ Reaches(c, p, "missing")
  /\ UNCHANGED <<plan, signed, wears, lacked, had, kept, capeCall>>

KeepCape(c, p) ==
  /\ look[c][p] = "keep"
  /\ kept' = [kept EXCEPT ![p] = CapeTtl] \/ UNCHANGED kept
  /\ Reaches(c, p, "found")
  /\ UNCHANGED <<plan, signed, wears, lacked, had, missing, capeCall>>

Pending(c) == {p \in ToSet(Order) : look[c][p] \notin Settled3 \cup {"none"}}
Places(c, stage) == {k \in DOMAIN Order : look[c][Order[k]] = stage}
FirstAt(c, stage) == Order[Min(Places(c, stage))]

CapeAnswers(c, out) ==
  capeCall' = [capeCall EXCEPT ![c].out = out] /\ UNCHANGED look

\* The next provider is asked only when the one before has none.
NextProvider(c) ==
  IF Places(c, "found") # {} THEN CapeAnswers(c, FirstAt(c, "found"))
  ELSE IF Places(c, "failed") # {} THEN CapeAnswers(c, "unavailable")
  ELSE IF capeCall[c].kind = "findOf" \/ Places(c, "none") = {} THEN CapeAnswers(c, "not-found")
  ELSE Reaches(c, FirstAt(c, "none"), "begun") /\ UNCHANGED capeCall

\* A render asks all the others at once, and a failure does not keep it from
\* what another one has.
OtherProviders(c) ==
  IF Places(c, "found") # {} THEN CapeAnswers(c, FirstAt(c, "found"))
  ELSE IF Places(c, "none") = {} THEN CapeAnswers(c, "plain")
  ELSE /\ look' = [look EXCEPT ![c] = [p \in ToSet(Order) |->
                                         IF p = Mojang THEN look[c][p] ELSE "begun"]]
       /\ UNCHANGED capeCall

Decides(c) ==
  /\ capeCall[c].kind # "none" /\ capeCall[c].out = "none" /\ Pending(c) = {}
  /\ CASE capeCall[c].kind \in {"find", "findOf"} -> NextProvider(c)
       [] capeCall[c].kind = "render" -> OtherProviders(c)
       [] capeCall[c].kind = "overview" -> CapeAnswers(c, "listed")
  /\ CachesStand

\* The player gets a cape of a provider, or loses it.
CapeChanges(p) ==
  /\ wears' = IF p \in wears THEN wears \ {p} ELSE wears \cup {p}
  /\ UNCHANGED <<plan, signed, lacked, had, missing, kept, look, capeCall>>

Older(age) == IF age < LongAgo THEN age + 1 ELSE age
Shorter(left) == IF left > 0 THEN left - 1 ELSE 0
UnderWay(c) == capeCall[c].kind # "none" /\ capeCall[c].out = "none"

CapeTick ==
  /\ \A c \in Calls : UnderWay(c) => capeCall[c].age < MaxFetch
  /\ lacked' = [p \in Others |-> Older(lacked[p])] /\ had' = [p \in Others |-> Older(had[p])]
  /\ missing' = [p \in Others |-> Shorter(missing[p])]
  /\ kept' = [p \in Others |-> Shorter(kept[p])]
  /\ capeCall' = [c \in Calls |-> IF UnderWay(c) THEN [capeCall[c] EXCEPT !.age = @ + 1] ELSE capeCall[c]]
  /\ UNCHANGED <<plan, signed, wears, look>>

CapesNext ==
  \/ \E c \in Calls :
       \/ FindCape(c) \/ FindCapeOf(c) \/ FindAvailableCapes(c) \/ RenderWithCape(c) \/ MojangCape(c) \/ Decides(c)
       \/ \E p \in Others : \/ ReadMissing(c, p) \/ ReadKept(c, p) \/ FetchCape(c, p)
                            \/ NoteMissing(c, p) \/ KeepCape(c, p)
  \/ \E p \in Others : CapeChanges(p)
  \/ CapeTick

CapesSpec == CapesInit /\ [][CapesNext]_capeVars

-----------------------------------------------------------------------------

\* What is remembered of a provider, and what a call is about to remember, has
\* been its answer within the time that it is remembered for: no write that comes
\* late, and no call that overtakes another, makes an answer last longer.
MemoryIsRecent ==
  \A p \in Others :
    /\ missing[p] > 0 => lacked[p] <= MissingTtl - missing[p] + MaxFetch
    /\ kept[p] > 0 => had[p] <= CapeTtl - kept[p] + MaxFetch
    /\ \A c \in Calls : /\ look[c][p] = "missing" /\ UnderWay(c) =>
                             lacked[p] < MissingTtl + MaxFetch + capeCall[c].age
                        /\ look[c][p] = "found" /\ UnderWay(c) =>
                             had[p] < CapeTtl + MaxFetch + capeCall[c].age

\* "'any' resolves providers in priority order" (service.ts:658): a cape is shown
\* only when no provider before it has answered with one; looked for by itself,
\* only when all of them have answered that they have none.
FirstOfThoseWhoHave ==
  \A c \in Calls : \A k \in DOMAIN Order :
    capeCall[c].out = Order[k] /\ capeCall[c].kind \in {"find", "render"} =>
      \A j \in 1 .. k - 1 :
        look[c][Order[j]] \in {"missing"} \cup (IF capeCall[c].kind = "render" THEN {"failed"} ELSE {})

\* "Not found" is said when nobody failed, and a render goes without a cape only
\* when nobody has one.
NoneIsMissed ==
  \A c \in Calls :
    /\ capeCall[c].out = "not-found" => Places(c, "failed") = {}
    /\ capeCall[c].out \in {"plain", "not-found"} => Places(c, "found") = {} /\ Pending(c) = {}
    /\ capeCall[c].out = "plain" => Places(c, "none") = {}

CapesAreTrue == MemoryIsRecent /\ FirstOfThoseWhoHave /\ NoneIsMissed
=============================================================================
