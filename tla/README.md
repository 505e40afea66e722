# Verification of CraftLogin

TLA+ models of CraftLogin, an OAuth 2.0 / OpenID Connect provider for Minecraft
accounts, with the TLC configurations that check them and theorems that TLAPS
checks. The program is one or more Node processes (single-threaded, every
`await` is a place where others run) and one Minecraft process, around a Redis
server, which runs every Lua script as one step, and a PostgreSQL database.
Paths below are relative to `src/src/` unless they say otherwise.

## 1. Inventory

| Component | State it keeps | Operations | What is hard |
|---|---|---|---|
| Verification store (`verification/redis-verification-store.ts`) | Redis: one hash per sign-in, one key per code | allocate, hasPendingCode, claim, claimInteraction, complete, release, claimVerified, complete/releaseFinalization, reset, getStatus | keys expire apart from each other; claims time out under their holder; code keys are reused |
| Verification resolver (`verification/verification-resolver.ts`) | none; local claim across awaits | resolve, resolveInteraction | stores the player in PostgreSQL between claim and completion |
| Interaction service (`oauth/interaction-service.ts`) | none | start, prepareMicrosoft, startSkin, lookupSkin, checkSkin, status, complete, abort, switchAccount, resetVerification | persisting a result that must not be handed out twice; retries |
| Skin verification (`verification/skin-verification-service.ts`, `redis-skin-verification-store.ts`, `skin-marker.ts`) | Redis: one challenge per sign-in | start, lookup, check, discard; drawing a marker | two claims held at once, on the challenge and on the record; slow upstream calls between them; shades near the clamps |
| Microsoft sign-in (`verification/microsoft-oauth-*.ts`, `api/microsoft-oauth-routes.ts`) | transaction cookie | prepare, callback | claims a record after a chain of HTTP calls; callbacks of one browser cross |
| Grants and tokens (`oauth/postgres-grant-adapter.ts`, `postgres-oidc-adapters.ts`, `redis-oidc-adapter.ts`, `refresh-token-sweeper.ts`, `api/access-token-authenticator.ts`) | PostgreSQL: grants, refresh tokens; Redis: codes, access tokens, sessions, interactions | upsert, find, consume, destroy, revokeByGrantId, sweep, authenticate | two databases without a common transaction; revocation races rotation |
| Interaction gateway (`oauth/interaction-gateway.ts`) | none | details, persistVerifiedResult, persistConsent, abort, switchAccount | undoing a grant whose result could not be stored |
| Account page (`api/account-routes.ts`, `account-session.ts`) | account sessions | revoke, delete | erases rows that others still refer to; a session saved after it was ended |
| Verified users (`users/`) | PostgreSQL: users | upsertVerifiedUser, resolve a username | verifications stored out of order |
| Developer access (`developers/developer-repository.ts`) | PostgreSQL: developers | grant, revoke, setVerified | the last administrator, under serializable retries |
| Developer sessions (`developers/session-store.ts`, `session-service.ts`, `api/developer-oidc-login.ts`) | Redis: sessions and an index per user; a cookie during the sign-in | login, callback, create, authenticate, rotate, list, revoke, logout | two lifetimes, rotation during use, the index; links opened twice or elsewhere |
| Applications (`developers/app-management.ts`, `api/app-registration.ts`) | PostgreSQL: applications; icon files | register, edit, remove, ask for and decide on verification | stale console pages |
| Ghost server (`mc-server/`) | memory: counters, pacing map, pending clients, timers | connection, handshake, login, join, chat, kick, end, shutdown | callbacks in any order; every counter must come back down; what a client of each version can show |
| Work budgets and upstream fetches (`infrastructure/work-budget.ts`, `public-fetch.ts`, `readiness.ts`) | memory: slots, queue, requests in flight, cool-down, the probe | run, fetch, check | hand-over of slots; joined requests |
| Mojang client and caches (`mojang/`) | Redis cache | profiles, keys, skins | answers of any age, failures at any point |
| Avatars (`avatars/`) | memory: three maps of work in flight; caches | find, render, capes | sharing; what is remembered of absent capes; rounding |
| Rate limits (`api/rate-limit.ts`, `oauth-http-routes.ts`) | Redis: windows | a chain of buckets per request | buckets passed one after the other, keys that share a store |
| Origins that may read (`api/client-directory.ts`) | memory: a snapshot, a scan in flight | get | many wait for one scan, which may fail |
| Start-up and shutdown (`main.ts`, `api/main.ts`, `mc-server/main.ts`) | resources of the process | start, stop, sweep | failures and signals at any await |
| Pages, assets, locales, schemas | none | pure functions | nothing concurrent |

How they interact: the web process allocates a code and shows it; the Minecraft
process (a join of `CODE.host`, or a chat message in the lobby), the skin check
or the Microsoft callback claims the record, stores the user and completes it.
The player confirms in the browser, the interaction service claims the verified
record, the gateway saves a grant and the result of the interaction, and the
OIDC library goes on to issue a code and tokens through the adapters. The
account page ends grants and sessions behind all of them. The developer console
is a client of the same provider, with sessions and roles of its own. Avatars,
skin checks and usernames go through one Mojang client, whose requests are
shared, bounded and cached.

What makes each component correct, with the properties that say so, is in
section 3; the hazards, each at its line, are in `PROJECT.json`.

## 2. Modules

| Module | Models |
|---|---|
| `VerificationStore` | the Redis records of a sign-in and the scripts, one action per script outcome |
| `Verification` | the methods and their callers, one action per stretch between two awaits; extends `VerificationStore` |
| `Redemption` | the abstract promise of the store: sign-ins offered, taken, bound and handed out |
| `SkinVerification` | challenges, checks, "not you", composed with all of `Verification` |
| `SkinMarker` | the marker a player is asked to wear: tones, palettes, shades and letters |
| `SignInFlow` | interactions of a browser: pages, callbacks, consents, their results and grants; over `Redemption` |
| `Grants` | grants, codes, access and refresh tokens, the account page |
| `Clock`, `OidcSessions`, `VerifiedUsers`, `Accounts` | the sessions and the row of an account: scripts and statements, and the requests that make them |
| `Identities`, `DeveloperAccess`, `DeveloperSessions`, `Applications`, `DeveloperConsole` | roles, console sessions and applications, and the requests, commands and start-up that change them |
| `ConsoleLogin` | how a browser signs in to the console |
| `Throttles` | chains of rate limits, and the pacing map of the ghost server |
| `GhostServer` | the Minecraft server, its lobby and its kicks |
| `JoinStream` | the packets that a client of a version is sent |
| `Hostnames` | which code or lobby an address or a line of chat names |
| `Lifecycle` | start, stop and failure of the three programs |
| `BoundedWork`, `WorkBudget` | an abstract bounded first-in first-out pool, and the budgets that implement it |
| `PublicFetch`, `ProfileLookup`, `AvatarService` | shared upstream requests, what each call fetches, the cached lookups, the pictures made of them; each extends the one before |
| `Figure` | the atlas of a skin and the flat pictures painted from it |
| `Capes` | which provider's cape is found, listed or rendered, and what is remembered |
| `SharedReads` | the shared scan for origins and the shared probe behind `/health` |
| `*Proofs` | theorems and their proofs |
| `MC*` | instances for TLC |

Definitions marked "Mutant" in a module are plausible wrong versions of the
definition that follows them. No specification uses them; they show that a
property would notice.

Several instances hold more than one component. Their variable `part` is chosen
at the start and says whose steps a behaviour takes; the others stay in one
initial state. `MCDeveloperConsole` has the console, the sign-in to it and the
rate limits; `MCGhostServer` the server, the process, the packets and the
addresses; `MCAvatarService` the service, the pictures and the capes;
`MCAccounts` the sessions and the interactions; `MCGrants` the grants, the
origins and the probe; `MCSkinVerification` the challenges and the marker. The
parts share nothing in the code either: nothing is lost by taking them one at a
time, and where two of them do meet, they are composed in one module.

### How the verification models correspond to the code

`rec[i]` is the hash of interaction `i` (`status` "none" is the absent key) and
`codes[c]` the key of code `c`. `ttl` is what PTTL returns, `left` the time to
the stored `expiresAt`. Time is counted down in ticks; a key with `ttl = 0` is
in its last millisecond, where Redis still returns it and reports PTTL 0, which
is the branch `remainingTtl <= 0` of the scripts. Each script is an action (or
one per outcome when the outcomes differ in what they change); the callers'
actions add the guard from the code before the script and the local variables
kept across awaits: `call[k].i, code, id, player` are the fields of the
`VerificationClaim` that `claim` returns. `Abandon` is a crash or a failed call
at any await. `FreshClaims` is `randomUUID`: it draws an id nobody remembers.
`right` in `ClaimVerified` is whether the confirmation code typed in matches.

History variables: `proved[i]`, the players who won a claim on the record since
it was created; `handed[i]`, how many finalization claims were given out on it
and not given back; in `SkinVerification`, `lost`, `stale` and `rejected`. They
influence no step.

`hasPendingCode`, `getStatus` and polling are reads; they change nothing and have
no action, but the guards that depend on them (`NeedsCode`, `SeeWhyRefused`) use
what they return.

`SkinVerification` adds `skin[i]`, the challenge, and `task[t]`, the request of
a browser tab with its locals. Looking up the player and the skin is a free
choice of what comes back. `RejectIdentity` follows `Discard` as a step of its
own, since the two are separate awaits of `resetVerification`. `SkinMarker`
keeps of a colour its lightness in whole percents (hue and saturation are the
same within a palette), and its pixels stand for their SHA-256.

### How the models of grants, sessions and interactions correspond

`Grants`: one account and one client application. `grant[g]` is the `OidcGrant` row
("revoked" has `revokedAt` set), `past` the grants whose `expiresAt` has passed,
`redis[a]` the grant of each stored code or access token, `row[t]` the
`RefreshToken` row. `req[r]` is a request under way. An upsert of a code or an
access token is two steps, the check of the grant in PostgreSQL
(`IssueCode`, `IssueAccess`) and the script (`WriteArtifact`); an upsert of a
refresh token is one transaction with the grant row locked (`SaveRefresh`);
`find` is the read of the token and the read of its grant (`CheckGrant`).
`EraseAccount` deletes the user with the rows that cascade from it
(`prisma/schema.prisma`). The order in which a token request finds, consumes and
saves, and in which a reused refresh token is destroyed and its grant revoked
for all kinds of token at the same time, is that of the OIDC library and is
external.

`OidcSessions` counts whole seconds, as the code does in `iat` and in the marker of
an erasure; each script of the adapter is one operator, and `Accounts` has the
requests that call them, one step per call. The erasure of an account is four
statements on two databases: its sessions and its row are in `Accounts`, its
grants in `Grants`, its developer's role in `DeveloperConsole`.

`SignInFlow` takes the store at its promise (`Redemption`, which `Verification`
implements) and has every write of the gateway and its clean-up as a step of its
own, with a failure or a late answer possible at each.

### How the models of the developer console correspond

A transaction of `DeveloperAccess` is its snapshot and its end; PostgreSQL aborts
it as serializable isolation does. A request of `DeveloperConsole` presents a
session id that was once given out, is authenticated, rotated if its role is
stale, and handled; every await is a step. `ConsoleLogin` has the transaction
cookie, set and cleared when a response arrives and not when it is computed;
state and verifier are one token. Links may be opened again and in another
browser. `Throttles` has the fixed windows of the rate-limit library, begun by the
first request, in ticks; four chains of buckets stand for all.

### How the models of the Minecraft server correspond

`GhostServer` is one thread: a step is a handler up to its next await, and the
promises of a client settle in any order. `JoinStream` is the sequence of packets
through the wrappers of a connection; what minecraft-data says of a version is a
constant record. In `Hostnames` an address is a sequence of tokens; the limits on
its length are left out. `Lifecycle` follows each of the three `main.ts` from the
first connection to the exit.

### How the models of fetches and avatars correspond

A job of `WorkBudget` is a call of `run`; a released slot passes to the head of
the queue, which goes on in a later microtask ("granted"). `PublicFetch` names an
operation by the caller that began it. In `ProfileLookup` a cache entry is fresh,
stale, null or absent, and reading and writing it may fail. `Figure` computes in
exact fractions where the code has doubles; the posed wings are left out.
`Capes` counts in ticks what is remembered of two providers beside Mojang; every
failure of a provider is no cape, as in `cape-providers.ts`. `SharedReads` settles
all who wait for one read in one step, which is one turn of the event loop.

## 3. What the runs check

| Run | Instance | Distinct states | Checks |
|---|---|---|---|
| `verification` | 2 interactions, 2 codes, 2 calls, 4 claim ids, TTLs 2/1/1 | 109 k | `TypeOK`, `PendingIsJoinable`, `FinalizedOnce`, `KeepsPromise` |
| `expiry` | 1 interaction, 2 players, TTLs 3/2/2, 3 guesses, a tab beside a call, fairness | 486 k | `BoundByItsClaimant`, `IdentityIsFinal`, `EverythingExpires` |
| `verification_code_key` | 1 interaction, 2 codes | | finds `ResolvedHasNoCodeKey` violated |
| `skin` | 1 interaction, 2 tabs beside 1 call; 75 entropies, 5 tones, 4 skins | 160 k | `ChallengesInOrder`, `RejectedNeverClaims`, `MarkerStandsOut` |
| `skin_stale` | as the challenges of `skin` | | finds `NoChallengeFromBefore` violated |
| `grants` | 1 grant, 2 codes, 1 access token, 2 refresh tokens, 2 requests; 3 callers, 1 origin | 403 k | `RedeemedOnce`, `OneLivingHeir`, `EndedIsRefused`, `ReuseLeavesNothing`, `SharedReadsHold` |
| `grants_tombstone` | 1 grant, 1 code, 2 requests | | finds `TombstoneStands` violated |
| `accounts` | 2 requests, 2 session ids, 1 uid, 3 seconds; 2 interactions, 2 visits at a time | 1.5 M | `ErasureEndsSessions`, `SessionsStand`, `NewestNameStands`, `EndsInSevenDays`, `AnswersInOrder`, `GrantsAreKept` |
| `console` | 2 users, 2 requests, 3 sessions, 1 application in seven workloads; 2 browsers, 3 callbacks; 3 arrivals | 775 k | `SessionsInOrder`, `ActsWithHeldRole`, `RolesRemain`, `AppsAreManaged`, `LoginIsItsOwn`, `LimitsHold` |
| `ghost` | 2 clients, 2 addresses under three sets of limits; 3 programs, 2 faults; 7 versions; all addresses of three labels; fairness | 191 k | `GhostInOrder`, `PlayersAreTold`, `EveryoneIsSentAway`, `ResourcesInOrder`, `ProcessEnds`, `WorldIsWhole`, `HostsAreRead` |
| `avatars` | 3 callers in eight workloads, 1 mishap; every view and size; 3 providers of capes; fairness | 278 k | `LookupsInOrder`, `AnswersAreTrue`, `EveryCallAnswers`, `BudgetsAreBounded`, `SkinsFit`, `CapesAreTrue` |
| `profile` | the pictures of `avatars` | | finds `ProfileIsOfTheLeft` violated |

Several properties are conjunctions of named parts, which their modules state and
comment one by one. The most telling:

- `PendingIsJoinable`: while a sign-in shows a code, the code's key exists,
  names it and has the same time left, through retries and releases.
- `KeepsPromise`: the store implements `Redemption`; `BoundByItsClaimant`: a
  resolver that comes back late never binds its player to a later record.
- `FinalizedOnce`, `IdentityIsFinal`: a confirmed identity is handed to the OIDC
  provider once, and a failed hand-over neither changes it nor refills guesses.
- `EverythingExpires`: no sequence of retries keeps a record or a challenge alive.
- `ChallengesInOrder`: on no way out of a check is its claim forgotten;
  `RejectedNeverClaims`: after "not you" a check in flight cannot sign in.
- `MarkerStandsOut`: the shades of a marker differ, its letters are darker or
  lighter than their background, and an older marker never passes for a new one.
- `RedeemedOnce`, `OneLivingHeir`: one winner per code and per refresh token, and
  one line of refresh tokens per code.
- `EndedIsRefused`, `ReuseLeavesNothing`: after a revocation, a request that begins
  later does not get in, and a reused refresh token leaves none behind.
- `ErasureEndsSessions`: a request that starts after an erasure is let pass only
  with a session begun later. The one exception it names is a session that reaches
  its seven days in the middle of a request of the library.
- `AnswersInOrder`, `GrantsAreKept`: an interaction is answered with the player who
  was proved in it, and no grant is lost or left behind whatever write fails.
- `RolesRemain`, `ActsWithHeldRole`: the last administrator and the owner stay, and
  a request acts with a role its user had since it began.
- `LoginIsItsOwn`: a browser has a session only of a sign-in begun in it.
- `LimitsHold`: no bucket lets more pass than two windows may, and what one bucket
  refuses is not taken from the next.
- `PlayersAreTold`, `EveryoneIsSentAway`: the outcome is shown once and is the true
  one; everyone leaves and the server stops.
- `WorldIsWhole`, `HostsAreRead`: a client of each generation of versions gets a
  world it can show; an address names its code in whatever way a client writes it.
- `LookupsInOrder`, `AnswersAreTrue`: nothing is fetched or painted twice at a time,
  and a failure is never answered or cached as an absence.
- `SkinsFit`: a face is shown whole and without seams at every size, where it is
  without its layers, and nothing shows through a base layer.
- `CapesAreTrue`: what is remembered of a provider was its answer within the time
  it is remembered for, and the first provider who has a cape wins.

Bounds and why they are enough. Two calls (or tabs, or requests) at the same time
are the races of the code: every script and statement decides between two
holders; more calls only repeat what a crashed or finished call leaves behind,
and the theorems hold for any number. Two codes and two interactions are what a
collision of codes needs. Claim ids are one more than the places that can hold
one, so an id is always free. TTLs of 1 to 3 ticks let every key expire before,
with and after every other. `MaxConfirmationAttempts` is 2 or 3 instead of 10, for
the last and the last but one guess. `Grants` draws every id once, which bounds a
behaviour: two codes and two refresh tokens allow a second sign-in and one
rotation, not a chain of rotations. The workloads of the console and of the
avatars name the routes and calls that meet in a behaviour; each budget has one
slot and none to two places to wait. `MaxMishaps` and `MaxFaults` bound how often
something fails. Ids are interchangeable, so the runs without liveness use
symmetry (in `MCDeveloperConsole` and `MCAccounts` the parts take their ids from the
same sets, so that one permutation serves all); runs with liveness do not.

Deadlock is checked except in `console`, `accounts`, `ghost`, `avatars` and `profile`:
a workload of theirs is finite, and a server or a process that has stopped has no
step left. That they do not stop early is what their liveness properties say.

Fairness. In `expiry` only time passing is fair (`WF` on `SkinTick`): no caller is
assumed to go on, any of them may crash, and the properties hold by expiry alone,
which is what the code relies on. `GhostFairness`: promises and timers settle, a
socket that was ended closes, and the callbacks of `close` run; no client is
assumed to do anything. `LifeFairness`: connections are opened or refused, and an
`await` of the shutdown ends. `MCAvatarService`: whoever holds or waits for a slot is
served (`WF` on `Works(c)`), as every fetch of the code has a timeout.

Disagreements between code and comments, each shown by a run:

- `verification_code_key`: `CLAIM_INTERACTION_SCRIPT` deletes a record in its last
  millisecond and leaves its code key. A stale claim through that key can later
  verify a new record whose own key stays, where line 247 of the store says that
  the claim has removed it. The key expires with its TTL, and joining it does
  nothing.
- `skin_stale`: a challenge requested before "not you" may be stored after it and
  then blocks a challenge of another account until it expires.
- `grants_tombstone`: erasing an account deletes the tombstones of its grants; a
  consent in flight revives its grant once the player has verified again.
- `profile`: an outer layer is inflated by half a texel on each side of the head and
  a quarter on each side of the rest, so at size 32, and but for the head at 64, it
  begins at a fraction of a pixel. Its first column in the side profile then takes
  the texel before its left face, which is one of the front, where a test says that
  the profile is drawn from the left faces and not the front. The bases of a side
  profile, and all of it at 128 and 256, begin at whole pixels. Other views have
  rectangles that begin at fractions, the bases of busts, duos and faces among them;
  `FacesAreWhole` of `SkinsFit` says that one texel before the face is all that can be
  taken there, wherever a texel is no smaller than a pixel: everywhere but in a duo at
  32 and of an HD cape.

One more is stated and has no run of its own: `avatars/service.ts:658` says that the
official Mojang cape wins when it exists. In a render, a texture of Mojang's that
cannot be fetched counts as none, and the cape of another provider is shown;
`FirstOfThoseWhoHave` of `Capes` allows that for renders, and for them only.

## 4. What is proved

TLC shows a property on the instances above; the theorems hold for every value
of the constants that satisfies the named assumptions of the modules. Those say
that ids of different kinds differ, that `None` is no id, that TTLs and limits
are positive, and how the constant functions of a workload are typed; each is
evaluated by TLC in every run of its module. None of the properties is inductive
as it stands. What each proof adds, and why:

**`VerificationProofs`** (every safety property of `Verification` and the
refinement of `Redemption`). That a claim takes one record needs that a pending
record and its key agree, which needs to know which fields a record of each
status has. `IInv` joins `StoreInv` (types, `Shaped` records,
`PendingIsJoinable`), `CallInv` (what a call keeps in its locals at each await)
and `HistoryInv`: whoever could complete the current claim of a record is among
those who claimed it (`ClaimantProved`; it survives because a claim id is drawn
fresh, so a new claim cannot make an old holder current), and a record is handed
out exactly while it is being finalized (`HandedIsFinalizing`). The lemmas first
show what scripts do to the store whoever runs them, then one step per action of
a call. `StoreKeepsPromise` maps each script to the move of `Redemption` it makes
and an elapsed tick to closing a set of sign-ins.

**`SkinVerificationProofs`** (`ChallengesInOrder`, `RejectedNeverClaims`, and
again, with skin sign-ins beside joins and Microsoft sign-ins,
`BoundByItsClaimant`, `IdentityIsFinal` and `KeepsPromise`). `SkinInv` adds to
`IInv` what a tab keeps at each await (`TaskShape`), that the claim on a challenge
is of one check (`ChecksBelong`), that a check whose challenge was discarded has
lost its claim on it (`RejectedHasLost`), and that a tab which can complete a
record is among those who claimed it (`TabProved`). The store's guarantees are
reused as lemmas about the scripts: they never ask who runs them.

**`GrantsProofs`** (`RedeemedOnce`, `EndedIsRefused`, `ReuseLeavesNothing`,
`OneLivingHeir`). `GInv` has `EndedStays` (an ended grant is revoked, past or
erased: every way to make a row active respects one of them), `OverIsEnded`,
`CodeHistory` (the id of a code is written by one request and, once redeemed, is
neither in Redis nor on its way there) and `RowHistory`. `ReuseInv` rests on it:
what a revocation has cleared so far stays clear. The one order that matters is
that the rows go after the grant; a grant once closed is issued no row
(`ClosedStays`). `LineInv` counts, of each grant, the unused refresh tokens
(`Living`) together with the requests that may still save one (`Heirs`): a
rotation turns a token into an heir, a save an heir into a token, and only a code
adds one. It needs that a request presents a token of the grant it found it under
(`Presents`). The lemmas take the grants, codes, tokens and requests one after
another, each over the whole next-state relation. The module also proves
`SharedReadsHold` of `SharedReads`. `SharedInv` says that the scan or probe under way
is the one that all share, that a scan which was answered can be wrong only of what has
changed since it began, and that a remembered probe went well. It needs that `"ok"`,
the outcome of a probe, is no origin.

**`AvatarProofs`** (`BudgetsAreBounded`, `LookupsInOrder`, `AnswersAreTrue`,
`CapesAreTrue`, and `SkinIsWhole` of `SkinsFit`). First
the budgets by themselves: `BudgetInv` says that the slots taken are those of the
jobs granted or working, and that the queue is of those waiting (`SlotsMatch`). With
it each operation on a budget is a step of `BoundedWork` or none, so a budget never
runs more than its slots, never holds more than its queue, and serves in the order
of arrival. What the service does with its budgets is a behaviour of the budgets
(`ServiceMovesBudgets`), so the theorems about them hold of it. `ServiceInv` adds
`FetchOK` (the map of requests in flight, those who asked and the budgets agree, so
that no caller waits for a request that nobody makes), `CallsOK` (what a lookup
holds across its awaits, and that what the cache holds as missing was said to be
missing) and `MakingOK` (the same of the map of pictures). The choice of a cape
(`Capes`) is a system of its own. `CapeInv` says of each call that it has asked its
providers in their turn (`TurnOK`), that its reply rests on what they said
(`AnswerOK`), and that what it has heard of a provider, or is about to write into the
caches, was so at most as long ago as the call is old (`KnowsOK`), so that a write
which comes late makes no answer last longer. `CapesAssumption` says that a provider
is not named like a reply and that the lifetimes are positive. The atlas of a skin
(`Figure`) is taken by coordinates: every box of every part, as the game unfolds it,
is set against the regions that the code names. The base boxes lie in those it makes
opaque; the outer boxes lie in those it clears on an opaque skin, in none of the base
regions, and, but for the helmet, below the old layout, where no mirrored face goes
(`CoveredIsBase`); and each face of a left limb is one of the twelve that are copied,
no two of which meet (`OneFaceCovers`). From these follows what `SkinIsWhole` says of
a skin with any veil. `SkinsAssumption` says that the veil is of pixels of the skin
and not opaque, which is what the name stands for.

**`AccountsProofs`** (`NewestNameStands`, `ErasureEndsSessions`, `SessionsStand`,
`EndsInSevenDays`). `NameInv`: the row has the newest of the names whose
verifications have arrived since it was stored, and nothing has arrived while there
is none. `SessionInv` adds `Marked` (the marker is of the last erasure, and when
Redis has dropped it no session from before can be within its seven days), `Filed`
(a uid leads to the session written for it last; each script keeps that by itself)
and, of each request, `RequestOK`: what it holds at each step, why it refuses or
withdraws a session, and that a session it lets pass is younger than the last
erasure it could know of, or past its lifetime. A request goes by what it read
before the last call of Redis, so what it holds must be shown to stay true while
everything else moves (`Stays`). Only `Marker` lets a session pass
(`PassesByMarker`), which makes `EndsInSevenDays` a fact about one action.

**`ConsoleProofs`** (`LoginIsItsOwn`, `SessionsInOrder`, `ActsWithHeldRole`,
`RolesRemain`, `AppsAreManaged`, `LimitsHold`). Repository and session store are proved first
under any use (`AccessSpec`, `SessionsSpec`): `AccessInv` has `Serial`, that a
transaction which may still commit has a snapshot nothing written since contradicts,
from which the last administrator and the owner follow at each commit; `StoreInv` has
the index of a user's sessions and of sign-ins, and the histories of ended sessions.
`ConsoleUsesStores` shows that every step of the console is a step of both or leaves
them alone, so their invariants hold of it without being proved again for twenty
handlers. `ConsoleInv` then needs `Shape` (what a request keeps at each await) and
`HeldOK` (each role it carries was its user's at some moment since it began);
`AppsInv` is about one application and its guards. `LoginInv` relates cookies,
transactions and tabs. `LoginAssumption` says that `Nothing` is no browser, person,
transaction or cookie, as `null` is none in the code. The rate limits of `Throttles`
come last. `LimitsInv` relates each counter to those it stands for: the window that
runs has let pass no more than it counted and no more than its maximum, it has counted
no more than came in it, and what passed before it but within one window of now is
within the maximum too (`WindowOK`). From that no window, wherever it begins, lets more
than twice the maximum pass, and a refusal has its cause. `KeysApart` is why one bucket
cannot spend what is another's.

**`SignInFlowProofs`** (`AnswersInOrder`, `GrantsAreKept`). A request looks at its
interaction, its sign-in and its grant at different moments, and each may have gone
by the time it uses what it saw. `FlowInv` says of each request what it may still go
by (`VisitOK`: `AboutAsked`, `AboutSignIn`, `AboutGrant`), of each interaction that
its answer was proved and its grants are its account's (`AskedOK`), of each sign-in
that whoever is bound to it was proved (`SignInOK`), and that claims and new grants
are of one request each (`Apart`). `Spares` is what the step of one request must
leave of the others, and `Moved` puts a step together from it. One proof brings one
grant because a sign-in that can be claimed has only grants whose clean-up failed,
and a request that holds it knows the only other one (`FruitOK`). `FlowAssumption`
names the three methods and says that `Nil` is no id. The proof does not need that a
code is of one sign-in: an answer is tied to the interaction by its claim.

**`GhostProofs`** (`GhostInOrder`, `PlayersAreTold`, `ResourcesInOrder`,
`WorldIsWhole`, `HostsAreRead`).
`GhostInv` joins what is known of each connection by itself (`ClientOK`: one that is
gone leaves no trace of a verification, one that has not shaken hands has none yet,
and why a kicked player was told what) with the counters. All handlers but those of a
connection, of a join with a code and of a connection's end leave alone what is
counted (`Quiet`), so their proof is about one client. The three others count with
the cardinality of finite sets; `Clients` may be infinite, because the connections
that exist are finitely many at every moment, which is part of the invariant. The
same module proves the life of a process: `LifeInv` says that from the end of the
connecting until the API is closed the stores are up, and that what the order of
closing has passed is closed or failed to close. `StreamInv` is about what a client is
sent, packet by packet: `Block` says that the version understands each of them and the
fields it has, `Configured` that the configuration is there once and before the world,
`Loads` that what a world needs goes before its chunks and that a world once begun is
whole, with its batch of chunks closed, and `Numbers` that the corrections of a position
count up. A handler appends a list of packets, so the proof shows of each list what its
version makes of it, and of the invariant that it is kept by appending.
`VersionAssumption` types what a version knows;
`BatchAssumption` says that it knows both ends of a batch or neither, which is so of
every version in minecraft-data and decides whether a world ends. An address is read
without a loop over what it holds: the label before the first dot, the mark of a
loader and the port are found by their positions, so the proof cuts the written form
at the same places and needs no induction. `HostsAssumption` types the addresses;
`MarksAssumption` says that what a loader appends has no space in it, without which a
pasted address would end early.

The same module as the skin sign-in proves `MarkerStandsOut` of `SkinMarker`:
`MarkerInv` says that the skin a player wears is unmarked or bears a marker drawn
with other entropy, whose six bytes are bounded; the contrast of shades and letters
follows by the arithmetic of the palettes and their clamps.

Only model-checked: every liveness property (TLAPS does not reason about fairness
and `ENABLED`), and of `SkinsFit` the conjuncts about painted pictures. What a picture
is painted from is selected out of a sequence, where a proof would need induction over
data, and where a rectangle comes to lie is a quotient of products, which is not
linear arithmetic.

## 5. What is not modelled

- Pages, assets, locales and schemas, and the wiring of routes: pure functions or
  declarations, with no state of their own.
- In modelled components: the posed wings and the blending of colours in a
  picture, the choice of a default skin by hash, the normalisation of icons, the
  anonymisation of addresses, CSRF tokens and the signatures of cookies, the
  answer to a ping beyond its place in the protocol, the encoding of packets and
  what minecraft-data holds, the parsing of the environment, logging.
- Redis and PostgreSQL are taken to do what they promise: scripts and
  transactions are atomic, a row lock excludes an update, keys expire. Loss of
  Redis data is not modelled; a lost reply is.
- The OIDC library and the Minecraft library are modelled from how the code uses
  them and marked external.
- `SharedReads` settles all who wait in one step; in the code they go on in
  successive microtasks of one turn, between which no other event is handled.
- Two hazards of `PROJECT.json` have no property: a sign-in that completes between
  the marker of an erasure and its delete loses its `User` row while its session
  lives (`api/account-routes.ts:233`), which no comment or test decides; and the
  cap of 256 requests in flight is checked for renders and not for capes
  (`avatars/service.ts:330`).

## 6. What is left

What is model-checked only is out of the prover's reach, as section 4 says. The two
hazards without a property wait for a decision about what the code should do.
