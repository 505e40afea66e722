------------------------------ MODULE Applications ------------------------------
(***************************************************************************)
(* The App table of PostgreSQL, statement by statement: registration       *)
(* (src/src/api/app-registration.ts), what owners and administrators do to *)
(* an application (src/src/developers/app-management.ts) and the console's *)
(* own client (console-client.ts).  Every write is one statement whose     *)
(* condition is on the row as it is then.                                  *)
(***************************************************************************)
EXTENDS DeveloperAccess

CONSTANT Apps   \* ids of application rows

VARIABLE app    \* the row of each id

Uris == {"callback", "other"}
Secrets == {"none", "issued", "rotated"}

App == [owner     : Users \cup {None},
        console   : BOOLEAN,   \* clientId is CONSOLE_CLIENT_ID
        secret    : Secrets,   \* "none" is a public client
        uris      : Uris,
        icon      : BOOLEAN,   \* iconPng and iconHash
        requested : BOOLEAN,   \* verificationRequestedAt
        verified  : BOOLEAN]   \* verifiedAt

Unborn == [owner |-> "unborn"]
Deleted == [owner |-> "deleted"]

Exists(a) == app[a] \notin {Unborn, Deleted}

AppsTypeOK == app \in [Apps -> App \cup {Unborn, Deleted}]

Plain(u, secret) ==
  [owner |-> u, console |-> FALSE, secret |-> secret, uris |-> "other",
   icon |-> FALSE, requested |-> FALSE, verified |-> FALSE]

\* The foreign key of ownerUuid.
MayOwn(u) == u \in {None} \cup {d \in Users : developer[d] # "none"}

\* PrismaAppRegistrar.register
RegisterApp(a, u, secret) ==
  /\ app[a] = Unborn
  /\ MayOwn(u)
  /\ secret \in {"none", "issued"}
  /\ app' = [app EXCEPT ![a] = Plain(u, secret)]

\* The condition of owner writes: the row is there and the actor's.
Manages(u, role, a) == Exists(a) /\ (role = "admin" \/ app[a].owner = u)

Write(a, field, value) == app' = [app EXCEPT ![a][field] = value]

SetIcon(u, role, a) == Manages(u, role, a) /\ Write(a, "icon", TRUE)
RemoveIcon(u, role, a) == Manages(u, role, a) /\ app[a].icon /\ Write(a, "icon", FALSE)

\* Mutant: the page has looked at the owner already.
UpdateOfAnyone(u, role, a, uris) == Exists(a) /\ Write(a, "uris", uris)

UpdateRedirectUris(u, role, a, uris) == Manages(u, role, a) /\ Write(a, "uris", uris)

ResetSecret(u, role, a) ==
  Manages(u, role, a) /\ app[a].secret # "none" /\ Write(a, "secret", "rotated")
RemoveApp(u, role, a) == Manages(u, role, a) /\ app' = [app EXCEPT ![a] = Deleted]

RequestVerification(u, a) ==
  /\ Exists(a)
  /\ app[a].owner = u /\ ~ app[a].requested /\ ~ app[a].verified
  /\ Write(a, "requested", TRUE)

Decide(a, verified_) ==
  app' = [app EXCEPT ![a].requested = FALSE, ![a].verified = verified_]

Approve(a) == Exists(a) /\ ~ app[a].verified /\ Decide(a, TRUE)
Reject(a) == Exists(a) /\ app[a].requested /\ ~ app[a].verified /\ Decide(a, FALSE)
RevokeVerification(a) == Exists(a) /\ app[a].verified /\ Decide(a, FALSE)

\* onDelete: SetNull, when the developer's row is deleted.
Disowns(u) ==
  app' = [a \in Apps |-> IF Exists(a) /\ app[a].owner = u
                         THEN [app[a] EXCEPT !.owner = None] ELSE app[a]]

-----------------------------------------------------------------------------
(* ensureConsoleClient: three statements.                                  *)

IsConsole(a) == Exists(a) /\ app[a].console

UpsertConsole(u) ==
  IF \E a \in Apps : IsConsole(a)
  THEN \E a \in Apps : IsConsole(a) /\ Write(a, "uris", "callback")
  ELSE /\ MayOwn(u)
       /\ \E a \in Apps :
            /\ app[a] = Unborn
            /\ app' = [app EXCEPT ![a] =
                 [Plain(u, "none") EXCEPT !.console = TRUE, !.uris = "callback",
                                          !.verified = TRUE]]

\* updateMany with a condition: no row may match.
LabelConsole ==
  app' = [a \in Apps |-> IF IsConsole(a) THEN [app[a] EXCEPT !.verified = TRUE] ELSE app[a]]

AdoptConsole(u) ==
  /\ MayOwn(u)
  /\ app' = [a \in Apps |-> IF IsConsole(a) /\ app[a].owner = None
                             THEN [app[a] EXCEPT !.owner = u] ELSE app[a]]

-----------------------------------------------------------------------------

\* An application that awaits a decision is not verified, whoever decided on
\* whichever page before.  Not so the console's client: labelling it at
\* start-up leaves a request for verification where it is.
RequestedIsUnverified ==
  \A a \in Apps : Exists(a) /\ ~ app[a].console => ~ (app[a].requested /\ app[a].verified)

\* Owners are developers: an application never stays with one who was removed.
OwnersAreDevelopers == \A a \in Apps : Exists(a) => MayOwn(app[a].owner)
=============================================================================
