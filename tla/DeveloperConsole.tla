---------------------------- MODULE DeveloperConsole ----------------------------
(***************************************************************************)
(* The developer console at work: its requests                             *)
(* (src/src/api/developer-routes.ts) over the sessions in Redis, the       *)
(* developers and the applications in PostgreSQL; with the other writers   *)
(* of these tables, which are a starting process (src/src/api/main.ts),    *)
(* the command that grants an administrator (src/src/admin/grant-admin.ts) *)
(* and the deletion of an account (src/src/api/account-routes.ts).         *)
(*                                                                         *)
(* A request presents a session id that was once given out, is             *)
(* authenticated (session-service.ts) and then handled.  Every await is a  *)
(* place where the others run; there a request may also fail or its        *)
(* process crash (Abandon).                                                *)
(***************************************************************************)
EXTENDS Applications, DeveloperSessions, FiniteSets

CONSTANTS Workloads,   \* bound: the sets of routes that come together in a behaviour
          MaxRequests  \* bound: the requests of a behaviour

ASSUME ConsoleAssumption == MaxRequests \in Nat /\ None \notin Apps \cup Requests

VARIABLES req,       \* what each request is doing, with its local variables
          held,      \* history: the roles its user had while a request is authenticated
          workload,  \* the routes of this behaviour; "time" for the passing of it
          begun      \* how many requests have begun

cvars == <<avars, app, svars, req, held, workload, begun>>
database == <<avars, app>>

AdminRoutes == {"grant", "revoke", "verify", "decide"}
ListRoutes == {"pages", "end"}
AppRoutes == {"register", "edit", "remove", "ask"}
ConsoleRoutes == AdminRoutes \cup ListRoutes \cup AppRoutes \cup {"logout"}
OtherRoutes == {"login", "boot", "cli", "erase"}
AllRoutes == ConsoleRoutes \cup OtherRoutes

Steps == {"idle", "read", "find", "drop", "rotate", "reread", "handle", "commit",
          "create", "write", "close", "label", "seed", "adopt"}

Request == [at    : Steps,
            route : AllRoutes \cup {None},
            sid   : Sids \cup {None},
            user  : Users \cup {None},
            role  : Roles \cup {None},
            app   : Apps \cup {None},
            key   : Sids \cup {None}]

Free == [at |-> "idle", route |-> None, sid |-> None, user |-> None, role |-> None,
         app |-> None, key |-> None]

ConsoleTypeOK ==
  /\ AccessTypeOK /\ AppsTypeOK /\ SessionsTypeOK
  /\ req \in [Requests -> Request]
  /\ held \in [Requests -> SUBSET Roles]
  /\ workload \in Workloads
  /\ begun \in 0..MaxRequests
  /\ \A r \in Requests : Open(r) => req[r].at = "commit"

\* Developers who are signed in; some have registered an application.
ConsoleInit ==
  /\ workload \in Workloads
  /\ begun = 0
  /\ AccessInit /\ SessionsInit
  /\ "boot" \notin workload => owner \in Administrators \cup {None}
  /\ \A s \in Sids : Live(s) => session[s].role = developer[session[s].user]
  /\ app \in [Apps -> {Unborn} \cup {Plain(u, secret) : u \in Users, secret \in {"none", "issued"}}]
  /\ \A a \in Apps :
       Exists(a) => developer[app[a].owner] # "none" /\ workload \cap (AppRoutes \cup {"decide"}) # {}
  /\ req = [r \in Requests |-> Free]
  /\ held = [r \in Requests |-> {}]

At(r, step) == req[r].at = step
Handles(r, route) == At(r, "handle") /\ req[r].route = route
Goes(r, step) == req' = [req EXCEPT ![r].at = step]
Ends(r) == req' = [req EXCEPT ![r] = Free]

-----------------------------------------------------------------------------
(* DeveloperSessionService.authenticate                                    *)

\* An id that was given out, of a browser or of an old copy of its cookie.
Begin(r, s, route) ==
  /\ At(r, "idle")
  /\ route \in ConsoleRoutes \cap workload
  /\ ~ Fresh(s)
  /\ req' = [req EXCEPT ![r] = [Free EXCEPT !.at = "read", !.route = route, !.sid = s]]
  /\ UNCHANGED <<database, svars>>

ReadCookie(r) ==
  /\ At(r, "read")
  /\ \/ /\ ReadSession(req[r].sid)
        /\ LET record == session[req[r].sid]
           IN req' = [req EXCEPT ![r].at = "find", ![r].user = record.user,
                                 ![r].role = record.role]
     \/ ReadNothing(req[r].sid) /\ Ends(r)
  /\ UNCHANGED database

\* Mutant: who still has access goes on with the role in the session.
FindAnyAccess(r) ==
  /\ At(r, "find") /\ req[r].route \in ConsoleRoutes
  /\ IF developer[req[r].user] = "none" THEN Goes(r, "drop") ELSE Goes(r, "handle")
  /\ UNCHANGED <<database, svars>>

FindAccess(r) ==
  /\ At(r, "find") /\ req[r].route \in ConsoleRoutes
  /\ LET access == developer[req[r].user]
     IN \/ access = "none" /\ Goes(r, "drop")
        \/ access = req[r].role /\ Goes(r, "handle")
        \/ /\ access \in Roles \ {req[r].role}
           /\ req' = [req EXCEPT ![r].at = "rotate", ![r].role = access]
  /\ UNCHANGED <<database, svars>>

DropSession(r) ==
  /\ At(r, "drop")
  /\ RevokeSession(req[r].sid)
  /\ Ends(r)
  /\ UNCHANGED database

Rotate(r, n) ==
  /\ At(r, "rotate")
  /\ \/ /\ RotateSession(req[r].sid, n, req[r].role)
        /\ req' = [req EXCEPT ![r].at = "reread", ![r].sid = n]
     \/ ReadNothing(req[r].sid) /\ Ends(r)
  /\ UNCHANGED database

Reread(r) ==
  /\ At(r, "reread")
  /\ \/ /\ ReadSession(req[r].sid)
        /\ req' = [req EXCEPT ![r].at = "handle", ![r].role = session[req[r].sid].role]
     \/ ReadNothing(req[r].sid) /\ Ends(r)
  /\ UNCHANGED database

\* A rejection, an error, a crash, or nothing to do.
Abandon(r) ==
  /\ ~ At(r, "idle") /\ ~ Open(r)
  /\ Ends(r)
  /\ UNCHANGED <<database, svars>>

-----------------------------------------------------------------------------
(* Developers: the administrators' routes, the command, the start of a     *)
(* process and the deletion of an account.                                 *)

\* requireAdministrator
AdminHandles(r, route) == Handles(r, route) /\ req[r].role = "admin"

BeginGrant(r, u, role) ==
  /\ AdminHandles(r, "grant")
  /\ role \in Roles
  /\ Begins(r, u, role) /\ Goes(r, "commit")
  /\ UNCHANGED <<app, svars>>

BeginRevoke(r, u) ==
  /\ AdminHandles(r, "revoke")
  /\ Begins(r, u, "none") /\ Goes(r, "commit")
  /\ UNCHANGED <<app, svars>>

BeginCommand(r, u) ==
  /\ At(r, "idle") /\ "cli" \in workload
  /\ Begins(r, u, "admin")
  /\ req' = [req EXCEPT ![r] = [Free EXCEPT !.at = "commit", !.route = "cli"]]
  /\ UNCHANGED <<app, svars>>

BeginErase(r, u) ==
  /\ At(r, "idle") /\ "erase" \in workload
  /\ Begins(r, u, "none")
  /\ req' = [req EXCEPT ![r] = [Free EXCEPT !.at = "commit", !.route = "erase"]]
  /\ UNCHANGED <<app, svars>>

\* The owner is granted again at every start.
BeginBoot(r) ==
  /\ At(r, "idle") /\ "boot" \in workload
  /\ IF owner = None
     THEN /\ req' = [req EXCEPT ![r] = [Free EXCEPT !.at = "seed", !.route = "boot"]]
          /\ UNCHANGED avars
     ELSE /\ Begins(r, owner, "admin")
          /\ req' = [req EXCEPT ![r] = [Free EXCEPT !.at = "commit", !.route = "boot"]]
  /\ UNCHANGED <<app, svars>>

Commit(r) ==
  /\ At(r, "commit")
  /\ Commits(r)
  /\ IF tx[r].to = "none" THEN Disowns(tx[r].user) ELSE UNCHANGED app
  /\ IF req[r].route = "boot" THEN Goes(r, "label") ELSE Ends(r)
  /\ UNCHANGED svars

CommitFails(r) ==
  /\ At(r, "commit")
  /\ \/ Retries(r) /\ UNCHANGED req
     \/ (Refuses(r) \/ GivesUp(r)) /\ Ends(r)
  /\ UNCHANGED <<app, svars>>

DecideOnDeveloper(r, u, v) ==
  /\ AdminHandles(r, "verify")
  /\ SetVerified(u, v) /\ Ends(r)
  /\ UNCHANGED <<app, svars>>

VerifyOwner(r) ==
  /\ At(r, "label")
  /\ \/ SetVerified(owner, TRUE)
     \/ owner \in verified /\ UNCHANGED avars
  /\ Goes(r, "seed")
  /\ UNCHANGED <<app, svars>>

-----------------------------------------------------------------------------
(* The console's client, at the start of a process.                        *)

SeedConsole(r) ==
  /\ At(r, "seed")
  /\ UpsertConsole(owner)
  /\ Goes(r, "write")
  /\ UNCHANGED <<avars, svars>>

LabelSeeded(r) ==
  /\ At(r, "write") /\ req[r].route = "boot"
  /\ LabelConsole
  /\ IF owner = None THEN Ends(r) ELSE Goes(r, "adopt")
  /\ UNCHANGED <<avars, svars>>

AdoptSeeded(r) ==
  /\ At(r, "adopt")
  /\ AdoptConsole(owner)
  /\ Ends(r)
  /\ UNCHANGED <<avars, svars>>

-----------------------------------------------------------------------------
(* Sessions: the callback of a sign-in, the lists, ending one, logging out. *)

\* The callback has exchanged its code for a player, who has access.
FindForLogin(r, u) ==
  /\ At(r, "idle") /\ "login" \in workload
  /\ developer[u] # "none"
  /\ req' = [req EXCEPT ![r] = [Free EXCEPT !.at = "create", !.route = "login", !.user = u,
                                            !.role = developer[u]]]
  /\ UNCHANGED <<database, svars>>

CreateForLogin(r, s) ==
  /\ At(r, "create")
  /\ CreateSession(s, req[r].user, req[r].role)
  /\ Ends(r)
  /\ UNCHANGED database

\* The dashboard, and the first half of revokeByKeyId: key is listed, or the
\* answer is "not found".
ListForUser(r) ==
  /\ At(r, "handle") /\ req[r].route \in ListRoutes
  /\ ListSessions(req[r].user)
  /\ \/ Ends(r)
     \/ /\ req[r].route = "end"
        /\ \E k \in Ongoing(req[r].user) :
             req' = [req EXCEPT ![r].at = "close", ![r].key = k]
  /\ UNCHANGED database

EndListed(r) ==
  /\ At(r, "close")
  /\ RevokeSession(req[r].key)
  /\ Ends(r)
  /\ UNCHANGED database

Logout(r) ==
  /\ Handles(r, "logout")
  /\ RevokeSession(req[r].sid)
  /\ Ends(r)
  /\ UNCHANGED database

-----------------------------------------------------------------------------
(* Applications.                                                           *)

Register(r, a, secret) ==
  /\ Handles(r, "register")
  /\ RegisterApp(a, req[r].user, secret)
  /\ Ends(r)
  /\ UNCHANGED <<avars, svars>>

\* findManagedApp, before the pages and the writes of an icon, of the
\* redirect URIs and of a new secret.
FindManaged(r, a) ==
  /\ Handles(r, "edit")
  /\ Manages(req[r].user, req[r].role, a)
  /\ req' = [req EXCEPT ![r].at = "write", ![r].app = a]
  /\ UNCHANGED <<database, svars>>

\* The write, long after the look at the application, if that went well.
Edits(r) == At(r, "write") /\ req[r].route = "edit" /\ Ends(r) /\ UNCHANGED <<avars, svars>>

EditIcon(r) == Edits(r) /\ SetIcon(req[r].user, req[r].role, req[r].app)
EditRedirects(r, uris) ==
  Edits(r) /\ UpdateRedirectUris(req[r].user, req[r].role, req[r].app, uris)
EditSecret(r) == Edits(r) /\ ResetSecret(req[r].user, req[r].role, req[r].app)

\* Removing the icon or the application writes without looking first.
Removes(r) == Handles(r, "remove") /\ Ends(r) /\ UNCHANGED <<avars, svars>>

DropIcon(r, a) == Removes(r) /\ RemoveIcon(req[r].user, req[r].role, a)
DropApp(r, a) == Removes(r) /\ RemoveApp(req[r].user, req[r].role, a)

AskVerification(r, a) ==
  /\ Handles(r, "ask")
  /\ RequestVerification(req[r].user, a)
  /\ Ends(r)
  /\ UNCHANGED <<avars, svars>>

\* The administrator may have decided from a page that is long out of date.
DecideOnApp(r, a) ==
  /\ AdminHandles(r, "decide")
  /\ Approve(a) \/ Reject(a) \/ RevokeVerification(a)
  /\ Ends(r)
  /\ UNCHANGED <<avars, svars>>

-----------------------------------------------------------------------------

Serve(r) ==
  \/ \E s \in Sids, route \in ConsoleRoutes : Begin(r, s, route)
  \/ ReadCookie(r) \/ FindAccess(r) \/ DropSession(r) \/ Reread(r) \/ Abandon(r)
  \/ \E n \in Sids : Rotate(r, n) \/ CreateForLogin(r, n)
  \/ \E u \in Users, role \in Roles : BeginGrant(r, u, role)
  \/ \E u \in Users : BeginRevoke(r, u) \/ BeginCommand(r, u) \/ BeginErase(r, u)
                        \/ FindForLogin(r, u)
  \/ BeginBoot(r) \/ Commit(r) \/ CommitFails(r)
  \/ \E u \in Users, v \in BOOLEAN : DecideOnDeveloper(r, u, v)
  \/ VerifyOwner(r) \/ SeedConsole(r) \/ LabelSeeded(r) \/ AdoptSeeded(r)
  \/ ListForUser(r) \/ EndListed(r) \/ Logout(r)
  \/ \E a \in Apps, secret \in Secrets : Register(r, a, secret)
  \/ EditIcon(r) \/ EditSecret(r) \/ \E uris \in Uris : EditRedirects(r, uris)
  \/ \E a \in Apps : FindManaged(r, a) \/ DropIcon(r, a) \/ DropApp(r, a)
                        \/ AskVerification(r, a) \/ DecideOnApp(r, a)

TimePasses == "time" \in workload /\ Tick /\ UNCHANGED <<database, req>>

\* Only the first MaxRequests requests are looked at.
Counted ==
  /\ begun' = begun + Cardinality({r \in Requests : At(r, "idle") /\ req'[r].at # "idle"})
  /\ begun' <= MaxRequests
  /\ UNCHANGED workload

Authenticating == {"read", "find", "rotate", "reread", "handle"}

\* Whose cookie a request presented, as long as it can still be known.
Presented(r) ==
  IF req[r].user # None THEN req[r].user
  ELSE IF Live(req[r].sid) THEN session[req[r].sid].user ELSE None

Witnessed ==
  held' = [r \in Requests |->
    IF req'[r].at \notin Authenticating \/ req'[r].route \notin ConsoleRoutes THEN {}
    ELSE held[r] \cup {role \in Roles : \E u \in Users : u = Presented(r)' /\ developer'[u] = role}]

ConsoleNext == (TimePasses \/ \E r \in Requests : Serve(r)) /\ Witnessed /\ Counted

ConsoleSpec == ConsoleInit /\ [][ConsoleNext]_cvars

-----------------------------------------------------------------------------

\* A request acts with a role its user had at some moment since it began,
\* whatever the session says and whoever rotates it meanwhile: one that begins
\* after a demotion or a revocation is not served as before.
ActsWithHeldRole ==
  \A r \in Requests : At(r, "handle") => req[r].role \in held[r]

\* An application changes under a request only if its user owns it at that
\* moment or acts as an administrator; one it found its own a moment ago may
\* have been deleted or have lost its owner.
OnlyManagersChange ==
  [][\A r \in Requests, a \in Apps :
       (req[r] # req'[r] /\ req[r].route \in AppRoutes /\ Exists(a) /\ app[a] # app'[a])
         => req[r].role = "admin" \/ app[a].owner = req[r].user]_cvars

\* A client that was registered without a secret never has one, and only
\* a start of a process takes an unowned application over.
PublicStaysPublic ==
  [][\A a \in Apps : Exists(a) /\ Exists(a)' =>
       /\ app[a].secret = "none" => app'[a].secret = "none"
       /\ app'[a].owner \in {app[a].owner, None, owner}]_cvars

\* Sessions are what their scripts take them for, however requests that create,
\* use, rotate, list and end them alternate with time (session-store.ts).
SessionsInOrder == ConsoleTypeOK /\ WithinLifetime /\ LiveIsListed /\ OneSessionPerSignIn

\* Roles that may not be lost are not lost (developer-repository.ts: grant, revoke).
RolesRemain == AdministratorRemains /\ OwnerRemains

\* An application changes by the hand of those who manage it, stays what it was
\* registered as, belongs to a developer, and awaits no decision that was taken
\* (app-management.ts; developer-repository.ts: revoke).
AppsAreManaged ==
  /\ OnlyManagersChange /\ PublicStaysPublic
  /\ []OwnersAreDevelopers /\ []RequestedIsUnverified
=============================================================================
