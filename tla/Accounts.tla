-------------------------------- MODULE Accounts --------------------------------
(***************************************************************************)
(* Requests that use the sessions and the User row of one account: a page  *)
(* of the account (src/src/api/account-session.ts), an authorization, a    *)
(* sign-in and a change of account in the OIDC library, and the erasure of *)
(* the account (src/src/api/account-routes.ts).  Every call of Redis or of *)
(* the database is a step; a request may end at any of them.               *)
(***************************************************************************)
EXTENDS OidcSessions, VerifiedUsers

CONSTANT Requests

VARIABLES focus,  \* what a behaviour is about: "sessions" or "names"
          req,    \* the requests
          since,  \* history: the first second after every erasure of the account
          newest  \* history: of each uid, the id written for it last

vars == <<now, rvars, nvars, focus, req, since, newest>>

Kinds == {"page", "authorize", "login", "switch", "erase"}
OfAccountPage == {"page", "erase"}
Steps == {"idle", "lookup", "get", "marker", "accepted", "refuse", "drop", "save",
          "screen", "write", "withdraw", "own", "row"}

\* held: the session read or to be written; ttl: of the write; old: the id that a
\* sign-in replaces; found: when the session was read; since: as it was when the
\* session was asked for.
Request == [pc : Steps, kind : Kinds, id : Ids \cup {None}, uid : Uids \cup {None},
            held : Payload \cup {None}, ttl : 0..AbsoluteTtl, old : Ids \cup {None},
            found : Times, since : 0..(MaxTime + 1)]

Idle == [pc |-> "idle", kind |-> "page", id |-> None, uid |-> None, held |-> None,
         ttl |-> 0, old |-> None, found |-> 0, since |-> 0]

AccountsTypeOK ==
  /\ OidcTypeOK /\ UsersTypeOK
  /\ focus \in {"sessions", "names"}
  /\ req \in [Requests -> Request]
  /\ since \in 0..(MaxTime + 1)
  /\ newest \in [Uids -> Ids \cup {None}]

\* A behaviour about names has erasures that have come to the row.
Init ==
  /\ now = 0 /\ focus \in {"sessions", "names"}
  /\ record = [s \in Ids |-> None] /\ index = [u \in Uids |-> None]
  /\ marker = IF focus = "names" THEN [at |-> 0, set |-> TRUE] ELSE NoMarker
  /\ since = IF focus = "names" THEN 1 ELSE 0
  /\ name = 0 /\ made = {} /\ row = NoRow /\ arrived = {} /\ resolved = FALSE
  /\ req = [r \in Requests |-> IF focus = "names" THEN [Idle EXCEPT !.pc = "row"] ELSE Idle]
  /\ newest = [u \in Uids |-> None]

\* The request does not change what is stored.
Reads == UNCHANGED <<now, rvars, nvars, focus, since, newest>>
Stores == UNCHANGED <<now, nvars, focus, since>>

At(r, step) == req[r].pc = step
Turns(r, q) == req' = [req EXCEPT ![r] = q]
Ends(r) == Turns(r, Idle)

\* Ids and uids are random: one is drawn that nothing stored or under way has.
NewIds == {s \in Ids : ~Live(s) /\ \A r \in Requests : s \notin {req[r].id, req[r].old}}
NewUids == {u \in Uids :
  /\ \A s \in Ids : Live(s) => record[s].payload.uid # u
  /\ \A r \in Requests : req[r].uid # u /\ (req[r].held # None => req[r].held.uid # u)}
--------------------------------------------------------------------------------
(* Finding a session: by the id a cookie carries, or by a uid. *)

Begin(r) ==
  /\ At(r, "idle") /\ focus = "sessions"
  /\ \E kind \in Kinds, id \in Ids \cup {None} :
       /\ id = None => kind = "authorize"
       /\ kind # "switch"
       /\ req' = [req EXCEPT ![r] = [Idle EXCEPT
            !.pc = IF id = None THEN "refuse" ELSE "get", !.kind = kind,
            !.id = id, !.since = since]]
  /\ Reads

BeginSwitch(r) ==
  /\ At(r, "idle") /\ focus = "sessions"
  /\ \E u \in Uids :
       req' = [req EXCEPT ![r] = [Idle EXCEPT
         !.pc = "lookup", !.kind = "switch", !.uid = u, !.since = since]]
  /\ Reads

\* findByIndex
Lookup(r) ==
  /\ At(r, "lookup")
  /\ IF index[req[r].uid] = None THEN Ends(r)
     ELSE req' = [req EXCEPT ![r].pc = "get", ![r].id = index[req[r].uid]]
  /\ Reads

\* A session that is not there: an authorization goes on with a new one.
Missing(r) ==
  IF req[r].kind = "authorize"
  THEN Turns(r, [Idle EXCEPT !.pc = "refuse", !.kind = "authorize"])
  ELSE Ends(r)

Refused(r, p) ==
  Turns(r, [Idle EXCEPT !.pc = "refuse", !.kind = req[r].kind, !.id = req[r].id, !.held = p])

\* find: what is read, and whether it is too old.
Get(r) ==
  /\ At(r, "get")
  /\ LET s == req[r].id
         p == record[s].payload
     IN CASE ~Live(s) -> Missing(r)
          [] Live(s) /\ PastAbsoluteLifetime(p) -> Refused(r, p)
          [] OTHER -> Turns(r, [req[r] EXCEPT !.pc = "marker", !.held = p, !.found = now])
  /\ Reads

\* find: whether its account was erased since.  The account page looks at the age
\* once more, and shows the sessions of an account only.
Marker(r) ==
  /\ At(r, "marker")
  /\ LET p == req[r].held
         late == req[r].kind \in OfAccountPage /\ PastAbsoluteLifetime(p)
     IN IF Invalidated(p) \/ late THEN Refused(r, p)
        ELSE Turns(r, [req[r] EXCEPT !.pc = "accepted", !.found = 0])
  /\ Reads

\* A session that is refused is destroyed; an authorization starts a new one, while
\* there are ids to draw.
Refuse(r) ==
  /\ At(r, "refuse")
  /\ IF req[r].id = None THEN UNCHANGED rvars ELSE Destroy(req[r].id)
  /\ IF req[r].kind # "authorize" \/ NewIds = {} \/ NewUids = {}
     THEN Ends(r)
     ELSE \E s \in NewIds, u \in NewUids :
            Turns(r, [Idle EXCEPT !.pc = "save", !.id = s, !.uid = u])
  /\ UNCHANGED <<now, nvars, focus, since, newest>>
--------------------------------------------------------------------------------
(* What is done with a session that was let pass. *)

\* A page is shown; an anonymous session is as good as none to it.
Show(r) ==
  /\ At(r, "accepted")
  /\ req[r].kind = "page" \/ (req[r].kind = "erase" /\ req[r].held.account = None)
  /\ Ends(r) /\ Reads

\* The session becomes the account's, under a new id.
Login(r) ==
  /\ At(r, "accepted") /\ req[r].kind = "login"
  /\ \E s \in NewIds :
       Turns(r, [Idle EXCEPT !.pc = "drop", !.id = s, !.old = req[r].id,
                             !.held = [req[r].held EXCEPT !.account = Account]])
  /\ UNCHANGED <<now, rvars, nvars, focus, since, newest>>

\* switchAccount
Switch(r) ==
  /\ At(r, "accepted") /\ req[r].kind = "switch"
  /\ Destroy(req[r].id) /\ Ends(r)
  /\ Stores /\ UNCHANGED newest

DropOld(r) ==
  /\ At(r, "drop")
  /\ Destroy(req[r].old)
  /\ Turns(r, [req[r] EXCEPT !.pc = "save", !.old = None])
  /\ Stores /\ UNCHANGED newest

\* upsert: what is to be written, of this second if it is new, and its age.
Save(r) ==
  /\ At(r, "save") \/ (At(r, "accepted") /\ req[r].kind = "authorize")
  /\ LET p == IF req[r].held # None THEN req[r].held
              ELSE [account |-> None, iat |-> now, uid |-> req[r].uid]
     IN Turns(r, [Idle EXCEPT
          !.pc = IF PastAbsoluteLifetime(p) THEN "withdraw" ELSE "screen",
          !.id = req[r].id, !.held = p, !.ttl = Ttl(p.iat)])
  /\ Reads

\* upsert: whether its account was erased since.
Screen(r) ==
  /\ At(r, "screen")
  /\ Turns(r, [req[r] EXCEPT !.pc = IF Invalidated(req[r].held) THEN "withdraw" ELSE "write"])
  /\ Reads

\* upsert: a session that may not be kept is destroyed.
Withdraw(r) ==
  /\ At(r, "withdraw")
  /\ Destroy(req[r].id) /\ Ends(r)
  /\ Stores /\ UNCHANGED newest

Write(r) ==
  /\ At(r, "write")
  /\ Upsert(req[r].id, req[r].held, req[r].ttl)
  /\ newest' = [u \in Uids |-> IF u = req[r].held.uid THEN req[r].id
                              ELSE IF newest[u] = req[r].id THEN None ELSE newest[u]]
  /\ Ends(r) /\ Stores
--------------------------------------------------------------------------------
(* /account/delete, after the developer's role and the grants. *)

Erase(r) ==
  /\ At(r, "accepted") /\ req[r].kind = "erase" /\ req[r].held.account = Account
  /\ Invalidate /\ since' = now + 1
  /\ Turns(r, [Idle EXCEPT !.pc = "own", !.id = req[r].id])
  /\ UNCHANGED <<now, nvars, focus, newest>>

DestroyOwn(r) ==
  /\ At(r, "own")
  /\ Destroy(req[r].id) /\ Turns(r, [Idle EXCEPT !.pc = "row"])
  /\ Stores /\ UNCHANGED newest

EraseRow(r) ==
  /\ At(r, "row")
  /\ DeleteRow /\ Ends(r)
  /\ UNCHANGED <<now, rvars, focus, since, newest>>

\* The process or the connection fails: nothing more of the request happens.
Abandon(r) == ~At(r, "idle") /\ Ends(r) /\ Reads
--------------------------------------------------------------------------------
OfNames ==
  /\ focus = "names"
  /\ \/ Rename
     \/ \E v \in Verifications : Verify(v)
     \/ \E m \in made : UpsertVerifiedUser(m)
     \/ ResolveUsername
  /\ UNCHANGED <<now, rvars, focus, req, since, newest>>

Passes == Elapse /\ UNCHANGED <<nvars, focus, req, since, newest>>

Next ==
  \/ \E r \in Requests :
       \/ Begin(r) \/ BeginSwitch(r) \/ Lookup(r) \/ Get(r) \/ Marker(r) \/ Refuse(r)
       \/ Show(r) \/ Login(r) \/ Switch(r) \/ DropOld(r)
       \/ Save(r) \/ Screen(r) \/ Withdraw(r) \/ Write(r)
       \/ Erase(r) \/ DestroyOwn(r) \/ EraseRow(r) \/ Abandon(r)
  \/ OfNames
  \/ Passes

AccountsSpec == Init /\ [][Next]_vars
--------------------------------------------------------------------------------
Accepted(r) == At(r, "accepted") /\ req[r].held.account # None

\* Erasing an account ends every session it had: a request that starts afterwards
\* is let pass only with a session begun later, whichever write of an older one was
\* still on its way, and for as long as one could live (redis-oidc-adapter.ts:
\* "Survives account deletion/recreation for the maximum possible session
\* lifetime").  A session that reaches its seven days in the middle of a request
\* of the library is the one exception; the account page looks again.
ErasureEndsSessions ==
  \A r \in Requests : Accepted(r) =>
    LET p == req[r].held
    IN \/ req[r].since <= p.iat
       \/ req[r].kind \notin OfAccountPage /\ PastAbsoluteLifetime(p)

\* However often it is used, no session is let pass after seven days: the account
\* page goes by the second in which it lets the session pass, the library by the
\* second in which the session was read (session-security.ts).
EndsInSevenDays ==
  [][\A r \in Requests : ~At(r, "accepted") /\ At(r, "accepted")' =>
       (IF req[r].kind \in OfAccountPage THEN now ELSE req[r].found)
         < req[r].held.iat + AbsoluteTtl]_vars

\* A session is destroyed instead of being used or kept for one of two causes only:
\* it is past its seven days, or its account was erased in the second it began or
\* later.  Who signs in again in a later second has a session that lasts.
RefusedForCause ==
  \A r \in Requests :
    (At(r, "refuse") /\ req[r].id # None) \/ At(r, "withdraw") =>
    LET p == req[r].held
    IN \/ PastAbsoluteLifetime(p)
       \/ p.account # None /\ p.iat < since

\* A uid leads to the session that was written for it last, for as long as that
\* session is there: replacing the id of a session, or ending the one it replaces
\* late, does not cut the uid off (UPSERT_SCRIPT and DESTROY_SCRIPT).
IndexedWhileLive ==
  \A u \in Uids : newest[u] # None /\ Live(newest[u]) => index[u] = newest[u]

\* A session stands for as long as there is no cause to end it, and is found by
\* its uid.
SessionsStand == AccountsTypeOK /\ RefusedForCause /\ IndexedWhileLive
=============================================================================
