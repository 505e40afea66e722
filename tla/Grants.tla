--------------------------------- MODULE Grants ---------------------------------
(***************************************************************************)
(* Grants and the tokens issued under them, for one account and one client *)
(* application: the grant rows of PostgreSQL (src/src/oauth/               *)
(* postgres-grant-adapter.ts), its refresh-token rows                      *)
(* (postgres-oidc-adapters.ts), the authorization codes and access tokens  *)
(* of Redis (redis-oidc-adapter.ts), and those who use them: the sign-in   *)
(* and consent of interaction-gateway.ts, the token requests of the OIDC   *)
(* library, the bearer check of the API, and the account page, which       *)
(* revokes a service or erases the account.                                *)
(*                                                                         *)
(* A script, a statement and a transaction are one step; everything else   *)
(* of a request interleaves.  Expiry of a key or a row may come at any     *)
(* moment.  An id is drawn once, so the sets of ids bound a behaviour.     *)
(***************************************************************************)
EXTENDS FiniteSets, Naturals

CONSTANTS GrantIds, AuthCodes, AccessTokens, RefreshTokens,
          Requests,  \* requests in flight at the same time
          None

Artifacts == AuthCodes \cup AccessTokens

ASSUME GrantsAssumption ==
  /\ None \notin GrantIds \cup Artifacts \cup RefreshTokens
  /\ AuthCodes \cap AccessTokens = {}
  /\ Artifacts \cap RefreshTokens = {}

VARIABLES user,    \* the User row of the account exists
          grant,   \* the OidcGrant rows
          past,    \* the grants whose expiresAt has passed
          redis,   \* the grant of each code and access token stored in Redis
          row,     \* the RefreshToken rows
          req,     \* what each request is doing, with its local variables
          drawn,   \* history: the ids in use or used
          ended,   \* history: the grants that were revoked, erased or expired
          erased,  \* history: the grants whose row went with the account
          spent,   \* history: how often a code or refresh token was consumed
          opened,  \* history: the codes consumed, by grant
          cleared  \* history: the grants revoked after a token was used twice

gvars == <<user, grant, past, redis, row, req, drawn, ended, erased, spent, opened, cleared>>

stored == <<user, grant, past, redis, row>>
histories == <<ended, erased, spent, opened, cleared>>

Row == [grant : GrantIds \cup {None}, used : BOOLEAN]

NoRow == [grant |-> None, used |-> FALSE]

Ops == {"idle", "save", "result", "undo", "write", "lookup", "consume", "issue",
        "reuse", "read", "check", "accept", "erase"}

Saves == {"access", "refresh"}
Clears == {"row", "redis", "grant", "rows"}

\* fresh says that the request created its grant; over (history) are the
\* grants that had ended when the request began.
Request == [op    : Ops,
            grant : GrantIds \cup {None},
            token : Artifacts \cup RefreshTokens \cup {None},
            fresh : BOOLEAN,
            used  : BOOLEAN,
            todo  : SUBSET (Saves \cup Clears),
            over  : SUBSET GrantIds]

Free == [op |-> "idle", grant |-> None, token |-> None, fresh |-> FALSE,
         used |-> FALSE, todo |-> {}, over |-> {}]

GrantsTypeOK ==
  /\ user \in BOOLEAN
  /\ grant \in [GrantIds -> {"none", "active", "revoked"}]
  /\ past \subseteq GrantIds
  /\ redis \in [Artifacts -> GrantIds \cup {None}]
  /\ row \in [RefreshTokens -> Row]
  /\ req \in [Requests -> Request]
  /\ \A r \in Requests : req[r].op = "issue" => req[r].todo # {}
  /\ drawn \subseteq GrantIds \cup Artifacts \cup RefreshTokens
  /\ ended \subseteq GrantIds /\ erased \subseteq GrantIds /\ cleared \subseteq GrantIds
  /\ spent \in [AuthCodes \cup RefreshTokens -> Nat]
  /\ opened \in [GrantIds -> Nat]

GrantsInit ==
  /\ user = TRUE
  /\ grant = [g \in GrantIds |-> "none"]
  /\ past = {}
  /\ redis = [a \in Artifacts |-> None]
  /\ row = [t \in RefreshTokens |-> NoRow]
  /\ req = [r \in Requests |-> Free]
  /\ drawn = {} /\ ended = {} /\ erased = {} /\ cleared = {}
  /\ spent = [t \in AuthCodes \cup RefreshTokens |-> 0]
  /\ opened = [g \in GrantIds |-> 0]

-----------------------------------------------------------------------------

\* The find of the grant adapter: not revoked and not expired.
Active(g) == grant[g] = "active" /\ g \notin past

Goes(r, s) == req' = [req EXCEPT ![r] = s]
Moves(r, op) == Goes(r, [req[r] EXCEPT !.op = op])
Ends(r) == Goes(r, Free)

Begins(r, op, g, t) ==
  Goes(r, [Free EXCEPT !.op = op, !.grant = g, !.token = t, !.over = ended])

Draws(x) == x \notin drawn /\ drawn' = drawn \cup {x}

-----------------------------------------------------------------------------
(* Sign-in and consent: a grant is saved, then the result of the           *)
(* interaction; a grant of one's own is destroyed when that fails.         *)

NewGrant(r, g) ==
  /\ req[r].op = "idle"
  /\ Draws(g)
  /\ Goes(r, [Free EXCEPT !.op = "save", !.grant = g, !.fresh = TRUE])
  /\ UNCHANGED <<stored, histories>>

FindGrant(r, g) ==
  /\ req[r].op = "idle"
  /\ Active(g)
  /\ Begins(r, "save", g, None)
  /\ UNCHANGED <<stored, histories, drawn>>

\* The row is inserted, or updated unless it is revoked.
SaveGrant(r) ==
  /\ req[r].op = "save"
  /\ LET g == req[r].grant IN
       /\ user /\ g \notin past /\ grant[g] # "revoked"
       /\ grant' = [grant EXCEPT ![g] = "active"]
  /\ IF req[r].fresh THEN Moves(r, "result") ELSE Ends(r)
  /\ UNCHANGED <<user, past, redis, row, drawn, histories>>

\* No such user, a tombstone, an expired payload, or PostgreSQL fails.
SaveGrantFails(r) ==
  /\ req[r].op = "save"
  /\ IF req[r].fresh THEN Moves(r, "undo") ELSE Ends(r)
  /\ UNCHANGED <<stored, drawn, histories>>

PersistResult(r) ==
  /\ req[r].op = "result"
  /\ Ends(r) \/ Moves(r, "undo")
  /\ UNCHANGED <<stored, drawn, histories>>

Revokes(S) ==
  /\ grant' = [g \in GrantIds |-> IF g \in S /\ grant[g] = "active" THEN "revoked" ELSE grant[g]]
  /\ ended' = ended \cup {g \in S \cap GrantIds : grant[g] = "active"}

UndoGrant(r) ==
  /\ req[r].op = "undo"
  /\ Revokes({req[r].grant})
  /\ Ends(r)
  /\ UNCHANGED <<user, past, redis, row, drawn, erased, spent, opened, cleared>>

-----------------------------------------------------------------------------
(* Codes and access tokens are written to Redis after the grant was read   *)
(* from PostgreSQL: the write may land after a revocation.                 *)

\* upsert of a code: the check ...
IssueCode(r, g, c) ==
  /\ req[r].op = "idle"
  /\ Active(g)
  /\ Draws(c)
  /\ Begins(r, "write", g, c)
  /\ UNCHANGED <<stored, histories>>

\* ... or of the access token a token request goes on to save ...
IssueAccess(r, a) ==
  /\ req[r].op = "issue" /\ "access" \in req[r].todo
  /\ Active(req[r].grant)
  /\ Draws(a)
  /\ Goes(r, [req[r] EXCEPT !.op = "write", !.token = a, !.todo = @ \ {"access"}])
  /\ UNCHANGED <<stored, histories>>

\* Mutant: a request that has saved all its tokens does not end.
WriteAndGoOn(r) ==
  /\ req[r].op = "write"
  /\ redis' = [redis EXCEPT ![req[r].token] = req[r].grant]
  /\ Moves(r, "issue")
  /\ UNCHANGED <<user, grant, past, row, drawn, histories>>

\* ... and the write.
WriteArtifact(r) ==
  /\ req[r].op = "write"
  /\ redis' = [redis EXCEPT ![req[r].token] = req[r].grant]
  /\ IF req[r].todo = {} THEN Ends(r) ELSE Moves(r, "issue")
  /\ UNCHANGED <<user, grant, past, row, drawn, histories>>

\* One transaction: the grant row is locked FOR SHARE and still active.
SaveRefresh(r, t) ==
  /\ req[r].op = "issue" /\ "refresh" \in req[r].todo
  /\ user /\ Active(req[r].grant)
  /\ Draws(t)
  /\ row' = [row EXCEPT ![t] = [grant |-> req[r].grant, used |-> FALSE]]
  /\ IF req[r].todo = {"refresh"} THEN Ends(r)
     ELSE Goes(r, [req[r] EXCEPT !.todo = @ \ {"refresh"}])
  /\ UNCHANGED <<user, grant, past, redis, histories>>

\* Any request may fail or its process die between two of its steps.
Abandon(r) ==
  /\ req[r].op # "idle"
  /\ Ends(r)
  /\ UNCHANGED <<stored, drawn, histories>>

-----------------------------------------------------------------------------
(* The token requests: find the code or the refresh token, check its       *)
(* grant, consume it, save an access token and (offline_access) a refresh  *)
(* token.                                                                  *)

FindCode(r, c) ==
  /\ req[r].op = "idle"
  /\ redis[c] # None
  /\ Begins(r, "lookup", redis[c], c)
  /\ UNCHANGED <<stored, drawn, histories>>

FindAccess(r, a) ==
  /\ req[r].op = "idle"
  /\ redis[a] # None
  /\ Begins(r, "read", redis[a], a)
  /\ UNCHANGED <<stored, drawn, histories>>

FindRefresh(r, t) ==
  /\ req[r].op = "idle"
  /\ row[t].grant # None
  /\ Goes(r, [Free EXCEPT !.op = "lookup", !.grant = row[t].grant, !.token = t,
                          !.used = row[t].used, !.over = ended])
  /\ UNCHANGED <<stored, drawn, histories>>

\* find goes on to the grant.  An inactive one hides the token, and destroys
\* it if it is in Redis.  A refresh token that was found used turns the
\* request into a revocation of its grant.
CheckGrant(r) ==
  /\ req[r].op \in {"lookup", "read"}
  /\ LET q == req[r] IN
       \/ /\ Active(q.grant)
          /\ \/ q.op = "read" /\ Moves(r, "check")
             \/ q.op = "lookup" /\ ~q.used /\ Moves(r, "consume")
             \/ q.op = "lookup" /\ q.used /\ Goes(r, [q EXCEPT !.op = "reuse", !.todo = Clears])
          /\ UNCHANGED redis
       \/ /\ ~Active(q.grant)
          /\ redis' = [a \in Artifacts |-> IF a = q.token THEN None ELSE redis[a]]
          /\ Ends(r)
  /\ UNCHANGED <<user, grant, past, row, drawn, histories>>

Spends(r) ==
  /\ spent' = [spent EXCEPT ![req[r].token] = @ + 1]
  /\ \E s \in SUBSET Saves :
       /\ "access" \in s
       /\ Goes(r, [req[r] EXCEPT !.op = "issue", !.todo = s])

\* Mutant: the code is marked and not deleted, so it can be consumed again.
ConsumeKeeps(r) ==
  /\ req[r].op = "consume" /\ req[r].token \in AuthCodes
  /\ redis[req[r].token] # None
  /\ UNCHANGED redis
  /\ Spends(r)
  /\ opened' = [opened EXCEPT ![req[r].grant] = @ + 1]
  /\ UNCHANGED <<user, grant, past, row, drawn, ended, erased, cleared>>

\* CONSUME_SCRIPT: exactly one of the requests that found the code gets it.
ConsumeCode(r) ==
  /\ req[r].op = "consume" /\ req[r].token \in AuthCodes
  /\ redis[req[r].token] # None
  /\ redis' = [redis EXCEPT ![req[r].token] = None]
  /\ Spends(r)
  /\ opened' = [opened EXCEPT ![req[r].grant] = @ + 1]
  /\ UNCHANGED <<user, grant, past, row, drawn, ended, erased, cleared>>

\* Mutant: the update does not look at revokedAt.
RotateAnyway(r) ==
  /\ req[r].op = "consume" /\ req[r].token \in RefreshTokens
  /\ row[req[r].token].grant # None
  /\ row' = [row EXCEPT ![req[r].token].used = TRUE]
  /\ Spends(r)
  /\ UNCHANGED <<user, grant, past, redis, drawn, ended, erased, opened, cleared>>

\* consume: the row is marked, if it is still there and nobody has yet.
RotateRefresh(r) ==
  /\ req[r].op = "consume" /\ req[r].token \in RefreshTokens
  /\ row[req[r].token].grant # None /\ ~row[req[r].token].used
  /\ row' = [row EXCEPT ![req[r].token].used = TRUE]
  /\ Spends(r)
  /\ UNCHANGED <<user, grant, past, redis, drawn, ended, erased, opened, cleared>>

-----------------------------------------------------------------------------
(* revokeByGrantId, for every kind of token at the same time, and the      *)
(* refresh token that was used twice.                                      *)

Clears1(r, what) ==
  /\ req[r].op = "reuse" /\ what \in req[r].todo
  /\ Goes(r, [req[r] EXCEPT !.todo = @ \ {what}])

DestroyRow(r) ==
  /\ Clears1(r, "row")
  /\ row' = [row EXCEPT ![req[r].token] = NoRow]
  /\ UNCHANGED <<user, grant, past, redis, drawn, histories>>

\* REVOKE_GRANT_SCRIPT: every artifact in the index of the grant.
RevokeArtifacts(r) ==
  /\ Clears1(r, "redis")
  /\ redis' = [a \in Artifacts |-> IF redis[a] = req[r].grant THEN None ELSE redis[a]]
  /\ UNCHANGED <<user, grant, past, row, drawn, histories>>

\* The refresh-token adapter first revokes the grant ...
RevokeGrant(r) ==
  /\ Clears1(r, "grant")
  /\ Revokes({req[r].grant})
  /\ UNCHANGED <<user, past, redis, row, drawn, erased, spent, opened, cleared>>

\* Mutant: ... no: the rows go before the grant is revoked.
DeleteRowsFirst(r) ==
  /\ Clears1(r, "rows")
  /\ row' = [t \in RefreshTokens |-> IF row[t].grant = req[r].grant THEN NoRow ELSE row[t]]
  /\ UNCHANGED <<user, grant, past, redis, drawn, histories>>

\* ... and then deletes the rows issued under it.
DeleteRows(r) ==
  /\ Clears1(r, "rows") /\ "grant" \notin req[r].todo
  /\ row' = [t \in RefreshTokens |-> IF row[t].grant = req[r].grant THEN NoRow ELSE row[t]]
  /\ UNCHANGED <<user, grant, past, redis, drawn, histories>>

EndReuse(r) ==
  /\ req[r].op = "reuse" /\ req[r].todo = {}
  /\ Revokes({req[r].grant})
  /\ cleared' = cleared \cup {req[r].grant}
  /\ Ends(r)
  /\ UNCHANGED <<user, past, redis, row, drawn, erased, spent, opened>>

-----------------------------------------------------------------------------
(* The API: an access token that find returned has its grant read again.   *)

\* Mutant: the token is accepted on the strength of its own record.
AcceptAnyway(r) ==
  /\ req[r].op \in {"read", "check"}
  /\ Moves(r, "accept")
  /\ UNCHANGED <<stored, drawn, histories>>

AcceptToken(r) ==
  /\ req[r].op = "check"
  /\ Active(req[r].grant)
  /\ Moves(r, "accept")
  /\ UNCHANGED <<stored, drawn, histories>>

-----------------------------------------------------------------------------
(* The account page, the sign-in that stores the user, and time.           *)

RevokeService(r) ==
  /\ req[r].op = "idle"
  /\ Revokes(GrantIds)
  /\ UNCHANGED <<user, past, redis, row, req, drawn, erased, spent, opened, cleared>>

\* /account/delete revokes the grants, ends the sessions ...
BeginErase(r) ==
  /\ req[r].op = "idle"
  /\ Revokes(GrantIds)
  /\ Moves(r, "erase")
  /\ UNCHANGED <<user, past, redis, row, drawn, erased, spent, opened, cleared>>

\* ... and deletes the user, with every row that refers to it.
EraseAccount(r) ==
  /\ req[r].op = "erase"
  /\ user' = FALSE
  /\ grant' = [g \in GrantIds |-> "none"]
  /\ row' = [t \in RefreshTokens |-> NoRow]
  /\ erased' = erased \cup {g \in GrantIds : grant[g] # "none"}
  /\ ended' = ended \cup {g \in GrantIds : grant[g] # "none"}
  /\ Ends(r)
  /\ UNCHANGED <<past, redis, drawn, spent, opened, cleared>>

UpsertUser ==
  /\ ~user
  /\ user' = TRUE
  /\ UNCHANGED <<grant, past, redis, row, req, drawn, histories>>

ExpireGrant(g) ==
  /\ grant[g] # "none" /\ g \notin past
  /\ past' = past \cup {g}
  /\ ended' = ended \cup {g}
  /\ UNCHANGED <<user, grant, redis, row, req, drawn, erased, spent, opened, cleared>>

\* A minute after it expired, the sweeper deletes the row.
SweepGrant(g) ==
  /\ grant[g] # "none" /\ g \in past
  /\ grant' = [grant EXCEPT ![g] = "none"]
  /\ UNCHANGED <<user, past, redis, row, req, drawn, histories>>

ExpireArtifact(a) ==
  /\ redis[a] # None
  /\ redis' = [redis EXCEPT ![a] = None]
  /\ UNCHANGED <<user, grant, past, row, req, drawn, histories>>

SweepRow(t) ==
  /\ row[t].grant # None
  /\ row' = [row EXCEPT ![t] = NoRow]
  /\ UNCHANGED <<user, grant, past, redis, req, drawn, histories>>

-----------------------------------------------------------------------------

Authorize(r) ==
  \/ SaveGrant(r) \/ SaveGrantFails(r) \/ PersistResult(r) \/ UndoGrant(r)
  \/ \E g \in GrantIds : \/ NewGrant(r, g) \/ FindGrant(r, g)
                         \/ \E c \in AuthCodes : IssueCode(r, g, c)

Redeem(r) ==
  \/ WriteArtifact(r) \/ CheckGrant(r) \/ ConsumeCode(r) \/ RotateRefresh(r)
  \/ AcceptToken(r)
  \/ \E c \in AuthCodes : FindCode(r, c)
  \/ \E a \in AccessTokens : FindAccess(r, a) \/ IssueAccess(r, a)
  \/ \E t \in RefreshTokens : FindRefresh(r, t) \/ SaveRefresh(r, t)

Revoke(r) ==
  \/ DestroyRow(r) \/ RevokeArtifacts(r) \/ RevokeGrant(r)
  \/ DeleteRows(r) \/ EndReuse(r)
  \/ RevokeService(r) \/ BeginErase(r) \/ EraseAccount(r)

GrantsNext ==
  \/ \E r \in Requests : Authorize(r) \/ Redeem(r) \/ Revoke(r) \/ Abandon(r)
  \/ UpsertUser
  \/ \E g \in GrantIds : ExpireGrant(g) \/ SweepGrant(g)
  \/ \E a \in Artifacts : ExpireArtifact(a)
  \/ \E t \in RefreshTokens : SweepRow(t)

GrantsSpec == GrantsInit /\ [][GrantsNext]_gvars

-----------------------------------------------------------------------------

\* However many token requests present the same authorization code or the
\* same refresh token at once, one of them redeems it.
RedeemedOnce == \A t \in AuthCodes \cup RefreshTokens : spent[t] <= 1

\* The refresh tokens that descend from one code form a line: with every
\* rotation accounted for, a grant has at most one unused refresh token, or
\* one about to be saved, for every code that was redeemed under it.
OneLivingHeir ==
  \A g \in GrantIds :
    Cardinality({t \in RefreshTokens : row[t].grant = g /\ ~row[t].used})
      + Cardinality({r \in Requests : /\ req[r].op \in {"issue", "write"}
                                      /\ req[r].grant = g
                                      /\ "refresh" \in req[r].todo})
      <= opened[g]

\* Once the account page, a reused token or the clock has ended a grant, no
\* request that begins afterwards gets in with an access token of it, not
\* even with one whose write to Redis was still under way at that moment.
\* (A grant whose row was erased with the account: see TombstoneStands.)
EndedIsRefused ==
  \A r \in Requests :
    req[r].op = "accept" /\ req[r].grant \in req[r].over => req[r].grant \in erased

\* The revocation that follows a reused refresh token leaves no refresh token
\* of the grant behind, whatever rotations were in flight.
ReuseLeavesNothing ==
  \A g \in cleared \ erased : \A t \in RefreshTokens : row[t].grant # g

\* "Revoked rows are tombstones until expiry: a stale provider object cannot
\* resurrect consent."
TombstoneStands == \A g \in ended : ~Active(g)
=============================================================================
