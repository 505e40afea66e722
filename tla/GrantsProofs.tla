------------------------------ MODULE GrantsProofs ------------------------------
(***************************************************************************)
(* Proofs about Grants, for every set of grants, tokens and requests, and  *)
(* about SharedReads, for every number of callers.                         *)
(*                                                                         *)
(* The inductive invariant joins the type invariant with three facts: why  *)
(* an ended grant is not active any more (EndedStays), that a code is      *)
(* written by one request and gone from Redis for good once it was         *)
(* redeemed (CodeHistory), and that a refresh token is marked used in the  *)
(* step that redeems it (RowHistory).                                      *)
(*                                                                         *)
(* Two more rest on it: what a revocation has cleared so far stays clear   *)
(* (ReuseInv), and of each grant the unused refresh tokens and the         *)
(* requests about to save one are counted together (LineInv): a rotation   *)
(* turns a token into an heir, a save an heir into a token.                *)
(*                                                                         *)
(* SharedInv is of the reads that requests share: the one that is under    *)
(* way is the one they wait for, and what it has read, or left behind, is  *)
(* as old as its age says.                                                 *)
(***************************************************************************)
EXTENDS Grants, SharedReads, FiniteSetTheorems, TLAPS

\* An ended grant is a tombstone, or expired, or went with the account.
EndedStays == \A g \in ended : g \in erased \/ g \in past \/ grant[g] = "revoked"

\* What a request knows of the end of its grant is true.
OverIsEnded == \A r \in Requests : req[r].over \subseteq ended

\* A request that is under way has a grant, unless it erases the account.
Shape(q) == /\ q \in Request
            /\ q.op = "issue" => q.todo # {}
            /\ q.op \notin {"idle", "erase"} => q.grant \in GrantIds

Shapes == \A r \in Requests : Shape(req[r])

Writes(r, c) == req[r].op = "write" /\ req[r].token = c

CodeHistory ==
  \A c \in AuthCodes :
    /\ spent[c] <= 1
    /\ spent[c] > 0 => c \in drawn /\ redis[c] = None /\ \A r \in Requests : ~Writes(r, c)
    /\ redis[c] # None => c \in drawn /\ \A r \in Requests : ~Writes(r, c)
    /\ \A r \in Requests : Writes(r, c) => c \in drawn
    /\ \A r, s \in Requests : Writes(r, c) /\ Writes(s, c) => r = s

RowHistory ==
  \A t \in RefreshTokens :
    /\ spent[t] <= 1
    /\ spent[t] > 0 => t \in drawn /\ (row[t].grant = None \/ row[t].used)
    /\ row[t].grant # None => t \in drawn

GInv == /\ GrantsTypeOK /\ Shapes
        /\ EndedStays /\ OverIsEnded /\ EndedIsRefused
        /\ CodeHistory /\ RowHistory

-----------------------------------------------------------------------------
(* What a step makes of a request.                                         *)

\* A request ends, begins knowing which grants have ended, or goes on with the
\* same grant: to accept a token only while that grant is active.
Follows(p, q) ==
  \/ q = p
  \/ q = Free
  \/ q.over \subseteq ended /\ q.op # "accept"
  \/ /\ q.grant = p.grant /\ q.over = p.over
     /\ q.op = "accept" => Active(p.grant)

LEMMA FreeIsShaped == Shape(Free)
  BY GrantsAssumption DEF Shape, Free, Request, Ops

LEMMA GoesTo ==
  ASSUME GrantsTypeOK, Shapes,
         NEW r \in Requests, NEW s, Goes(r, s), Shape(s), Follows(req[r], s)
  PROVE  /\ req' \in [Requests -> Request]
         /\ req'[r] = s
         /\ \A x \in Requests : Shape(req'[x]) /\ Follows(req[x], req'[x])
         /\ \A x \in Requests \ {r} : req'[x] = req[x]
  <1>1. req \in [Requests -> Request] /\ s \in Request
    BY DEF GrantsTypeOK, Shape
  <1>. QED BY <1>1 DEF Goes, Follows, Shapes

LEMMA EndsWell ==
  ASSUME GrantsTypeOK, Shapes, NEW r \in Requests, Ends(r)
  PROVE  /\ req' \in [Requests -> Request]
         /\ \A x \in Requests : Shape(req'[x]) /\ Follows(req[x], req'[x])
  BY FreeIsShaped, GoesTo DEF Ends, Follows

LEMMA MovesWell ==
  ASSUME GrantsTypeOK, Shapes, NEW r \in Requests,
         NEW op \in Ops \ {"issue", "write"}, Moves(r, op),
         req[r].op \in {"idle", "erase"} => op = "erase",
         op = "accept" => Active(req[r].grant)
  PROVE  /\ req' \in [Requests -> Request]
         /\ \A x \in Requests : Shape(req'[x]) /\ Follows(req[x], req'[x])
  <1>. DEFINE s == [req[r] EXCEPT !.op = op]
  <1>1. Shape(req[r])
    BY DEF Shapes
  <1>2. s \in Request
    BY <1>1 DEF Shape, Request
  <1>3. s.op = op /\ s.grant = req[r].grant /\ s.over = req[r].over
    BY <1>1 DEF Shape, Request
  <1>4. Shape(s) /\ Follows(req[r], s)
    BY <1>1, <1>2, <1>3 DEF Shape, Follows
  <1>5. Goes(r, s)
    BY DEF Moves
  <1>. HIDE DEF s
  <1>. QED BY <1>4, <1>5, GoesTo

LEMMA BeginsWell ==
  ASSUME GrantsTypeOK, Shapes, NEW r \in Requests,
         NEW op \in {"save", "lookup", "read", "write"}, NEW g \in GrantIds,
         NEW t \in Artifacts \cup RefreshTokens \cup {None}, Begins(r, op, g, t)
  PROVE  /\ req' \in [Requests -> Request]
         /\ \A x \in Requests : Shape(req'[x]) /\ Follows(req[x], req'[x])
  <1>. DEFINE s == [Free EXCEPT !.op = op, !.grant = g, !.token = t, !.over = ended]
  <1>1. s \in Request /\ s.op = op /\ s.grant = g /\ s.over = ended
    BY DEF Free, Request, Ops, GrantsTypeOK
  <1>2. Shape(s) /\ Follows(req[r], s)
    BY <1>1 DEF Shape, Follows
  <1>3. Goes(r, s)
    BY DEF Begins
  <1>. HIDE DEF s
  <1>. QED BY <1>2, <1>3, GoesTo

\* Every step leaves the requests well formed.
LEMMA RequestsStep ==
  ASSUME GrantsTypeOK, Shapes, [GrantsNext]_gvars
  PROVE  /\ req' \in [Requests -> Request]
         /\ \A x \in Requests : Shape(req'[x]) /\ Follows(req[x], req'[x])
  <1>. DEFINE Well == /\ req' \in [Requests -> Request]
                      /\ \A x \in Requests : Shape(req'[x]) /\ Follows(req[x], req'[x])
  <1>0. ASSUME UNCHANGED req PROVE Well
    BY <1>0 DEF GrantsTypeOK, Follows, Shapes

  <1>1. ASSUME NEW r \in Requests, SaveGrant(r) \/ SaveGrantFails(r) \/ PersistResult(r) \/ UndoGrant(r) PROVE Well
    BY <1>1, EndsWell, MovesWell DEF SaveGrant, SaveGrantFails, PersistResult, UndoGrant, Ops
  <1>2. ASSUME NEW r \in Requests, WriteArtifact(r) PROVE Well
    <2>. DEFINE s == [req[r] EXCEPT !.op = "issue"]
    <2>1. CASE req[r].todo = {}
      BY <1>2, <2>1, EndsWell DEF WriteArtifact
    <2>2. CASE req[r].todo # {}
      <3>1. Shape(req[r]) /\ Goes(r, s) /\ req[r].op = "write"
        BY <1>2, <2>2 DEF WriteArtifact, Moves, Shapes
      <3>2. s \in Request /\ s.op = "issue" /\ s.todo = req[r].todo
              /\ s.grant = req[r].grant /\ s.over = req[r].over
        BY <3>1 DEF Shape, Request, Ops
      <3>3. Shape(s) /\ Follows(req[r], s)
        BY <2>2, <3>1, <3>2 DEF Shape, Follows
      <3>. HIDE DEF s
      <3>. QED BY <3>1, <3>3, GoesTo
    <2>. QED BY <2>1, <2>2
  <1>3. ASSUME NEW r \in Requests, CheckGrant(r) PROVE Well
    <2>. DEFINE s == [req[r] EXCEPT !.op = "reuse", !.todo = Clears]
    <2>1. CASE Ends(r)
      BY <2>1, EndsWell
    <2>2. CASE Moves(r, "check") \/ Moves(r, "consume")
      BY <1>3, <2>2, MovesWell DEF CheckGrant, Ops
    <2>3. CASE Goes(r, s)
      <3>1. Shape(req[r]) /\ req[r].op \in {"lookup", "read"} /\ Clears \subseteq Saves \cup Clears
        BY <1>3 DEF CheckGrant, Shapes
      <3>2. s \in Request /\ s.op = "reuse" /\ s.grant = req[r].grant /\ s.over = req[r].over
        BY <3>1 DEF Shape, Request, Ops
      <3>3. Shape(s) /\ Follows(req[r], s)
        BY <3>1, <3>2 DEF Shape, Follows
      <3>. HIDE DEF s
      <3>. QED BY <2>3, <3>3, GoesTo
    <2>. QED BY <1>3, <2>1, <2>2, <2>3 DEF CheckGrant
  <1>4. ASSUME NEW r \in Requests, ConsumeCode(r) \/ RotateRefresh(r) PROVE Well
    <2>1. PICK todo \in SUBSET Saves :
            "access" \in todo /\ Goes(r, [req[r] EXCEPT !.op = "issue", !.todo = todo])
      BY <1>4 DEF ConsumeCode, RotateRefresh, Spends
    <2>. DEFINE s == [req[r] EXCEPT !.op = "issue", !.todo = todo]
    <2>2. Shape(req[r]) /\ req[r].op = "consume"
      BY <1>4 DEF ConsumeCode, RotateRefresh, Shapes
    <2>3. s \in Request /\ s.op = "issue" /\ s.todo = todo
            /\ s.grant = req[r].grant /\ s.over = req[r].over
      BY <2>2 DEF Shape, Request, Ops
    <2>4. Shape(s) /\ Follows(req[r], s)
      BY <2>1, <2>2, <2>3 DEF Shape, Follows
    <2>. HIDE DEF s
    <2>. QED BY <2>1, <2>4, GoesTo DEF s
  <1>5. ASSUME NEW r \in Requests, AcceptToken(r) PROVE Well
    BY <1>5, MovesWell DEF AcceptToken, Ops
  <1>6. ASSUME NEW r \in Requests, NEW what \in Clears, Clears1(r, what) PROVE Well
    <2>. DEFINE s == [req[r] EXCEPT !.todo = @ \ {what}]
    <2>1. Shape(req[r]) /\ Goes(r, s) /\ req[r].op = "reuse"
      BY <1>6 DEF Clears1, Shapes
    <2>2. s \in Request /\ s.op = "reuse" /\ s.grant = req[r].grant /\ s.over = req[r].over
      BY <2>1 DEF Shape, Request
    <2>3. Shape(s) /\ Follows(req[r], s)
      BY <2>1, <2>2 DEF Shape, Follows
    <2>. HIDE DEF s
    <2>. QED BY <2>1, <2>3, GoesTo
  <1>7. ASSUME NEW r \in Requests, EndReuse(r) \/ EraseAccount(r) \/ Abandon(r) PROVE Well
    BY <1>7, EndsWell DEF EndReuse, EraseAccount, Abandon
  <1>8. ASSUME NEW r \in Requests, BeginErase(r) PROVE Well
    BY <1>8, MovesWell DEF BeginErase, Ops
  <1>9. ASSUME NEW r \in Requests, NEW g \in GrantIds, NewGrant(r, g) PROVE Well
    <2>. DEFINE s == [Free EXCEPT !.op = "save", !.grant = g, !.fresh = TRUE]
    <2>1. s \in Request /\ s.op = "save" /\ s.grant = g /\ s.over = {}
      BY DEF Free, Request, Ops
    <2>2. Shape(s) /\ Follows(req[r], s)
      BY <2>1 DEF Shape, Follows
    <2>3. Goes(r, s)
      BY <1>9 DEF NewGrant
    <2>. HIDE DEF s
    <2>. QED BY <2>2, <2>3, GoesTo
  <1>10. ASSUME NEW r \in Requests, NEW g \in GrantIds, FindGrant(r, g) PROVE Well
    BY <1>10, BeginsWell DEF FindGrant
  <1>11. ASSUME NEW r \in Requests, NEW c \in AuthCodes, FindCode(r, c) PROVE Well
    BY <1>11, BeginsWell DEF FindCode, GrantsTypeOK, Artifacts
  <1>12. ASSUME NEW r \in Requests, NEW a \in AccessTokens, FindAccess(r, a) PROVE Well
    BY <1>12, BeginsWell DEF FindAccess, GrantsTypeOK, Artifacts
  <1>13. ASSUME NEW r \in Requests, NEW a \in AccessTokens, IssueAccess(r, a) PROVE Well
    <2>. DEFINE s == [req[r] EXCEPT !.op = "write", !.token = a, !.todo = @ \ {"access"}]
    <2>1. Shape(req[r]) /\ Goes(r, s) /\ req[r].op = "issue"
      BY <1>13 DEF IssueAccess, Shapes
    <2>2. s \in Request /\ s.op = "write" /\ s.token = a
            /\ s.grant = req[r].grant /\ s.over = req[r].over
      BY <2>1 DEF Shape, Request, Ops, Artifacts
    <2>3. Shape(s) /\ Follows(req[r], s)
      BY <2>1, <2>2 DEF Shape, Follows
    <2>. HIDE DEF s
    <2>. QED BY <2>1, <2>3, GoesTo
  <1>14. ASSUME NEW r \in Requests, NEW t \in RefreshTokens, FindRefresh(r, t) PROVE Well
    <2>. DEFINE s == [Free EXCEPT !.op = "lookup", !.grant = row[t].grant, !.token = t,
                          !.used = row[t].used, !.over = ended]
    <2>1. row[t] \in Row /\ row[t].grant # None /\ Goes(r, s)
      BY <1>14 DEF FindRefresh, GrantsTypeOK
    <2>2. s \in Request /\ s.op = "lookup" /\ s.grant = row[t].grant /\ s.over = ended
      BY <2>1 DEF Free, Request, Ops, Row, GrantsTypeOK
    <2>3. Shape(s) /\ Follows(req[r], s)
      BY <2>1, <2>2 DEF Shape, Follows, Row
    <2>. HIDE DEF s
    <2>. QED BY <2>1, <2>3, GoesTo
  <1>15. ASSUME NEW r \in Requests, NEW t \in RefreshTokens, SaveRefresh(r, t) PROVE Well
    <2>. DEFINE s == [req[r] EXCEPT !.todo = @ \ {"refresh"}]
    <2>1. CASE Ends(r)
      BY <2>1, EndsWell
    <2>2. CASE Goes(r, s) /\ req[r].todo # {"refresh"}
      <3>1. Shape(req[r]) /\ req[r].op = "issue" /\ req[r].todo \ {"refresh"} # {}
        BY <1>15, <2>2 DEF SaveRefresh, Shape, Shapes
      <3>2. s \in Request /\ s.op = "issue" /\ s.todo = req[r].todo \ {"refresh"}
              /\ s.grant = req[r].grant /\ s.over = req[r].over
        BY <3>1 DEF Shape, Request
      <3>3. Shape(s) /\ Follows(req[r], s)
        BY <3>1, <3>2 DEF Shape, Follows
      <3>. HIDE DEF s
      <3>. QED BY <2>2, <3>3, GoesTo
    <2>. QED BY <1>15, <2>1, <2>2 DEF SaveRefresh
  <1>16. ASSUME NEW r \in Requests, NEW g \in GrantIds, NEW c \in AuthCodes, IssueCode(r, g, c)
         PROVE  Well
    BY <1>16, BeginsWell DEF IssueCode, Artifacts
  <1>. QED
    BY <1>0, <1>1, <1>2, <1>3, <1>4, <1>5, <1>6, <1>7, <1>8, <1>9, <1>10, <1>11, <1>12, <1>13, <1>14, <1>15, <1>16
    DEF GrantsNext, Authorize, Redeem, Revoke, gvars, DestroyRow, RevokeArtifacts, RevokeGrant,
        DeleteRows, Clears, RevokeService, UpsertUser, ExpireGrant, SweepGrant,
        ExpireArtifact, SweepRow

-----------------------------------------------------------------------------
(* What a step makes of the grants.                                        *)

\* Nothing gives an ended grant back, save erasing the account.
LEMMA GrantsStep ==
  ASSUME GrantsTypeOK, Shapes, EndedStays, [GrantsNext]_gvars
  PROVE  /\ grant' \in [GrantIds -> {"none", "active", "revoked"}]
         /\ past' \subseteq GrantIds /\ ended' \subseteq GrantIds
         /\ erased' \subseteq GrantIds /\ cleared' \subseteq GrantIds
         /\ ended \subseteq ended' /\ erased \subseteq erased'
         /\ EndedStays'
  <1>. DEFINE Types == /\ grant' \in [GrantIds -> {"none", "active", "revoked"}]
                      /\ past' \subseteq GrantIds /\ ended' \subseteq GrantIds
                      /\ erased' \subseteq GrantIds /\ cleared' \subseteq GrantIds
              Grow == ended \subseteq ended' /\ erased \subseteq erased'
  <1>. USE DEF GrantsTypeOK
  <1>1. ASSUME UNCHANGED <<grant, past, ended, erased, cleared>> PROVE Types /\ Grow /\ EndedStays'
    BY <1>1 DEF EndedStays
  <1>2. ASSUME NEW r \in Requests, SaveGrant(r) PROVE Types /\ Grow /\ EndedStays'
    <2>1. req[r].grant \in GrantIds
      BY <1>2 DEF SaveGrant, Shapes, Shape
    <2>. QED BY <1>2, <2>1 DEF SaveGrant, histories, EndedStays
  <1>3. ASSUME NEW S, Revokes(S), UNCHANGED <<past, erased>>, cleared' \subseteq GrantIds
        PROVE  Types /\ Grow /\ EndedStays'
    BY <1>3 DEF Revokes, EndedStays
  <1>4. ASSUME NEW r \in Requests, EndReuse(r) PROVE Types /\ Grow /\ EndedStays'
    <2>1. req[r].grant \in GrantIds
      BY <1>4 DEF EndReuse, Shapes, Shape
    <2>. QED BY <1>3, <1>4, <2>1 DEF EndReuse
  <1>5. ASSUME NEW r \in Requests, EraseAccount(r) PROVE Types /\ Grow /\ EndedStays'
    BY <1>5 DEF EraseAccount, EndedStays
  <1>6. ASSUME NEW g \in GrantIds, ExpireGrant(g) \/ SweepGrant(g) PROVE Types /\ Grow /\ EndedStays'
    BY <1>6 DEF ExpireGrant, SweepGrant, histories, EndedStays
  <1>7. ASSUME NEW r \in Requests, UndoGrant(r) \/ RevokeGrant(r) \/ RevokeService(r) \/ BeginErase(r)
        PROVE  Types /\ Grow /\ EndedStays'
    BY <1>7, <1>3 DEF UndoGrant, RevokeGrant, RevokeService, BeginErase
  <1>. HIDE DEF Types, Grow
  <1>8. Types /\ Grow /\ EndedStays'
    BY <1>1, <1>2, <1>4, <1>5, <1>6, <1>7
    DEF GrantsNext, Authorize, Redeem, Revoke, gvars, stored, histories,
        SaveGrantFails, PersistResult, NewGrant, FindGrant, IssueCode, WriteArtifact,
        CheckGrant, ConsumeCode, RotateRefresh, AcceptToken, FindCode, FindAccess, IssueAccess,
        FindRefresh, SaveRefresh, DestroyRow, RevokeArtifacts, DeleteRows, Abandon,
        UpsertUser, ExpireArtifact, SweepRow
  <1>. QED BY <1>8 DEF Types, Grow

\* A token request that accepts a token of a grant that had ended before it
\* began found that grant active: the account was erased since.
LEMMA RefusedStep ==
  ASSUME GrantsTypeOK, Shapes, EndedStays, OverIsEnded, EndedIsRefused, [GrantsNext]_gvars
  PROVE  OverIsEnded' /\ EndedIsRefused'
  <1>. SUFFICES ASSUME NEW r \in Requests
                PROVE  /\ req'[r].over \subseteq ended'
                       /\ req'[r].op = "accept" /\ req'[r].grant \in req'[r].over
                            => req'[r].grant \in erased'
    BY DEF OverIsEnded, EndedIsRefused
  <1>1. Follows(req[r], req'[r]) /\ ended \subseteq ended' /\ erased \subseteq erased'
    BY RequestsStep, GrantsStep
  <1>2. CASE req'[r] = req[r]
    BY <1>1, <1>2 DEF OverIsEnded, EndedIsRefused
  <1>3. CASE req'[r] = Free
    BY <1>3 DEF Free
  <1>4. CASE req'[r].over \subseteq ended /\ req'[r].op # "accept"
    BY <1>1, <1>4
  <1>5. CASE /\ req'[r].grant = req[r].grant /\ req'[r].over = req[r].over
             /\ req'[r].op = "accept" => Active(req[r].grant)
    BY <1>1, <1>5 DEF OverIsEnded, EndedStays, Active
  <1>. QED BY <1>1, <1>2, <1>3, <1>4, <1>5 DEF Follows

-----------------------------------------------------------------------------
(* What a step makes of the codes.                                         *)

\* A step that spends no code, stores none and starts to write none.
LEMMA CodesKept ==
  ASSUME GrantsTypeOK, CodeHistory, drawn \subseteq drawn',
         \A c \in AuthCodes : spent'[c] = spent[c] /\ redis'[c] \in {redis[c], None},
         \A c \in AuthCodes, x \in Requests : Writes(x, c)' => Writes(x, c)
  PROVE  CodeHistory'
  BY DEF CodeHistory

LEMMA NoNewWrite ==
  ASSUME GrantsTypeOK, NEW r \in Requests, NEW s, Goes(r, s),
         s.op # "write" \/ s.token \in AccessTokens
  PROVE  \A c \in AuthCodes, x \in Requests : Writes(x, c)' => Writes(x, c)
  BY GrantsAssumption DEF GrantsTypeOK, Goes, Writes

\* Nobody writes a code again that was redeemed, or that is in Redis.
LEMMA CodesStep ==
  ASSUME GrantsTypeOK, Shapes, CodeHistory, [GrantsNext]_gvars
  PROVE  CodeHistory'
  <1>. req \in [Requests -> Request]
    BY DEF GrantsTypeOK
  <1>. DEFINE Same == /\ drawn \subseteq drawn'
                      /\ \A c \in AuthCodes : spent'[c] = spent[c] /\ redis'[c] \in {redis[c], None}
  <1>1. ASSUME UNCHANGED req, Same PROVE CodeHistory'
    BY <1>1, CodesKept DEF Writes
  <1>2. ASSUME NEW r \in Requests, NEW s, Goes(r, s), s.op # "write" \/ s.token \in AccessTokens, Same
        PROVE  CodeHistory'
    BY <1>2, NoNewWrite, CodesKept
  <1>3. ASSUME NEW r \in Requests, Ends(r), Same PROVE CodeHistory'
    BY <1>2, <1>3 DEF Ends, Free
  <1>4. ASSUME NEW r \in Requests, NEW op \in Ops \ {"write"}, Moves(r, op), Same PROVE CodeHistory'
    <2>1. Goes(r, [req[r] EXCEPT !.op = op]) /\ [req[r] EXCEPT !.op = op].op = op
      BY <1>4 DEF Moves, Request
    <2>. QED BY <1>2, <1>4, <2>1
  <1>5. ASSUME NEW r \in Requests, NEW op \in Ops \ {"write"}, NEW g, NEW t, Begins(r, op, g, t), Same
        PROVE  CodeHistory'
    <2>. DEFINE s == [Free EXCEPT !.op = op, !.grant = g, !.token = t, !.over = ended]
    <2>1. Goes(r, s) /\ s.op = op
      BY <1>5 DEF Begins, Free
    <2>. QED BY <1>2, <1>5, <2>1
  <1>6. ASSUME NEW r \in Requests,
               SaveGrant(r) \/ SaveGrantFails(r) \/ PersistResult(r) \/ UndoGrant(r)
                 \/ AcceptToken(r) \/ EndReuse(r) \/ BeginErase(r) \/ EraseAccount(r) \/ Abandon(r)
        PROVE  CodeHistory'
    BY <1>6, <1>3, <1>4
    DEF SaveGrant, SaveGrantFails, PersistResult, UndoGrant, AcceptToken, EndReuse, BeginErase,
        EraseAccount, Abandon, stored, histories, Ops
  <1>7. ASSUME NEW r \in Requests, CheckGrant(r) PROVE CodeHistory'
    <2>1. Same
      BY <1>7, GrantsAssumption DEF CheckGrant, histories, Artifacts
    <2>2. CASE Goes(r, [req[r] EXCEPT !.op = "reuse", !.todo = Clears])
      BY <1>2, <2>1, <2>2 DEF Request
    <2>. QED BY <1>3, <1>4, <1>7, <2>1, <2>2 DEF CheckGrant, Ops
  <1>8. ASSUME NEW r \in Requests, RotateRefresh(r) PROVE CodeHistory'
    <2>1. Same
      BY <1>8, GrantsAssumption DEF RotateRefresh, Spends, Artifacts, GrantsTypeOK
    <2>2. PICK todo : Goes(r, [req[r] EXCEPT !.op = "issue", !.todo = todo])
      BY <1>8 DEF RotateRefresh, Spends
    <2>. QED BY <1>2, <2>1, <2>2 DEF Request
  <1>9. ASSUME NEW r \in Requests, NEW what,
               Clears1(r, what), DestroyRow(r) \/ RevokeArtifacts(r) \/ RevokeGrant(r) \/ DeleteRows(r)
        PROVE  CodeHistory'
    <2>1. Same
      BY <1>9 DEF DestroyRow, RevokeArtifacts, RevokeGrant, DeleteRows, histories, Artifacts
    <2>2. Goes(r, [req[r] EXCEPT !.todo = @ \ {what}]) /\ req[r].op = "reuse"
      BY <1>9 DEF Clears1
    <2>. QED BY <1>2, <2>1, <2>2 DEF Request
  <1>10. ASSUME NEW r \in Requests, NEW g \in GrantIds, NewGrant(r, g) PROVE CodeHistory'
    BY <1>10, <1>2 DEF NewGrant, Draws, stored, histories, Free
  <1>11. ASSUME NEW r \in Requests, NEW x,
                FindGrant(r, x) \/ FindCode(r, x) \/ FindAccess(r, x)
         PROVE  CodeHistory'
    BY <1>11, <1>5 DEF FindGrant, FindCode, FindAccess, stored, histories, Ops
  <1>12. ASSUME NEW r \in Requests, NEW t \in RefreshTokens, FindRefresh(r, t) PROVE CodeHistory'
    BY <1>12, <1>2 DEF FindRefresh, stored, histories, Free
  <1>13. ASSUME NEW r \in Requests, NEW t \in RefreshTokens, SaveRefresh(r, t) PROVE CodeHistory'
    <2>1. Same /\ req[r].op = "issue"
      BY <1>13 DEF SaveRefresh, Draws, histories
    <2>. QED BY <1>2, <1>3, <1>13, <2>1 DEF SaveRefresh, Request
  <1>14. ASSUME NEW r \in Requests, NEW a \in AccessTokens, IssueAccess(r, a) PROVE CodeHistory'
    <2>1. Same
      BY <1>14 DEF IssueAccess, Draws, stored, histories
    <2>. QED BY <1>2, <1>14, <2>1 DEF IssueAccess, Request
  <1>15. ASSUME NEW r \in Requests, NEW g \in GrantIds, NEW c \in AuthCodes, IssueCode(r, g, c)
         PROVE  CodeHistory'
    <2>1. Draws(c) /\ UNCHANGED <<redis, spent>>
      BY <1>15 DEF IssueCode, stored, histories
    <2>2. \A x \in Requests : req'[x] # req[x] => x = r /\ req'[x].token = c
      BY <1>15 DEF IssueCode, Begins, Goes, Free
    <2>. QED BY <2>1, <2>2 DEF CodeHistory, Writes, Draws
  <1>16. ASSUME NEW r \in Requests, WriteArtifact(r) PROVE CodeHistory'
    <2>1. /\ UNCHANGED <<drawn, spent>>
          /\ req[r].op = "write" /\ req'[r].op # "write"
          /\ \A x \in Requests \ {r} : req'[x] = req[x]
          /\ \A c \in AuthCodes : redis'[c] # redis[c] => req[r].token = c
      BY <1>16 DEF WriteArtifact, Moves, Ends, Goes, Free, histories, Request, GrantsTypeOK
    <2>. QED BY <2>1 DEF CodeHistory, Writes
  <1>17. ASSUME NEW r \in Requests, ConsumeCode(r) PROVE CodeHistory'
    <2>1. PICK todo : Goes(r, [req[r] EXCEPT !.op = "issue", !.todo = todo])
      BY <1>17 DEF ConsumeCode, Spends
    <2>2. \A c \in AuthCodes, x \in Requests : Writes(x, c)' => Writes(x, c)
      BY <2>1, NoNewWrite DEF Request
    <2>. QED BY <1>17, <2>2 DEF ConsumeCode, Spends, CodeHistory, GrantsTypeOK, Artifacts
  <1>18. ASSUME NEW a \in Artifacts, ExpireArtifact(a) PROVE CodeHistory'
    BY <1>18, <1>1 DEF ExpireArtifact, histories, GrantsTypeOK, Artifacts
  <1>19. ASSUME UNCHANGED <<req, redis, drawn, spent>> PROVE CodeHistory'
    BY <1>19, <1>1
  <1>. HIDE DEF Same
  <1>. QED
    BY <1>6, <1>7, <1>8, <1>9, <1>10, <1>11, <1>12, <1>13, <1>14, <1>15, <1>16, <1>17, <1>18, <1>19
    DEF GrantsNext, Authorize, Redeem, Revoke, gvars, DestroyRow, RevokeArtifacts, RevokeGrant,
        DeleteRows, RevokeService, UpsertUser, ExpireGrant, SweepGrant, SweepRow, stored, histories

-----------------------------------------------------------------------------
(* What a step makes of the refresh tokens.                                *)

\* A refresh token is marked in the step that redeems it, and its row comes
\* back unmarked under no circumstances: its id is drawn once.
LEMMA RowsStep ==
  ASSUME GrantsTypeOK, Shapes, RowHistory, [GrantsNext]_gvars
  PROVE  RowHistory' /\ row' \in [RefreshTokens -> Row]
  <1>. DEFINE Good == RowHistory' /\ row' \in [RefreshTokens -> Row]
              Kept == /\ drawn \subseteq drawn'
                      /\ \A t \in RefreshTokens : spent'[t] = spent[t]
  <1>0. NoRow \in Row
    BY DEF NoRow, Row
  <1>1. ASSUME Kept, row' = row PROVE Good
    BY <1>1 DEF RowHistory, GrantsTypeOK
  <1>2. ASSUME Kept, NEW S, row' = [t \in RefreshTokens |-> IF t \in S THEN NoRow ELSE row[t]]
        PROVE  Good
    BY <1>0, <1>2 DEF RowHistory, GrantsTypeOK, NoRow
  <1>3. ASSUME NEW t \in RefreshTokens, Kept, row' = [row EXCEPT ![t] = NoRow] PROVE Good
    BY <1>0, <1>3 DEF RowHistory, GrantsTypeOK, NoRow
  <1>4. ASSUME NEW r \in Requests, NEW t \in RefreshTokens, SaveRefresh(r, t) PROVE Good
    <2>1. req[r].grant \in GrantIds
      BY <1>4 DEF SaveRefresh, Shapes, Shape
    <2>2. [grant |-> req[r].grant, used |-> FALSE] \in Row
      BY <2>1 DEF Row
    <2>3. /\ row' = [row EXCEPT ![t] = [grant |-> req[r].grant, used |-> FALSE]]
          /\ t \notin drawn /\ drawn' = drawn \cup {t} /\ spent' = spent
      BY <1>4 DEF SaveRefresh, Draws, histories
    <2>4. row' \in [RefreshTokens -> Row]
      BY <2>2, <2>3 DEF GrantsTypeOK
    <2>5. spent[t] = 0 /\ \A u \in RefreshTokens \ {t} : row'[u] = row[u]
      BY <2>3 DEF RowHistory, GrantsTypeOK
    <2>. QED BY <2>3, <2>4, <2>5 DEF RowHistory
  <1>5. ASSUME NEW r \in Requests, RotateRefresh(r) PROVE Good
    <2>. DEFINE t == req[r].token
    <2>1. /\ t \in RefreshTokens /\ row[t].grant # None /\ ~row[t].used
          /\ row' = [row EXCEPT ![t].used = TRUE]
          /\ spent' = [spent EXCEPT ![t] = @ + 1]
          /\ UNCHANGED drawn
      BY <1>5 DEF RotateRefresh, Spends
    <2>2. row[t] \in Row /\ row' \in [RefreshTokens -> Row]
      BY <2>1 DEF GrantsTypeOK, Row
    <2>3. spent[t] = 0
      BY <2>1 DEF RowHistory, GrantsTypeOK
    <2>4. /\ row'[t].grant = row[t].grant /\ row'[t].used = TRUE /\ spent'[t] = 1
          /\ \A u \in RefreshTokens \ {t} : row'[u] = row[u] /\ spent'[u] = spent[u]
      BY <2>1, <2>2, <2>3 DEF GrantsTypeOK, Row
    <2>. HIDE DEF t
    <2>. QED BY <2>1, <2>2, <2>4 DEF RowHistory
  <1>6. ASSUME NEW r \in Requests, ConsumeCode(r) PROVE Good
    <2>1. Kept /\ row' = row
      BY <1>6, GrantsAssumption DEF ConsumeCode, Spends, Artifacts, GrantsTypeOK
    <2>. QED BY <1>1, <2>1
  <1>7. ASSUME NEW r \in Requests, DestroyRow(r) PROVE Good
    <2>1. Kept /\ row' = [row EXCEPT ![req[r].token] = NoRow]
      BY <1>7 DEF DestroyRow, histories
    <2>2. CASE req[r].token \in RefreshTokens
      BY <1>3, <2>1, <2>2
    <2>3. CASE req[r].token \notin RefreshTokens
      <3>1. row' = row
        BY <2>1, <2>3 DEF GrantsTypeOK
      <3>. QED BY <1>1, <2>1, <3>1
    <2>. QED BY <2>2, <2>3
  <1>8. ASSUME NEW r \in Requests, DeleteRows(r) PROVE Good
    <2>1. Kept /\ row' = [t \in RefreshTokens |->
                            IF t \in {u \in RefreshTokens : row[u].grant = req[r].grant}
                              THEN NoRow ELSE row[t]]
      BY <1>8 DEF DeleteRows, histories
    <2>. QED BY <1>2, <2>1
  <1>9. ASSUME NEW r \in Requests, EraseAccount(r) PROVE Good
    <2>1. Kept /\ row' = [t \in RefreshTokens |-> IF t \in RefreshTokens THEN NoRow ELSE row[t]]
      BY <1>9 DEF EraseAccount
    <2>. QED BY <1>2, <2>1
  <1>10. ASSUME NEW t \in RefreshTokens, SweepRow(t) PROVE Good
    BY <1>3, <1>10 DEF SweepRow, histories
  <1>11. ASSUME UNCHANGED <<row, spent>>, drawn \subseteq drawn' PROVE Good
    BY <1>1, <1>11
  <1>12. ASSUME NEW r \in Requests, NEW g \in GrantIds, NewGrant(r, g) PROVE Good
    BY <1>11, <1>12 DEF NewGrant, Draws, stored, histories
  <1>13. ASSUME NEW r \in Requests, NEW g \in GrantIds, NEW c \in AuthCodes, IssueCode(r, g, c)
         PROVE  Good
    BY <1>11, <1>13 DEF IssueCode, Draws, stored, histories
  <1>14. ASSUME NEW r \in Requests, NEW a \in AccessTokens, IssueAccess(r, a) PROVE Good
    BY <1>11, <1>14 DEF IssueAccess, Draws, stored, histories
  <1>15. ASSUME UNCHANGED <<row, spent, drawn>> PROVE Good
    BY <1>11, <1>15
  <1>. HIDE DEF Good, Kept
  <1>16. Good
    BY <1>4, <1>5, <1>6, <1>7, <1>8, <1>9, <1>10, <1>12, <1>13, <1>14, <1>15
    DEF GrantsNext, Authorize, Redeem, Revoke, gvars, stored, histories,
        SaveGrant, SaveGrantFails, PersistResult, UndoGrant, FindGrant, WriteArtifact, CheckGrant,
        AcceptToken, FindCode, FindAccess, FindRefresh, RevokeArtifacts, RevokeGrant, EndReuse,
        RevokeService, BeginErase, Abandon, UpsertUser, ExpireGrant, SweepGrant, ExpireArtifact
  <1>. QED BY <1>16 DEF Good

-----------------------------------------------------------------------------
(* The rest of the types, and the invariant as a whole.                    *)

LEMMA RestStep ==
  ASSUME GrantsTypeOK, Shapes, [GrantsNext]_gvars
  PROVE  /\ user' \in BOOLEAN
         /\ redis' \in [Artifacts -> GrantIds \cup {None}]
         /\ drawn' \subseteq GrantIds \cup Artifacts \cup RefreshTokens
         /\ spent' \in [AuthCodes \cup RefreshTokens -> Nat]
         /\ opened' \in [GrantIds -> Nat]
  <1>. DEFINE UserOK == user' \in BOOLEAN
              RedisOK == redis' \in [Artifacts -> GrantIds \cup {None}]
              DrawnOK == drawn' \subseteq GrantIds \cup Artifacts \cup RefreshTokens
              CountOK == /\ spent' \in [AuthCodes \cup RefreshTokens -> Nat]
                         /\ opened' \in [GrantIds -> Nat]
  <1>. USE DEF GrantsTypeOK, stored, histories
  <1>1. ASSUME UNCHANGED user PROVE UserOK
    BY <1>1
  <1>2. ASSUME UNCHANGED redis PROVE RedisOK
    BY <1>2
  <1>3. ASSUME NEW x \in GrantIds \cup Artifacts \cup RefreshTokens, Draws(x) PROVE DrawnOK
    BY <1>3 DEF Draws
  <1>4. ASSUME UNCHANGED drawn PROVE DrawnOK
    BY <1>4
  <1>5. ASSUME UNCHANGED <<spent, opened>> PROVE CountOK
    BY <1>5
  <1>6. ASSUME NEW r \in Requests, ConsumeCode(r) \/ RotateRefresh(r)
        PROVE  UserOK /\ RedisOK /\ DrawnOK /\ CountOK
    <2>1. UserOK /\ DrawnOK
      BY <1>6 DEF ConsumeCode, RotateRefresh
    <2>2. RedisOK
      BY <1>6 DEF ConsumeCode, RotateRefresh
    <2>3. /\ req[r].token \in AuthCodes \cup RefreshTokens
          /\ spent' = [spent EXCEPT ![req[r].token] = @ + 1]
      BY <1>6 DEF ConsumeCode, RotateRefresh, Spends
    <2>4. opened' = [opened EXCEPT ![req[r].grant] = @ + 1] \/ opened' = opened
      BY <1>6 DEF ConsumeCode, RotateRefresh
    <2>5. \A g \in GrantIds : opened[g] + 1 \in Nat
      OBVIOUS
    <2>6. spent' \in [AuthCodes \cup RefreshTokens -> Nat]
      BY <2>3
    <2>7. opened' \in [GrantIds -> Nat]
      BY <2>4, <2>5
    <2>. QED BY <2>1, <2>2, <2>6, <2>7
  <1>7. ASSUME NEW r \in Requests, WriteArtifact(r) PROVE UserOK /\ RedisOK /\ DrawnOK /\ CountOK
    <2>1. req[r].grant \in GrantIds
      BY <1>7 DEF WriteArtifact, Shapes, Shape
    <2>. QED BY <1>7, <2>1 DEF WriteArtifact
  <1>8. ASSUME NEW r \in Requests, CheckGrant(r) \/ RevokeArtifacts(r) \/ EraseAccount(r)
        PROVE  UserOK /\ RedisOK /\ DrawnOK /\ CountOK
    BY <1>8 DEF CheckGrant, RevokeArtifacts, EraseAccount
  <1>9. ASSUME UpsertUser \/ \E a \in Artifacts : ExpireArtifact(a)
        PROVE  UserOK /\ RedisOK /\ DrawnOK /\ CountOK
    BY <1>9 DEF UpsertUser, ExpireArtifact
  <1>10. ASSUME NEW r \in Requests, NEW g \in GrantIds,
                NewGrant(r, g) \/ \E c \in AuthCodes : IssueCode(r, g, c)
         PROVE  UserOK /\ RedisOK /\ DrawnOK /\ CountOK
    BY <1>10, <1>3 DEF NewGrant, IssueCode, Artifacts
  <1>11. ASSUME NEW r \in Requests,
                \/ \E a \in AccessTokens : IssueAccess(r, a)
                \/ \E t \in RefreshTokens : SaveRefresh(r, t)
         PROVE  UserOK /\ RedisOK /\ DrawnOK /\ CountOK
    BY <1>11, <1>3 DEF IssueAccess, SaveRefresh, Artifacts
  <1>12. ASSUME UNCHANGED <<user, redis, drawn, spent, opened>>
         PROVE  UserOK /\ RedisOK /\ DrawnOK /\ CountOK
    BY <1>12
  <1>. HIDE DEF UserOK, RedisOK, DrawnOK, CountOK
  <1>13. UserOK /\ RedisOK /\ DrawnOK /\ CountOK
    BY <1>6, <1>7, <1>8, <1>9, <1>10, <1>11, <1>12
    DEF GrantsNext, Authorize, Redeem, Revoke, gvars,
        SaveGrant, SaveGrantFails, PersistResult, UndoGrant, FindGrant,
        AcceptToken, FindCode, FindAccess, FindRefresh, DestroyRow, RevokeGrant, DeleteRows,
        EndReuse, RevokeService, BeginErase, Abandon, ExpireGrant, SweepGrant, SweepRow
  <1>. QED BY <1>13 DEF UserOK, RedisOK, DrawnOK, CountOK

LEMMA GInvInit == GrantsInit => GInv
  <1>. SUFFICES ASSUME GrantsInit PROVE GInv
    OBVIOUS
  <1>. USE DEF GrantsInit
  <1>1. NoRow \in Row
    BY DEF NoRow, Row
  <1>2. GrantsTypeOK /\ Shapes
    BY <1>1, FreeIsShaped DEF GrantsTypeOK, Shapes, Shape, Free
  <1>3. EndedStays /\ OverIsEnded /\ EndedIsRefused
    BY DEF EndedStays, OverIsEnded, EndedIsRefused, Free
  <1>4. CodeHistory
    BY DEF CodeHistory, Writes, Free, Artifacts
  <1>5. RowHistory
    BY DEF RowHistory, NoRow
  <1>. QED BY <1>2, <1>3, <1>4, <1>5 DEF GInv

LEMMA GInvStep == GInv /\ [GrantsNext]_gvars => GInv'
  <1>. SUFFICES ASSUME GInv, [GrantsNext]_gvars PROVE GInv'
    OBVIOUS
  <1>1. req' \in [Requests -> Request] /\ Shapes'
    BY RequestsStep DEF GInv, Shapes
  <1>2. GrantsTypeOK'
    BY <1>1, GrantsStep, RowsStep, RestStep DEF GInv, GrantsTypeOK, Shapes, Shape
  <1>3. EndedStays' /\ OverIsEnded' /\ EndedIsRefused'
    BY GrantsStep, RefusedStep DEF GInv
  <1>4. CodeHistory' /\ RowHistory'
    BY CodesStep, RowsStep DEF GInv
  <1>. QED BY <1>1, <1>2, <1>3, <1>4 DEF GInv

\* The inductive invariant holds in every state of every behaviour.
THEOREM GrantsInductive == GrantsSpec => []GInv
  BY GInvInit, GInvStep, PTL DEF GrantsSpec

\* The grants, tokens, rows and requests keep their types.
THEOREM GrantsTypeCorrect == GrantsSpec => []GrantsTypeOK
  <1>1. GInv => GrantsTypeOK
    BY DEF GInv
  <1>. QED BY <1>1, GrantsInductive, PTL

\* One of the token requests that present a code or a refresh token redeems
\* it, however many there are, and whatever expires, fails or is revoked.
THEOREM RedeemedAtMostOnce == GrantsSpec => []RedeemedOnce
  <1>1. GInv => RedeemedOnce
    BY DEF GInv, CodeHistory, RowHistory, RedeemedOnce
  <1>. QED BY <1>1, GrantsInductive, PTL

\* No request that begins after a grant has ended gets in with an access token
\* of it, wherever the writes of its tokens stood at that moment.
THEOREM EndedIsAlwaysRefused == GrantsSpec => []EndedIsRefused
  <1>1. GInv => EndedIsRefused
    BY DEF GInv
  <1>. QED BY <1>1, GrantsInductive, PTL

-----------------------------------------------------------------------------
(* The revocation that follows a reused refresh token, and the line of     *)
(* refresh tokens that descends from a code.                               *)

\* Nothing will make the grant active any more.
Closed(g) == g \in erased \/ g \in past \/ grant[g] = "revoked"

\* The grant has a row, or had one.
Known(g) == Closed(g) \/ grant[g] # "none"

Rowless(g) == g \in erased \/ \A t \in RefreshTokens : row[t].grant # g

\* What a revocation has cleared stays clear: the rows go only after the grant.
Clearing(q) ==
  q.op = "reuse" =>
    /\ Known(q.grant)
    /\ "grant" \notin q.todo => Closed(q.grant)
    /\ "rows" \notin q.todo => "grant" \notin q.todo /\ Rowless(q.grant)

ReuseInv ==
  /\ \A r \in Requests : Clearing(req[r])
  /\ \A g \in cleared : Closed(g) /\ Rowless(g)

\* A request that presents a refresh token has found that token's grant.
Presents(q) == q.token \in RefreshTokens => q.token \in drawn /\ row[q.token].grant \in {None, q.grant}

\* The request q is about to save a refresh token of g.
Heir(q, g) == q.op \in {"issue", "write"} /\ q.grant = g /\ "refresh" \in q.todo

Heirs(g) == {r \in Requests : Heir(req[r], g)}
Living(g) == {t \in RefreshTokens : row[t].grant = g /\ ~row[t].used}

Line(g) ==
  /\ IsFiniteSet(Heirs(g)) /\ IsFiniteSet(Living(g))
  /\ Cardinality(Living(g)) + Cardinality(Heirs(g)) <= opened[g]

LineInv == (\A r \in Requests : Presents(req[r])) /\ \A g \in GrantIds : Line(g)

\* A request goes on with the refresh token it presents, or has just found it.
SameToken(p, q) ==
  q.token \in RefreshTokens =>
    \/ q.token = p.token /\ q.grant = p.grant
    \/ row[q.token].grant = q.grant /\ q.grant # None

ClosedNow(g) == g \in erased' \/ g \in past' \/ grant'[g] = "revoked"
KnownNow(g) == ClosedNow(g) \/ grant'[g] # "none"
RowlessNow(g) == g \in erased' \/ \A t \in RefreshTokens : row'[t].grant # g

\* A request begins to revoke knowing its grant, or has revoked one more thing.
OneCleared(p, q) ==
  q.op = "reuse" =>
    \/ q = p
    \/ q.todo = Clears /\ Active(q.grant)
    \/ /\ p.op = "reuse" /\ q.grant = p.grant
       /\ \E what \in Clears :
            /\ q.todo = p.todo \ {what}
            /\ what = "grant" /\ Known(q.grant) => ClosedNow(q.grant)
            /\ what = "rows" => "grant" \notin p.todo /\ \A t \in RefreshTokens : row'[t].grant # q.grant

Onward(p, q) == SameToken(p, q) /\ OneCleared(p, q)

\* A request saves a refresh token only when it redeemed what allows it to.
NoNewHeir(p, q) == \A g \in GrantIds : Heir(q, g) => Heir(p, g)

LEMMA OneGoes ==
  ASSUME GrantsTypeOK, NEW r \in Requests, NEW s, Goes(r, s), Onward(req[r], s)
  PROVE  /\ \A x \in Requests : Onward(req[x], req'[x])
         /\ NoNewHeir(req[r], s) => \A x \in Requests : NoNewHeir(req[x], req'[x])
  <1>1. \A x \in Requests : req'[x] = IF x = r THEN s ELSE req[x]
    BY DEF GrantsTypeOK, Goes
  <1>. QED BY <1>1 DEF Onward, SameToken, OneCleared, NoNewHeir

LEMMA FreeGoesOn == ASSUME NEW p PROVE Onward(p, Free) /\ NoNewHeir(p, Free)
  BY GrantsAssumption DEF Onward, SameToken, OneCleared, NoNewHeir, Free, Heir

LEMMA MovedGoesOn ==
  ASSUME NEW p \in Request, NEW op \in Ops \ {"issue", "write", "reuse"}
  PROVE  /\ Onward(p, [p EXCEPT !.op = op])
         /\ NoNewHeir(p, [p EXCEPT !.op = op])
  BY DEF Onward, SameToken, OneCleared, NoNewHeir, Heir, Request

LEMMA BegunGoesOn ==
  ASSUME NEW p, NEW op \in {"save", "lookup", "read", "write"}, NEW g, NEW t \in Artifacts \cup {None}, NEW S
  PROVE  LET q == [Free EXCEPT !.op = op, !.grant = g, !.token = t, !.over = S]
         IN  Onward(p, q) /\ NoNewHeir(p, q)
  BY GrantsAssumption DEF Onward, SameToken, OneCleared, NoNewHeir, Heir, Free

\* What each step makes of the requests: only a redemption makes an heir.
LEMMA OnwardStep ==
  ASSUME GrantsTypeOK, Shapes, GrantsNext
  PROVE  /\ \A x \in Requests : Onward(req[x], req'[x])
         /\ \/ \A x \in Requests : NoNewHeir(req[x], req'[x])
            \/ \E r \in Requests : ConsumeCode(r) \/ RotateRefresh(r)
  <1>. DEFINE On == \A x \in Requests : Onward(req[x], req'[x])
              Calm == \A x \in Requests : NoNewHeir(req[x], req'[x])
  <1>0. ASSUME UNCHANGED req PROVE On /\ Calm
    BY <1>0 DEF Onward, SameToken, OneCleared, NoNewHeir
  <1>1. ASSUME NEW r \in Requests, Ends(r) PROVE On /\ Calm
    BY <1>1, FreeGoesOn, OneGoes DEF Ends
  <1>2. ASSUME NEW r \in Requests, NEW op \in Ops \ {"issue", "write", "reuse"}, Moves(r, op)
        PROVE  On /\ Calm
    <2>1. req[r] \in Request BY DEF GrantsTypeOK
    <2>. QED BY <1>2, <2>1, MovedGoesOn, OneGoes DEF Moves
  <1>3. ASSUME NEW r \in Requests, NEW op \in {"save", "lookup", "read", "write"}, NEW g,
               NEW t \in Artifacts \cup {None}, Begins(r, op, g, t)
        PROVE  On /\ Calm
    <2>. DEFINE s == [Free EXCEPT !.op = op, !.grant = g, !.token = t, !.over = ended]
    <2>1. Onward(req[r], s) /\ NoNewHeir(req[r], s) BY BegunGoesOn
    <2>2. Goes(r, s) BY <1>3 DEF Begins
    <2>. HIDE DEF s
    <2>. QED BY <2>1, <2>2, OneGoes
  <1>4. ASSUME NEW r \in Requests, SaveGrant(r) \/ SaveGrantFails(r) \/ PersistResult(r) \/ UndoGrant(r)
        PROVE  On /\ Calm
    BY <1>4, <1>1, <1>2 DEF SaveGrant, SaveGrantFails, PersistResult, UndoGrant, Ops
  <1>5. ASSUME NEW r \in Requests, NEW g \in GrantIds, NewGrant(r, g) PROVE On /\ Calm
    <2>. DEFINE s == [Free EXCEPT !.op = "save", !.grant = g, !.fresh = TRUE]
    <2>1. s.op = "save" /\ s.token = None BY DEF Free
    <2>2. Onward(req[r], s) /\ NoNewHeir(req[r], s)
      BY <2>1, GrantsAssumption DEF Onward, SameToken, OneCleared, NoNewHeir, Heir
    <2>. QED BY <1>5, <2>2, OneGoes DEF NewGrant
  <1>6. ASSUME NEW r \in Requests, NEW g \in GrantIds, NEW c \in AuthCodes, FindGrant(r, g) \/ IssueCode(r, g, c)
        PROVE  On /\ Calm
    BY <1>6, <1>3 DEF FindGrant, IssueCode, Artifacts
  <1>7. ASSUME NEW r \in Requests, NEW g \in GrantIds, FindGrant(r, g) PROVE On /\ Calm
    BY <1>7, <1>3 DEF FindGrant
  <1>8. ASSUME NEW r \in Requests, WriteArtifact(r) PROVE On /\ Calm
    <2>1. CASE Ends(r) BY <1>1, <2>1
    <2>2. CASE Moves(r, "issue")
      <3>. DEFINE s == [req[r] EXCEPT !.op = "issue"]
      <3>1. req[r] \in Request /\ req[r].op = "write" BY <1>8 DEF WriteArtifact, GrantsTypeOK
      <3>2. s.op = "issue" /\ s.token = req[r].token /\ s.grant = req[r].grant /\ s.todo = req[r].todo
        BY <3>1 DEF Request
      <3>3. Onward(req[r], s) /\ NoNewHeir(req[r], s)
        BY <3>1, <3>2 DEF Onward, SameToken, OneCleared, NoNewHeir, Heir
      <3>. QED BY <2>2, <3>3, OneGoes DEF Moves
    <2>. QED BY <1>8, <2>1, <2>2 DEF WriteArtifact
  <1>9. ASSUME NEW r \in Requests, CheckGrant(r) PROVE On /\ Calm
    <2>1. CASE Ends(r) BY <1>1, <2>1
    <2>2. CASE Moves(r, "check") \/ Moves(r, "consume") BY <1>2, <2>2 DEF Ops
    <2>3. CASE Active(req[r].grant) /\ Goes(r, [req[r] EXCEPT !.op = "reuse", !.todo = Clears])
      <3>. DEFINE s == [req[r] EXCEPT !.op = "reuse", !.todo = Clears]
      <3>1. req[r] \in Request BY DEF GrantsTypeOK
      <3>2. s.op = "reuse" /\ s.token = req[r].token /\ s.grant = req[r].grant /\ s.todo = Clears
        BY <3>1 DEF Request
      <3>3. Onward(req[r], s) /\ NoNewHeir(req[r], s)
        BY <2>3, <3>2 DEF Onward, SameToken, OneCleared, NoNewHeir, Heir
      <3>. QED BY <2>3, <3>3, OneGoes
    <2>. QED BY <1>9, <2>1, <2>2, <2>3 DEF CheckGrant
  <1>10. ASSUME NEW r \in Requests, ConsumeCode(r) \/ RotateRefresh(r) PROVE On
    <2>1. PICK todo \in SUBSET Saves : Goes(r, [req[r] EXCEPT !.op = "issue", !.todo = todo])
      BY <1>10 DEF ConsumeCode, RotateRefresh, Spends
    <2>. DEFINE s == [req[r] EXCEPT !.op = "issue", !.todo = todo]
    <2>2. req[r] \in Request BY DEF GrantsTypeOK
    <2>3. s.op = "issue" /\ s.token = req[r].token /\ s.grant = req[r].grant
      BY <2>2 DEF Request
    <2>4. Onward(req[r], s) BY <2>3 DEF Onward, SameToken, OneCleared
    <2>. QED BY <2>1, <2>4, OneGoes
  <1>11. ASSUME NEW r \in Requests, AcceptToken(r) PROVE On /\ Calm
    BY <1>2, <1>11 DEF AcceptToken, Ops
  <1>12. ASSUME NEW r \in Requests, NEW c \in AuthCodes, FindCode(r, c) PROVE On /\ Calm
    BY <1>3, <1>12 DEF FindCode, Artifacts
  <1>13. ASSUME NEW r \in Requests, NEW a \in AccessTokens, FindAccess(r, a) PROVE On /\ Calm
    BY <1>3, <1>13 DEF FindAccess, Artifacts
  <1>14. ASSUME NEW r \in Requests, NEW a \in AccessTokens, IssueAccess(r, a) PROVE On /\ Calm
    <2>. DEFINE s == [req[r] EXCEPT !.op = "write", !.token = a, !.todo = @ \ {"access"}]
    <2>1. req[r] \in Request /\ req[r].op = "issue" BY <1>14 DEF IssueAccess, GrantsTypeOK
    <2>2. s.op = "write" /\ s.token = a /\ s.grant = req[r].grant /\ s.todo \subseteq req[r].todo
      BY <2>1 DEF Request
    <2>3. Onward(req[r], s) /\ NoNewHeir(req[r], s)
      BY <2>1, <2>2, GrantsAssumption DEF Onward, SameToken, OneCleared, NoNewHeir, Heir, Artifacts
    <2>. QED BY <1>14, <2>3, OneGoes DEF IssueAccess
  <1>15. ASSUME NEW r \in Requests, NEW t \in RefreshTokens, FindRefresh(r, t) PROVE On /\ Calm
    <2>. DEFINE s == [Free EXCEPT !.op = "lookup", !.grant = row[t].grant, !.token = t,
                          !.used = row[t].used, !.over = ended]
    <2>1. s.op = "lookup" /\ s.token = t /\ s.grant = row[t].grant /\ row[t].grant # None
      BY <1>15 DEF Free, FindRefresh
    <2>2. Onward(req[r], s) /\ NoNewHeir(req[r], s)
      BY <2>1 DEF Onward, SameToken, OneCleared, NoNewHeir, Heir
    <2>. QED BY <1>15, <2>2, OneGoes DEF FindRefresh
  <1>16. ASSUME NEW r \in Requests, NEW t \in RefreshTokens, SaveRefresh(r, t) PROVE On /\ Calm
    <2>1. CASE Ends(r) BY <1>1, <2>1
    <2>2. CASE Goes(r, [req[r] EXCEPT !.todo = @ \ {"refresh"}])
      <3>. DEFINE s == [req[r] EXCEPT !.todo = @ \ {"refresh"}]
      <3>1. req[r] \in Request /\ req[r].op = "issue" BY <1>16 DEF SaveRefresh, GrantsTypeOK
      <3>2. s.op = "issue" /\ s.token = req[r].token /\ s.grant = req[r].grant /\ s.todo \subseteq req[r].todo
        BY <3>1 DEF Request
      <3>3. Onward(req[r], s) /\ NoNewHeir(req[r], s)
        BY <3>1, <3>2 DEF Onward, SameToken, OneCleared, NoNewHeir, Heir
      <3>. QED BY <2>2, <3>3, OneGoes
    <2>. QED BY <1>16, <2>1, <2>2 DEF SaveRefresh
  <1>17. ASSUME NEW r \in Requests, DestroyRow(r) \/ RevokeArtifacts(r) \/ RevokeGrant(r) \/ DeleteRows(r)
         PROVE  On /\ Calm
    <2>1. PICK what \in Clears :
            /\ Clears1(r, what)
            /\ what = "grant" => RevokeGrant(r)
            /\ what = "rows" => DeleteRows(r)
      BY <1>17 DEF DestroyRow, RevokeArtifacts, RevokeGrant, DeleteRows, Clears
    <2>. DEFINE s == [req[r] EXCEPT !.todo = @ \ {what}]
    <2>2. req[r] \in Request /\ req[r].op = "reuse" /\ Goes(r, s) /\ req[r].grant \in GrantIds
      BY <2>1 DEF Clears1, GrantsTypeOK, Shapes, Shape
    <2>3. s.op = "reuse" /\ s.token = req[r].token /\ s.grant = req[r].grant /\ s.todo = req[r].todo \ {what}
      BY <2>2 DEF Request
    <2>4. what = "grant" /\ Known(req[r].grant) => ClosedNow(req[r].grant)
      BY <2>1, <2>2 DEF RevokeGrant, Revokes, Known, Closed, ClosedNow, GrantsTypeOK
    <2>5. what = "rows" => /\ "grant" \notin req[r].todo
                           /\ \A t \in RefreshTokens : row'[t].grant # req[r].grant
      BY <2>1, <2>2, GrantsAssumption DEF DeleteRows, NoRow
    <2>6. Onward(req[r], s) /\ NoNewHeir(req[r], s)
      <3>. HIDE DEF s
      <3>. QED BY <2>2, <2>3, <2>4, <2>5 DEF Onward, SameToken, OneCleared, NoNewHeir, Heir
    <2>. QED BY <2>2, <2>6, OneGoes
  <1>18. ASSUME NEW r \in Requests, EndReuse(r) \/ EraseAccount(r) \/ Abandon(r) \/ BeginErase(r)
         PROVE  On /\ Calm
    BY <1>1, <1>2, <1>18 DEF EndReuse, EraseAccount, Abandon, BeginErase, Ops
  <1>. HIDE DEF On, Calm
  <1>19. On /\ (Calm \/ \E r \in Requests : ConsumeCode(r) \/ RotateRefresh(r))
    BY <1>0, <1>4, <1>5, <1>6, <1>7, <1>8, <1>9, <1>10, <1>11, <1>12, <1>13, <1>14, <1>15, <1>16, <1>17, <1>18
    DEF GrantsNext, Authorize, Redeem, Revoke, RevokeService, UpsertUser, ExpireGrant, SweepGrant,
        ExpireArtifact, SweepRow
  <1>. QED BY <1>19 DEF On, Calm

\* A closed grant stays closed, and is issued no refresh token.
LEMMA ClosedStays ==
  ASSUME GrantsTypeOK, Shapes, GrantsNext, NEW g \in GrantIds
  PROVE  /\ Closed(g) => Closed(g)'
         /\ Known(g) => Known(g)'
         /\ Closed(g) /\ Rowless(g) => Rowless(g)'
  <1>. DEFINE Stays == (Closed(g) => Closed(g)') /\ (Known(g) => Known(g)')
              Clear == Closed(g) /\ Rowless(g) => Rowless(g)'
  <1>. USE DEF GrantsTypeOK
  <1>1. ASSUME UNCHANGED <<grant, past, erased>> PROVE Stays
    BY <1>1 DEF Closed, Known
  <1>2. ASSUME NEW S, Revokes(S), UNCHANGED <<past, erased>> PROVE Stays
    BY <1>2 DEF Closed, Known, Revokes
  <1>3. ASSUME NEW r \in Requests, SaveGrant(r) PROVE Stays
    <2>1. req[r].grant \in GrantIds BY <1>3 DEF SaveGrant, Shapes, Shape
    <2>. QED BY <1>3, <2>1 DEF SaveGrant, histories, Closed, Known
  <1>4. ASSUME NEW r \in Requests, EraseAccount(r) PROVE Stays
    BY <1>4 DEF EraseAccount, Closed, Known
  <1>5. ASSUME NEW h \in GrantIds, ExpireGrant(h) \/ SweepGrant(h) PROVE Stays
    BY <1>5 DEF ExpireGrant, SweepGrant, histories, Closed, Known
  <1>6. ASSUME NEW r \in Requests,
               UndoGrant(r) \/ RevokeGrant(r) \/ RevokeService(r) \/ BeginErase(r) \/ EndReuse(r)
        PROVE  Stays
    BY <1>6, <1>2 DEF UndoGrant, RevokeGrant, RevokeService, BeginErase, EndReuse
  <1>7. ASSUME \A t \in RefreshTokens : row'[t] = row[t] \/ row'[t].grant # g, erased \subseteq erased' PROVE Clear
    BY <1>7 DEF Rowless
  <1>8. None # g /\ NoRow.grant = None BY GrantsAssumption DEF NoRow
  <1>9. ASSUME NEW r \in Requests, NEW t \in RefreshTokens, SaveRefresh(r, t) PROVE Stays /\ Clear
    <2>1. Stays BY <1>1, <1>9 DEF SaveRefresh, histories
    <2>2. Active(req[r].grant) /\ row' = [row EXCEPT ![t] = [grant |-> req[r].grant, used |-> FALSE]]
          /\ UNCHANGED erased
      BY <1>9 DEF SaveRefresh, histories
    <2>3. Closed(g) => g \in erased \/ g # req[r].grant BY <2>2 DEF Closed, Active
    <2>4. Clear BY <2>2, <2>3 DEF Rowless
    <2>. QED BY <2>1, <2>4
  <1>10. ASSUME NEW r \in Requests, RotateRefresh(r) PROVE Clear
    <2>1. row' = [row EXCEPT ![req[r].token].used = TRUE] /\ UNCHANGED erased BY <1>10 DEF RotateRefresh
    <2>2. \A t \in RefreshTokens : row'[t].grant = row[t].grant BY <2>1 DEF Row
    <2>. QED BY <2>1, <2>2 DEF Rowless
  <1>11. ASSUME NEW r \in Requests, DestroyRow(r) \/ DeleteRows(r) \/ EraseAccount(r) PROVE Clear
    BY <1>7, <1>8, <1>11 DEF DestroyRow, DeleteRows, EraseAccount, histories
  <1>12. ASSUME NEW t \in RefreshTokens, SweepRow(t) PROVE Stays /\ Clear
    BY <1>1, <1>7, <1>8, <1>12 DEF SweepRow, histories
  <1>13. ASSUME UNCHANGED <<row, erased>> PROVE Clear BY <1>7, <1>13
  <1>. HIDE DEF Stays, Clear
  <1>14. ASSUME UNCHANGED <<grant, past, row, erased>> PROVE Stays /\ Clear BY <1>1, <1>13, <1>14
  <1>15. ASSUME NEW r \in Requests,
                UndoGrant(r) \/ RevokeGrant(r) \/ RevokeService(r) \/ BeginErase(r) \/ EndReuse(r)
         PROVE  Stays /\ Clear
    <2>1. UNCHANGED <<row, erased>>
      BY <1>15 DEF UndoGrant, RevokeGrant, RevokeService, BeginErase, EndReuse
    <2>. QED BY <1>6, <1>13, <1>15, <2>1
  <1>16. ASSUME NEW r \in Requests, SaveGrant(r) PROVE Stays /\ Clear
    <2>1. UNCHANGED <<row, erased>> BY <1>16 DEF SaveGrant, histories
    <2>. QED BY <1>3, <1>13, <1>16, <2>1
  <1>17. ASSUME NEW r \in Requests, Authorize(r) PROVE Stays /\ Clear
    <2>1. SaveGrant(r) \/ UndoGrant(r) \/ UNCHANGED <<grant, past, row, erased>>
      BY <1>17 DEF Authorize, stored, histories, SaveGrantFails, PersistResult, NewGrant, FindGrant, IssueCode
    <2>. QED BY <1>14, <1>15, <1>16, <2>1
  <1>18. ASSUME NEW r \in Requests, Redeem(r) PROVE Stays /\ Clear
    <2>1. CASE RotateRefresh(r)
      <3>1. UNCHANGED <<grant, past, erased>> BY <2>1 DEF RotateRefresh
      <3>. QED BY <1>1, <1>10, <2>1, <3>1
    <2>2. \/ RotateRefresh(r) \/ \E t \in RefreshTokens : SaveRefresh(r, t)
          \/ UNCHANGED <<grant, past, row, erased>>
      BY <1>18 DEF Redeem, stored, histories, WriteArtifact, CheckGrant, ConsumeCode, AcceptToken,
         FindCode, FindAccess, IssueAccess, FindRefresh
    <2>. QED BY <1>9, <1>14, <2>1, <2>2
  <1>19. ASSUME NEW r \in Requests, Revoke(r) PROVE Stays /\ Clear
    <2>1. CASE DestroyRow(r) \/ DeleteRows(r)
      <3>1. UNCHANGED <<grant, past, erased>> BY <2>1 DEF DestroyRow, DeleteRows, histories
      <3>. QED BY <1>1, <1>11, <2>1, <3>1
    <2>2. CASE RevokeArtifacts(r)
      <3>1. UNCHANGED <<grant, past, row, erased>> BY <2>2 DEF RevokeArtifacts, histories
      <3>. QED BY <1>14, <3>1
    <2>. QED BY <1>4, <1>11, <1>15, <1>19, <2>1, <2>2 DEF Revoke
  <1>20. Stays /\ Clear
    <2>1. ASSUME NEW h \in GrantIds, ExpireGrant(h) \/ SweepGrant(h) PROVE Stays /\ Clear
      <3>1. UNCHANGED <<row, erased>> BY <2>1 DEF ExpireGrant, SweepGrant, histories
      <3>. QED BY <1>5, <1>13, <2>1, <3>1
    <2>2. ASSUME NEW r \in Requests, Abandon(r) PROVE Stays /\ Clear
      <3>1. UNCHANGED <<grant, past, row, erased>> BY <2>2 DEF Abandon, stored, histories
      <3>. QED BY <1>14, <3>1
    <2>3. CASE UpsertUser \/ \E a \in Artifacts : ExpireArtifact(a)
      <3>1. UNCHANGED <<grant, past, row, erased>> BY <2>3 DEF UpsertUser, ExpireArtifact, histories
      <3>. QED BY <1>14, <3>1
    <2>. QED BY <1>12, <1>17, <1>18, <1>19, <2>1, <2>2, <2>3 DEF GrantsNext
  <1>. QED BY <1>20 DEF Stays, Clear

\* Requests that revoke know what they have cleared, whoever else revokes, saves,
\* rotates or expires in between.
LEMMA ReuseInvStep ==
  ASSUME GrantsTypeOK, Shapes, ReuseInv, [GrantsNext]_gvars
  PROVE  ReuseInv'
  <1>1. CASE GrantsNext
    <2>1. ASSUME NEW x \in Requests PROVE Clearing(req[x])'
      <3>. DEFINE p == req[x]
                  q == req'[x]
      <3>1. OneCleared(p, q) /\ Clearing(p) BY <1>1, OnwardStep DEF Onward, ReuseInv
      <3>2. Shape(q) BY <1>1, RequestsStep
      <3>3. SUFFICES ASSUME q.op = "reuse"
                     PROVE  /\ KnownNow(q.grant)
                            /\ "grant" \notin q.todo => ClosedNow(q.grant)
                            /\ "rows" \notin q.todo => "grant" \notin q.todo /\ RowlessNow(q.grant)
        BY DEF Clearing, Known, Closed, Rowless, KnownNow, ClosedNow, RowlessNow
      <3>. DEFINE g == q.grant
      <3>4. g \in GrantIds BY <3>2, <3>3 DEF Shape
      <3>5. /\ Closed(g) => ClosedNow(g)
            /\ Known(g) => KnownNow(g)
            /\ Closed(g) /\ Rowless(g) => RowlessNow(g)
        <4>1. ASSUME NEW h \in GrantIds
              PROVE  /\ Closed(h) => ClosedNow(h)
                     /\ Known(h) => KnownNow(h)
                     /\ Closed(h) /\ Rowless(h) => RowlessNow(h)
          BY <1>1, ClosedStays DEF Closed, ClosedNow, Known, KnownNow, Rowless, RowlessNow
        <4>. HIDE DEF q
        <4>. QED BY <3>4, <4>1
      <3>. HIDE DEF q
      <3>6. CASE q = p
        BY <3>1, <3>3, <3>5, <3>6 DEF Clearing
      <3>7. CASE q.todo = Clears /\ Active(g)
        <4>1. Known(g) BY <3>7 DEF Known, Active
        <4>. QED BY <3>5, <3>7, <4>1 DEF Clears
      <3>8. CASE /\ p.op = "reuse" /\ g = p.grant
                 /\ \E what \in Clears :
                      /\ q.todo = p.todo \ {what}
                      /\ what = "grant" /\ Known(g) => ClosedNow(g)
                      /\ what = "rows" => "grant" \notin p.todo /\ \A t \in RefreshTokens : row'[t].grant # g
        <4>1. PICK what \in Clears :
                      /\ q.todo = p.todo \ {what}
                      /\ what = "grant" /\ Known(g) => ClosedNow(g)
                      /\ what = "rows" => "grant" \notin p.todo /\ \A t \in RefreshTokens : row'[t].grant # g
          BY <3>8
        <4>2. Known(g) /\ ("grant" \notin p.todo => Closed(g))
              /\ ("rows" \notin p.todo => "grant" \notin p.todo /\ Rowless(g))
          BY <3>1, <3>8 DEF Clearing
        <4>3. "grant" \notin q.todo => ClosedNow(g) BY <3>5, <4>1, <4>2
        <4>4. "rows" \notin q.todo => "grant" \notin q.todo /\ RowlessNow(g)
          BY <3>5, <4>1, <4>2 DEF RowlessNow
        <4>. QED BY <3>5, <4>2, <4>3, <4>4
      <3>. QED BY <3>1, <3>3, <3>6, <3>7, <3>8 DEF OneCleared
    <2>2. ASSUME NEW g \in cleared' PROVE Closed(g)' /\ Rowless(g)'
      <3>1. CASE g \in cleared
        <4>1. g \in GrantIds /\ Closed(g) /\ Rowless(g) BY <3>1 DEF GrantsTypeOK, ReuseInv
        <4>. QED BY <1>1, <4>1, ClosedStays
      <3>2. CASE g \notin cleared
        <4>1. PICK r \in Requests : EndReuse(r) /\ g = req[r].grant
          BY <1>1, <2>2, <3>2
          DEF GrantsNext, Authorize, Redeem, Revoke, stored, histories,
              SaveGrant, SaveGrantFails, PersistResult, UndoGrant, NewGrant, FindGrant, IssueCode,
              WriteArtifact, CheckGrant, ConsumeCode, RotateRefresh, AcceptToken, FindCode, FindAccess,
              IssueAccess, FindRefresh, SaveRefresh, DestroyRow, RevokeArtifacts, RevokeGrant,
              DeleteRows, EndReuse, RevokeService, BeginErase, EraseAccount, Abandon, UpsertUser,
              ExpireGrant, SweepGrant, ExpireArtifact, SweepRow
        <4>2. g \in GrantIds /\ Closed(g) /\ Rowless(g)
          BY <4>1 DEF EndReuse, ReuseInv, Clearing, Shapes, Shape
        <4>. QED BY <1>1, <4>2, ClosedStays
      <3>. QED BY <3>1, <3>2
    <2>. QED BY <2>1, <2>2 DEF ReuseInv
  <1>2. CASE UNCHANGED gvars
    BY <1>2 DEF gvars, ReuseInv, Clearing, Closed, Known, Rowless
  <1>. QED BY <1>1, <1>2

\* Rows go, are marked, or are saved under an id that was never drawn.
LEMMA RowsMove ==
  ASSUME GrantsTypeOK, GrantsNext
  PROVE  /\ drawn \subseteq drawn'
         /\ \A t \in RefreshTokens :
              \/ row'[t].grant = None
              \/ row'[t].grant = row[t].grant /\ (row[t].used => row'[t].used)
              \/ t \notin drawn /\ t \in drawn' /\ \E r \in Requests : SaveRefresh(r, t)
  <1>. DEFINE Kept(t) == row'[t].grant = row[t].grant /\ (row[t].used => row'[t].used)
              Gone(t) == row'[t].grant = None
              Saved(t) == t \notin drawn /\ t \in drawn' /\ \E r \in Requests : SaveRefresh(r, t)
              Good == drawn \subseteq drawn' /\ \A t \in RefreshTokens : Kept(t) \/ Gone(t) \/ Saved(t)
  <1>. USE DEF GrantsTypeOK
  <1>0. NoRow.grant = None BY DEF NoRow
  <1>1. ASSUME row' = row, drawn \subseteq drawn' PROVE Good BY <1>1
  <1>2. ASSUME UNCHANGED <<row, drawn>> PROVE Good BY <1>2
  <1>3. ASSUME NEW r \in Requests, NEW t \in RefreshTokens, SaveRefresh(r, t) PROVE Good
    <2>1. \A u \in RefreshTokens \ {t} : row'[u] = row[u] BY <1>3 DEF SaveRefresh
    <2>2. t \notin drawn /\ drawn' = drawn \cup {t} BY <1>3 DEF SaveRefresh, Draws
    <2>. QED BY <1>3, <2>1, <2>2
  <1>4. ASSUME NEW r \in Requests, RotateRefresh(r) PROVE Good
    <2>1. row' = [row EXCEPT ![req[r].token].used = TRUE] /\ UNCHANGED drawn BY <1>4 DEF RotateRefresh
    <2>2. \A u \in RefreshTokens : row'[u].grant = row[u].grant /\ (row[u].used => row'[u].used)
      BY <2>1 DEF Row
    <2>. QED BY <2>1, <2>2
  <1>5. ASSUME NEW r \in Requests, DestroyRow(r) \/ DeleteRows(r) \/ EraseAccount(r) PROVE Good
    BY <1>0, <1>5 DEF DestroyRow, DeleteRows, EraseAccount
  <1>6. ASSUME NEW t \in RefreshTokens, SweepRow(t) PROVE Good
    BY <1>0, <1>6 DEF SweepRow
  <1>7. ASSUME NEW r \in Requests, NEW g \in GrantIds,
               NewGrant(r, g) \/ \E c \in AuthCodes : IssueCode(r, g, c)
        PROVE  Good
    BY <1>1, <1>7 DEF NewGrant, IssueCode, Draws, stored
  <1>8. ASSUME NEW r \in Requests, NEW a \in AccessTokens, IssueAccess(r, a) PROVE Good
    BY <1>1, <1>8 DEF IssueAccess, Draws, stored
  <1>. HIDE DEF Good
  <1>9. Good
    BY <1>2, <1>3, <1>4, <1>5, <1>6, <1>7, <1>8
    DEF GrantsNext, Authorize, Redeem, Revoke, stored,
        SaveGrant, SaveGrantFails, PersistResult, UndoGrant, FindGrant, WriteArtifact, CheckGrant,
        ConsumeCode, AcceptToken, FindCode, FindAccess, FindRefresh, RevokeArtifacts, RevokeGrant,
        EndReuse, RevokeService, BeginErase, Abandon, UpsertUser, ExpireGrant, SweepGrant,
        ExpireArtifact
  <1>. QED BY <1>9 DEF Good

LEMMA PresentsStep ==
  ASSUME GrantsTypeOK, Shapes, RowHistory, GrantsNext, NEW x \in Requests, \A r \in Requests : Presents(req[r])
  PROVE  Presents(req[x])'
  <1>. DEFINE p == req[x]
              q == req'[x]
              t == q.token
  <1>1. SUFFICES ASSUME t \in RefreshTokens PROVE t \in drawn' /\ row'[t].grant \in {None, q.grant}
    BY DEF Presents
  <1>2. t \in drawn /\ row[t].grant \in {None, q.grant}
    <2>1. SameToken(p, q) BY OnwardStep DEF Onward
    <2>2. \A u \in RefreshTokens : row[u].grant # None => u \in drawn BY DEF RowHistory
    <2>3. Presents(p) OBVIOUS
    <2>. HIDE DEF q, p
    <2>. QED BY <1>1, <2>1, <2>2, <2>3 DEF SameToken, Presents
  <1>. HIDE DEF t
  <1>. QED BY <1>1, <1>2, RowsMove

\* opened counts the codes of a grant.
LEMMA OpenedMoves ==
  ASSUME GrantsTypeOK, GrantsNext
  PROVE  opened' = opened \/ \E r \in Requests : ConsumeCode(r)
  BY DEF GrantsNext, Authorize, Redeem, Revoke, stored, histories,
         SaveGrant, SaveGrantFails, PersistResult, UndoGrant, NewGrant, FindGrant, IssueCode,
         WriteArtifact, CheckGrant, RotateRefresh, AcceptToken, FindCode, FindAccess,
         IssueAccess, FindRefresh, SaveRefresh, DestroyRow, RevokeArtifacts, RevokeGrant,
         DeleteRows, EndReuse, RevokeService, BeginErase, EraseAccount, Abandon, UpsertUser,
         ExpireGrant, SweepGrant, ExpireArtifact, SweepRow

\* A set is no larger for losing elements, and one larger for gaining one.
LEMMA AtMost ==
  ASSUME NEW S, IsFiniteSet(S), NEW T, NEW x
  PROVE  /\ T \subseteq S => IsFiniteSet(T) /\ Cardinality(T) <= Cardinality(S)
         /\ T \subseteq S \cup {x} => IsFiniteSet(T) /\ Cardinality(T) <= Cardinality(S) + 1
         /\ x \in S /\ T \subseteq S \ {x} => IsFiniteSet(T) /\ Cardinality(T) + 1 <= Cardinality(S)
         /\ Cardinality(S) \in Nat
         /\ IsFiniteSet(T) => Cardinality(T) \in Nat
  <1>1. Cardinality(S) \in Nat /\ (IsFiniteSet(T) => Cardinality(T) \in Nat) BY FS_CardinalityType
  <1>2. IsFiniteSet(S \cup {x}) /\ Cardinality(S \cup {x}) <= Cardinality(S) + 1
    <2>1. IsFiniteSet(S \cup {x}) BY FS_AddElement
    <2>2. Cardinality(S \cup {x}) = Cardinality(S) \/ Cardinality(S \cup {x}) = Cardinality(S) + 1
      BY FS_AddElement
    <2>. QED BY <1>1, <2>1, <2>2
  <1>3. x \in S => IsFiniteSet(S \ {x}) /\ Cardinality(S \ {x}) = Cardinality(S) - 1
    BY FS_RemoveElement
  <1>4. Cardinality(S \cup {x}) \in Nat /\ Cardinality(S \ {x}) \in Nat
    <2>1. IsFiniteSet(S \ {x}) BY FS_Subset
    <2>. QED BY <1>2, <2>1, FS_CardinalityType
  <1>5. T \subseteq S => IsFiniteSet(T) /\ Cardinality(T) <= Cardinality(S) BY FS_Subset
  <1>6. T \subseteq S \cup {x} => IsFiniteSet(T) /\ Cardinality(T) <= Cardinality(S \cup {x})
    BY <1>2, FS_Subset
  <1>7. x \in S /\ T \subseteq S \ {x} => IsFiniteSet(T) /\ Cardinality(T) <= Cardinality(S \ {x})
    BY <1>3, FS_Subset
  <1>. QED BY <1>1, <1>2, <1>3, <1>4, <1>5, <1>6, <1>7

\* Tokens and heirs that the step leaves, at most.
LEMMA Fewer ==
  ASSUME NEW g \in GrantIds, Line(g), GrantsTypeOK, opened' = opened,
         Living(g)' \subseteq Living(g), Heirs(g)' \subseteq Heirs(g)
  PROVE  Line(g)'
  <1>1. IsFiniteSet(Living(g)') /\ Cardinality(Living(g)') <= Cardinality(Living(g))
    BY AtMost DEF Line
  <1>2. IsFiniteSet(Heirs(g)') /\ Cardinality(Heirs(g)') <= Cardinality(Heirs(g))
    BY AtMost DEF Line
  <1>3. /\ Cardinality(Living(g)) \in Nat /\ Cardinality(Heirs(g)) \in Nat
        /\ Cardinality(Living(g)') \in Nat /\ Cardinality(Heirs(g)') \in Nat
    BY <1>1, <1>2, AtMost DEF Line
  <1>4. opened[g] \in Nat BY DEF GrantsTypeOK
  <1>. QED BY <1>1, <1>2, <1>3, <1>4 DEF Line

LEMMA LineStep ==
  ASSUME GrantsTypeOK, Shapes, RowHistory, LineInv, [GrantsNext]_gvars, NEW g \in GrantIds
  PROVE  Line(g)'
  <1>. USE DEF GrantsTypeOK
  <1>0. Line(g) /\ opened[g] \in Nat BY DEF LineInv
  <1>. DEFINE L == Living(g)
              H == Heirs(g)
  <1>1. /\ IsFiniteSet(L) /\ IsFiniteSet(H) /\ Cardinality(L) + Cardinality(H) <= opened[g]
        /\ Cardinality(L) \in Nat /\ Cardinality(H) \in Nat
    BY <1>0, AtMost DEF Line
  <1>2. ASSUME NEW r \in Requests, NEW t \in RefreshTokens, SaveRefresh(r, t) PROVE Line(g)'
    <2>1. opened' = opened BY <1>2 DEF SaveRefresh, histories
    <2>2. row' = [row EXCEPT ![t] = [grant |-> req[r].grant, used |-> FALSE]]
      BY <1>2 DEF SaveRefresh
    <2>3. /\ \A x \in Requests \ {r} : req'[x] = req[x]
          /\ \A h \in GrantIds : ~Heir(req'[r], h)
      <3>1. CASE Ends(r) BY <3>1, GrantsAssumption DEF Ends, Goes, Free, Heir
      <3>2. CASE Goes(r, [req[r] EXCEPT !.todo = @ \ {"refresh"}])
        <4>1. "refresh" \notin [req[r] EXCEPT !.todo = @ \ {"refresh"}].todo BY DEF Request
        <4>. QED BY <3>2, <4>1 DEF Goes, Heir
      <3>. QED BY <1>2, <3>1, <3>2 DEF SaveRefresh
    <2>4. H' \subseteq H \ {r} BY <2>3 DEF Heirs
    <2>5. CASE g # req[r].grant
      <3>1. L' \subseteq L BY <2>2, <2>5 DEF Living
      <3>. QED BY <1>0, <2>1, <2>4, <3>1, Fewer
    <2>6. CASE g = req[r].grant
      <3>1. L' \subseteq L \cup {t} BY <2>2 DEF Living
      <3>2. r \in H BY <1>2, <2>6 DEF SaveRefresh, Heirs, Heir
      <3>3. IsFiniteSet(L') /\ Cardinality(L') <= Cardinality(L) + 1 /\ Cardinality(L') \in Nat
        <4>. HIDE DEF GrantsTypeOK, L
        <4>1. IsFiniteSet(L') /\ Cardinality(L') <= Cardinality(L) + 1 BY <1>1, <3>1, AtMost
        <4>. QED BY <1>1, <4>1, AtMost
      <3>4. IsFiniteSet(H') /\ Cardinality(H') + 1 <= Cardinality(H) /\ Cardinality(H') \in Nat
        BY <1>1, <2>4, <3>2, AtMost
      <3>. HIDE DEF L, H
      <3>5. Cardinality(L') + Cardinality(H') <= opened'[g] BY <1>0, <1>1, <2>1, <3>3, <3>4
      <3>. QED BY <3>3, <3>4, <3>5 DEF Line, L, H
    <2>. QED BY <2>5, <2>6
  <1>3. ASSUME NEW r \in Requests, ConsumeCode(r) \/ RotateRefresh(r)
        PROVE  /\ g # req[r].grant => H' \subseteq H
               /\ g = req[r].grant => H' \subseteq H \cup {r}
    <2>1. PICK todo \in SUBSET Saves : Goes(r, [req[r] EXCEPT !.op = "issue", !.todo = todo])
      BY <1>3 DEF ConsumeCode, RotateRefresh, Spends
    <2>2. \A x \in Requests \ {r} : req'[x] = req[x] BY <2>1 DEF Goes
    <2>3. req'[r].grant = req[r].grant BY <2>1 DEF Goes, Request
    <2>. QED BY <2>2, <2>3 DEF Heirs, Heir
  <1>4. ASSUME NEW r \in Requests, ConsumeCode(r) PROVE Line(g)'
    <2>1. L' = L BY <1>4 DEF ConsumeCode, Living
    <2>2. req[r].grant \in GrantIds BY <1>4 DEF ConsumeCode, Shapes, Shape
    <2>3. opened' = [opened EXCEPT ![req[r].grant] = @ + 1] BY <1>4 DEF ConsumeCode
    <2>4. CASE g # req[r].grant
      <3>1. H' \subseteq H BY <1>3, <1>4, <2>4
      <3>2. opened'[g] = opened[g] BY <2>2, <2>3, <2>4
      <3>3. IsFiniteSet(H') /\ Cardinality(H') <= Cardinality(H) /\ Cardinality(H') \in Nat
        BY <1>1, <3>1, AtMost
      <3>. QED BY <1>1, <2>1, <3>2, <3>3 DEF Line
    <2>5. CASE g = req[r].grant
      <3>1. H' \subseteq H \cup {r} BY <1>3, <1>4, <2>5
      <3>2. opened'[g] = opened[g] + 1 BY <2>2, <2>3, <2>5
      <3>3. IsFiniteSet(H') /\ Cardinality(H') <= Cardinality(H) + 1 /\ Cardinality(H') \in Nat
        BY <1>1, <3>1, AtMost
      <3>4. Cardinality(L') + Cardinality(H') <= opened'[g] BY <1>0, <1>1, <2>1, <3>2, <3>3
      <3>. QED BY <1>1, <2>1, <3>3, <3>4 DEF Line
    <2>. QED BY <2>4, <2>5
  <1>5. ASSUME NEW r \in Requests, RotateRefresh(r) PROVE Line(g)'
    <2>. DEFINE t == req[r].token
    <2>1. t \in RefreshTokens /\ row[t].grant # None /\ ~row[t].used BY <1>5 DEF RotateRefresh
    <2>2. row[t].grant = req[r].grant BY <2>1 DEF LineInv, Presents
    <2>3. row' = [row EXCEPT ![t].used = TRUE] /\ opened' = opened BY <1>5 DEF RotateRefresh
    <2>4. \A u \in RefreshTokens : row'[u].grant = row[u].grant /\ (row[u].used => row'[u].used)
      BY <2>3 DEF Row
    <2>5. row'[t].used BY <2>1, <2>3 DEF Row
    <2>6. L' \subseteq L \ {t} BY <2>4, <2>5 DEF Living
    <2>7. CASE g # req[r].grant
      <3>1. H' \subseteq H BY <1>3, <1>5, <2>7
      <3>. QED BY <1>0, <2>3, <2>6, <3>1, Fewer
    <2>8. CASE g = req[r].grant
      <3>1. H' \subseteq H \cup {r} BY <1>3, <1>5, <2>8
      <3>2. t \in L BY <2>1, <2>2, <2>8 DEF Living
      <3>3. IsFiniteSet(H') /\ Cardinality(H') <= Cardinality(H) + 1 /\ Cardinality(H') \in Nat
        BY <1>1, <3>1, AtMost
      <3>4. IsFiniteSet(L') /\ Cardinality(L') + 1 <= Cardinality(L) /\ Cardinality(L') \in Nat
        BY <1>1, <2>6, <3>2, AtMost
      <3>. HIDE DEF L, H
      <3>5. Cardinality(L') + Cardinality(H') <= opened'[g] BY <1>0, <1>1, <2>3, <3>3, <3>4
      <3>. QED BY <3>3, <3>4, <3>5 DEF Line, L, H
    <2>. QED BY <2>7, <2>8
  <1>6. CASE /\ GrantsNext
             /\ ~\E r \in Requests : ConsumeCode(r) \/ RotateRefresh(r)
             /\ ~\E r \in Requests, t \in RefreshTokens : SaveRefresh(r, t)
    <2>1. \A x \in Requests : NoNewHeir(req[x], req'[x]) BY <1>6, OnwardStep
    <2>2. H' \subseteq H BY <2>1 DEF Heirs, NoNewHeir
    <2>3. \A t \in RefreshTokens :
            row'[t].grant = None \/ (row'[t].grant = row[t].grant /\ (row[t].used => row'[t].used))
      BY <1>6, RowsMove
    <2>4. L' \subseteq L BY <2>3, GrantsAssumption DEF Living
    <2>5. opened' = opened BY <1>6, OpenedMoves
    <2>. QED BY <1>0, <2>2, <2>4, <2>5, Fewer
  <1>7. CASE UNCHANGED gvars
    <2>1. L' = L /\ H' = H /\ opened' = opened BY <1>7 DEF gvars, Living, Heirs
    <2>. QED BY <1>0, <2>1, Fewer
  <1>. QED BY <1>2, <1>4, <1>5, <1>6, <1>7

LEMMA LinesBegin == GrantsInit => ReuseInv /\ LineInv
  <1>. SUFFICES ASSUME GrantsInit PROVE ReuseInv /\ LineInv OBVIOUS
  <1>1. \A r \in Requests : req[r] = Free BY DEF GrantsInit
  <1>2. ReuseInv BY <1>1 DEF GrantsInit, ReuseInv, Clearing, Free
  <1>3. \A r \in Requests : Presents(req[r])
    BY <1>1, GrantsAssumption DEF Presents, Free
  <1>4. ASSUME NEW g \in GrantIds PROVE Line(g)
    <2>1. Heirs(g) = {} BY <1>1 DEF Heirs, Heir, Free
    <2>2. Living(g) = {} BY GrantsAssumption DEF Living, GrantsInit, NoRow
    <2>3. IsFiniteSet({}) /\ Cardinality({}) = 0 BY FS_EmptySet
    <2>4. opened[g] = 0 BY DEF GrantsInit
    <2>. QED BY <2>1, <2>2, <2>3, <2>4 DEF Line
  <1>. QED BY <1>2, <1>3, <1>4 DEF LineInv

LEMMA LinesStep ==
  ASSUME GInv, ReuseInv, LineInv, [GrantsNext]_gvars
  PROVE  ReuseInv' /\ LineInv'
  <1>1. GrantsTypeOK /\ Shapes /\ RowHistory BY DEF GInv
  <1>2. ReuseInv' BY <1>1, ReuseInvStep
  <1>3. ASSUME NEW x \in Requests PROVE Presents(req[x])'
    <2>1. CASE GrantsNext BY <1>1, <2>1, PresentsStep DEF LineInv
    <2>2. CASE UNCHANGED gvars BY <2>2 DEF gvars, LineInv, Presents
    <2>. QED BY <2>1, <2>2
  <1>4. ASSUME NEW g \in GrantIds PROVE Line(g)' BY <1>1, LineStep
  <1>. QED BY <1>2, <1>3, <1>4 DEF LineInv

\* Both invariants hold in every state, beside the one they rest on.
THEOREM LinesInductive == GrantsSpec => [](ReuseInv /\ LineInv)
  <1>1. GInv /\ ReuseInv /\ LineInv /\ [GrantsNext]_gvars => ReuseInv' /\ LineInv'
    BY LinesStep
  <1>. QED BY <1>1, LinesBegin, GrantsInductive, PTL DEF GrantsSpec

\* Once the revocation that follows a reused refresh token is over, no refresh
\* token of the grant is left or comes back, whichever rotations, sign-ins and
\* redemptions it ran beside: the grant is revoked before its rows go.
THEOREM ReuseAlwaysLeavesNothing == GrantsSpec => []ReuseLeavesNothing
  <1>1. ReuseInv => ReuseLeavesNothing
    BY DEF ReuseInv, Rowless, ReuseLeavesNothing
  <1>. QED BY <1>1, LinesInductive, PTL

\* However many requests present a code or its refresh tokens at once, the
\* unused refresh tokens of a grant and those about to be saved are never more
\* than the codes redeemed under it.
THEOREM AlwaysOneLivingHeir == GrantsSpec => []OneLivingHeir
  <1>1. LineInv => OneLivingHeir
    <2>. SUFFICES ASSUME LineInv, NEW g \in GrantIds
                  PROVE  Cardinality(Living(g)) + Cardinality(Heirs(g)) <= opened[g]
      BY DEF OneLivingHeir, Living, Heirs, Heir
    <2>. QED BY DEF LineInv, Line
  <1>. QED BY <1>1, LinesInductive, PTL

--------------------------------------------------------------------------------
(* The reads that the requests of a process share.                         *)

Stores == {"database", "redis"}
Replies == [Stores -> {"asked", "up", "down"}]
Scans == {<<>>} \cup {<<origins>> : origins \in SUBSET Origins}
Reads == [of : {"none", "scan", "probe", "ended"}, results : Scans \cup Replies, age : Nat]
Snapshots == [known : BOOLEAN, origins : SUBSET Origins, age : Nat]
Calls == [at : {"idle", "origins", "health", "answered", "stale", "failed"},
          on : Callers \cup {NoCaller}, waited : Nat, said : SUBSET (Origins \cup {"ok"})]

SharedTyped ==
  /\ registered \subseteq Origins /\ changed \in [Origins -> Nat]
  /\ snapshot \in Snapshots /\ healthyLeft \in Nat
  /\ inflight \in Callers \cup {NoCaller} /\ pending \in Callers \cup {NoCaller}
  /\ read \in [Callers -> Reads] /\ caller \in [Callers -> Calls]

\* What origins says was so within that many ticks.
Lately(origins, now, ages, ticks) ==
  \A o \in Origins : (o \in origins) # (o \in now) => ages[o] <= ticks

Recent(origins, ticks) == Lately(origins, registered, changed, ticks)

\* A scan or a probe is the one that is shared, and its caller has called.
ReadOK(c) ==
  /\ read[c].of = "scan" => inflight = c
  /\ read[c].of = "probe" => pending = c
  /\ read[c].of # "none" => caller[c].at # "idle"

\* A scan that the database has answered is wrong only of what changed since it began.
ScanOK(c) ==
  read[c].of = "scan" =>
    /\ read[c].age <= MaxScan
    /\ \/ read[c].results = <<>>
       \/ \E s \in SUBSET Origins : read[c].results = <<s>> /\ Recent(s, read[c].age)

ProbeOK(c) == read[c].of = "probe" => read[c].age = 0 /\ read[c].results \in Replies

SnapshotOK ==
  snapshot.known /\ snapshot.age <= OriginsTtl =>
    Recent(snapshot.origins, MaxScan + snapshot.age)

\* Both stores answered in d.
BothUp(r) == r.of = "ended" /\ \A on \in DOMAIN r.results : r.results[on] = "up"

HealthyOK ==
  healthyLeft > 0 =>
    \E d \in Callers : BothUp(read[d]) /\ read[d].age + healthyLeft <= HealthyFor

SharedInv ==
  /\ SharedTyped /\ SnapshotOK /\ HealthyOK
  /\ \A c \in Callers : ReadOK(c) /\ ScanOK(c) /\ ProbeOK(c)

LEMMA SharedNumbers ==
  /\ OriginsTtl \in Nat /\ HealthyFor \in Nat /\ HealthTimeout \in Nat /\ MaxScan \in Nat
  /\ NoCaller \notin Callers /\ "ok" \notin Origins
  BY SharedReadsAssumption DEF SharedReadsAssumption

\* While a read goes on as it is, what is held against it stays true.
LEMMA ReadsStay ==
  ASSUME NEW c \in Callers, ReadOK(c), ScanOK(c), ProbeOK(c),
         read'[c] = read[c], registered' = registered, changed' = changed,
         read[c].of = "scan" => inflight' = inflight,
         read[c].of = "probe" => pending' = pending,
         caller[c].at # "idle" => caller'[c].at # "idle"
  PROVE  ReadOK(c)' /\ ScanOK(c)' /\ ProbeOK(c)'
  <1>1. ReadOK(c)' BY DEF ReadOK
  <1>2. ScanOK(c)'
    <2>1. \A s, t : Recent(s, t) => Recent(s, t)' BY DEF Recent
    <2>. QED BY <2>1 DEF ScanOK
  <1>3. ProbeOK(c)' BY DEF ProbeOK
  <1>. QED BY <1>1, <1>2, <1>3

LEMMA SharedInvInit == SharedInit => SharedInv
  <1>. SUFFICES ASSUME SharedInit PROVE SharedInv OBVIOUS
  <1>1. SharedTyped
    BY SharedNumbers
    DEF SharedInit, SharedTyped, NoSnapshot, NoRead, NoCall, Snapshots, Reads, Scans, Calls
  <1>2. SnapshotOK BY DEF SharedInit, SnapshotOK, NoSnapshot
  <1>3. HealthyOK BY DEF SharedInit, HealthyOK
  <1>4. \A c \in Callers : read[c].of = "none" BY DEF SharedInit, NoRead
  <1>5. \A c \in Callers : ReadOK(c) /\ ScanOK(c) /\ ProbeOK(c)
    BY <1>4 DEF ReadOK, ScanOK, ProbeOK
  <1>. QED BY <1>1, <1>2, <1>3, <1>5 DEF SharedInv

\* Everyone who waited for d hears it, and whoever has called stays so.
LEMMA AllHear ==
  ASSUME NEW d \in Callers, NEW at \in {"answered", "stale", "failed"},
         NEW what \in SUBSET (Origins \cup {"ok"}),
         caller \in [Callers -> Calls], Hear(d, at, what)
  PROVE  /\ caller' \in [Callers -> Calls]
         /\ \A c \in Callers : /\ caller[c].at # "idle" => caller'[c].at # "idle"
                               /\ caller'[c] = caller[c] \/ (caller'[c].at = at /\ caller'[c].said = what)
  <1>1. \A c \in Callers :
          \/ caller'[c] = caller[c]
          \/ caller'[c] = [caller[c] EXCEPT !.at = at, !.said = what]
    BY DEF Hear
  <1>2. \A c \in Callers : [caller[c] EXCEPT !.at = at, !.said = what] \in Calls
    BY DEF Calls
  <1>3. caller' \in [Callers -> Calls] BY <1>1, <1>2 DEF Hear
  <1>4. \A c \in Callers : /\ [caller[c] EXCEPT !.at = at, !.said = what].at = at
                           /\ [caller[c] EXCEPT !.at = at, !.said = what].said = what
    BY DEF Calls
  <1>. QED BY <1>1, <1>3, <1>4

LEMMA OriginsMove ==
  ASSUME SharedInv, NEW c \in Callers,
         GetOrigins(c) \/ ScanOrigins(c) \/ ScanEnds(c) \/ ScanFails(c)
  PROVE  SharedInv'
  <1>. USE SharedNumbers
  <1>0. /\ SharedTyped /\ SnapshotOK /\ HealthyOK
        /\ \A d \in Callers : ReadOK(d) /\ ScanOK(d) /\ ProbeOK(d)
    BY DEF SharedInv
  <1>1. registered' = registered /\ changed' = changed /\ healthyLeft' = healthyLeft /\ pending' = pending
    BY DEF GetOrigins, ScanOrigins, ScanEnds, ScanFails
  <1>2. \A s, t : Recent(s, t) => Recent(s, t)' BY <1>1 DEF Recent
  <1>3. ASSUME snapshot' = snapshot, read' \in [Callers -> Reads], caller' \in [Callers -> Calls],
               inflight' \in Callers \cup {NoCaller},
               \A d \in Callers \ {c} : read'[d] = read[d],
               ~ BothUp(read[c]), \A d \in Callers : (ReadOK(d) /\ ScanOK(d) /\ ProbeOK(d))'
        PROVE  SharedInv'
    <2>1. SharedTyped' BY <1>0, <1>1, <1>3 DEF SharedTyped
    <2>2. SnapshotOK' BY <1>0, <1>2, <1>3 DEF SnapshotOK
    <2>3. HealthyOK' BY <1>0, <1>1, <1>3 DEF HealthyOK
    <2>. QED BY <1>3, <2>1, <2>2, <2>3 DEF SharedInv
  <1>4. CASE GetOrigins(c)
    <2>1. caller[c].at = "idle" /\ snapshot' = snapshot BY <1>4 DEF GetOrigins
    <2>2. read[c].of = "none" BY <1>0, <2>1 DEF ReadOK, SharedTyped, Calls
    <2>3. CASE SnapshotIsFresh
      <3>1. caller' = [caller EXCEPT ![c] = Says(c, snapshot.origins)] /\ inflight' = inflight /\ read' = read
        BY <1>4, <2>3 DEF GetOrigins
      <3>2. Says(c, snapshot.origins) \in Calls BY <1>0 DEF Says, Calls, SharedTyped, Snapshots
      <3>3. Says(c, snapshot.origins).at # "idle" BY <1>0 DEF Says, Calls, SharedTyped
      <3>4. caller' \in [Callers -> Calls] BY <1>0, <3>1, <3>2 DEF SharedTyped
      <3>5. \A d \in Callers : (ReadOK(d) /\ ScanOK(d) /\ ProbeOK(d))'
        BY <1>0, <1>1, <3>1, <3>3, ReadsStay DEF SharedTyped
      <3>. QED BY <1>0, <1>3, <2>1, <2>2, <3>1, <3>4, <3>5 DEF SharedTyped, BothUp
    <2>4. CASE ~ SnapshotIsFresh /\ inflight # NoCaller
      <3>1. caller' = [caller EXCEPT ![c] = [caller[c] EXCEPT !.at = "origins", !.on = inflight]]
            /\ inflight' = inflight /\ read' = read
        BY <1>4, <2>4 DEF GetOrigins, WaitsFor
      <3>2. [caller[c] EXCEPT !.at = "origins", !.on = inflight] \in Calls
        BY <1>0 DEF Calls, SharedTyped
      <3>3. [caller[c] EXCEPT !.at = "origins", !.on = inflight].at = "origins"
        BY <1>0 DEF Calls, SharedTyped
      <3>4. caller' \in [Callers -> Calls] BY <1>0, <3>1, <3>2 DEF SharedTyped
      <3>5. \A d \in Callers : (ReadOK(d) /\ ScanOK(d) /\ ProbeOK(d))'
        BY <1>0, <1>1, <3>1, <3>3, ReadsStay DEF SharedTyped
      <3>. QED BY <1>0, <1>3, <2>1, <2>2, <3>1, <3>4, <3>5 DEF SharedTyped, BothUp
    <2>5. CASE ~ SnapshotIsFresh /\ inflight = NoCaller
      <3>1. caller' = [caller EXCEPT ![c] = [caller[c] EXCEPT !.at = "origins", !.on = c]]
            /\ inflight' = c /\ read' = [read EXCEPT ![c] = Scan]
        BY <1>4, <2>5 DEF GetOrigins, WaitsFor
      <3>2. [caller[c] EXCEPT !.at = "origins", !.on = c] \in Calls
        BY <1>0 DEF Calls, SharedTyped
      <3>3. [caller[c] EXCEPT !.at = "origins", !.on = c].at = "origins"
        BY <1>0 DEF Calls, SharedTyped
      <3>4. caller' \in [Callers -> Calls] BY <1>0, <3>1, <3>2 DEF SharedTyped
      <3>5. Scan \in Reads /\ Scan.of = "scan" /\ Scan.age = 0 /\ Scan.results = <<>>
        BY DEF Scan, Reads, Scans
      <3>6. read' \in [Callers -> Reads] BY <1>0, <3>1, <3>5 DEF SharedTyped
      <3>7. (ReadOK(c) /\ ScanOK(c) /\ ProbeOK(c))'
        BY <1>0, <3>1, <3>3, <3>5 DEF ReadOK, ScanOK, ProbeOK, SharedTyped
      <3>8. ASSUME NEW d \in Callers \ {c} PROVE (ReadOK(d) /\ ScanOK(d) /\ ProbeOK(d))'
        <4>1. read[d].of # "scan" BY <1>0, <2>5 DEF ReadOK
        <4>. QED BY <1>0, <1>1, <3>1, <4>1, ReadsStay DEF SharedTyped
      <3>. QED BY <1>0, <1>3, <2>1, <2>2, <3>1, <3>4, <3>6, <3>7, <3>8 DEF SharedTyped, BothUp
    <2>. QED BY <2>3, <2>4, <2>5
  <1>5. CASE ScanOrigins(c)
    <2>. DEFINE r == [read[c] EXCEPT !.results = <<registered>>]
    <2>1. /\ read[c].of = "scan" /\ read' = [read EXCEPT ![c] = r]
          /\ snapshot' = snapshot /\ inflight' = inflight /\ caller' = caller
      BY <1>5 DEF ScanOrigins
    <2>2. /\ r \in Reads /\ r.of = "scan" /\ r.age = read[c].age /\ r.results = <<registered>>
      BY <1>0, <2>1 DEF SharedTyped, Reads, Scans
    <2>. HIDE DEF r
    <2>3. read' \in [Callers -> Reads] /\ read'[c] = r BY <1>0, <2>1, <2>2 DEF SharedTyped
    <2>4. Recent(registered, read[c].age)' BY <1>1 DEF Recent, Lately
    <2>5. ReadOK(c)' BY <1>0, <2>1, <2>2, <2>3 DEF ReadOK
    <2>6. ScanOK(c)' BY <1>0, <1>1, <2>1, <2>2, <2>3, <2>4 DEF ScanOK, SharedTyped, Recent, Lately
    <2>7. ProbeOK(c)' BY <2>2, <2>3 DEF ProbeOK
    <2>8. \A d \in Callers \ {c} : (ReadOK(d) /\ ScanOK(d) /\ ProbeOK(d))'
      BY <1>0, <1>1, <2>1, ReadsStay DEF SharedTyped
    <2>. QED BY <1>0, <1>3, <2>1, <2>3, <2>5, <2>6, <2>7, <2>8 DEF SharedTyped, BothUp
  <1>6. CASE ScanEnds(c) \/ ScanFails(c)
    <2>1. read[c].of = "scan" /\ inflight' = NoCaller /\ read' = [read EXCEPT ![c] = NoRead]
      BY <1>6 DEF ScanEnds, ScanFails
    <2>2. NoRead \in Reads /\ NoRead.of = "none" BY DEF NoRead, Reads, Scans
    <2>3. /\ read' \in [Callers -> Reads] /\ read'[c] = NoRead
          /\ \A d \in Callers \ {c} : read'[d] = read[d]
      BY <1>0, <2>1, <2>2 DEF SharedTyped
    <2>4. /\ caller' \in [Callers -> Calls]
          /\ \A d \in Callers : caller[d].at # "idle" => caller'[d].at # "idle"
      <3>1. CASE ScanEnds(c)
        <4>1. PICK s \in SUBSET Origins : read[c].results = <<s>> BY <1>0, <3>1 DEF ScanEnds, ScanOK
        <4>. QED BY <1>0, <3>1, <4>1, AllHear DEF ScanEnds, SharedTyped
      <3>2. CASE ScanFails(c)
        <4>. DEFINE at == IF snapshot.known THEN "stale" ELSE "failed"
        <4>1. at \in {"answered", "stale", "failed"} /\ snapshot.origins \in SUBSET (Origins \cup {"ok"})
          BY <1>0 DEF SharedTyped, Snapshots
        <4>2. Hear(c, at, snapshot.origins) BY <3>2 DEF ScanFails
        <4>. HIDE DEF at
        <4>. QED BY <1>0, <4>1, <4>2, AllHear DEF SharedTyped
      <3>. QED BY <1>6, <3>1, <3>2
    <2>5. (ReadOK(c) /\ ScanOK(c) /\ ProbeOK(c))' BY <2>2, <2>3 DEF ReadOK, ScanOK, ProbeOK
    <2>6. ASSUME NEW d \in Callers \ {c} PROVE (ReadOK(d) /\ ScanOK(d) /\ ProbeOK(d))'
      <3>1. read[d].of # "scan" BY <1>0, <2>1 DEF ReadOK
      <3>. QED BY <1>0, <1>1, <2>3, <2>4, <3>1, ReadsStay
    <2>7. ~ BothUp(read[c]) BY <2>1 DEF BothUp
    <2>8. HealthyOK' BY <1>0, <1>1, <2>3, <2>7 DEF HealthyOK
    <2>9. snapshot' \in Snapshots /\ SnapshotOK'
      <3>1. CASE ScanEnds(c)
        <4>1. PICK s \in SUBSET Origins : read[c].results = <<s>> /\ Recent(s, read[c].age)
          BY <1>0, <3>1 DEF ScanEnds, ScanOK
        <4>2. snapshot' = [known |-> TRUE, origins |-> s, age |-> 0] BY <3>1, <4>1 DEF ScanEnds
        <4>3. read[c].age \in Nat /\ read[c].age <= MaxScan
          BY <1>0, <2>1 DEF ScanOK, SharedTyped, Reads
        <4>4. Recent(s, MaxScan) BY <1>0, <4>1, <4>3 DEF Recent, Lately, SharedTyped
        <4>. QED BY <1>2, <4>2, <4>4 DEF Snapshots, SnapshotOK
      <3>2. CASE ScanFails(c)
        <4>1. snapshot' = snapshot BY <3>2 DEF ScanFails
        <4>. QED BY <1>0, <1>2, <4>1 DEF SnapshotOK, SharedTyped
      <3>. QED BY <1>6, <3>1, <3>2
    <2>10. SharedTyped' BY <1>0, <1>1, <2>1, <2>3, <2>4, <2>9 DEF SharedTyped
    <2>. QED BY <2>5, <2>6, <2>8, <2>9, <2>10 DEF SharedInv
  <1>. QED BY <1>4, <1>5, <1>6

LEMMA OriginChangeKeeps ==
  ASSUME SharedInv, NEW o \in Origins, OriginChanges(o)
  PROVE  SharedInv'
  <1>. USE SharedNumbers
  <1>0. /\ SharedTyped /\ SnapshotOK /\ HealthyOK
        /\ \A d \in Callers : ReadOK(d) /\ ScanOK(d) /\ ProbeOK(d)
    BY DEF SharedInv
  <1>1. /\ registered' = IF o \in registered THEN registered \ {o} ELSE registered \cup {o}
        /\ changed' = [changed EXCEPT ![o] = 0]
        /\ snapshot' = snapshot /\ inflight' = inflight /\ healthyLeft' = healthyLeft
        /\ pending' = pending /\ read' = read /\ caller' = caller
    BY DEF OriginChanges
  <1>2. ASSUME NEW s, NEW t \in Nat, Recent(s, t) PROVE Recent(s, t)'
    BY <1>0, <1>1, <1>2 DEF Recent, Lately, SharedTyped
  <1>3. SharedTyped' BY <1>0, <1>1 DEF SharedTyped
  <1>4. SnapshotOK'
    <2>1. snapshot.age \in Nat BY <1>0 DEF SharedTyped, Snapshots
    <2>. QED BY <1>0, <1>1, <1>2, <2>1 DEF SnapshotOK
  <1>5. HealthyOK' BY <1>0, <1>1 DEF HealthyOK
  <1>6. ASSUME NEW d \in Callers PROVE (ReadOK(d) /\ ScanOK(d) /\ ProbeOK(d))'
    <2>1. read[d].age \in Nat BY <1>0 DEF SharedTyped, Reads
    <2>2. ReadOK(d)' /\ ProbeOK(d)' BY <1>0, <1>1 DEF ReadOK, ProbeOK
    <2>3. ScanOK(d)' BY <1>0, <1>1, <1>2, <2>1 DEF ScanOK
    <2>. QED BY <2>2, <2>3
  <1>. QED BY <1>3, <1>4, <1>5, <1>6 DEF SharedInv

LEMMA HealthMoves ==
  ASSUME SharedInv, NEW c \in Callers,
         \/ CheckHealth(c) \/ ProbeEnds(c) \/ TimesOut(c)
         \/ \E on \in Stores, result \in {"up", "down"} : Reply(c, on, result)
  PROVE  SharedInv'
  <1>. USE SharedNumbers
  <1>0. /\ SharedTyped /\ SnapshotOK /\ HealthyOK
        /\ \A d \in Callers : ReadOK(d) /\ ScanOK(d) /\ ProbeOK(d)
    BY DEF SharedInv
  <1>1. registered' = registered /\ changed' = changed /\ snapshot' = snapshot /\ inflight' = inflight
    BY DEF CheckHealth, ProbeEnds, TimesOut, Reply
  <1>2. SnapshotOK'
    <2>1. \A s, t : Recent(s, t) => Recent(s, t)' BY <1>1 DEF Recent
    <2>. QED BY <1>0, <1>1, <2>1 DEF SnapshotOK
  <1>3. ASSUME healthyLeft' = healthyLeft, read' \in [Callers -> Reads],
               caller' \in [Callers -> Calls], pending' \in Callers \cup {NoCaller},
               \A d \in Callers \ {c} : read'[d] = read[d],
               ~ BothUp(read[c]), \A d \in Callers : (ReadOK(d) /\ ScanOK(d) /\ ProbeOK(d))'
        PROVE  SharedInv'
    <2>1. SharedTyped' BY <1>0, <1>1, <1>3 DEF SharedTyped
    <2>2. HealthyOK' BY <1>0, <1>3 DEF HealthyOK
    <2>. QED BY <1>2, <1>3, <2>1, <2>2 DEF SharedInv
  <1>4. CASE CheckHealth(c)
    <2>1. caller[c].at = "idle" /\ healthyLeft' = healthyLeft BY <1>4 DEF CheckHealth
    <2>2. read[c].of = "none" BY <1>0, <2>1 DEF ReadOK, SharedTyped, Calls
    <2>3. CASE healthyLeft > 0
      <3>. DEFINE says == Says(c, {"ok"})
      <3>1. caller' = [caller EXCEPT ![c] = says] /\ pending' = pending /\ read' = read
        BY <1>4, <2>3 DEF CheckHealth
      <3>2. says \in Calls /\ says.at = "answered" BY <1>0 DEF Says, Calls, SharedTyped
      <3>. HIDE DEF says
      <3>3. caller' \in [Callers -> Calls] BY <1>0, <3>1, <3>2 DEF SharedTyped
      <3>4. \A d \in Callers : (ReadOK(d) /\ ScanOK(d) /\ ProbeOK(d))'
        BY <1>0, <1>1, <3>1, <3>2, ReadsStay DEF SharedTyped
      <3>. QED BY <1>0, <1>3, <2>1, <2>2, <3>1, <3>3, <3>4 DEF SharedTyped, BothUp
    <2>4. CASE healthyLeft = 0 /\ pending # NoCaller
      <3>. DEFINE waits == [caller[c] EXCEPT !.at = "health", !.on = pending]
      <3>1. caller' = [caller EXCEPT ![c] = waits] /\ pending' = pending /\ read' = read
        BY <1>4, <2>4 DEF CheckHealth, WaitsFor
      <3>2. waits \in Calls /\ waits.at = "health" BY <1>0 DEF Calls, SharedTyped
      <3>. HIDE DEF waits
      <3>3. caller' \in [Callers -> Calls] BY <1>0, <3>1, <3>2 DEF SharedTyped
      <3>4. \A d \in Callers : (ReadOK(d) /\ ScanOK(d) /\ ProbeOK(d))'
        BY <1>0, <1>1, <3>1, <3>2, ReadsStay DEF SharedTyped
      <3>. QED BY <1>0, <1>3, <2>1, <2>2, <3>1, <3>3, <3>4 DEF SharedTyped, BothUp
    <2>5. CASE healthyLeft = 0 /\ pending = NoCaller
      <3>. DEFINE waits == [caller[c] EXCEPT !.at = "health", !.on = c]
      <3>1. caller' = [caller EXCEPT ![c] = waits] /\ pending' = c /\ read' = [read EXCEPT ![c] = Probe]
        BY <1>4, <2>5 DEF CheckHealth, WaitsFor
      <3>2. waits \in Calls /\ waits.at = "health" BY <1>0 DEF Calls, SharedTyped
      <3>. HIDE DEF waits
      <3>3. caller' \in [Callers -> Calls] BY <1>0, <3>1, <3>2 DEF SharedTyped
      <3>4. /\ Probe \in Reads /\ Probe.of = "probe" /\ Probe.age = 0 /\ Probe.results \in Replies
        BY DEF Probe, Reads, Replies, Stores
      <3>5. read' \in [Callers -> Reads] BY <1>0, <3>1, <3>4 DEF SharedTyped
      <3>6. (ReadOK(c) /\ ScanOK(c) /\ ProbeOK(c))'
        BY <1>0, <3>1, <3>2, <3>4 DEF ReadOK, ScanOK, ProbeOK, SharedTyped
      <3>7. ASSUME NEW d \in Callers \ {c} PROVE (ReadOK(d) /\ ScanOK(d) /\ ProbeOK(d))'
        <4>1. read[d].of # "probe" BY <1>0, <2>5 DEF ReadOK
        <4>. QED BY <1>0, <1>1, <3>1, <4>1, ReadsStay DEF SharedTyped
      <3>. QED BY <1>0, <1>3, <2>1, <2>2, <3>1, <3>3, <3>5, <3>6, <3>7 DEF SharedTyped, BothUp
    <2>6. healthyLeft > 0 \/ healthyLeft = 0 BY <1>0 DEF SharedTyped
    <2>. QED BY <2>3, <2>4, <2>5, <2>6
  <1>5. CASE \E on \in Stores, result \in {"up", "down"} : Reply(c, on, result)
    <2>1. PICK on \in Stores, result \in {"up", "down"} : Reply(c, on, result) BY <1>5
    <2>. DEFINE r == [read[c] EXCEPT !.results[on] = result]
    <2>2. /\ read[c].of = "probe" /\ read' = [read EXCEPT ![c] = r]
          /\ pending' = pending /\ caller' = caller /\ healthyLeft' = healthyLeft
      BY <2>1 DEF Reply
    <2>3. r \in Reads /\ r.of = "probe" /\ r.age = 0 /\ r.results \in Replies
      <3>1. read[c] \in Reads /\ read[c].results \in Replies /\ read[c].age = 0
        BY <1>0, <2>2 DEF SharedTyped, ProbeOK
      <3>2. r = [read[c] EXCEPT !.results = [read[c].results EXCEPT ![on] = result]]
        BY <3>1 DEF Reads
      <3>3. [read[c].results EXCEPT ![on] = result] \in Replies BY <3>1 DEF Replies
      <3>. QED BY <2>2, <3>1, <3>2, <3>3 DEF Reads
    <2>. HIDE DEF r
    <2>4. read' \in [Callers -> Reads] /\ read'[c] = r BY <1>0, <2>2, <2>3 DEF SharedTyped
    <2>5. (ReadOK(c) /\ ScanOK(c) /\ ProbeOK(c))'
      BY <1>0, <2>2, <2>3, <2>4 DEF ReadOK, ScanOK, ProbeOK
    <2>6. \A d \in Callers \ {c} : (ReadOK(d) /\ ScanOK(d) /\ ProbeOK(d))'
      BY <1>0, <1>1, <2>2, ReadsStay DEF SharedTyped
    <2>. QED BY <1>0, <1>3, <2>2, <2>4, <2>5, <2>6 DEF SharedTyped, BothUp
  <1>6. CASE TimesOut(c)
    <2>. DEFINE gives == [caller[c] EXCEPT !.at = "failed"]
    <2>1. /\ caller' = [caller EXCEPT ![c] = gives]
          /\ read' = read /\ pending' = pending /\ healthyLeft' = healthyLeft
      BY <1>6 DEF TimesOut
    <2>2. gives \in Calls /\ gives.at = "failed" BY <1>0 DEF Calls, SharedTyped
    <2>. HIDE DEF gives
    <2>3. caller' \in [Callers -> Calls] BY <1>0, <2>1, <2>2 DEF SharedTyped
    <2>4. \A d \in Callers : (ReadOK(d) /\ ScanOK(d) /\ ProbeOK(d))'
      BY <1>0, <1>1, <2>1, <2>2, ReadsStay DEF SharedTyped
    <2>5. SharedTyped' BY <1>0, <1>1, <2>1, <2>3 DEF SharedTyped
    <2>6. HealthyOK' BY <1>0, <2>1 DEF HealthyOK
    <2>. QED BY <1>2, <2>4, <2>5, <2>6 DEF SharedInv
  <1>7. CASE ProbeEnds(c)
    <2>. DEFINE up == \A on \in DOMAIN read[c].results : read[c].results[on] = "up"
                r == [read[c] EXCEPT !.of = "ended"]
    <2>1. /\ read[c].of = "probe" /\ read' = [read EXCEPT ![c] = r] /\ pending' = NoCaller
          /\ healthyLeft' = IF up THEN HealthyFor ELSE healthyLeft
          /\ Hear(c, IF up THEN "answered" ELSE "failed", IF up THEN {"ok"} ELSE {})
      BY <1>7 DEF ProbeEnds, Settled
    <2>2. r \in Reads /\ r.of = "ended" /\ r.age = 0 /\ r.results = read[c].results
      BY <1>0, <2>1 DEF SharedTyped, Reads, ProbeOK
    <2>3. up => BothUp(r) BY <2>2 DEF BothUp
    <2>4. /\ caller' \in [Callers -> Calls]
          /\ \A d \in Callers : caller[d].at # "idle" => caller'[d].at # "idle"
      <3>1. CASE up
        <4>1. Hear(c, "answered", {"ok"}) BY <2>1, <3>1
        <4>. QED BY <1>0, <4>1, AllHear DEF SharedTyped
      <3>2. CASE ~ up
        <4>1. Hear(c, "failed", {}) BY <2>1, <3>2
        <4>. QED BY <1>0, <4>1, AllHear DEF SharedTyped
      <3>. QED BY <3>1, <3>2
    <2>. HIDE DEF up, r
    <2>5. /\ read' \in [Callers -> Reads] /\ read'[c] = r
          /\ \A d \in Callers \ {c} : read'[d] = read[d]
      BY <1>0, <2>1, <2>2 DEF SharedTyped
    <2>6. SharedTyped' BY <1>0, <1>1, <2>1, <2>4, <2>5 DEF SharedTyped
    <2>7. HealthyOK'
      <3>1. CASE up
        <4>1. healthyLeft' = HealthyFor /\ BothUp(read'[c]) /\ read'[c].age + HealthyFor <= HealthyFor
          BY <2>1, <2>2, <2>3, <2>5, <3>1
        <4>. QED BY <4>1 DEF HealthyOK
      <3>2. CASE ~ up
        <4>1. healthyLeft' = healthyLeft /\ ~ BothUp(read[c]) BY <2>1, <3>2 DEF BothUp
        <4>. QED BY <1>0, <2>5, <4>1 DEF HealthyOK
      <3>. QED BY <3>1, <3>2
    <2>8. (ReadOK(c) /\ ScanOK(c) /\ ProbeOK(c))'
      BY <1>0, <2>1, <2>2, <2>4, <2>5 DEF ReadOK, ScanOK, ProbeOK
    <2>9. ASSUME NEW d \in Callers \ {c} PROVE (ReadOK(d) /\ ScanOK(d) /\ ProbeOK(d))'
      <3>1. read[d].of # "probe" BY <1>0, <2>1 DEF ReadOK
      <3>. QED BY <1>0, <1>1, <2>4, <2>5, <3>1, ReadsStay
    <2>. QED BY <1>2, <2>6, <2>7, <2>8, <2>9 DEF SharedInv
  <1>. QED BY <1>4, <1>5, <1>6, <1>7

LEMMA SharedTickKeeps ==
  ASSUME SharedInv, SharedTick
  PROVE  SharedInv'
  <1>. USE SharedNumbers
  <1>0. /\ SharedTyped /\ SnapshotOK /\ HealthyOK
        /\ \A d \in Callers : ReadOK(d) /\ ScanOK(d) /\ ProbeOK(d)
    BY DEF SharedInv
  <1>2. /\ registered' = registered /\ inflight' = inflight /\ pending' = pending
        /\ changed' \in [Origins -> Nat] /\ \A o \in Origins : changed'[o] <= changed[o] + 1
    BY <1>0 DEF SharedTick, SharedTyped, UpTo
  <1>3. ASSUME NEW s, NEW t \in Nat, Lately(s, registered, changed, t)
        PROVE  Lately(s, registered', changed', t + 1)
    BY <1>0, <1>2, <1>3 DEF Lately, SharedTyped
  <1>4. snapshot' \in Snapshots /\ SnapshotOK'
    <2>1. CASE ~ snapshot.known
      <3>1. snapshot' = snapshot BY <2>1 DEF SharedTick
      <3>. QED BY <1>0, <2>1, <3>1 DEF SnapshotOK, SharedTyped
    <2>2. CASE snapshot.known
      <3>. DEFINE s == [snapshot EXCEPT !.age = UpTo(OriginsTtl + 1, snapshot.age)]
      <3>1. snapshot' = s BY <2>2 DEF SharedTick
      <3>2. snapshot \in Snapshots /\ snapshot.age \in Nat BY <1>0 DEF SharedTyped, Snapshots
      <3>3. s \in Snapshots /\ s.origins = snapshot.origins /\ s.age = UpTo(OriginsTtl + 1, snapshot.age)
        BY <3>2 DEF Snapshots, UpTo
      <3>4. ASSUME s.age <= OriginsTtl PROVE s.age = snapshot.age + 1
        BY <3>2, <3>3, <3>4 DEF UpTo
      <3>5. ASSUME s.age <= OriginsTtl
            PROVE  Lately(s.origins, registered', changed', MaxScan + s.age)
        <4>1. s.age = snapshot.age + 1 BY <3>4, <3>5
        <4>2. Lately(snapshot.origins, registered, changed, MaxScan + snapshot.age)
          BY <1>0, <2>2, <3>2, <3>5, <4>1 DEF SnapshotOK, Recent
        <4>3. Lately(snapshot.origins, registered', changed', (MaxScan + snapshot.age) + 1)
          BY <1>3, <3>2, <4>2
        <4>4. (MaxScan + snapshot.age) + 1 = MaxScan + s.age BY <3>2, <4>1
        <4>. QED BY <3>3, <4>3, <4>4
      <3>. HIDE DEF s
      <3>6. SnapshotOK' BY <3>1, <3>5 DEF SnapshotOK, Recent
      <3>. QED BY <3>1, <3>3, <3>6
    <2>. QED BY <2>1, <2>2
  <1>5. ASSUME NEW d \in Callers
        PROVE  /\ read'[d] \in Reads /\ read'[d].of = read[d].of /\ read'[d].results = read[d].results
               /\ read'[d].age <= read[d].age + 1
               /\ read[d].of = "probe" => read'[d] = read[d]
               /\ read[d].of = "scan" => read'[d].age = read[d].age + 1 /\ read'[d].age <= MaxScan
    <2>0. read[d] \in Reads /\ read[d].age \in Nat BY <1>0 DEF SharedTyped, Reads
    <2>1. CASE read[d].of \in {"scan", "ended"}
      <3>. DEFINE r == [read[d] EXCEPT !.age = UpTo(MaxScan + HealthyFor, read[d].age)]
      <3>1. read'[d] = r BY <2>1 DEF SharedTick
      <3>2. /\ r \in Reads /\ r.of = read[d].of /\ r.results = read[d].results
            /\ r.age = UpTo(MaxScan + HealthyFor, read[d].age)
        BY <2>0 DEF Reads, UpTo
      <3>3. read[d].of = "scan" => read[d].age < MaxScan BY DEF SharedTick
      <3>4. read[d].of = "scan" => r.age = read[d].age + 1 /\ r.age <= MaxScan
        BY <2>0, <3>2, <3>3 DEF UpTo
      <3>5. r.age <= read[d].age + 1 BY <2>0, <3>2 DEF UpTo
      <3>. HIDE DEF r
      <3>. QED BY <2>1, <3>1, <3>2, <3>4, <3>5
    <2>2. CASE read[d].of \notin {"scan", "ended"}
      <3>1. read'[d] = read[d] BY <2>2 DEF SharedTick
      <3>. QED BY <2>0, <2>2, <3>1
    <2>. QED BY <2>1, <2>2
  <1>6. ASSUME NEW d \in Callers PROVE caller'[d] \in Calls /\ caller'[d].at = caller[d].at
    <2>0. caller[d] \in Calls /\ caller[d].waited \in Nat BY <1>0 DEF SharedTyped, Calls
    <2>1. CASE caller[d].at = "health"
      <3>1. caller'[d] = [caller[d] EXCEPT !.waited = UpTo(HealthTimeout, caller[d].waited)]
        BY <2>1 DEF SharedTick
      <3>2. UpTo(HealthTimeout, caller[d].waited) \in Nat BY <2>0 DEF UpTo
      <3>. QED BY <2>0, <3>1, <3>2 DEF Calls
    <2>2. CASE caller[d].at # "health"
      <3>1. caller'[d] = caller[d] BY <2>2 DEF SharedTick
      <3>. QED BY <2>0, <3>1
    <2>. QED BY <2>1, <2>2
  <1>7. read' \in [Callers -> Reads] BY <1>5 DEF SharedTick
  <1>8. caller' \in [Callers -> Calls] BY <1>6 DEF SharedTick
  <1>9. healthyLeft' \in Nat /\ (healthyLeft' > 0 => healthyLeft > 0 /\ healthyLeft' = healthyLeft - 1)
    BY <1>0 DEF SharedTick, SharedTyped
  <1>10. SharedTyped' BY <1>0, <1>2, <1>4, <1>7, <1>8, <1>9 DEF SharedTyped
  <1>11. HealthyOK'
    <2>. SUFFICES ASSUME healthyLeft' > 0
                  PROVE \E d \in Callers : BothUp(read'[d]) /\ read'[d].age + healthyLeft' <= HealthyFor
      BY DEF HealthyOK
    <2>1. PICK d \in Callers : BothUp(read[d]) /\ read[d].age + healthyLeft <= HealthyFor
      BY <1>0, <1>9 DEF HealthyOK
    <2>2. BothUp(read'[d]) BY <1>5, <2>1 DEF BothUp
    <2>3. read'[d].age + healthyLeft' <= HealthyFor
      <3>1. read'[d].age \in Nat /\ read[d].age \in Nat BY <1>0, <1>5 DEF Reads, SharedTyped
      <3>. QED BY <1>0, <1>5, <1>9, <2>1, <3>1 DEF SharedTyped
    <2>. QED BY <2>2, <2>3
  <1>12. ASSUME NEW d \in Callers PROVE (ReadOK(d) /\ ScanOK(d) /\ ProbeOK(d))'
    <2>1. ReadOK(d)' /\ ProbeOK(d)' BY <1>0, <1>2, <1>5, <1>6 DEF ReadOK, ProbeOK
    <2>2. ScanOK(d)'
      <3>. SUFFICES ASSUME read[d].of = "scan" PROVE ScanOK(d)' BY <1>5 DEF ScanOK
      <3>1. CASE read[d].results = <<>> BY <1>5, <3>1 DEF ScanOK
      <3>2. CASE read[d].results # <<>>
        <4>1. PICK s \in SUBSET Origins :
                read[d].results = <<s>> /\ Lately(s, registered, changed, read[d].age)
          BY <1>0, <3>2 DEF ScanOK, Recent
        <4>2. read[d].age \in Nat BY <1>0 DEF SharedTyped, Reads
        <4>3. Lately(s, registered', changed', read'[d].age) BY <1>3, <1>5, <4>1, <4>2
        <4>. QED BY <1>5, <4>1, <4>3 DEF ScanOK, Recent
      <3>. QED BY <3>1, <3>2
    <2>. QED BY <2>1, <2>2
  <1>. QED BY <1>4, <1>10, <1>11, <1>12 DEF SharedInv

LEMMA SharedInvStep == SharedInv /\ [SharedNext]_sharedVars => SharedInv'
  <1>. SUFFICES ASSUME SharedInv, [SharedNext]_sharedVars PROVE SharedInv' OBVIOUS
  <1>1. CASE \E c \in Callers : GetOrigins(c) \/ ScanOrigins(c) \/ ScanEnds(c) \/ ScanFails(c)
    BY <1>1, OriginsMove
  <1>2. CASE \E o \in Origins : OriginChanges(o) BY <1>2, OriginChangeKeeps
  <1>3. CASE SharedTick BY <1>3, SharedTickKeeps
  <1>4. CASE \E c \in Callers :
               \/ CheckHealth(c) \/ ProbeEnds(c) \/ TimesOut(c)
               \/ \E on \in Stores, result \in {"up", "down"} : Reply(c, on, result)
    BY <1>4, HealthMoves
  <1>5. CASE UNCHANGED sharedVars
    BY <1>5 DEF sharedVars, SharedInv, SharedTyped, SnapshotOK, HealthyOK, ReadOK, ScanOK, ProbeOK,
                Recent, BothUp
  <1>. QED BY <1>1, <1>2, <1>3, <1>4, <1>5 DEF SharedNext, OriginsNext, HealthNext, Stores

\* A read that is under way is the one that is shared, an answered scan is wrong
\* only of what changed since it began, and a probe that is still good went well
\* (client-directory.ts, readiness.ts).
THEOREM SharedInvariant == SharedSpec => []SharedInv
  BY SharedInvInit, SharedInvStep, PTL DEF SharedSpec

\* Where an answer comes from.
FromSnapshot(c) == SnapshotIsFresh /\ caller'[c].said = snapshot.origins
FromScan(c) == \E d \in Callers : ScanEnds(d) /\ caller'[c].said = read[d].results[1]
FromMemory(c) == healthyLeft > 0 /\ read' = read /\ caller'[c].said = {"ok"}
FromProbe(c) ==
  \E d \in Callers : ProbeEnds(d) /\ BothUp(read'[d]) /\ caller'[c].said = {"ok"}

LEMMA AnswersComeFrom ==
  ASSUME SharedInv, SharedNext, NEW c \in Callers, Hears(c, "answered")
  PROVE  FromSnapshot(c) \/ FromScan(c) \/ FromMemory(c) \/ FromProbe(c)
  <1>0. /\ caller \in [Callers -> Calls] /\ read \in [Callers -> Reads] /\ SharedTyped
        /\ \A d \in Callers : ReadOK(d) /\ ScanOK(d)
        /\ caller[c].at # "answered" /\ caller'[c].at = "answered"
    BY DEF SharedInv, SharedTyped, Hears
  <1>1. ASSUME NEW d \in Callers, GetOrigins(d) PROVE FromSnapshot(c)
    <2>1. CASE SnapshotIsFresh /\ caller' = [caller EXCEPT ![d] = Says(d, snapshot.origins)]
      BY <1>0, <2>1 DEF FromSnapshot, Says, Calls
    <2>2. CASE caller' = [caller EXCEPT ![d] = WaitsFor("origins", d)]
      BY <1>0, <2>2 DEF WaitsFor, Calls
    <2>. QED BY <1>1, <2>1, <2>2 DEF GetOrigins
  <1>2. ASSUME NEW d \in Callers, ScanEnds(d) PROVE FromScan(c)
    <2>1. PICK s \in SUBSET Origins : read[d].results = <<s>>
      BY <1>0, <1>2 DEF ScanEnds, ScanOK
    <2>2. Hear(d, "answered", s) /\ s = read[d].results[1] BY <1>2, <2>1 DEF ScanEnds
    <2>3. caller'[c].said = s BY <1>0, <2>2, AllHear
    <2>. QED BY <1>2, <2>2, <2>3 DEF FromScan
  <1>3. ASSUME NEW d \in Callers, ScanFails(d) PROVE FALSE
    <2>. DEFINE at == IF snapshot.known THEN "stale" ELSE "failed"
    <2>1. at \in {"stale", "failed"} /\ snapshot.origins \in SUBSET (Origins \cup {"ok"})
      BY <1>0 DEF SharedTyped, Snapshots
    <2>2. Hear(d, at, snapshot.origins) BY <1>3 DEF ScanFails
    <2>. HIDE DEF at
    <2>3. at \in {"answered", "stale", "failed"} /\ at # "answered" BY <2>1
    <2>. QED BY <1>0, <2>1, <2>2, <2>3, AllHear
  <1>4. ASSUME NEW d \in Callers, CheckHealth(d) PROVE FromMemory(c)
    <2>1. CASE healthyLeft > 0 /\ read' = read /\ caller' = [caller EXCEPT ![d] = Says(d, {"ok"})]
      BY <1>0, <2>1 DEF FromMemory, Says, Calls
    <2>2. CASE caller' = [caller EXCEPT ![d] = WaitsFor("health", d)]
      BY <1>0, <2>2 DEF WaitsFor, Calls
    <2>. QED BY <1>4, <2>1, <2>2 DEF CheckHealth
  <1>5. ASSUME NEW d \in Callers, ProbeEnds(d) PROVE FromProbe(c)
    <2>. DEFINE up == \A on \in DOMAIN read[d].results : read[d].results[on] = "up"
    <2>1. /\ Hear(d, IF up THEN "answered" ELSE "failed", IF up THEN {"ok"} ELSE {})
          /\ read' = [read EXCEPT ![d].of = "ended"]
      BY <1>5 DEF ProbeEnds
    <2>2. CASE up
      <3>1. Hear(d, "answered", {"ok"}) BY <2>1, <2>2
      <3>2. caller'[c].said = {"ok"} BY <1>0, <3>1, AllHear
      <3>3. BothUp(read'[d]) BY <1>0, <2>1, <2>2 DEF BothUp, Reads
      <3>. QED BY <1>5, <3>2, <3>3 DEF FromProbe
    <2>3. CASE ~ up
      <3>1. Hear(d, "failed", {}) BY <2>1, <2>3
      <3>. QED BY <1>0, <3>1, AllHear
    <2>. QED BY <2>2, <2>3
  <1>6. ASSUME NEW d \in Callers, TimesOut(d) PROVE FALSE
    BY <1>0, <1>6 DEF TimesOut, Calls
  <1>7. ASSUME SharedTick PROVE FALSE
    <2>1. caller'[c].at = caller[c].at
      <3>1. CASE caller[c].at = "health"
        <4>1. caller'[c] = [caller[c] EXCEPT !.waited = UpTo(HealthTimeout, caller[c].waited)]
          BY <1>7, <3>1 DEF SharedTick
        <4>. QED BY <1>0, <4>1 DEF Calls
      <3>2. CASE caller[c].at # "health" BY <1>7, <3>2 DEF SharedTick
      <3>. QED BY <3>1, <3>2
    <2>. QED BY <1>0, <2>1
  <1>8. caller' # caller BY <1>0
  <1>9. \A d \in Callers : ~ ScanOrigins(d) /\ \A on, result : ~ Reply(d, on, result)
    BY <1>8 DEF ScanOrigins, Reply
  <1>10. \A o \in Origins : ~ OriginChanges(o) BY <1>8 DEF OriginChanges
  <1>. QED BY <1>1, <1>2, <1>3, <1>4, <1>5, <1>6, <1>7, <1>9, <1>10
           DEF SharedNext, OriginsNext, HealthNext

LEMMA OriginsAnsweredRecent ==
  ASSUME SharedInv, SharedNext, NEW c \in Callers, Hears(c, "answered"), caller'[c].said # {"ok"},
         NEW o \in Origins, (o \in caller'[c].said) # (o \in registered)
  PROVE  changed[o] <= OriginsTtl + MaxScan
  <1>0. /\ changed \in [Origins -> Nat] /\ SnapshotOK /\ SharedTyped
        /\ \A d \in Callers : ScanOK(d)
    BY DEF SharedInv, SharedTyped
  <1>1. CASE FromSnapshot(c)
    <2>1. snapshot.age \in Nat BY <1>0 DEF SharedTyped, Snapshots
    <2>2. snapshot.age <= OriginsTtl /\ changed[o] <= MaxScan + snapshot.age
      BY <1>0, <1>1 DEF FromSnapshot, SnapshotIsFresh, SnapshotOK, Recent, Lately
    <2>. QED BY <1>0, <2>1, <2>2, SharedNumbers
  <1>2. CASE FromScan(c)
    <2>1. PICK d \in Callers : ScanEnds(d) /\ caller'[c].said = read[d].results[1]
      BY <1>2 DEF FromScan
    <2>2. PICK s \in SUBSET Origins : read[d].results = <<s>> /\ Recent(s, read[d].age)
      BY <1>0, <2>1 DEF ScanEnds, ScanOK
    <2>3. read[d].age \in Nat /\ read[d].age <= MaxScan
      BY <1>0, <2>1 DEF ScanEnds, ScanOK, SharedTyped, Reads
    <2>4. changed[o] <= read[d].age BY <2>1, <2>2 DEF Recent, Lately
    <2>. QED BY <1>0, <2>3, <2>4, SharedNumbers
  <1>. QED BY <1>1, <1>2, AnswersComeFrom DEF FromMemory, FromProbe

\* A probe that answered well, not longer ago than that is good for, or ends now.
Vouches(d) ==
  /\ read'[d].of = "ended" /\ \A on \in DOMAIN read'[d].results : read'[d].results[on] = "up"
  /\ read'[d].age < HealthyFor \/ read[d].of = "probe"

LEMMA HealthAnsweredTrue ==
  ASSUME SharedInv, SharedNext, NEW c \in Callers, Hears(c, "answered"), caller'[c].said = {"ok"}
  PROVE  \E d \in Callers : Vouches(d)
  <1>0. /\ SharedTyped /\ HealthyOK /\ healthyLeft \in Nat
        /\ \A d \in Callers : ScanOK(d)
    BY DEF SharedInv, SharedTyped
  <1>1. CASE FromSnapshot(c)
    <2>1. snapshot.origins \subseteq Origins BY <1>0 DEF SharedTyped, Snapshots
    <2>. QED BY <1>1, <2>1, SharedNumbers DEF FromSnapshot
  <1>2. CASE FromScan(c)
    <2>1. PICK d \in Callers : ScanEnds(d) /\ caller'[c].said = read[d].results[1]
      BY <1>2 DEF FromScan
    <2>2. PICK s \in SUBSET Origins : read[d].results = <<s>>
      BY <1>0, <2>1 DEF ScanEnds, ScanOK
    <2>3. s = {"ok"} BY <2>1, <2>2
    <2>. QED BY <2>3, SharedNumbers
  <1>3. CASE FromMemory(c)
    <2>1. PICK d \in Callers : BothUp(read[d]) /\ read[d].age + healthyLeft <= HealthyFor
      BY <1>0, <1>3 DEF FromMemory, HealthyOK
    <2>2. read[d].age \in Nat /\ healthyLeft > 0 /\ read' = read
      BY <1>0, <1>3 DEF FromMemory, SharedTyped, Reads
    <2>3. read[d].age < HealthyFor BY <1>0, <2>1, <2>2, SharedNumbers
    <2>. QED BY <2>1, <2>2, <2>3 DEF BothUp, Vouches
  <1>4. CASE FromProbe(c)
    BY <1>4 DEF FromProbe, ProbeEnds, Settled, BothUp, Vouches
  <1>. QED BY <1>1, <1>2, <1>3, <1>4, AnswersComeFrom

LEMMA OneReadAtATime == SharedInv => OneAtATime
  <1>. SUFFICES ASSUME SharedInv, NEW kind \in {"scan", "probe"}
                PROVE  Cardinality({c \in Callers : read[c].of = kind}) <= 1
    BY DEF OneAtATime
  <1>. DEFINE these == {c \in Callers : read[c].of = kind}
  <1>1. \E d : these \subseteq {d}
    BY DEF SharedInv, ReadOK
  <1>2. PICK d : these \subseteq {d} BY <1>1
  <1>3. IsFiniteSet({d}) /\ Cardinality({d}) = 1 BY FS_Singleton
  <1>4. Cardinality(these) <= Cardinality({d}) BY <1>2, <1>3, FS_Subset
  <1>. QED BY <1>3, <1>4

\* However many come, wait and give up, the scan and the probe are made once at a
\* time, an origin that is answered was registered within the lifetime of a snapshot,
\* and "ok" is said of a probe that went well (client-directory.ts:31, readiness.ts:25).
THEOREM SharedReadsAlwaysHold == SharedSpec => SharedReadsHold
  <1>1. SharedInv /\ [SharedNext]_sharedVars => OneAtATime'
    <2>1. SharedInv' => OneAtATime' BY OneReadAtATime, PTL
    <2>. QED BY <2>1, SharedInvStep
  <1>2. SharedInv /\ [SharedNext]_sharedVars =>
          [\A c \in Callers : Hears(c, "answered") /\ caller'[c].said # {"ok"} =>
             \A o \in Origins :
               (o \in caller'[c].said) # (o \in registered) => changed[o] <= OriginsTtl + MaxScan]_sharedVars
    BY OriginsAnsweredRecent
  <1>3. SharedInv /\ [SharedNext]_sharedVars =>
          [\A c \in Callers : Hears(c, "answered") /\ caller'[c].said = {"ok"} =>
             \E d \in Callers :
               /\ read'[d].of = "ended" /\ \A on \in DOMAIN read'[d].results : read'[d].results[on] = "up"
               /\ read'[d].age < HealthyFor \/ read[d].of = "probe"]_sharedVars
    BY HealthAnsweredTrue DEF Vouches
  <1>. QED BY <1>1, <1>2, <1>3, SharedInvariant, PTL
           DEF SharedSpec, SharedReadsHold, OriginsAreRecent, HealthIsTrue
================================================================================
