----------------------------- MODULE AccountsProofs -----------------------------
(***************************************************************************)
(* Proofs about Accounts, for any verifications, requests, lifetimes and   *)
(* bound of the clock: what becomes of the User row, and of the sessions.  *)
(*                                                                         *)
(* NewestNameStands is about a row that is there; that a row which is not  *)
(* there has no verification behind it makes it inductive.                 *)
(*                                                                         *)
(* The sessions need two facts that no property states.  Marked: the marker*)
(* is of the last erasure, or gone since a session as old cannot live.     *)
(* RequestOK: what a request holds at each step, since between two calls   *)
(* of Redis it goes by what it read, not by what is stored.                *)
(***************************************************************************)
EXTENDS Accounts, TLAPS

RowInv == UsersTypeOK /\ NewestNameStands /\ (~row.present => arrived = {})

NameInv == now \in Times /\ RowInv

LEMMA NameInvInit == Init => NameInv
  <1>. SUFFICES ASSUME Init PROVE NameInv OBVIOUS
  <1>1. 0 \in Times BY SessionsAssumption DEF Times
  <1>2. /\ now = 0 /\ name = 0 /\ made = {} /\ row = NoRow /\ arrived = {}
        /\ resolved = FALSE
    BY DEF Init
  <1>3. row \in Row /\ ~row.present BY <1>1, <1>2 DEF Row, NoRow
  <1>. QED BY <1>1, <1>2, <1>3 DEF NameInv, RowInv, UsersTypeOK, NewestNameStands

\* A verification that arrives, early or late.
LEMMA UpsertKeepsRow ==
  ASSUME RowInv, NEW m \in made, UpsertVerifiedUser(m)
  PROVE  RowInv'
  <1>. USE DEF RowInv, UsersTypeOK
  <1>1. /\ m.v \in Verification /\ m.v.at \in Int /\ m.v.name \in Times /\ m.v.at \in Times
        /\ m \in [id : Verifications, v : Verification]
    BY DEF Verification, Times
  <1>2. /\ arrived' = arrived \cup {m} /\ made' \subseteq made /\ UNCHANGED name
        /\ resolved' = (resolved /\ row'.name = row.name)
    BY DEF UpsertVerifiedUser
  <1>3. row \in Row /\ row.first \in Int /\ row.last \in Int /\ row.present \in BOOLEAN
    BY DEF Row, Times
  <1>4. \A n \in arrived : n.v.at \in Int BY DEF Verification, Times
  <1>5. CASE ~row.present
    <2>1. row' = [present |-> TRUE, name |-> m.v.name, first |-> m.v.at, last |-> m.v.at]
      BY <1>5 DEF UpsertVerifiedUser
    <2>2. row' \in Row BY <1>1, <2>1 DEF Row
    <2>3. arrived' = {m} BY <1>2, <1>5
    <2>4. NewestNameStands' BY <1>1, <2>1, <2>3 DEF NewestNameStands
    <2>5. resolved' \in BOOLEAN BY <1>2
    <2>. QED BY <1>1, <1>2, <2>1, <2>2, <2>3, <2>4, <2>5
  <1>6. CASE row.present
    <2>1. row' = Upserted(m.v) BY <1>6 DEF UpsertVerifiedUser
    <2>2. /\ row'.present = TRUE
          /\ row'.name = IF m.v.at > row.last THEN m.v.name ELSE row.name
          /\ row'.first = IF m.v.at < row.first THEN m.v.at ELSE row.first
          /\ row'.last = IF m.v.at > row.last THEN m.v.at ELSE row.last
      BY <1>3, <1>6, <2>1 DEF Upserted, Row
    <2>3. row' \in Row BY <1>1, <1>3, <2>1 DEF Upserted, Row
    <2>4. /\ \E n \in arrived : n.v.at = row.last /\ (resolved \/ n.v.name = row.name)
          /\ \E n \in arrived : n.v.at = row.first
          /\ \A n \in arrived : row.first <= n.v.at /\ n.v.at <= row.last
      BY <1>6 DEF NewestNameStands
    <2>5. \E n \in arrived' : n.v.at = row'.last /\ (resolved' \/ n.v.name = row'.name)
      <3>1. CASE m.v.at > row.last BY <3>1, <1>2, <2>2
      <3>2. CASE ~(m.v.at > row.last)
        <4>1. PICK n \in arrived : n.v.at = row.last /\ (resolved \/ n.v.name = row.name)
          BY <2>4
        <4>2. resolved' = resolved BY <3>2, <1>2, <2>2
        <4>. QED BY <3>2, <4>1, <4>2, <1>2, <2>2
      <3>. QED BY <3>1, <3>2
    <2>6. \E n \in arrived' : n.v.at = row'.first BY <1>2, <2>2, <2>4
    <2>7. ASSUME NEW n \in arrived' PROVE row'.first <= n.v.at /\ n.v.at <= row'.last
      <3>1. row.first <= row.last BY <1>3, <1>4, <2>4
      <3>2. CASE n = m BY <3>1, <3>2, <1>1, <1>3, <2>2
      <3>3. CASE n \in arrived BY <3>3, <1>1, <1>3, <1>4, <2>2, <2>4
      <3>. QED BY <1>2, <3>2, <3>3
    <2>8. NewestNameStands' BY <2>5, <2>6, <2>7 DEF NewestNameStands
    <2>9. resolved' \in BOOLEAN BY <1>2
    <2>. QED BY <1>1, <1>2, <2>2, <2>3, <2>8, <2>9
  <1>. QED BY <1>5, <1>6

\* The resolver, told whatever name the player had.
LEMMA ResolvingKeepsRow ==
  ASSUME RowInv, ResolveUsername
  PROVE  RowInv'
  <1>. USE DEF RowInv, UsersTypeOK
  <1>1. PICK told \in 0..name : row.present /\ row' = [row EXCEPT !.name = told]
    BY DEF ResolveUsername
  <1>2. resolved' = TRUE /\ UNCHANGED <<name, made, arrived>> BY DEF ResolveUsername
  <1>3. told \in Times BY SessionsAssumption DEF Times
  <1>4. row' \in Row /\ row'.present = row.present /\ row'.first = row.first /\ row'.last = row.last
    BY <1>1, <1>3 DEF Row
  <1>5. NewestNameStands' BY <1>1, <1>2, <1>4 DEF NewestNameStands
  <1>. QED BY <1>1, <1>2, <1>4, <1>5

LEMMA NameInvStep == NameInv /\ [Next]_vars => NameInv'
  <1>. SUFFICES ASSUME NameInv, [Next]_vars PROVE NameInv' OBVIOUS
  <1>. USE DEF NameInv
  <1>1. ASSUME UNCHANGED nvars PROVE RowInv'
    BY <1>1 DEF nvars, RowInv, UsersTypeOK, NewestNameStands
  <1>3. CASE UNCHANGED vars BY <1>1, <1>3 DEF vars
  <1>4. CASE OfNames
    <2>1. UNCHANGED now BY <1>4 DEF OfNames
    <2>2. ASSUME Rename PROVE RowInv'
      BY <2>2 DEF Rename, RowInv, UsersTypeOK, NewestNameStands
    <2>3. ASSUME NEW v \in Verifications, Verify(v) PROVE RowInv'
      BY <2>3 DEF Verify, RowInv, UsersTypeOK, NewestNameStands, Verification
    <2>4. ASSUME NEW m \in made, UpsertVerifiedUser(m) PROVE RowInv'
      BY <2>4, UpsertKeepsRow
    <2>5. ASSUME ResolveUsername PROVE RowInv'
      BY <2>5, ResolvingKeepsRow
    <2>6. \/ Rename \/ (\E v \in Verifications : Verify(v))
          \/ (\E m \in made : UpsertVerifiedUser(m)) \/ ResolveUsername
      BY <1>4 DEF OfNames
    <2>7. RowInv' BY <2>2, <2>3, <2>4, <2>5, <2>6
    <2>. QED BY <2>1, <2>7
  <1>5. CASE Passes
    <2>1. now' \in Times BY <1>5, SessionsAssumption DEF Passes, Elapse, Tick, Times
    <2>. QED BY <1>1, <1>5, <2>1 DEF Passes
  <1>6. ASSUME NEW r \in Requests, EraseRow(r) PROVE NameInv'
    <2>1. NoRow \in Row BY SessionsAssumption DEF NoRow, Row, Times
    <2>2. ~NoRow.present BY DEF NoRow
    <2>. QED BY <1>6, <2>1, <2>2
         DEF EraseRow, DeleteRow, RowInv, UsersTypeOK, NewestNameStands
  <1>7. ASSUME NEW r \in Requests,
               \/ Begin(r) \/ BeginSwitch(r) \/ Lookup(r) \/ Get(r) \/ Marker(r) \/ Refuse(r)
               \/ Show(r) \/ Login(r) \/ Switch(r) \/ DropOld(r)
               \/ Save(r) \/ Screen(r) \/ Withdraw(r) \/ Write(r)
               \/ Erase(r) \/ DestroyOwn(r) \/ Abandon(r)
        PROVE  NameInv'
    <2>1. UNCHANGED <<now, nvars>>
      <3>. USE DEF Reads, Stores
      <3>1. CASE Begin(r) \/ BeginSwitch(r) \/ Lookup(r) \/ Get(r) \/ Marker(r) \/ Refuse(r)
        BY <3>1 DEF Begin, BeginSwitch, Lookup, Get, Marker, Refuse
      <3>2. CASE Show(r) \/ Login(r) \/ Switch(r) \/ DropOld(r)
        BY <3>2 DEF Show, Login, Switch, DropOld
      <3>3. CASE Save(r) \/ Screen(r) \/ Withdraw(r) \/ Write(r)
        BY <3>3 DEF Save, Screen, Withdraw, Write
      <3>4. CASE Erase(r) \/ DestroyOwn(r) \/ Abandon(r)
        BY <3>4 DEF Erase, DestroyOwn, Abandon
      <3>. QED BY <1>7, <3>1, <3>2, <3>3, <3>4
    <2>. QED BY <1>1, <2>1
  <1>. QED BY <1>3, <1>4, <1>5, <1>6, <1>7 DEF Next

\* The User row keeps its types (verified-user-repository.ts: upsertVerifiedUser).
THEOREM RowIsTyped == AccountsSpec => []UsersTypeOK
  <1>1. NameInv => UsersTypeOK BY DEF NameInv, RowInv
  <1>. QED BY <1>1, NameInvInit, NameInvStep, PTL DEF AccountsSpec

\* Whatever the order in which verifications arrive, and wherever an erasure or the
\* resolver comes between them, the row has the times of the first and the last and
\* the name of the last, or one the resolver wrote since
\* (verified-user-repository.ts: upsertVerifiedUser).
THEOREM NewestNameAlwaysStands == AccountsSpec => []NewestNameStands
  <1>1. NameInv => NewestNameStands BY DEF NameInv, RowInv
  <1>. QED BY <1>1, NameInvInit, NameInvStep, PTL DEF AccountsSpec

--------------------------------------------------------------------------------
(* The sessions of the account.                                            *)

\* What Redis keeps: a uid leads to what was written for it last.
Filed ==
  /\ record \in [Ids -> {None} \cup Record]
  /\ index \in [Uids -> Ids \cup {None}]
  /\ newest \in [Uids -> Ids \cup {None}]
  /\ IndexedWhileLive

\* The marker is of the last erasure, and gone only when no older session can live.
Marked ==
  /\ now \in Times
  /\ since \in 0..(now + 1)
  /\ marker \in [at : Times, set : BOOLEAN]
  /\ marker.set => marker.at + 1 = since
  /\ ~marker.set => since = 0 \/ since + AbsoluteTtl <= now + 1

\* What a request holds at each of its steps; why it refuses or withdraws a session,
\* why it has let it pass, and that it was young when it was read.
RequestOK(q) ==
  /\ q.since <= since
  /\ q.pc = "lookup" => q.uid \in Uids
  /\ q.pc \in {"get", "marker", "accepted", "drop", "save", "screen", "write", "withdraw", "own"}
       => q.id \in Ids
  /\ q.pc \in {"marker", "accepted", "drop", "screen", "write", "withdraw"} => q.held \in Payload
  /\ q.pc = "drop" => q.old \in Ids
  /\ q.pc = "save" => q.held \in Payload \/ (q.held = None /\ q.uid \in Uids)
  /\ (q.pc = "refuse" /\ q.id # None) \/ q.pc = "withdraw" =>
       /\ q.held \in Payload
       /\ PastAbsoluteLifetime(q.held) \/ (q.held.account # None /\ q.held.iat < since)
  /\ q.pc = "accepted" /\ q.held.account # None =>
       \/ q.since <= q.held.iat
       \/ q.kind \notin OfAccountPage /\ PastAbsoluteLifetime(q.held)
  /\ q.pc = "marker" => q.found < q.held.iat + AbsoluteTtl

Requested ==
  /\ req \in [Requests -> Request]
  /\ \A r \in Requests, q \in Request : req[r] = q => RequestOK(q)

SessionInv == NameInv /\ Marked /\ Filed /\ Requested /\ focus \in {"sessions", "names"}

LEMMA TimeFacts ==
  /\ SlidingTtl \in Nat /\ AbsoluteTtl \in Nat /\ MaxTime \in Nat /\ Tolerance \in Nat
  /\ 0 < SlidingTtl /\ SlidingTtl <= AbsoluteTtl /\ 0 \in Times /\ Times \subseteq Nat
  /\ None \notin Ids /\ None \notin Uids /\ None \notin Payload /\ None \notin Record
  /\ \A p \in Payload : p.iat \in Times /\ p.iat \in Nat /\ p.uid \in Uids
  BY SessionsAssumption, NothingAssumption DEF Times, Payload

LEMMA IdleIsOK ==
  ASSUME Marked
  PROVE  RequestOK(Idle) /\ Idle \in Request /\ Idle.id = None /\ Idle.held = None
  BY TimeFacts DEF Idle, Request, RequestOK, Marked, Kinds, Steps

LEMMA SessionInvInit == Init => SessionInv
  <1>. SUFFICES ASSUME Init PROVE SessionInv OBVIOUS
  <1>1. NameInv BY NameInvInit
  <1>2. Marked BY TimeFacts DEF Init, Marked, NoMarker
  <1>3. Filed BY TimeFacts DEF Init, Filed, IndexedWhileLive
  <1>4. RequestOK(Idle) /\ Idle \in Request BY <1>2, IdleIsOK
  <1>5. RequestOK([Idle EXCEPT !.pc = "row"]) /\ [Idle EXCEPT !.pc = "row"] \in Request
    BY <1>2, TimeFacts DEF Idle, Request, RequestOK, Marked, Kinds, Steps
  <1>6. Requested BY <1>4, <1>5 DEF Init, Requested
  <1>. QED BY <1>1, <1>2, <1>3, <1>6 DEF Init, SessionInv

\* An erasure that is not marked any more is longer ago than a session can live.
LEMMA ErasedIsSeen ==
  ASSUME Marked, NEW p \in Payload, p.account # None
  PROVE  /\ Invalidated(p) => p.iat < since
         /\ p.iat < since => Invalidated(p) \/ PastAbsoluteLifetime(p)
  <1>1. now \in Nat /\ since \in Nat /\ marker.at \in Nat /\ p.iat \in Nat BY TimeFacts DEF Marked
  <1>. QED BY <1>1, TimeFacts DEF Marked, Invalidated, PastAbsoluteLifetime

\* What holds of a request goes on to hold.
LEMMA Stays ==
  ASSUME Marked, Marked', now <= now', since <= since', NEW q \in Request, RequestOK(q)
  PROVE  RequestOK(q)'
  <1>1. /\ now \in Nat /\ now' \in Nat /\ since \in Nat /\ since' \in Nat /\ q.since \in Nat
    BY TimeFacts DEF Marked, Request
  <1>2. ASSUME q.held \in Payload, PastAbsoluteLifetime(q.held) PROVE PastAbsoluteLifetime(q.held)'
    <2>1. q.held.iat \in Nat /\ AbsoluteTtl \in Nat BY <1>2, TimeFacts
    <2>2. q.held.iat + AbsoluteTtl <= now BY <1>2 DEF PastAbsoluteLifetime
    <2>3. q.held.iat + AbsoluteTtl <= now' BY <1>1, <2>1, <2>2
    <2>. QED BY <2>3 DEF PastAbsoluteLifetime
  <1>3. q.since <= since' BY <1>1 DEF RequestOK
  <1>4. ASSUME q.held \in Payload, q.held.iat < since PROVE q.held.iat < since'
    <2>1. q.held.iat \in Nat BY <1>4, TimeFacts
    <2>. QED BY <1>1, <1>4, <2>1
  <1>. QED BY <1>2, <1>3, <1>4 DEF RequestOK

\* One request goes on.
LEMMA Turned ==
  ASSUME Marked, Marked', now <= now', since <= since', Requested,
         NEW r \in Requests, NEW q \in Request, Turns(r, q), RequestOK(q)'
  PROVE  Requested'
  <1>1. req' \in [Requests -> Request] BY DEF Turns, Requested
  <1>2. ASSUME NEW x \in Requests, NEW y \in Request, req'[x] = y PROVE RequestOK(y)'
    <2>1. CASE x = r BY <1>2, <2>1 DEF Turns, Requested
    <2>2. CASE x # r
      <3>1. req[x] = y BY <1>2, <2>2 DEF Turns, Requested
      <3>2. RequestOK(y) BY <3>1 DEF Requested
      <3>. QED BY <3>2, Stays
    <2>. QED BY <2>1, <2>2
  <1>. QED BY <1>1, <1>2 DEF Requested

LEMMA NoneTurned ==
  ASSUME Marked, Marked', now <= now', since <= since', Requested, UNCHANGED req
  PROVE  Requested'
  <1>2. ASSUME NEW x \in Requests, NEW y \in Request, req'[x] = y PROVE RequestOK(y)'
    <2>2. RequestOK(y) BY <1>2 DEF Requested
    <2>. QED BY <2>2, Stays
  <1>. QED BY <1>2 DEF Requested

\* What holds of the records and the index holds after each script.
LEMMA DestroyKeeps ==
  ASSUME Filed, NEW s \in Ids, Destroy(s), UNCHANGED newest
  PROVE  Filed'
  <1>1. record' = [record EXCEPT ![s] = None] /\ index' = Unindexed(s) BY DEF Destroy
  <1>2. record' \in [Ids -> {None} \cup Record] BY <1>1 DEF Filed
  <1>3. index' \in [Uids -> Ids \cup {None}] BY <1>1 DEF Filed, Unindexed
  <1>4. ASSUME NEW u \in Uids, newest'[u] # None, record'[newest'[u]] # None PROVE index'[u] = newest'[u]
    <2>1. newest[u] \in Ids /\ newest[u] # s /\ Live(newest[u])
      BY <1>1, <1>4 DEF Filed, Live
    <2>2. index[u] = newest[u] BY <2>1, <1>4 DEF Filed, IndexedWhileLive
    <2>3. index'[u] = index[u] BY <1>1, <2>1, <2>2 DEF Unindexed, Filed
    <2>. QED BY <2>2, <2>3
  <1>5. IndexedWhileLive' BY <1>4 DEF IndexedWhileLive, Live
  <1>. QED BY <1>2, <1>3, <1>5 DEF Filed

LEMMA UpsertKeeps ==
  ASSUME Filed, NEW s \in Ids, NEW p \in Payload, NEW ttl \in 0..AbsoluteTtl, now \in Times,
         Upsert(s, p, ttl),
         newest' = [u \in Uids |-> IF u = p.uid THEN s
                                   ELSE IF newest[u] = s THEN None ELSE newest[u]]
  PROVE  Filed'
  <1>1. /\ index' = [Unindexed(s) EXCEPT ![p.uid] = s]
        /\ record' = [record EXCEPT ![s] = [payload |-> p, until |-> now + ttl + Tolerance]]
    BY DEF Upsert
  <1>2. p.uid \in Uids /\ s # None BY TimeFacts
  <1>3. now + ttl + Tolerance \in 0..(MaxTime + AbsoluteTtl + Tolerance)
    BY TimeFacts DEF Times
  <1>4. [payload |-> p, until |-> now + ttl + Tolerance] \in Record BY <1>3 DEF Record
  <1>5. record' \in [Ids -> {None} \cup Record] BY <1>1, <1>4 DEF Filed
  <1>6. Unindexed(s) \in [Uids -> Ids \cup {None}] BY DEF Filed, Unindexed
  <1>7. index' \in [Uids -> Ids \cup {None}] BY <1>1, <1>6
  <1>8. newest' \in [Uids -> Ids \cup {None}] BY DEF Filed
  <1>9. ASSUME NEW u \in Uids, newest'[u] # None, record'[newest'[u]] # None PROVE index'[u] = newest'[u]
    <2>1. CASE u = p.uid BY <2>1, <1>1, <1>2, <1>6
    <2>2. CASE u # p.uid
      <3>1. newest'[u] = newest[u] /\ newest[u] \in Ids /\ newest[u] # s
        BY <2>2, <1>9 DEF Filed
      <3>2. Live(newest[u]) BY <3>1, <1>9, <1>1 DEF Filed, Live
      <3>3. index[u] = newest[u] BY <3>1, <3>2, <1>9 DEF Filed, IndexedWhileLive
      <3>4. Unindexed(s)[u] = index[u] BY <3>1, <3>3 DEF Unindexed, Filed
      <3>5. index'[u] = index[u] BY <1>1, <1>6, <2>2, <3>4
      <3>. QED BY <3>1, <3>3, <3>5
    <2>. QED BY <2>1, <2>2
  <1>10. IndexedWhileLive' BY <1>9 DEF IndexedWhileLive, Live
  <1>. QED BY <1>5, <1>7, <1>8, <1>10 DEF Filed

LEMMA ElapseKeeps ==
  ASSUME Filed, Elapse, UNCHANGED newest
  PROVE  Filed'
  <1>1. /\ record' = [s \in Ids |-> IF Live(s) /\ record[s].until <= now' THEN None ELSE record[s]]
        /\ index' = [u \in Uids |->
             IF index[u] # None /\ record'[index[u]] = None THEN None ELSE index[u]]
    BY DEF Elapse
  <1>2. record' \in [Ids -> {None} \cup Record] BY <1>1 DEF Filed
  <1>3. index' \in [Uids -> Ids \cup {None}] BY <1>1 DEF Filed
  <1>4. ASSUME NEW u \in Uids, newest'[u] # None, record'[newest'[u]] # None PROVE index'[u] = newest'[u]
    <2>1. newest'[u] = newest[u] /\ newest[u] \in Ids /\ record'[newest[u]] # None
      BY <1>4 DEF Filed, Live
    <2>2. Live(newest[u]) BY <1>1, <2>1 DEF Live
    <2>3. index[u] = newest[u] BY <2>1, <2>2, <1>4 DEF Filed, IndexedWhileLive
    <2>. QED BY <1>1, <2>1, <2>3
  <1>5. IndexedWhileLive' BY <1>4 DEF IndexedWhileLive, Live
  <1>. QED BY <1>2, <1>3, <1>5 DEF Filed

\* The marker goes when AbsoluteTtl has passed since the erasure.
LEMMA ElapseMarks ==
  ASSUME Marked, Elapse, UNCHANGED since
  PROVE  Marked' /\ now <= now'
  <1>1. /\ now' = now + 1 /\ now' \in Times
        /\ marker' = IF marker.at + AbsoluteTtl <= now' THEN NoMarker ELSE marker
    BY TimeFacts DEF Elapse, Tick, Times, Marked
  <1>2. now \in Nat /\ since \in 0..(now + 1) /\ marker.at \in Nat BY TimeFacts DEF Marked
  <1>3. marker' \in [at : Times, set : BOOLEAN] BY <1>1, TimeFacts DEF Marked, NoMarker
  <1>4. since' \in 0..(now' + 1) BY <1>1, <1>2
  <1>5. CASE marker.at + AbsoluteTtl <= now'
    <2>1. marker' = NoMarker /\ ~marker'.set BY <1>1, <1>5 DEF NoMarker
    <2>2. since' = 0 \/ since' + AbsoluteTtl <= now' + 1
      BY <1>1, <1>2, <1>5, TimeFacts DEF Marked
    <2>. QED BY <1>1, <1>2, <1>3, <1>4, <2>1, <2>2 DEF Marked
  <1>6. CASE ~(marker.at + AbsoluteTtl <= now')
    <2>1. marker' = marker BY <1>1, <1>6
    <2>2. ~marker.set => since = 0 \/ since + AbsoluteTtl <= now' + 1
      BY <1>1, <1>2, TimeFacts DEF Marked
    <2>. QED BY <1>1, <1>2, <1>3, <1>4, <2>1, <2>2 DEF Marked
  <1>. QED BY <1>5, <1>6

LEMMA SameMarked == ASSUME Marked, UNCHANGED <<now, marker, since>>
                    PROVE  Marked' /\ now <= now' /\ since <= since'
  BY TimeFacts DEF Marked
LEMMA SameFiled == ASSUME Filed, UNCHANGED <<record, index, newest>> PROVE Filed'
  BY DEF Filed, IndexedWhileLive, Live

\* A request that ends, or goes on without a change of what is stored.
LEMMA Ended ==
  ASSUME Marked, Marked', now <= now', since <= since', Requested, NEW r \in Requests, Ends(r)
  PROVE  Requested'
  <1>1. Idle \in Request /\ RequestOK(Idle) BY IdleIsOK
  <1>2. RequestOK(Idle)' BY <1>1, Stays
  <1>. QED BY <1>1, <1>2, Turned DEF Ends

LEMMA GoesOn ==
  ASSUME SessionInv, Reads, NEW r \in Requests, NEW q \in Request, Turns(r, q), RequestOK(q)
  PROVE  Marked' /\ Filed' /\ Requested'
  <1>1. Marked' /\ now <= now' /\ since <= since'
    BY SameMarked DEF Reads, rvars, SessionInv
  <1>2. Filed' BY SameFiled DEF Reads, rvars, SessionInv
  <1>3. RequestOK(q)' BY <1>1, Stays DEF SessionInv
  <1>4. Requested' BY <1>1, <1>3, Turned DEF SessionInv
  <1>. QED BY <1>1, <1>2, <1>4

LEMMA Asked ==
  ASSUME SessionInv, NEW r \in Requests
  PROVE  req[r] \in Request /\ RequestOK(req[r])
  BY DEF SessionInv, Requested

LEMMA Shapes == Kinds = {"page", "authorize", "login", "switch", "erase"} /\ Steps =
  {"idle", "lookup", "get", "marker", "accepted", "refuse", "drop", "save",
   "screen", "write", "withdraw", "own", "row"}
  BY DEF Kinds, Steps

\* The steps that find a session.
LEMMA FindKeeps ==
  ASSUME SessionInv, NEW r \in Requests,
         Begin(r) \/ BeginSwitch(r) \/ Lookup(r) \/ Get(r) \/ Show(r) \/ Abandon(r)
  PROVE  Marked' /\ Filed' /\ Requested' /\ UNCHANGED focus
  <1>. DEFINE Result == Marked' /\ Filed' /\ Requested' /\ UNCHANGED focus
  <1>1. req[r] \in Request /\ RequestOK(req[r]) BY Asked
  <1>2. /\ now \in Times /\ now \in Nat /\ since \in 0..(MaxTime + 1)
        /\ RequestOK(Idle) /\ Idle \in Request
    BY IdleIsOK, TimeFacts DEF SessionInv, Marked, Times
  <1>3. ASSUME Reads, NEW q \in Request, Turns(r, q), RequestOK(q) PROVE Result
    BY <1>3, GoesOn DEF Reads
  <1>4. ASSUME Reads, Ends(r) PROVE Result BY <1>2, <1>3, <1>4 DEF Ends
  <1>5. ASSUME Begin(r) PROVE Result
    <2>1. PICK kind \in Kinds, id \in Ids \cup {None} :
            Turns(r, [Idle EXCEPT !.pc = IF id = None THEN "refuse" ELSE "get", !.kind = kind,
                                  !.id = id, !.since = since])
      BY <1>5 DEF Begin, Turns
    <2>. DEFINE q == [Idle EXCEPT !.pc = IF id = None THEN "refuse" ELSE "get", !.kind = kind,
                                  !.id = id, !.since = since]
    <2>2. q \in Request
      <3>1. (IF id = None THEN "refuse" ELSE "get") \in Steps BY Shapes
      <3>. QED BY <1>2, <3>1 DEF Request, Idle
    <2>3. RequestOK(q) BY <1>2 DEF RequestOK, Idle
    <2>4. Reads BY <1>5 DEF Begin
    <2>. HIDE DEF q, Result
    <2>5. Turns(r, q) BY <2>1 DEF q
    <2>. QED BY <1>3, <2>2, <2>3, <2>4, <2>5
  <1>6. ASSUME BeginSwitch(r) PROVE Result
    <2>1. PICK u \in Uids :
            Turns(r, [Idle EXCEPT !.pc = "lookup", !.kind = "switch", !.uid = u, !.since = since])
      BY <1>6 DEF BeginSwitch, Turns
    <2>. DEFINE q == [Idle EXCEPT !.pc = "lookup", !.kind = "switch", !.uid = u, !.since = since]
    <2>2. q \in Request BY <1>2, Shapes DEF Request, Idle
    <2>3. RequestOK(q) BY <1>2 DEF RequestOK, Idle
    <2>4. Reads BY <1>6 DEF BeginSwitch
    <2>. HIDE DEF q, Result
    <2>5. Turns(r, q) BY <2>1 DEF q
    <2>. QED BY <1>3, <2>2, <2>3, <2>4, <2>5
  <1>7. ASSUME Lookup(r) PROVE Result
    <2>1. Reads BY <1>7 DEF Lookup
    <2>2. CASE index[req[r].uid] = None BY <1>4, <1>7, <2>1, <2>2 DEF Lookup
    <2>3. CASE index[req[r].uid] # None
      <3>. DEFINE q == [req[r] EXCEPT !.pc = "get", !.id = index[req[r].uid]]
      <3>1. Turns(r, q) BY <1>1, <1>7, <2>3 DEF Lookup, Turns, SessionInv, Requested
      <3>2. index[req[r].uid] \in Ids
        BY <1>1, <1>7, <2>3 DEF Lookup, At, RequestOK, SessionInv, Filed
      <3>3. q \in Request BY <1>1, <3>2, Shapes DEF Request
      <3>4. RequestOK(q) BY <1>1, <3>2 DEF RequestOK, Request
      <3>. HIDE DEF q, Result
      <3>. QED BY <1>3, <2>1, <3>1, <3>3, <3>4
    <2>. QED BY <2>2, <2>3
  <1>8. ASSUME Get(r) PROVE Result
    <2>. DEFINE s == req[r].id  p == record[s].payload
    <2>1. Reads BY <1>8 DEF Get
    <2>2. s \in Ids BY <1>1, <1>8 DEF Get, At, RequestOK
    <2>3. CASE ~Live(s)
      <3>1. Missing(r) BY <1>8, <2>3 DEF Get
      <3>. DEFINE q == [Idle EXCEPT !.pc = "refuse", !.kind = "authorize"]
      <3>2. q \in Request BY <1>2, Shapes DEF Request, Idle
      <3>3. RequestOK(q) BY <1>2 DEF RequestOK, Idle
      <3>4. Ends(r) \/ Turns(r, q) BY <3>1 DEF Missing
      <3>. HIDE DEF q, Result
      <3>. QED BY <1>3, <1>4, <2>1, <3>2, <3>3, <3>4
    <2>4. ASSUME Live(s) PROVE p \in Payload /\ record[s] \in Record
      BY <2>2, <2>4 DEF Live, SessionInv, Filed, Record
    <2>5. CASE Live(s) /\ PastAbsoluteLifetime(p)
      <3>. DEFINE q == [Idle EXCEPT !.pc = "refuse", !.kind = req[r].kind, !.id = req[r].id,
                                    !.held = p]
      <3>1. Turns(r, q) BY <1>8, <2>5 DEF Get, Refused
      <3>2. q \in Request BY <1>1, <1>2, <2>4, <2>5, Shapes DEF Request, Idle
      <3>3. RequestOK(q) BY <1>2, <2>4, <2>5 DEF RequestOK, Idle
      <3>. HIDE DEF q, Result
      <3>. QED BY <1>3, <2>1, <3>1, <3>2, <3>3
    <2>6. CASE Live(s) /\ ~PastAbsoluteLifetime(p)
      <3>. DEFINE q == [req[r] EXCEPT !.pc = "marker", !.held = p, !.found = now]
      <3>1. Turns(r, q) BY <1>8, <2>6 DEF Get
      <3>2. q \in Request BY <1>1, <1>2, <2>4, <2>6, Shapes DEF Request
      <3>3. now < p.iat + AbsoluteTtl
        BY <1>2, <2>4, <2>6, TimeFacts DEF PastAbsoluteLifetime
      <3>4. RequestOK(q) BY <1>1, <2>2, <2>4, <2>6, <3>3 DEF RequestOK, Request
      <3>. HIDE DEF q, Result
      <3>. QED BY <1>3, <2>1, <3>1, <3>2, <3>4
    <2>. QED BY <2>3, <2>5, <2>6
  <1>9. ASSUME Show(r) \/ Abandon(r) PROVE Result
    BY <1>4, <1>9 DEF Show, Abandon
  <1>. HIDE DEF Result
  <1>10. Result BY <1>5, <1>6, <1>7, <1>8, <1>9
  <1>. QED BY <1>10 DEF Result

\* The steps that decide on a session.
LEMMA DecideKeeps ==
  ASSUME SessionInv, NEW r \in Requests, Marker(r) \/ Login(r) \/ Save(r) \/ Screen(r)
  PROVE  Marked' /\ Filed' /\ Requested' /\ UNCHANGED focus
  <1>. DEFINE Result == Marked' /\ Filed' /\ Requested' /\ UNCHANGED focus
  <1>1. req[r] \in Request /\ RequestOK(req[r]) BY Asked
  <1>2. /\ now \in Times /\ now \in Nat /\ since \in Nat
        /\ RequestOK(Idle) /\ Idle \in Request /\ Marked
    BY IdleIsOK, TimeFacts DEF SessionInv, Marked, Times
  <1>3. ASSUME Reads, NEW q \in Request, Turns(r, q), RequestOK(q) PROVE Result
    BY <1>3, GoesOn DEF Reads
  <1>4. ASSUME Marker(r) PROVE Result
    <2>. DEFINE p == req[r].held
                late == req[r].kind \in OfAccountPage /\ PastAbsoluteLifetime(p)
    <2>1. Reads BY <1>4 DEF Marker
    <2>2. p \in Payload /\ req[r].id \in Ids BY <1>1, <1>4 DEF Marker, At, RequestOK
    <2>3. p.account # None => (Invalidated(p) => p.iat < since)
                              /\ (p.iat < since => Invalidated(p) \/ PastAbsoluteLifetime(p))
      BY <1>2, <2>2, ErasedIsSeen
    <2>4. CASE Invalidated(p) \/ late
      <3>. DEFINE q == [Idle EXCEPT !.pc = "refuse", !.kind = req[r].kind, !.id = req[r].id,
                                    !.held = p]
      <3>1. Turns(r, q) BY <1>4, <2>4 DEF Marker, Refused
      <3>2. q \in Request BY <1>1, <1>2, <2>2, Shapes DEF Request, Idle
      <3>3. PastAbsoluteLifetime(p) \/ (p.account # None /\ p.iat < since)
        BY <2>3, <2>4 DEF Invalidated
      <3>4. RequestOK(q) BY <1>2, <2>2, <3>3 DEF RequestOK, Idle
      <3>. HIDE DEF q, Result
      <3>. QED BY <1>3, <2>1, <3>1, <3>2, <3>4
    <2>5. CASE ~(Invalidated(p) \/ late)
      <3>. DEFINE q == [req[r] EXCEPT !.pc = "accepted", !.found = 0]
      <3>1. Turns(r, q) BY <1>4, <2>5 DEF Marker
      <3>2. q \in Request BY <1>1, Shapes, TimeFacts DEF Request
      <3>3. ASSUME p.account # None
            PROVE  req[r].since <= p.iat
                   \/ (req[r].kind \notin OfAccountPage /\ PastAbsoluteLifetime(p))
        <4>1. req[r].since \in Nat /\ p.iat \in Nat /\ req[r].since <= since
          BY <1>1, <2>2, TimeFacts DEF RequestOK, Request
        <4>2. CASE p.iat < since BY <2>3, <2>5, <3>3, <4>2
        <4>3. CASE ~(p.iat < since) BY <1>2, <4>1, <4>3
        <4>. QED BY <4>2, <4>3
      <3>4. RequestOK(q) BY <1>1, <2>2, <3>3 DEF RequestOK, Request
      <3>. HIDE DEF q, Result
      <3>. QED BY <1>3, <2>1, <3>1, <3>2, <3>4
    <2>. QED BY <2>4, <2>5
  <1>5. ASSUME Login(r) PROVE Result
    <2>1. Reads BY <1>5 DEF Login, Reads
    <2>2. PICK s \in NewIds :
            Turns(r, [Idle EXCEPT !.pc = "drop", !.id = s, !.old = req[r].id,
                                  !.held = [req[r].held EXCEPT !.account = Account]])
      BY <1>5 DEF Login
    <2>. DEFINE h == [req[r].held EXCEPT !.account = Account]
                q == [Idle EXCEPT !.pc = "drop", !.id = s, !.old = req[r].id, !.held = h]
    <2>3. req[r].held \in Payload /\ req[r].id \in Ids /\ s \in Ids
      BY <1>1, <1>5, <2>2 DEF Login, At, RequestOK, NewIds
    <2>4. h \in Payload BY <2>3 DEF Payload
    <2>5. q \in Request BY <1>2, <2>3, <2>4, Shapes DEF Request, Idle
    <2>6. RequestOK(q) BY <1>2, <2>3, <2>4 DEF RequestOK, Idle
    <2>. HIDE DEF q, Result
    <2>7. Turns(r, q) BY <2>2 DEF q
    <2>. QED BY <1>3, <2>1, <2>5, <2>6, <2>7
  <1>6. ASSUME Save(r) PROVE Result
    <2>. DEFINE p == IF req[r].held # None THEN req[r].held
                     ELSE [account |-> None, iat |-> now, uid |-> req[r].uid]
                q == [Idle EXCEPT !.pc = IF PastAbsoluteLifetime(p) THEN "withdraw" ELSE "screen",
                                  !.id = req[r].id, !.held = p, !.ttl = Ttl(p.iat)]
    <2>1. Reads /\ Turns(r, q) BY <1>6 DEF Save
    <2>2. req[r].id \in Ids BY <1>1, <1>6 DEF Save, At, RequestOK
    <2>3. p \in Payload
      BY <1>1, <1>2, <1>6, TimeFacts DEF Save, At, RequestOK, Payload
    <2>4. Ttl(p.iat) \in 0..AbsoluteTtl
      <3>. HIDE DEF p
      <3>. QED BY <1>2, <2>3, TimeFacts DEF Ttl, Least
    <2>. HIDE DEF p
    <2>5. q \in Request BY <1>2, <2>2, <2>3, <2>4, Shapes DEF Request, Idle
    <2>6. RequestOK(q) BY <1>2, <2>2, <2>3 DEF RequestOK, Idle
    <2>. HIDE DEF q, Result
    <2>. QED BY <1>3, <2>1, <2>5, <2>6
  <1>7. ASSUME Screen(r) PROVE Result
    <2>. DEFINE p == req[r].held
                q == [req[r] EXCEPT !.pc = IF Invalidated(p) THEN "withdraw" ELSE "write"]
    <2>1. Reads /\ Turns(r, q) BY <1>7 DEF Screen
    <2>2. req[r].id \in Ids /\ p \in Payload BY <1>1, <1>7 DEF Screen, At, RequestOK
    <2>3. Invalidated(p) => p.account # None /\ p.iat < since
      BY <1>2, <2>2, ErasedIsSeen DEF Invalidated
    <2>4. q \in Request BY <1>1, Shapes DEF Request
    <2>5. RequestOK(q) BY <1>1, <2>2, <2>3 DEF RequestOK, Request
    <2>. HIDE DEF q, Result
    <2>. QED BY <1>3, <2>1, <2>4, <2>5
  <1>. HIDE DEF Result
  <1>8. Result BY <1>4, <1>5, <1>6, <1>7
  <1>. QED BY <1>8 DEF Result

LEMMA Destroyed ==
  ASSUME SessionInv, NEW s \in Ids, Destroy(s), UNCHANGED <<now, since, newest>>
  PROVE  Marked' /\ Filed' /\ now <= now' /\ since <= since'
  <1>1. UNCHANGED marker BY DEF Destroy
  <1>2. Filed' BY DestroyKeeps DEF SessionInv
  <1>. QED BY <1>1, <1>2, SameMarked DEF SessionInv

\* The steps that destroy a session.
LEMMA DestroysKeep ==
  ASSUME SessionInv, NEW r \in Requests,
         Refuse(r) \/ Switch(r) \/ DropOld(r) \/ Withdraw(r) \/ DestroyOwn(r)
  PROVE  Marked' /\ Filed' /\ Requested' /\ UNCHANGED focus
  <1>. DEFINE Stored == Marked' /\ Filed' /\ now <= now' /\ since <= since'
              Result == Marked' /\ Filed' /\ Requested' /\ UNCHANGED focus
  <1>1. req[r] \in Request /\ RequestOK(req[r]) BY Asked
  <1>2. RequestOK(Idle) /\ Idle \in Request /\ Idle.id = None /\ Marked /\ Requested /\ Filed
        /\ now \in Nat /\ since \in Nat
    BY IdleIsOK, TimeFacts DEF SessionInv, Marked
  <1>3. ASSUME Stored, UNCHANGED focus, Ends(r) PROVE Result BY <1>2, <1>3, Ended
  <1>4. ASSUME Stored, UNCHANGED focus, NEW q \in Request, Turns(r, q), RequestOK(q) PROVE Result
    <2>1. RequestOK(q)' BY <1>2, <1>4, Stays
    <2>. QED BY <1>2, <1>4, <2>1, Turned
  <1>5. ASSUME Refuse(r) PROVE Result
    <2>1. Stored
      <3>1. CASE req[r].id = None
        <4>1. UNCHANGED <<record, index, marker, now, since, newest>>
          BY <1>5, <3>1 DEF Refuse, rvars
        <4>. QED BY <1>2, <4>1, SameMarked, SameFiled
      <3>2. CASE req[r].id # None
        <4>1. req[r].id \in Ids BY <1>1, <3>2 DEF Request
        <4>2. Destroy(req[r].id) /\ UNCHANGED <<now, since, newest>> BY <1>5, <3>2 DEF Refuse
        <4>. QED BY <4>1, <4>2, Destroyed
      <3>. QED BY <3>1, <3>2
    <2>2. UNCHANGED focus BY <1>5 DEF Refuse
    <2>3. CASE Ends(r)
      <3>. HIDE DEF Stored, Result
      <3>. QED BY <1>3, <2>1, <2>2, <2>3
    <2>4. CASE ~Ends(r)
      <3>1. PICK s \in NewIds, u \in NewUids :
              Turns(r, [Idle EXCEPT !.pc = "save", !.id = s, !.uid = u])
        BY <1>5, <2>4 DEF Refuse
      <3>. DEFINE q == [Idle EXCEPT !.pc = "save", !.id = s, !.uid = u]
      <3>2. s \in Ids /\ u \in Uids BY DEF NewIds, NewUids
      <3>3. q \in Request BY <1>2, <3>2, Shapes DEF Request, Idle
      <3>4. RequestOK(q) BY <1>2, <3>2 DEF RequestOK, Idle
      <3>. HIDE DEF q
      <3>5. Turns(r, q) BY <3>1 DEF q
      <3>. HIDE DEF Stored, Result
      <3>. QED BY <1>4, <2>1, <2>2, <3>3, <3>4, <3>5
    <2>. QED BY <2>3, <2>4
  <1>6. ASSUME Switch(r) \/ Withdraw(r) PROVE Result
    <2>1. req[r].id \in Ids BY <1>1, <1>6 DEF Switch, Withdraw, At, RequestOK
    <2>2. Destroy(req[r].id) /\ UNCHANGED <<now, since, newest, focus>> /\ Ends(r)
      BY <1>6 DEF Switch, Withdraw, Stores
    <2>3. Stored BY <2>1, <2>2, Destroyed
    <2>. HIDE DEF Stored, Result
    <2>. QED BY <1>3, <2>2, <2>3
  <1>7. ASSUME DropOld(r) PROVE Result
    <2>. DEFINE q == [req[r] EXCEPT !.pc = "save", !.old = None]
    <2>1. req[r].old \in Ids /\ req[r].id \in Ids /\ req[r].held \in Payload
      BY <1>1, <1>7 DEF DropOld, At, RequestOK
    <2>2. Destroy(req[r].old) /\ UNCHANGED <<now, since, newest, focus>> /\ Turns(r, q)
      BY <1>7 DEF DropOld, Stores
    <2>3. Stored BY <2>1, <2>2, Destroyed
    <2>4. q \in Request BY <1>1, Shapes DEF Request
    <2>5. RequestOK(q) BY <1>1, <2>1 DEF RequestOK, Request
    <2>. HIDE DEF q, Stored, Result
    <2>. QED BY <1>4, <2>2, <2>3, <2>4, <2>5
  <1>8. ASSUME DestroyOwn(r) PROVE Result
    <2>. DEFINE q == [Idle EXCEPT !.pc = "row"]
    <2>1. req[r].id \in Ids BY <1>1, <1>8 DEF DestroyOwn, At, RequestOK
    <2>2. Destroy(req[r].id) /\ UNCHANGED <<now, since, newest, focus>> /\ Turns(r, q)
      BY <1>8 DEF DestroyOwn, Stores
    <2>3. Stored BY <2>1, <2>2, Destroyed
    <2>4. q \in Request BY <1>2, Shapes DEF Request, Idle
    <2>5. RequestOK(q) BY <1>2 DEF RequestOK, Idle
    <2>. HIDE DEF q, Stored, Result
    <2>. QED BY <1>4, <2>2, <2>3, <2>4, <2>5
  <1>. HIDE DEF Result
  <1>9. Result BY <1>5, <1>6, <1>7, <1>8
  <1>. QED BY <1>9 DEF Result

LEMMA WriteKeeps ==
  ASSUME SessionInv, NEW r \in Requests, Write(r)
  PROVE  Marked' /\ Filed' /\ Requested' /\ UNCHANGED focus
  <1>1. req[r] \in Request /\ RequestOK(req[r]) BY Asked
  <1>2. req[r].id \in Ids /\ req[r].held \in Payload /\ req[r].ttl \in 0..AbsoluteTtl
    BY <1>1 DEF Write, At, RequestOK, Request
  <1>3. /\ Upsert(req[r].id, req[r].held, req[r].ttl) /\ Ends(r)
        /\ newest' = [u \in Uids |-> IF u = req[r].held.uid THEN req[r].id
                                     ELSE IF newest[u] = req[r].id THEN None ELSE newest[u]]
        /\ UNCHANGED <<now, since, marker, focus>>
    BY DEF Write, Stores, Upsert
  <1>4. now \in Times BY DEF SessionInv, Marked
  <1>5. Filed'
    <2>. DEFINE s == req[r].id  p == req[r].held  ttl == req[r].ttl
    <2>1. Filed BY DEF SessionInv
    <2>. HIDE DEF s, p, ttl
    <2>. QED BY <1>2, <1>3, <1>4, <2>1, UpsertKeeps DEF s, p, ttl
  <1>6. Marked' /\ now <= now' /\ since <= since' BY <1>3, SameMarked DEF SessionInv
  <1>. QED BY <1>3, <1>5, <1>6, Ended DEF SessionInv

\* The erasure marks the account, and takes the row away at last.
LEMMA EraseKeeps ==
  ASSUME SessionInv, NEW r \in Requests, Erase(r) \/ EraseRow(r)
  PROVE  Marked' /\ Filed' /\ Requested' /\ UNCHANGED focus
  <1>1. req[r] \in Request /\ RequestOK(req[r]) BY Asked
  <1>2. RequestOK(Idle) /\ Idle \in Request /\ Idle.id = None /\ Marked /\ Requested /\ Filed
        /\ now \in Nat /\ now \in Times /\ since \in 0..(now + 1)
    BY IdleIsOK, TimeFacts DEF SessionInv, Marked
  <1>3. CASE EraseRow(r)
    <2>1. UNCHANGED <<record, index, marker, now, since, newest, focus>> /\ Ends(r)
      BY <1>3 DEF EraseRow, rvars
    <2>. QED BY <1>2, <2>1, SameMarked, SameFiled, Ended
  <1>4. CASE Erase(r)
    <2>. DEFINE q == [Idle EXCEPT !.pc = "own", !.id = req[r].id]
    <2>1. /\ marker' = [at |-> now, set |-> TRUE] /\ since' = now + 1
          /\ UNCHANGED <<record, index, now, newest, focus>> /\ Turns(r, q)
      BY <1>4 DEF Erase, Invalidate
    <2>2. req[r].id \in Ids BY <1>1, <1>4 DEF Erase, At, RequestOK
    <2>3. Marked' /\ now <= now' /\ since <= since' BY <1>2, <2>1 DEF Marked
    <2>4. Filed' BY <1>2, <2>1, SameFiled
    <2>5. q \in Request BY <1>2, <2>2, Shapes DEF Request, Idle
    <2>6. RequestOK(q) BY <1>2, <2>2 DEF RequestOK, Idle
    <2>. HIDE DEF q
    <2>7. ASSUME NEW x \in Request, Turns(r, x), RequestOK(x) PROVE Requested'
      <3>1. RequestOK(x)' BY <1>2, <2>3, <2>7, Stays
      <3>. QED BY <1>2, <2>3, <2>7, <3>1, Turned
    <2>8. Requested' BY <2>1, <2>5, <2>6, <2>7
    <2>. QED BY <2>1, <2>3, <2>4, <2>8
  <1>. QED BY <1>3, <1>4

LEMMA SessionInvStep == SessionInv /\ [Next]_vars => SessionInv'
  <1>. SUFFICES ASSUME SessionInv, [Next]_vars PROVE SessionInv' OBVIOUS
  <1>. DEFINE Result == Marked' /\ Filed' /\ Requested' /\ UNCHANGED focus
  <1>1. NameInv' BY NameInvStep DEF SessionInv
  <1>2. ASSUME UNCHANGED <<now, since, rvars, newest, req, focus>>
        PROVE  Result
    <2>1. UNCHANGED <<record, index, marker>> BY <1>2 DEF rvars
    <2>. QED BY <1>2, <2>1, SameMarked, SameFiled, NoneTurned DEF SessionInv
  <1>3. ASSUME UNCHANGED vars PROVE Result BY <1>2, <1>3 DEF vars
  <1>4. ASSUME OfNames PROVE Result BY <1>2, <1>4 DEF OfNames
  <1>5. ASSUME Passes PROVE Result
    <2>1. Elapse /\ UNCHANGED <<focus, req, since, newest>> BY <1>5 DEF Passes
    <2>2. Marked' /\ now <= now' BY <2>1, ElapseMarks DEF SessionInv
    <2>3. since <= since' BY <2>1, TimeFacts DEF SessionInv, Marked
    <2>4. Filed' BY <2>1, ElapseKeeps DEF SessionInv
    <2>. QED BY <2>1, <2>2, <2>3, <2>4, NoneTurned DEF SessionInv
  <1>6. ASSUME NEW r \in Requests,
               \/ Begin(r) \/ BeginSwitch(r) \/ Lookup(r) \/ Get(r) \/ Marker(r) \/ Refuse(r)
               \/ Show(r) \/ Login(r) \/ Switch(r) \/ DropOld(r)
               \/ Save(r) \/ Screen(r) \/ Withdraw(r) \/ Write(r)
               \/ Erase(r) \/ DestroyOwn(r) \/ EraseRow(r) \/ Abandon(r)
        PROVE  Result
    BY <1>6, FindKeeps, DecideKeeps, DestroysKeep, WriteKeeps, EraseKeeps
  <1>. HIDE DEF Result
  <1>7. Result
    BY <1>3, <1>4, <1>5, <1>6 DEF Next
  <1>. QED BY <1>1, <1>7 DEF SessionInv, Result

LEMMA SessionInvAlways == AccountsSpec => []SessionInv
  BY SessionInvInit, SessionInvStep, PTL DEF AccountsSpec

\* A session that was there when the account was erased is let pass by no request that
\* starts afterwards, whichever write of it was on its way
\* (redis-oidc-adapter.ts: find, upsert and invalidateAccount).
THEOREM ErasureAlwaysEndsSessions == AccountsSpec => []ErasureEndsSessions
  <1>1. SessionInv => ErasureEndsSessions
    <2>. SUFFICES ASSUME SessionInv, NEW r \in Requests, Accepted(r)
                  PROVE  \/ req[r].since <= req[r].held.iat
                         \/ req[r].kind \notin OfAccountPage /\ PastAbsoluteLifetime(req[r].held)
      BY DEF ErasureEndsSessions
    <2>. QED BY Asked DEF Accepted, At, RequestOK
  <1>. QED BY <1>1, SessionInvAlways, PTL

\* What Redis and the requests keep has its types; a session is refused or withdrawn for
\* its age or an erasure only, and a uid leads to the session written for it last as long
\* as that session is there (redis-oidc-adapter.ts: UPSERT_SCRIPT and DESTROY_SCRIPT).
THEOREM SessionsAlwaysStand == AccountsSpec => []SessionsStand
  <1>1. SessionInv => SessionsStand
    <2>. SUFFICES ASSUME SessionInv PROVE SessionsStand OBVIOUS
    <2>1. AccountsTypeOK
      <3>1. since \in 0..(MaxTime + 1) BY TimeFacts DEF SessionInv, Marked, Times
      <3>. QED BY <3>1 DEF AccountsTypeOK, OidcTypeOK, SessionInv, NameInv, RowInv, Marked,
                           Filed, Requested
    <2>2. RefusedForCause
      <3>. SUFFICES ASSUME NEW r \in Requests,
                           (At(r, "refuse") /\ req[r].id # None) \/ At(r, "withdraw")
                    PROVE  \/ PastAbsoluteLifetime(req[r].held)
                           \/ req[r].held.account # None /\ req[r].held.iat < since
        BY DEF RefusedForCause
      <3>. QED BY Asked DEF At, RequestOK
    <2>3. IndexedWhileLive BY DEF SessionInv, Filed
    <2>. QED BY <2>1, <2>2, <2>3 DEF SessionsStand
  <1>. QED BY <1>1, SessionInvAlways, PTL

\* Only a look for the marker lets a session pass.
LEMMA PassesByMarker ==
  ASSUME SessionInv, [Next]_vars, NEW r \in Requests, ~At(r, "accepted"), req'[r].pc = "accepted"
  PROVE  Marker(r) /\ Turns(r, [req[r] EXCEPT !.pc = "accepted", !.found = 0])
  <1>1. req \in [Requests -> Request] /\ req'[r] # req[r]
    BY DEF SessionInv, Requested, At
  <1>2. ~UNCHANGED req BY <1>1
  <1>3. ~OfNames /\ ~Passes BY <1>2 DEF OfNames, Passes
  <1>4. PICK x \in Requests :
               \/ Begin(x) \/ BeginSwitch(x) \/ Lookup(x) \/ Get(x) \/ Marker(x) \/ Refuse(x)
               \/ Show(x) \/ Login(x) \/ Switch(x) \/ DropOld(x)
               \/ Save(x) \/ Screen(x) \/ Withdraw(x) \/ Write(x)
               \/ Erase(x) \/ DestroyOwn(x) \/ EraseRow(x) \/ Abandon(x)
    BY <1>2, <1>3 DEF Next, vars
  <1>5. Idle.pc = "idle" BY DEF Idle
  <1>6. ASSUME NEW q, Turns(x, q), q.pc # "accepted" PROVE FALSE
    BY <1>1, <1>6 DEF Turns, At
  <1>7. ~Ends(x) BY <1>5, <1>6 DEF Ends
  <1>8. ~Begin(x) /\ ~BeginSwitch(x) BY <1>1 DEF Begin, BeginSwitch, Idle, At
  <1>9. ~Lookup(x) BY <1>1, <1>7 DEF Lookup, At, Request
  <1>10. ~Refused(x, req[x].held) /\ ~Refused(x, record[req[x].id].payload)
    BY <1>6 DEF Refused, Idle
  <1>11. ~Missing(x) BY <1>6, <1>7 DEF Missing, Idle
  <1>12. ~Get(x) BY <1>1, <1>6, <1>10, <1>11 DEF Get, Request
  <1>13. ~Refuse(x) BY <1>6, <1>7 DEF Refuse, Idle
  <1>14. ~Show(x) /\ ~Switch(x) /\ ~Withdraw(x) /\ ~Write(x) /\ ~EraseRow(x) /\ ~Abandon(x)
    BY <1>7 DEF Show, Switch, Withdraw, Write, EraseRow, Abandon
  <1>15. ~Login(x) /\ ~Erase(x) /\ ~DestroyOwn(x) BY <1>6 DEF Login, Erase, DestroyOwn, Idle
  <1>16. ~DropOld(x) /\ ~Screen(x) BY <1>1, <1>6 DEF DropOld, Screen, Request
  <1>17. ~Save(x) BY <1>6 DEF Save, Idle
  <1>18. Marker(x)
    BY <1>4, <1>8, <1>9, <1>12, <1>13, <1>14, <1>15, <1>16, <1>17
  <1>19. Turns(x, [req[x] EXCEPT !.pc = "accepted", !.found = 0]) BY <1>10, <1>18 DEF Marker
  <1>20. x = r BY <1>1, <1>19 DEF Turns
  <1>. QED BY <1>18, <1>19, <1>20

\* However often a session is used, none is let pass after seven days
\* (session-security.ts: isPastAbsoluteSessionLifetime, and the account page's own look).
THEOREM AlwaysEndsInSevenDays == AccountsSpec => EndsInSevenDays
  <1>. DEFINE Due(r) == ~At(r, "accepted") /\ At(r, "accepted")' =>
                 (IF req[r].kind \in OfAccountPage THEN now ELSE req[r].found)
                   < req[r].held.iat + AbsoluteTtl
  <1>1. SessionInv /\ [Next]_vars => [\A r \in Requests : Due(r)]_vars
    <2>. SUFFICES ASSUME SessionInv, [Next]_vars, NEW r \in Requests,
                         ~At(r, "accepted"), At(r, "accepted")'
                  PROVE  (IF req[r].kind \in OfAccountPage THEN now ELSE req[r].found)
                           < req[r].held.iat + AbsoluteTtl
      OBVIOUS
    <2>1. req'[r].pc = "accepted" BY DEF At
    <2>2. Marker(r) /\ Turns(r, [req[r] EXCEPT !.pc = "accepted", !.found = 0])
      BY <2>1, PassesByMarker
    <2>3. req[r].pc = "marker" BY <2>2 DEF Marker, At
    <2>4. req[r].held \in Payload /\ req[r].found < req[r].held.iat + AbsoluteTtl
      BY <2>3, Asked DEF RequestOK
    <2>5. ASSUME req[r].kind \in OfAccountPage PROVE ~PastAbsoluteLifetime(req[r].held)
      <3>1. CASE PastAbsoluteLifetime(req[r].held)
        <4>1. Refused(r, req[r].held) BY <2>2, <2>5, <3>1 DEF Marker
        <4>. QED BY <2>1, <4>1 DEF Refused, Turns, Idle, SessionInv, Requested
      <3>. QED BY <3>1
    <2>6. now \in Nat /\ req[r].held.iat \in Nat /\ AbsoluteTtl \in Nat
      BY <2>4, TimeFacts DEF SessionInv, Marked
    <2>. QED BY <2>4, <2>5, <2>6 DEF PastAbsoluteLifetime
  <1>. QED BY <1>1, SessionInvAlways, PTL DEF AccountsSpec, EndsInSevenDays
=============================================================================
