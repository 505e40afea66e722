------------------------------ MODULE ConsoleProofs ------------------------------
(***************************************************************************)
(* Proofs about the developer console, for every set of users, sessions,   *)
(* applications and requests and every lifetime: how a browser signs in    *)
(* (ConsoleLogin), then DeveloperConsole with the modules it is made of,   *)
(* and at the end the limits that its pages share with the API (Throttles),*)
(* for every maximum and window.                                           *)
(*                                                                         *)
(* Each of the stores has an inductive invariant of its own, proved for    *)
(* any use of it:                                                          *)
(*   AccessInv  the snapshot of an open transaction differs from the table *)
(*              only where a commit since then wrote (Serial), which is    *)
(*              why the conflicts PostgreSQL sees are enough;              *)
(*   StoreInv   a session was drawn, by one sign-in, and is listed for as  *)
(*              long as it lives;                                          *)
(*   AppsInv    applications belong to developers and await no decision    *)
(*              that was taken.                                            *)
(* Then the requests: a step of one is a step of each store (StepOK), so   *)
(* the console implements both of them, and what a request knows at each   *)
(* of its steps (Shape) and whose role it acts with (HeldOK) is kept.      *)
(*                                                                         *)
(* Of the limits, LimitsInv: the window that runs has counted no more than *)
(* came in it and let pass no more than its maximum, and so did the one    *)
(* before; no two buckets or owners have the same key (KeysApart).         *)
(***************************************************************************)
EXTENDS DeveloperConsole, ConsoleLogin, Throttles, FiniteSetTheorems, SequenceTheorems, TLAPS

(* How a browser signs in. *)

\* The token endpoint has taken the code of the callback.
Redeemed == {"subject", "access", "session", "denied"}

\* What a callback holds at each of its awaits: until it is answered, the sign-in
\* is one that its own browser began.
CallbackOK(r) ==
  /\ r.at # "unused" => r.browser \in Browsers /\ r.state \in Transactions
  /\ r.at \in {"exchange", "subject", "access", "session"} =>
       drawn[r.state] = r.browser /\ code[r.state] # Nothing
  /\ r.at \in Redeemed => code[r.state] # Nothing /\ code[r.state].spent
  /\ r.at \in {"access", "session"} => r.subject = code[r.state].of

\* A session is of a sign-in of its own browser, and of the person whose code it was.
OwnSession(b) ==
  signedIn[b] # Nothing =>
    /\ drawn[signedIn[b].by] = b
    /\ code[signedIn[b].by] # Nothing /\ code[signedIn[b].by].of = signedIn[b].person

\* A code is redeemed by one callback.
Apart(j, k) ==
  j # k /\ {callback[j].at, callback[k].at} \subseteq Redeemed => callback[j].state # callback[k].state

\* The inductive invariant: cookies, callbacks and sessions are of sign-ins their
\* browsers began, and no two callbacks have redeemed one code.
LoginInv ==
  /\ LoginTypeOK
  /\ \A b \in Browsers : cookie[b] # Nothing => drawn[cookie[b]] = b
  /\ \A k \in Callbacks : CallbackOK(callback[k])
  /\ \A b \in Browsers : OwnSession(b)
  /\ \A j, k \in Callbacks : Apart(j, k)

LEMMA LoginInvInit == LoginInit => LoginInv
  <1>. SUFFICES ASSUME LoginInit PROVE LoginInv OBVIOUS
  <1>1. Unused \in CallbackRequest /\ Unused.at = "unused"
    BY DEF Unused, CallbackRequest, CallbackStages
  <1>2. LoginTypeOK BY <1>1 DEF LoginInit, LoginTypeOK
  <1>. QED BY <1>1, <1>2 DEF LoginInit, LoginInv, CallbackOK, OwnSession, Apart, Redeemed

\* Codes are issued to sign-ins that have begun and then only spent; sign-ins stay
\* with the browser that began them.
LEMMA CodesGoOn ==
  ASSUME LoginInv, LoginNext, NEW t \in Transactions
  PROVE  /\ drawn[t] # Nothing => drawn'[t] = drawn[t]
         /\ code[t] # Nothing => /\ code'[t] # Nothing /\ code'[t].of = code[t].of
                                 /\ code[t].spent => code'[t].spent
  <1>. USE DEF LoginInv, LoginTypeOK
  <1>0. Nothing \notin Code BY LoginAssumption DEF Code
  <1>1. ASSUME NEW u \in Transactions, code' = [code EXCEPT ![u].spent = TRUE], code[u] # Nothing, UNCHANGED drawn
        PROVE  /\ drawn[t] # Nothing => drawn'[t] = drawn[t]
               /\ code[t] # Nothing => /\ code'[t] # Nothing /\ code'[t].of = code[t].of
                                       /\ code[t].spent => code'[t].spent
    <2>1. code[u] \in Code BY <1>1
    <2>2. [code[u] EXCEPT !.spent = TRUE] \in Code BY <2>1 DEF Code
    <2>. QED BY <1>0, <1>1, <2>1, <2>2 DEF Code
  <1>2. ASSUME NEW b \in Browsers, NEW u \in Transactions, BeginLogin(b, u)
        PROVE  code' = code /\ (drawn[t] # Nothing => drawn'[t] = drawn[t])
    BY <1>2 DEF BeginLogin, CreateTransaction
  <1>3. ASSUME NEW u \in Transactions, NEW p \in People, IssueCode(u, p)
        PROVE  drawn' = drawn /\ (code[t] # Nothing => code'[t] = code[t])
    BY <1>3 DEF IssueCode
  <1>4. ASSUME NEW k \in Callbacks, ExchangeCode(k) \/ Fails(k)
        PROVE  \/ UNCHANGED <<code, drawn>>
               \/ /\ callback[k].state \in Transactions /\ code[callback[k].state] # Nothing
                  /\ code' = [code EXCEPT ![callback[k].state].spent = TRUE] /\ UNCHANGED drawn
    <2>1. CallbackOK(callback[k]) OBVIOUS
    <2>. QED BY <1>4, <2>1 DEF ExchangeCode, Fails, CallbackOK
  <1>5. CASE UNCHANGED <<code, drawn>> BY <1>5
  <1>6. CASE ~UNCHANGED <<code, drawn>>
    <2>1. CASE \E b \in Browsers, u \in Transactions : BeginLogin(b, u) BY <2>1, <1>2
    <2>2. CASE \E u \in Transactions, p \in People : IssueCode(u, p) BY <2>2, <1>3
    <2>3. CASE \E k \in Callbacks : ExchangeCode(k) \/ Fails(k) BY <2>3, <1>1, <1>4, <1>6
    <2>. QED BY <2>1, <2>2, <2>3, <1>6
         DEF LoginNext, OpenCallback, FetchSubject, FindAccessOf, AnswerCallback, WithdrawAccess, SignOut
  <1>. QED BY <1>5, <1>6

\* What holds of a callback goes on to hold while it rests.
LEMMA CallbacksRest ==
  ASSUME LoginInv, LoginNext, NEW r, r \in CallbackRequest, CallbackOK(r)
  PROVE  CallbackOK(r)'
  <1>1. CASE r.at = "unused" BY <1>1 DEF CallbackOK, Redeemed
  <1>2. CASE r.at # "unused"
    <2>1. r.state \in Transactions /\ r.browser \in Browsers /\ Nothing \notin Browsers
      BY <1>2, LoginAssumption DEF CallbackOK
    <2>. QED BY <2>1, CodesGoOn DEF CallbackOK, Redeemed
  <1>. QED BY <1>1, <1>2


\* Every step of a sign-in keeps the types.
LEMMA LoginTyped == LoginInv /\ LoginNext => LoginTypeOK'
  <1>. SUFFICES ASSUME LoginInv, LoginNext PROVE LoginTypeOK' OBVIOUS
  <1>. USE DEF LoginInv, LoginTypeOK
  <1>0. \A k \in Callbacks : callback[k] \in CallbackRequest /\ CallbackOK(callback[k]) OBVIOUS
  <1>1. ASSUME NEW b \in Browsers, NEW t \in Transactions, BeginLogin(b, t) PROVE LoginTypeOK'
    BY <1>1 DEF BeginLogin
  <1>2. ASSUME NEW t \in Transactions, NEW p \in People, IssueCode(t, p) PROVE LoginTypeOK'
    BY <1>2 DEF IssueCode, Code
  <1>3. ASSUME NEW k \in Callbacks, NEW b \in Browsers, NEW t \in Transactions,
               NEW error \in BOOLEAN, OpenCallback(k, b, t, error)
        PROVE  LoginTypeOK'
    <2>1. ASSUME NEW at \in {"exchange", "failed"}, NEW c \in Transactions \cup {Nothing}
          PROVE  [at |-> at, browser |-> b, stored |-> c, state |-> t, subject |-> Nothing]
                   \in CallbackRequest
      BY DEF CallbackRequest, CallbackStages
    <2>2. cookie[b] \in Transactions \cup {Nothing} OBVIOUS
    <2>3. \E at \in {"exchange", "failed"} :
            callback' = [callback EXCEPT ![k] =
              [at |-> at, browser |-> b, stored |-> cookie[b], state |-> t, subject |-> Nothing]]
      BY <1>3 DEF OpenCallback
    <2>4. callback' \in [Callbacks -> CallbackRequest] BY <2>1, <2>2, <2>3
    <2>. QED BY <1>3, <2>4 DEF OpenCallback
  <1>4. ASSUME NEW t \in Transactions, code[t] # Nothing PROVE [code[t] EXCEPT !.spent = TRUE] \in Code
    <2>1. code[t] \in Code BY <1>4
    <2>. QED BY ONLY <2>1 DEF Code
  <1>5. ASSUME NEW k \in Callbacks, NEW at \in CallbackStages PROVE [callback[k] EXCEPT !.at = at] \in CallbackRequest
    <2>1. callback[k] \in CallbackRequest BY <1>0
    <2>. QED BY ONLY <1>5, <2>1 DEF CallbackRequest
  <1>6. ASSUME NEW k \in Callbacks, ExchangeCode(k) PROVE LoginTypeOK'
    <2>1. callback[k].at = "exchange" BY <1>6 DEF ExchangeCode
    <2>2. callback[k].state \in Transactions /\ code[callback[k].state] # Nothing
      BY <1>0, <2>1 DEF CallbackOK
    <2>3. code' \in [Transactions -> Code \cup {Nothing}]
      BY <1>4, <1>6, <2>2 DEF ExchangeCode
    <2>4. callback' \in [Callbacks -> CallbackRequest]
      BY <1>5, <1>6 DEF ExchangeCode, CallbackStages
    <2>. QED BY <1>6, <2>3, <2>4 DEF ExchangeCode
  <1>7. ASSUME NEW k \in Callbacks, Fails(k) PROVE LoginTypeOK'
    <2>2. callback[k].at = "exchange" =>
            callback[k].state \in Transactions /\ code[callback[k].state] # Nothing
      BY <1>0 DEF CallbackOK
    <2>3. code' \in [Transactions -> Code \cup {Nothing}]
      BY <1>4, <1>7, <2>2 DEF Fails
    <2>4. callback' \in [Callbacks -> CallbackRequest]
      BY <1>5, <1>7 DEF Fails, CallbackStages
    <2>. QED BY <1>7, <2>3, <2>4 DEF Fails
  <1>8. ASSUME NEW k \in Callbacks, FetchSubject(k) PROVE LoginTypeOK'
    <2>1. callback[k].at = "subject" BY <1>8 DEF FetchSubject
    <2>2. code[callback[k].state].of \in People
      BY <1>0, <2>1 DEF CallbackOK, Redeemed, Code
    <2>3. ASSUME NEW s \in People
          PROVE  [callback[k] EXCEPT !.at = "access", !.subject = s] \in CallbackRequest
      <3>1. callback[k] \in CallbackRequest BY <1>0
      <3>. QED BY ONLY <2>3, <3>1 DEF CallbackRequest, CallbackStages
    <2>4. callback' = [callback EXCEPT ![k] =
                         [callback[k] EXCEPT !.at = "access", !.subject = code[callback[k].state].of]]
      BY <1>8 DEF FetchSubject
    <2>5. callback' \in [Callbacks -> CallbackRequest] BY <1>0, <2>2, <2>3, <2>4
    <2>. QED BY <1>8, <2>5 DEF FetchSubject
  <1>9. ASSUME NEW k \in Callbacks, FindAccessOf(k) PROVE LoginTypeOK'
    BY <1>5, <1>9 DEF FindAccessOf, CallbackStages
  <1>10. ASSUME NEW k \in Callbacks, AnswerCallback(k) PROVE LoginTypeOK'
    <2>1. callback[k].browser \in Browsers /\ callback[k].state \in Transactions
      BY <1>0, <1>10 DEF CallbackOK, AnswerCallback
    <2>2. callback[k].at = "session" => callback[k].subject \in People
      BY <1>0, <2>1 DEF CallbackOK, Code, Redeemed
    <2>3. callback' \in [Callbacks -> CallbackRequest]
      BY <1>5, <1>10 DEF AnswerCallback, CallbackStages
    <2>4. signedIn' \in [Browsers -> [person : People, by : Transactions] \cup {Nothing}]
      BY <1>10, <2>1, <2>2 DEF AnswerCallback
    <2>. QED BY <1>10, <2>1, <2>3, <2>4 DEF AnswerCallback
  <1>11. ASSUME NEW p \in People, WithdrawAccess(p) PROVE LoginTypeOK'
    BY <1>11 DEF WithdrawAccess
  <1>12. ASSUME NEW b \in Browsers, SignOut(b) PROVE LoginTypeOK'
    BY <1>12 DEF SignOut
  <1>. HIDE DEF LoginTypeOK
  <1>. QED BY <1>1, <1>2, <1>3, <1>6, <1>7, <1>8, <1>9, <1>10, <1>11, <1>12 DEF LoginNext

\* Every step of a sign-in keeps the invariant.
LEMMA LoginInvStep == LoginInv /\ [LoginNext]_loginVars => LoginInv'
  <1>. SUFFICES ASSUME LoginInv, LoginNext PROVE LoginInv'
    BY DEF loginVars, LoginInv, LoginTypeOK, CallbackOK, OwnSession, Apart
  <1>0. LoginTypeOK /\ LoginTypeOK' BY LoginTyped DEF LoginInv
  <1>. USE <1>0 DEF LoginTypeOK
  <1>1. \A b \in Browsers : cookie'[b] # Nothing => drawn'[cookie'[b]] = b
    <2>. SUFFICES ASSUME NEW b \in Browsers, cookie'[b] # Nothing PROVE drawn'[cookie'[b]] = b
      OBVIOUS
    <2>1. CASE cookie'[b] = cookie[b]
      <3>1. drawn[cookie[b]] = b BY <2>1 DEF LoginInv
      <3>2. drawn[cookie[b]] # Nothing BY <3>1, LoginAssumption
      <3>3. cookie[b] \in Transactions BY <2>1
      <3>. QED BY <2>1, <3>1, <3>2, <3>3, CodesGoOn
    <2>2. CASE cookie'[b] # cookie[b]
      <3>1. \E t \in Transactions : BeginLogin(b, t)
        BY <2>2 DEF LoginNext, BeginLogin, IssueCode, OpenCallback, ExchangeCode, Fails, FetchSubject,
                    FindAccessOf, AnswerCallback, WithdrawAccess, SignOut
      <3>. QED BY <3>1 DEF BeginLogin
    <2>. QED BY <2>1, <2>2
  <1>2. \A k \in Callbacks : CallbackOK(callback[k])'
    <2>. SUFFICES ASSUME NEW k \in Callbacks PROVE CallbackOK(callback[k])' OBVIOUS
    <2>. DEFINE q == callback'[k]
    <2>1. CallbackOK(callback[k]) /\ callback[k] \in CallbackRequest BY DEF LoginInv
    <2>2. CASE q = callback[k]
      <3>1. PICK p : p = callback[k] OBVIOUS
      <3>2. CallbackOK(p)' BY <2>1, <3>1, CallbacksRest
      <3>. QED BY <2>2, <3>1, <3>2 DEF CallbackOK
    <2>3. ASSUME NEW b \in Browsers, NEW t \in Transactions, NEW error \in BOOLEAN,
                 OpenCallback(k, b, t, error)
          PROVE  CallbackOK(callback[k])'
      <3>1. q = [at |-> IF ~error /\ StatesEqual(cookie[b], t) THEN "exchange" ELSE "failed",
                 browser |-> b, stored |-> cookie[b], state |-> t, subject |-> Nothing]
        BY <2>3 DEF OpenCallback
      <3>2. q.at \in {"exchange", "failed"} /\ q.browser = b /\ q.state = t BY <3>1
      <3>3. q.at = "exchange" => cookie[b] = t /\ code[t] # Nothing
        BY <2>3, <3>1 DEF OpenCallback, StatesEqual
      <3>4. cookie[b] = t => drawn[t] = b BY LoginAssumption DEF LoginInv
      <3>5. UNCHANGED <<drawn, code>> BY <2>3 DEF OpenCallback
      <3>. QED BY <3>2, <3>3, <3>4, <3>5 DEF CallbackOK, Redeemed
    <2>4. CASE ExchangeCode(k)
      <3>1. callback[k].at = "exchange" BY <2>4 DEF ExchangeCode
      <3>2. /\ callback[k].browser \in Browsers /\ callback[k].state \in Transactions
            /\ drawn[callback[k].state] = callback[k].browser /\ code[callback[k].state] # Nothing
        BY <2>1, <3>1 DEF CallbackOK
      <3>3. [code[callback[k].state] EXCEPT !.spent = TRUE] \in Code BY <3>2 DEF Code
      <3>4. Nothing \notin Code BY LoginAssumption DEF Code
      <3>5. CASE callback' = [callback EXCEPT ![k].at = "subject"]
                 /\ code' = [code EXCEPT ![callback[k].state].spent = TRUE] /\ drawn' = drawn
        <4>1. code'[callback[k].state] # Nothing /\ code'[callback[k].state].spent
          BY <3>2, <3>3, <3>4, <3>5 DEF Code
        <4>2. q.at = "subject" /\ q.browser = callback[k].browser /\ q.state = callback[k].state
          BY <2>1, <3>5 DEF CallbackRequest
        <4>. QED BY <3>2, <3>5, <4>1, <4>2 DEF CallbackOK, Redeemed
      <3>6. CASE callback' = [callback EXCEPT ![k].at = "failed"]
        <4>2. q.at = "failed" /\ q.browser = callback[k].browser /\ q.state = callback[k].state
          BY <2>1, <3>6 DEF CallbackRequest
        <4>. QED BY <3>2, <4>2 DEF CallbackOK, Redeemed
      <3>. QED BY <2>4, <3>5, <3>6 DEF ExchangeCode
    <2>5. CASE Fails(k) \/ AnswerCallback(k)
      <3>1. q.at \in {"failed", "answered"} /\ callback[k].at # "unused"
            /\ q.browser = callback[k].browser /\ q.state = callback[k].state
        BY <2>1, <2>5 DEF Fails, AnswerCallback, CallbackRequest
      <3>. QED BY <2>1, <3>1 DEF CallbackOK, Redeemed
    <2>6. CASE FetchSubject(k) \/ FindAccessOf(k)
      <3>1. UNCHANGED <<drawn, code>> BY <2>6 DEF FetchSubject, FindAccessOf
      <3>2. /\ q.browser = callback[k].browser /\ q.state = callback[k].state
            /\ \/ callback[k].at = "subject" /\ q.at = "access" /\ q.subject = code[q.state].of
               \/ callback[k].at = "access" /\ q.at \in {"session", "denied"} /\ q.subject = callback[k].subject
        BY <2>1, <2>6 DEF FetchSubject, FindAccessOf, CallbackRequest
      <3>. QED BY <2>1, <3>1, <3>2 DEF CallbackOK, Redeemed
    <2>7. CASE q # callback[k]
      <3>. QED BY <2>3, <2>4, <2>5, <2>6, <2>7
           DEF LoginNext, BeginLogin, IssueCode, OpenCallback, ExchangeCode, Fails, FetchSubject,
               FindAccessOf, AnswerCallback, WithdrawAccess, SignOut
    <2>. QED BY <2>2, <2>7
  <1>3. \A b \in Browsers : OwnSession(b)'
    <2>. SUFFICES ASSUME NEW b \in Browsers, signedIn'[b] # Nothing
                  PROVE  LET t == signedIn'[b].by IN
                         drawn'[t] = b /\ code'[t] # Nothing /\ code'[t].of = signedIn'[b].person
      BY DEF OwnSession
    <2>1. CASE signedIn'[b] = signedIn[b]
      <3>. DEFINE t == signedIn[b].by
      <3>1. OwnSession(b) /\ t \in Transactions BY <2>1 DEF LoginInv
      <3>2. drawn[t] = b /\ code[t] # Nothing /\ code[t].of = signedIn[b].person
        BY <2>1, <3>1 DEF OwnSession
      <3>3. drawn[t] # Nothing BY <3>2, LoginAssumption
      <3>. HIDE DEF t
      <3>4. drawn'[t] = b /\ code'[t] # Nothing /\ code'[t].of = signedIn[b].person
        BY <3>1, <3>2, <3>3, CodesGoOn
      <3>. QED BY <2>1, <3>4 DEF t
    <2>2. CASE signedIn'[b] # signedIn[b]
      <3>0. PICK k \in Callbacks : AnswerCallback(k)
        <4>1. ASSUME NEW c \in Browsers, SignOut(c) PROVE FALSE
          BY <2>2, <4>1 DEF SignOut
        <4>. QED BY <2>2, <4>1
             DEF LoginNext, BeginLogin, IssueCode, OpenCallback, ExchangeCode, Fails, FetchSubject,
                 FindAccessOf, WithdrawAccess
      <3>1. /\ callback[k].at = "session" /\ callback[k].browser = b
            /\ signedIn'[b] = [person |-> callback[k].subject, by |-> callback[k].state]
        BY <2>2, <3>0 DEF AnswerCallback
      <3>2. CallbackOK(callback[k]) BY DEF LoginInv
      <3>3. UNCHANGED <<drawn, code>> BY <3>0 DEF AnswerCallback
      <3>. QED BY <3>1, <3>2, <3>3 DEF CallbackOK, Redeemed
    <2>. QED BY <2>1, <2>2
  <1>4. \A j, k \in Callbacks : Apart(j, k)'
    <2>1. ASSUME NEW k \in Callbacks, callback'[k].at \in Redeemed
          PROVE  /\ callback'[k].state = callback[k].state
                 /\ \/ callback[k].at \in Redeemed
                    \/ ExchangeCode(k) /\ ~code[callback[k].state].spent
      <3>1. CASE callback'[k] = callback[k] BY <2>1, <3>1
      <3>2. ASSUME NEW b \in Browsers, NEW t \in Transactions, NEW error \in BOOLEAN,
                   OpenCallback(k, b, t, error)
            PROVE  FALSE
        BY <2>1, <3>2 DEF OpenCallback, Redeemed
      <3>3. CASE ExchangeCode(k)
        BY <2>1, <3>3 DEF ExchangeCode, Redeems, Redeemed, CallbackRequest
      <3>4. CASE Fails(k) \/ AnswerCallback(k)
        BY <2>1, <3>4 DEF Fails, AnswerCallback, Redeemed, CallbackRequest
      <3>5. CASE FetchSubject(k) \/ FindAccessOf(k)
        BY <2>1, <3>5 DEF FetchSubject, FindAccessOf, Redeemed, CallbackRequest
      <3>6. CASE callback'[k] # callback[k]
        <4>1. ASSUME NEW l \in Callbacks,
                     \/ ExchangeCode(l) \/ Fails(l) \/ FetchSubject(l) \/ FindAccessOf(l) \/ AnswerCallback(l)
                     \/ \E b \in Browsers, t \in Transactions, error \in BOOLEAN : OpenCallback(l, b, t, error)
              PROVE  l = k
          BY <3>6, <4>1
          DEF ExchangeCode, Fails, FetchSubject, FindAccessOf, AnswerCallback, OpenCallback
        <4>2. ~UNCHANGED callback BY <3>6
        <4>3. \E l \in Callbacks :
                \/ ExchangeCode(l) \/ Fails(l) \/ FetchSubject(l) \/ FindAccessOf(l) \/ AnswerCallback(l)
                \/ \E b \in Browsers, t \in Transactions, error \in BOOLEAN : OpenCallback(l, b, t, error)
          BY <4>2 DEF LoginNext, BeginLogin, IssueCode, WithdrawAccess, SignOut
        <4>. QED BY <3>2, <3>3, <3>4, <3>5, <4>1, <4>3
      <3>. QED BY <3>1, <3>6
    <2>2. ASSUME NEW k \in Callbacks, callback[k].at \in Redeemed PROVE code[callback[k].state].spent
      BY <2>2 DEF LoginInv, CallbackOK
    <2>3. ASSUME NEW j \in Callbacks, NEW k \in Callbacks, ExchangeCode(j), ExchangeCode(k), callback'[j].at \in Redeemed,
                 callback'[k].at \in Redeemed
          PROVE  j = k
      <3>1. callback[j].at = "exchange" /\ callback[k].at = "exchange" BY <2>3 DEF ExchangeCode
      <3>. QED BY <2>3, <3>1 DEF ExchangeCode, Redeemed
    <2>. QED BY <2>1, <2>2, <2>3 DEF LoginInv, Apart
  <1>. QED BY <1>1, <1>2, <1>3, <1>4 DEF LoginInv

\* What the sign-in to the console keeps true (developer-oidc-login.ts).
THEOREM LoginInvariant == LoginSpec => []LoginInv
  BY LoginInvInit, LoginInvStep, PTL DEF LoginSpec

\* A browser is signed in to the console only by a sign-in it began itself, as the
\* person who signed in, and a code signs one browser in, once.
THEOREM LoginAlwaysItsOwn == LoginSpec => []LoginIsItsOwn
  <1>1. LoginInv => LoginIsItsOwn
    BY DEF LoginInv, OwnSession, Apart, Redeemed, LoginIsItsOwn
  <1>. QED BY <1>1, LoginInvariant, PTL

-----------------------------------------------------------------------------
(* Who has access: transactions that overlap.                              *)

\* An open transaction knows every row as it is, or has the writes of others
\* behind its snapshot; one that took an administrator's role away had counted
\* the others.
Serial(t) ==
  /\ ~Protects(t.user, t.to)
  /\ \A u \in Users : t.snap[u] # developer[u] => \E f \in t.since : u \in f.writes
  /\ \A u \in Users : t.snap[u] = "admin" /\ developer[u] # "admin" =>
                        \E f \in t.since : u \in f.writes /\ f.reads = Users

\* The inductive invariant of the repository.
AccessInv == AccessTypeOK /\ \A r \in Requests : Open(r) => Serial(tx[r])

LEMMA TransactionsAreSome == NoTx \notin Transaction
  BY IdentitiesAssumption DEF NoTx, Transaction

LEMMA AccessInvInit == AccessInit => AccessInv
  BY DEF AccessInit, AccessInv, AccessTypeOK, Open

\* A snapshot is of this moment.
LEMMA SnapshotIsSerial ==
  ASSUME AccessTypeOK, NEW u \in Users, NEW to \in Access, NEW n \in 1..MaxAttempts, ~Protects(u, to)
  PROVE  Snapshot(u, to, n) \in Transaction /\ Serial(Snapshot(u, to, n))
  BY DEF AccessTypeOK, Snapshot, Transaction, Serial

\* What others keep open when a transaction ends.
LEMMA PassedOn ==
  ASSUME AccessTypeOK, NEW r, NEW reads \in SUBSET Users, NEW writes \in SUBSET Users,
         tx' = Passed(r, reads, writes), NEW q \in Requests
  PROVE  /\ tx'[q] \in Transaction \cup {NoTx}
         /\ tx'[q] # NoTx =>
              /\ Open(q) /\ q # r
              /\ tx'[q].user = tx[q].user /\ tx'[q].to = tx[q].to /\ tx'[q].snap = tx[q].snap
              /\ tx[q].since \subseteq tx'[q].since
              /\ writes # {} => [reads |-> reads, writes |-> writes] \in tx'[q].since
  <1>. DEFINE f == [reads |-> reads, writes |-> writes]
  <1>1. f \in Footprint BY DEF Footprint
  <1>2. tx'[q] = IF q = r THEN NoTx
                 ELSE IF Open(q) /\ writes # {} THEN [tx[q] EXCEPT !.since = @ \cup {f}]
                 ELSE tx[q]
    BY DEF Passed
  <1>3. tx[q] \in Transaction \cup {NoTx} BY DEF AccessTypeOK
  <1>. HIDE DEF f
  <1>4. CASE q # r /\ Open(q) /\ writes # {}
    <2>1. tx[q] \in Transaction BY <1>3, <1>4 DEF Open
    <2>2. tx'[q] = [tx[q] EXCEPT !.since = @ \cup {f}] BY <1>2, <1>4
    <2>3. tx'[q] \in Transaction BY <1>1, <2>1, <2>2 DEF Transaction
    <2>4. /\ tx'[q].user = tx[q].user /\ tx'[q].to = tx[q].to /\ tx'[q].snap = tx[q].snap
          /\ tx'[q].since = tx[q].since \cup {f}
      BY <2>1, <2>2 DEF Transaction
    <2>. QED BY <1>4, <2>3, <2>4 DEF f
  <1>. QED BY <1>2, <1>3, <1>4 DEF Open

\* A commit gives its user the new access and leaves the others theirs; the rows
\* it writes are as in its snapshot.
LEMMA CommitWrites ==
  ASSUME AccessInv, NEW r \in Requests, Commits(r)
  PROVE  LET t == tx[r] IN
         /\ t \in Transaction /\ ~Protects(t.user, t.to)
         /\ Writes(t) \subseteq {t.user} /\ Reads(t) \subseteq Users
         /\ \A u \in Users : developer'[u] = IF u \in Writes(t) THEN t.to ELSE developer[u]
         /\ developer' \in [Users -> Access] /\ verified' \subseteq Users
         /\ \A u \in Writes(t) : t.snap[u] = developer[u]
         /\ \A u \in Users : developer[u] = "admin" /\ developer'[u] # "admin" =>
              u = t.user /\ Writes(t) = {u} /\ Reads(t) = Users
  <1>. DEFINE t == tx[r]
  <1>1. t \in Transaction /\ Serial(t) /\ ~Conflicts(t)
    BY DEF AccessInv, AccessTypeOK, Commits, Open
  <1>2. t.user \in Users /\ t.to \in Access /\ t.snap \in [Users -> Access] BY <1>1 DEF Transaction
  <1>3. developer' = [u \in Users |-> IF u \in Writes(t) THEN t.to ELSE developer[u]]
        /\ verified' = IF t.to = "none" THEN verified \ Writes(t) ELSE verified
    BY DEF Commits
  <1>4. developer \in [Users -> Access] /\ verified \subseteq Users BY DEF AccessInv, AccessTypeOK
  <1>. HIDE DEF t
  <1>5. Writes(t) \subseteq {t.user} /\ Reads(t) \subseteq Users BY <1>2 DEF Writes, Reads
  <1>6. \A u \in Writes(t) : t.snap[u] = developer[u]
    BY <1>1, <1>2, <1>5 DEF Serial, Conflicts
  <1>7. ASSUME NEW u \in Users, developer[u] = "admin", developer'[u] # "admin"
        PROVE  u = t.user /\ Writes(t) = {u} /\ Reads(t) = Users
    <2>1. u \in Writes(t) /\ t.to # "admin" BY <1>3, <1>7
    <2>2. u = t.user /\ t.snap[u] = "admin" BY <1>5, <1>6, <1>7, <2>1
    <2>. QED BY <1>5, <2>1, <2>2 DEF Reads, Counts
  <1>8. developer' \in [Users -> Access] /\ verified' \subseteq Users BY <1>2, <1>3, <1>4
  <1>. QED BY <1>1, <1>3, <1>5, <1>6, <1>7, <1>8 DEF t, Serial

\* Every operation of the repository keeps the invariant.
LEMMA AccessInvStep == AccessInv /\ [AccessNext]_avars => AccessInv'
  <1>. SUFFICES ASSUME AccessInv, [AccessNext]_avars PROVE AccessInv' OBVIOUS
  <1>. USE DEF AccessInv
  <1>0. AccessTypeOK OBVIOUS
  <1>1. ASSUME NEW r \in Requests, NEW s \in Transaction \cup {NoTx}, s # NoTx => Serial(s),
               tx' = [tx EXCEPT ![r] = s], UNCHANGED <<owner, developer, verified>>
        PROVE  AccessInv'
    <2>1. \A q \in Requests : tx'[q] # NoTx => Serial(tx'[q])
      BY <1>0, <1>1 DEF AccessTypeOK, Open
    <2>2. \A q \in Requests : tx'[q] # NoTx => Serial(tx[q])' 
      BY <1>1, <2>1 DEF Serial, Protects
    <2>. QED BY <1>0, <1>1, <2>2 DEF AccessTypeOK, Open
  <1>2. ASSUME NEW r \in Requests, NEW u \in Users, NEW to \in Access, Begins(r, u, to) PROVE AccessInv'
    <2>1. 1 \in 1..MaxAttempts BY AccessAssumption
    <2>. QED BY <1>0, <1>1, <1>2, <2>1, SnapshotIsSerial DEF Begins
  <1>3. ASSUME NEW r \in Requests, Refuses(r) \/ GivesUp(r) PROVE AccessInv'
    BY <1>1, <1>3 DEF Refuses, GivesUp
  <1>4. ASSUME NEW r \in Requests, Retries(r) PROVE AccessInv'
    <2>. DEFINE t == tx[r]
    <2>1. t \in Transaction /\ Serial(t) /\ t.attempt < MaxAttempts
      BY <1>0, <1>4 DEF Retries, Open, AccessTypeOK
    <2>2. t.user \in Users /\ t.to \in Access /\ t.attempt + 1 \in 1..MaxAttempts /\ ~Protects(t.user, t.to)
      BY <2>1, AccessAssumption DEF Transaction, Serial
    <2>3. tx' = [tx EXCEPT ![r] = Snapshot(t.user, t.to, t.attempt + 1)]
          /\ UNCHANGED <<owner, developer, verified>>
      BY <1>4 DEF Retries
    <2>. HIDE DEF t
    <2>. QED BY <1>0, <1>1, <2>2, <2>3, SnapshotIsSerial
  <1>5. ASSUME NEW r \in Requests, Commits(r) PROVE AccessInv'
    <2>. DEFINE t == tx[r]
                R == Reads(t)
                W == Writes(t)
    <2>1. /\ t \in Transaction
          /\ W \subseteq {t.user} /\ R \subseteq Users
          /\ \A u \in Users : developer'[u] = IF u \in W THEN t.to ELSE developer[u]
          /\ developer' \in [Users -> Access] /\ verified' \subseteq Users
          /\ \A u \in Users : developer[u] = "admin" /\ developer'[u] # "admin" => W = {u} /\ R = Users
      BY <1>5, CommitWrites
    <2>2. tx' = Passed(r, R, W) /\ owner' = owner BY <1>5 DEF Commits
    <2>. HIDE DEF R, W
    <2>3. W \subseteq Users BY <2>1 DEF Transaction
    <2>4. ASSUME NEW q \in Requests, tx'[q] # NoTx PROVE Serial(tx[q])'
      <3>1. /\ Open(q)
            /\ tx'[q].user = tx[q].user /\ tx'[q].to = tx[q].to /\ tx'[q].snap = tx[q].snap
            /\ tx[q].since \subseteq tx'[q].since
            /\ W # {} => [reads |-> R, writes |-> W] \in tx'[q].since
        BY <1>0, <2>1, <2>2, <2>3, <2>4, PassedOn
      <3>2. Serial(tx[q]) BY <3>1
      <3>3. ~Protects(tx[q].user, tx[q].to)' BY <2>2, <3>1, <3>2 DEF Serial, Protects
      <3>. DEFINE f == [reads |-> R, writes |-> W]
      <3>4. f.reads = R /\ f.writes = W OBVIOUS
      <3>5. W # {} => f \in tx'[q].since BY <3>1
      <3>. HIDE DEF f
      <3>6. ASSUME NEW u \in Users, tx'[q].snap[u] # developer'[u]
            PROVE  \E g \in tx'[q].since : u \in g.writes
        BY <2>1, <3>1, <3>2, <3>4, <3>5, <3>6 DEF Serial
      <3>7. ASSUME NEW u \in Users, tx'[q].snap[u] = "admin", developer'[u] # "admin"
            PROVE  \E g \in tx'[q].since : u \in g.writes /\ g.reads = Users
        <4>1. CASE developer[u] = "admin" BY <2>1, <3>4, <3>5, <3>7, <4>1
        <4>2. CASE developer[u] # "admin" BY <3>1, <3>2, <3>7, <4>2 DEF Serial
        <4>. QED BY <4>1, <4>2
      <3>. QED BY <3>3, <3>6, <3>7 DEF Serial
    <2>5. tx' \in [Requests -> Transaction \cup {NoTx}]
      <3>1. \A q \in Requests : tx'[q] \in Transaction \cup {NoTx} BY <1>0, <2>1, <2>2, <2>3, PassedOn
      <3>. QED BY <2>2, <3>1 DEF Passed
    <2>. QED BY <1>0, <2>1, <2>2, <2>4, <2>5 DEF AccessTypeOK, Open
  <1>6. ASSUME NEW u \in Users, NEW v \in BOOLEAN, SetVerified(u, v) PROVE AccessInv'
    <2>1. /\ tx' = Passed(None, {}, {u}) /\ UNCHANGED <<owner, developer>>
          /\ verified' \subseteq Users
      BY <1>0, <1>6 DEF SetVerified, AccessTypeOK
    <2>2. ASSUME NEW q \in Requests
          PROVE  /\ tx'[q] \in Transaction \cup {NoTx}
                 /\ tx'[q] # NoTx => Serial(tx[q])'
      <3>1. /\ tx'[q] \in Transaction \cup {NoTx}
            /\ tx'[q] # NoTx =>
                 /\ Open(q)
                 /\ tx'[q].user = tx[q].user /\ tx'[q].to = tx[q].to /\ tx'[q].snap = tx[q].snap
                 /\ tx[q].since \subseteq tx'[q].since
        <4>1. {} \in SUBSET Users /\ {u} \in SUBSET Users OBVIOUS
        <4>. DEFINE W == {u}
        <4>. HIDE DEF W
        <4>2. tx' = Passed(None, {}, W) /\ W \in SUBSET Users BY <2>1, <4>1 DEF W
        <4>. QED BY <1>0, <4>1, <4>2, PassedOn
      <3>. QED BY <2>1, <3>1 DEF Serial, Protects
    <2>3. tx' \in [Requests -> Transaction \cup {NoTx}] BY <2>1, <2>2 DEF Passed
    <2>. QED BY <1>0, <2>1, <2>2, <2>3 DEF AccessTypeOK, Open
  <1>7. CASE UNCHANGED avars
    BY <1>7 DEF avars, AccessTypeOK, Open, Serial, Protects
  <1>. QED BY <1>2, <1>3, <1>4, <1>5, <1>6, <1>7 DEF AccessNext, AccessStep

\* Some administrator stays one; the owner does.
LEMMA RolesStep ==
  ASSUME AccessInv, AccessNext
  PROVE  /\ Administrators # {} => Administrators' # {}
         /\ owner \in Administrators => owner \in Administrators'
         /\ owner' = owner
  <1>1. CASE developer' = developer
    <2>1. owner' = owner
      BY DEF AccessNext, AccessStep, Begins, Refuses, Commits, Retries, GivesUp, SetVerified
    <2>. QED BY <1>1, <2>1 DEF Administrators
  <1>2. CASE developer' # developer
    <2>1. PICK r \in Requests : Commits(r)
      BY <1>2 DEF AccessNext, AccessStep, Begins, Refuses, Retries, GivesUp, SetVerified
    <2>. DEFINE t == tx[r]
    <2>2. /\ t \in Transaction /\ ~Protects(t.user, t.to)
          /\ \A u \in Users : developer'[u] = IF u \in Writes(t) THEN t.to ELSE developer[u]
          /\ Writes(t) \subseteq {t.user}
          /\ \A u \in Users : developer[u] = "admin" /\ developer'[u] # "admin" =>
               u = t.user /\ Writes(t) = {u} /\ Reads(t) = Users
          /\ \A u \in Writes(t) : t.snap[u] = developer[u]
      BY <2>1, CommitWrites
    <2>3. Serial(t) /\ ~Conflicts(t) /\ ~LastInSnapshot(t) /\ owner' = owner
      BY <2>1 DEF AccessInv, Commits
    <2>. HIDE DEF t
    <2>4. owner \in Administrators => owner \in Administrators'
      BY <2>2, <2>3 DEF Administrators, Protects
    <2>5. ASSUME Administrators # {}, Administrators' = {} PROVE FALSE
      <3>1. PICK u \in Users : developer[u] = "admin" BY <2>5 DEF Administrators
      <3>2. \A w \in Users : developer'[w] # "admin" BY <2>5 DEF Administrators
      <3>3. u = t.user /\ Writes(t) = {u} /\ Reads(t) = Users BY <2>2, <3>1, <3>2
      <3>4. t.snap[u] = "admin" /\ t.to # "admin" BY <2>2, <3>1, <3>2, <3>3
      <3>5. PICK w \in Users \ {u} : t.snap[w] = "admin"
        BY <2>3, <3>3, <3>4 DEF LastInSnapshot, Counts
      <3>6. developer[w] # "admin" BY <2>2, <3>2, <3>3, <3>5
      <3>7. PICK f \in t.since : w \in f.writes /\ f.reads = Users BY <2>3, <3>5, <3>6 DEF Serial
      <3>8. Conflicts(t) BY <3>3, <3>5, <3>7 DEF Conflicts
      <3>. QED BY <2>3, <3>8
    <2>. QED BY <2>3, <2>4, <2>5
  <1>. QED BY <1>1, <1>2

\* ... so it always holds,
LEMMA AccessAlwaysInv == AccessSpec => []AccessInv
  BY AccessInvInit, AccessInvStep, PTL DEF AccessSpec

\* and the repository by itself, used in any way, loses neither the last administrator
\* nor the owner.
LEMMA RepositoryKeepsRoles == AccessSpec => RolesRemain
  <1>1. AccessInv /\ [AccessNext]_avars =>
          [Administrators # {} => Administrators' # {}]_avars
          /\ [(owner \in Administrators) => (owner \in Administrators')]_avars
    BY RolesStep
  <1>. QED BY <1>1, AccessAlwaysInv, PTL DEF AccessSpec, RolesRemain, AdministratorRemains, OwnerRemains

-----------------------------------------------------------------------------
(* The sessions of the console in Redis.                                   *)

\* Every live session was drawn, and so was the sign-in it descends from.
Rooted ==
  \A s \in Sids : /\ Live(s) => ~Fresh(s)
                  /\ ~Fresh(s) => ~Fresh(root[s])

\* The inductive invariant of the session store.
StoreInv == SessionsTypeOK /\ WithinLifetime /\ LiveIsListed /\ OneSessionPerSignIn /\ Rooted

LEMMA SessionsAreSome == NoSession \notin Session
  BY IdentitiesAssumption DEF NoSession, Session

\* Lifetimes, and that an absolute one is the longer.
LEMMA TtlFacts ==
  /\ SlidingTtl \in Nat /\ AbsoluteTtl \in Nat /\ SlidingTtl <= AbsoluteTtl /\ None \notin Sids
  /\ SlidingTtl \in 0..SlidingTtl /\ AbsoluteTtl \in 0..AbsoluteTtl /\ 0 \in 0..AbsoluteTtl
  /\ 0..SlidingTtl \subseteq 0..AbsoluteTtl
  BY SessionsAssumption

LEMMA NewSessionTyped ==
  ASSUME NEW u \in Users, NEW role \in Roles
  PROVE  /\ NewSession(u, role) \in Session
         /\ NewSession(u, role).user = u /\ NewSession(u, role).ttl = SlidingTtl
         /\ NewSession(u, role).left = AbsoluteTtl
  BY TtlFacts DEF NewSession, Session

\* A list as it is kept: an empty one has no time.
LEMMA ListedTyped ==
  ASSUME NEW members \in SUBSET Sids, NEW ttl \in 0..AbsoluteTtl
  PROVE  /\ Listed(members, ttl) \in Index
         /\ Listed(members, ttl).members = members
         /\ members # {} => Listed(members, ttl).ttl = ttl
  BY TtlFacts DEF Listed, Index

LEMMA StoreInvInit == SessionsInit => StoreInv
  <1>. SUFFICES ASSUME SessionsInit PROVE StoreInv OBVIOUS
  <1>1. PICK own \in [Users -> Sids \cup {None}], role \in [Users -> Roles] :
          LET of(s) == {u \in Users : own[u] = s}
          IN /\ \A u, v \in Users : own[u] = own[v] => u = v \/ own[u] = None
             /\ session = [s \in Sids |->
                  IF of(s) = {} THEN NoSession
                  ELSE LET u == CHOOSE v \in of(s) : TRUE IN NewSession(u, role[u])]
             /\ index = [u \in Users |-> Listed({own[u]} \ {None}, AbsoluteTtl)]
             /\ root = [s \in Sids |-> IF of(s) = {} THEN None ELSE s]
    BY DEF SessionsInit
  <1>. DEFINE of(s) == {u \in Users : own[u] = s}
  <1>2. ASSUME NEW s \in Sids
        PROVE  \/ session[s] = NoSession /\ root[s] = None
               \/ \E u \in Users : own[u] = s /\ session[s] = NewSession(u, role[u]) /\ root[s] = s
    <2>1. CASE of(s) = {} BY <1>1, <2>1
    <2>2. CASE of(s) # {}
      <3>. DEFINE u == CHOOSE v \in of(s) : TRUE
      <3>1. u \in of(s) BY <2>2
      <3>2. session[s] = NewSession(u, role[u]) /\ root[s] = s BY <1>1, <2>2
      <3>. QED BY <3>1, <3>2
    <2>. QED BY <2>1, <2>2
  <1>3. /\ session = [s \in Sids |-> session[s]] /\ root = [s \in Sids |-> root[s]]
        /\ index = [u \in Users |-> index[u]]
    <2>. DEFINE X(s) == IF of(s) = {} THEN NoSession
                        ELSE LET u == CHOOSE v \in of(s) : TRUE IN NewSession(u, role[u])
                Y(s) == IF of(s) = {} THEN None ELSE s
                Z(u) == Listed({own[u]} \ {None}, AbsoluteTtl)
    <2>1. /\ session = [s \in Sids |-> X(s)] /\ root = [s \in Sids |-> Y(s)]
          /\ index = [u \in Users |-> Z(u)]
      BY <1>1
    <2>. HIDE DEF X, Y, Z
    <2>. QED BY <2>1
  <1>4. SessionsTypeOK
    <2>1. \A s \in Sids : session[s] \in Session \cup {NoSession} BY <1>2, NewSessionTyped
    <2>2. \A u \in Users : {own[u]} \ {None} \in SUBSET Sids OBVIOUS
    <2>3. \A u \in Users : index[u] \in Index
      <3>1. ASSUME NEW u \in Users PROVE index[u] \in Index
        <4>1. index[u] = Listed({own[u]} \ {None}, AbsoluteTtl) BY <1>1
        <4>. QED BY <2>2, <4>1, ListedTyped, TtlFacts
      <3>. QED BY <3>1
    <2>4. \A s \in Sids : root[s] \in Sids \cup {None} BY <1>2
    <2>. QED BY <1>3, <2>1, <2>3, <2>4 DEF SessionsTypeOK
  <1>5. ASSUME NEW s \in Sids, Live(s)
        PROVE  /\ root[s] = s
               /\ session[s].ttl = SlidingTtl /\ session[s].left = AbsoluteTtl
               /\ s \in index[session[s].user].members /\ index[session[s].user].ttl = AbsoluteTtl
    <2>1. PICK u \in Users : own[u] = s /\ session[s] = NewSession(u, role[u]) /\ root[s] = s
      BY <1>2, <1>5 DEF Live
    <2>2. session[s].user = u /\ session[s].ttl = SlidingTtl /\ session[s].left = AbsoluteTtl
      BY <2>1, NewSessionTyped
    <2>3. {own[u]} \ {None} = {s} BY <2>1, TtlFacts
    <2>4. index[u] = Listed({s}, AbsoluteTtl) BY <1>1, <2>3
    <2>5. index[u].members = {s} /\ index[u].ttl = AbsoluteTtl BY <2>4, ListedTyped, TtlFacts
    <2>. QED BY <2>1, <2>2, <2>5
  <1>6. Rooted BY <1>2, <1>5, TtlFacts DEF Rooted, Fresh, Live
  <1>7. WithinLifetime /\ LiveIsListed BY <1>5, TtlFacts DEF WithinLifetime, LiveIsListed
  <1>8. OneSessionPerSignIn BY <1>5 DEF OneSessionPerSignIn
  <1>. QED BY <1>4, <1>6, <1>7, <1>8 DEF StoreInv

\* A live session within the invariant.
LEMMA LiveFacts ==
  ASSUME StoreInv, NEW s \in Sids, Live(s)
  PROVE  /\ session[s] \in Session
         /\ session[s].user \in Users /\ session[s].ttl \in 0..SlidingTtl /\ session[s].left \in 0..AbsoluteTtl
         /\ session[s].ttl <= session[s].left
         /\ s \in index[session[s].user].members
         /\ session[s].ttl <= index[session[s].user].ttl
         /\ index[session[s].user] \in Index
  BY DEF StoreInv, SessionsTypeOK, WithinLifetime, LiveIsListed, Live, Session

\* The scripts change one user's list and sessions of that user only: what they
\* have to see to.
LEMMA OneListMoves ==
  ASSUME StoreInv, NEW u \in Users, NEW ix \in Index, index' = [index EXCEPT ![u] = ix],
         session' \in [Sids -> Session \cup {NoSession}],
         root' \in [Sids -> Sids \cup {None}],
         \A s \in Sids : session'[s] # NoSession =>
            \/ session'[s] = session[s] /\ root'[s] = root[s]
               /\ (session[s].user = u => s \in ix.members /\ session[s].ttl <= ix.ttl)
            \/ /\ session'[s].user = u /\ s \in ix.members
               /\ session'[s].ttl <= ix.ttl /\ session'[s].ttl <= session'[s].left,
         \A s, n \in Sids : session'[s] # NoSession /\ session'[n] # NoSession /\ root'[s] = root'[n] => s = n,
         \A s \in Sids : /\ session'[s] # NoSession => root'[s] # None
                         /\ root'[s] # None => root'[root'[s]] # None
  PROVE  StoreInv'
  <1>1. index' \in [Users -> Index] BY DEF StoreInv, SessionsTypeOK
  <1>2. \A v \in Users : index'[v] = IF v = u THEN ix ELSE index[v] BY DEF StoreInv, SessionsTypeOK
  <1>3. ASSUME NEW s \in Sids, session'[s] # NoSession
        PROVE  /\ s \in index'[session'[s].user].members
               /\ session'[s].ttl <= index'[session'[s].user].ttl
               /\ session'[s].ttl <= session'[s].left
    <2>1. CASE session'[s] = session[s] /\ (session[s].user = u => s \in ix.members /\ session[s].ttl <= ix.ttl)
      <3>1. Live(s) BY <1>3, <2>1 DEF Live
      <3>. QED BY <1>2, <2>1, <3>1, LiveFacts
    <2>2. CASE /\ session'[s].user = u /\ s \in ix.members
               /\ session'[s].ttl <= ix.ttl /\ session'[s].ttl <= session'[s].left
      BY <1>2, <2>2
    <2>. QED BY <1>3, <2>1, <2>2
  <1>. QED BY <1>1, <1>3
       DEF StoreInv, SessionsTypeOK, WithinLifetime, LiveIsListed, OneSessionPerSignIn, Rooted, Live, Fresh

\* A sign-in makes a session and lists it.
LEMMA CreatesWell ==
  ASSUME StoreInv, NEW s \in Sids, NEW u \in Users, NEW role \in Roles, CreateSession(s, u, role)
  PROVE  StoreInv'
  <1>. DEFINE x == NewSession(u, role)
              ix == Listed(index[u].members \cup {s}, AbsoluteTtl)
  <1>0. index[u] \in Index /\ index[u].members \in SUBSET Sids BY DEF StoreInv, SessionsTypeOK, Index
  <1>1. x \in Session /\ x.user = u /\ x.ttl = SlidingTtl /\ x.left = AbsoluteTtl BY NewSessionTyped
  <1>2. ix \in Index /\ ix.members = index[u].members \cup {s} /\ ix.ttl = AbsoluteTtl
    BY <1>0, ListedTyped, TtlFacts
  <1>3. /\ session' = [session EXCEPT ![s] = x] /\ index' = [index EXCEPT ![u] = ix]
        /\ root' = [root EXCEPT ![s] = s] /\ root[s] = None
    BY <1>0 DEF CreateSession, Fresh
  <1>. HIDE DEF x, ix
  <1>4. session' \in [Sids -> Session \cup {NoSession}] /\ root' \in [Sids -> Sids \cup {None}]
    BY <1>1, <1>3 DEF StoreInv, SessionsTypeOK
  <1>5. \A n \in Sids : /\ session'[n] = IF n = s THEN x ELSE session[n]
                        /\ root'[n] = IF n = s THEN s ELSE root[n]
    BY <1>3 DEF StoreInv, SessionsTypeOK
  <1>6. ASSUME NEW n \in Sids, n # s, Live(n)
        PROVE  session[n].user = u => n \in ix.members /\ session[n].ttl <= ix.ttl
    BY <1>2, <1>6, LiveFacts, TtlFacts
  <1>7. \A n \in Sids : root[n] # s BY <1>3, TtlFacts DEF StoreInv, Rooted, Fresh, SessionsTypeOK
  <1>8. \A n \in Sids : (Live(n) => root[n] # None) /\ (root[n] # None => root[root[n]] # None /\ root[n] \in Sids)
    BY DEF StoreInv, Rooted, Fresh, SessionsTypeOK
  <1>9. \A n \in Sids : /\ session'[n] # NoSession => root'[n] # None
                        /\ root'[n] # None => root'[root'[n]] # None
    BY <1>5, <1>8, TtlFacts DEF Live
  <1>10. \A m, n \in Sids : session'[m] # NoSession /\ session'[n] # NoSession /\ root'[m] = root'[n] => m = n
    BY <1>5, <1>7 DEF StoreInv, OneSessionPerSignIn, Live
  <1>11. \A n \in Sids : session'[n] # NoSession =>
            \/ session'[n] = session[n] /\ root'[n] = root[n]
               /\ (session[n].user = u => n \in ix.members /\ session[n].ttl <= ix.ttl)
            \/ /\ session'[n].user = u /\ n \in ix.members
               /\ session'[n].ttl <= ix.ttl /\ session'[n].ttl <= session'[n].left
    BY <1>1, <1>2, <1>5, <1>6, TtlFacts DEF Live
  <1>. QED BY <1>2, <1>3, <1>4, <1>9, <1>10, <1>11, OneListMoves

\* A session that ends leaves the list.
LEMMA ForgetsWell ==
  ASSUME StoreInv, NEW s \in Sids, Live(s), Forget(s)
  PROVE  StoreInv'
  <1>. DEFINE u == session[s].user
              ix == Removed(index[u], s)
  <1>0. u \in Users /\ index[u] \in Index /\ index[u].members \in SUBSET Sids /\ index[u].ttl \in 0..AbsoluteTtl
    BY LiveFacts DEF Index
  <1>2. ix \in Index /\ ix.members = index[u].members \ {s} /\ (ix.members # {} => ix.ttl = index[u].ttl)
    BY <1>0, ListedTyped DEF Removed
  <1>3. /\ session' = [session EXCEPT ![s] = NoSession] /\ index' = [index EXCEPT ![u] = ix]
        /\ root' = root
    BY <1>0 DEF Forget, StoreInv, SessionsTypeOK
  <1>. HIDE DEF u, ix
  <1>4. session' \in [Sids -> Session \cup {NoSession}] /\ root' \in [Sids -> Sids \cup {None}]
    BY <1>3 DEF StoreInv, SessionsTypeOK
  <1>5. \A n \in Sids : session'[n] = IF n = s THEN NoSession ELSE session[n]
    BY <1>3 DEF StoreInv, SessionsTypeOK
  <1>6. ASSUME NEW n \in Sids, n # s, Live(n)
        PROVE  session[n].user = u => n \in ix.members /\ session[n].ttl <= ix.ttl
    BY <1>2, <1>6, LiveFacts
  <1>9. \A n \in Sids : /\ session'[n] # NoSession => root'[n] # None
                        /\ root'[n] # None => root'[root'[n]] # None
    BY <1>3, <1>5 DEF Live, StoreInv, Rooted, Fresh
  <1>10. \A m, n \in Sids : session'[m] # NoSession /\ session'[n] # NoSession /\ root'[m] = root'[n] => m = n
    BY <1>3, <1>5 DEF StoreInv, OneSessionPerSignIn, Live
  <1>11. \A n \in Sids : session'[n] # NoSession =>
            session'[n] = session[n] /\ root'[n] = root[n]
            /\ (session[n].user = u => n \in ix.members /\ session[n].ttl <= ix.ttl)
    BY <1>3, <1>5, <1>6 DEF Live
  <1>. QED BY <1>0, <1>2, <1>3, <1>4, <1>9, <1>10, <1>11, OneListMoves

\* Adding to a list never shortens its time.
LEMMA AddedTyped ==
  ASSUME NEW ix \in Index, NEW s \in Sids, NEW ttl \in 0..AbsoluteTtl
  PROVE  LET x == Added(ix, s, ttl) IN
         /\ x \in Index /\ x.members = ix.members \cup {s} /\ ttl <= x.ttl
         /\ ix.members # {} => ix.ttl <= x.ttl
  <1>. DEFINE m == ix.members \cup {s}
              t == IF ix.members = {} THEN ttl ELSE LargerOf(ix.ttl, ttl)
  <1>1. m \in SUBSET Sids /\ m # {} /\ ix.ttl \in 0..AbsoluteTtl BY DEF Index
  <1>2. /\ t \in 0..AbsoluteTtl /\ ttl <= t /\ (ix.members # {} => ix.ttl <= t)
    BY <1>1, TtlFacts DEF LargerOf
  <1>3. Added(ix, s, ttl) = Listed(m, t) BY DEF Added
  <1>. HIDE DEF m, t
  <1>4. Listed(m, t) \in Index /\ Listed(m, t).members = m /\ Listed(m, t).ttl = t
    BY <1>1, <1>2, ListedTyped
  <1>. QED BY <1>2, <1>3, <1>4 DEF m

\* A renewal stays within what is left.
LEMMA RenewedFacts ==
  ASSUME StoreInv, NEW s \in Sids, Live(s)
  PROVE  /\ Renewed(s) \in 0..SlidingTtl /\ Renewed(s) \in 0..AbsoluteTtl
         /\ Renewed(s) <= session[s].left
  BY LiveFacts, TtlFacts DEF Renewed, SmallerOf

\* A session that is used is renewed, and its list with it.
LEMMA ReadsWell ==
  ASSUME StoreInv, NEW s \in Sids, ReadSession(s)
  PROVE  /\ StoreInv'
         /\ session'[s] = [session[s] EXCEPT !.ttl = Renewed(s)]
  <1>. DEFINE u == session[s].user
              ix == Added(index[u], s, Renewed(s))
              x == [session[s] EXCEPT !.ttl = Renewed(s)]
  <1>0. Live(s) /\ u \in Users /\ index[u] \in Index /\ session[s] \in Session /\ s \in index[u].members
    BY LiveFacts DEF ReadSession
  <1>1. Renewed(s) \in 0..SlidingTtl /\ Renewed(s) \in 0..AbsoluteTtl /\ Renewed(s) <= session[s].left
    BY <1>0, RenewedFacts
  <1>2. /\ ix \in Index /\ ix.members = index[u].members \cup {s} /\ Renewed(s) <= ix.ttl
        /\ index[u].ttl <= ix.ttl
    BY <1>0, <1>1, AddedTyped
  <1>3. x \in Session /\ x.user = u /\ x.ttl = Renewed(s) /\ x.left = session[s].left
    BY <1>0, <1>1 DEF Session
  <1>4. /\ session' = [session EXCEPT ![s] = x] /\ index' = [index EXCEPT ![u] = ix] /\ root' = root
    BY <1>0 DEF ReadSession, StoreInv, SessionsTypeOK
  <1>. HIDE DEF u, ix, x
  <1>5. session' \in [Sids -> Session \cup {NoSession}] /\ root' \in [Sids -> Sids \cup {None}]
    BY <1>3, <1>4 DEF StoreInv, SessionsTypeOK
  <1>6. \A n \in Sids : session'[n] = IF n = s THEN x ELSE session[n]
    BY <1>4 DEF StoreInv, SessionsTypeOK
  <1>7. ASSUME NEW n \in Sids, n # s, Live(n)
        PROVE  session[n].user = u => n \in ix.members /\ session[n].ttl <= ix.ttl
    <2>1. ix.ttl \in Nat /\ index[u].ttl \in Nat BY <1>0, <1>2 DEF Index
    <2>2. session[n].ttl \in Nat BY <1>7, LiveFacts
    <2>3. session[n].user = u => n \in index[u].members /\ session[n].ttl <= index[u].ttl
      BY <1>7, LiveFacts
    <2>. QED BY <1>2, <2>1, <2>2, <2>3
  <1>9. \A n \in Sids : /\ session'[n] # NoSession => root'[n] # None
                        /\ root'[n] # None => root'[root'[n]] # None
    BY <1>0, <1>4, <1>6 DEF Live, StoreInv, Rooted, Fresh
  <1>10. \A m, n \in Sids : session'[m] # NoSession /\ session'[n] # NoSession /\ root'[m] = root'[n] => m = n
    BY <1>0, <1>4, <1>6 DEF StoreInv, OneSessionPerSignIn, Live
  <1>11. \A n \in Sids : session'[n] # NoSession =>
            \/ session'[n] = session[n] /\ root'[n] = root[n]
               /\ (session[n].user = u => n \in ix.members /\ session[n].ttl <= ix.ttl)
            \/ /\ session'[n].user = u /\ n \in ix.members
               /\ session'[n].ttl <= ix.ttl /\ session'[n].ttl <= session'[n].left
    BY <1>1, <1>2, <1>3, <1>4, <1>6, <1>7 DEF Live
  <1>12. StoreInv' BY <1>0, <1>2, <1>4, <1>5, <1>9, <1>10, <1>11, OneListMoves
  <1>. QED BY <1>6, <1>12 DEF x

\* A rotation puts a session of the same sign-in in the place of the old one.
LEMMA RotatesWell ==
  ASSUME StoreInv, NEW s \in Sids, NEW n \in Sids, NEW role \in Roles, RotateSession(s, n, role)
  PROVE  /\ StoreInv'
         /\ session' = [session EXCEPT ![s] = NoSession,
                                       ![n] = [session[s] EXCEPT !.role = role, !.ttl = Renewed(s)]]
         /\ session[s] \in Session /\ s # n
  <1>. DEFINE u == session[s].user
              ix == Added(Removed(index[u], s), n, Renewed(s))
              x == [session[s] EXCEPT !.role = role, !.ttl = Renewed(s)]
  <1>0. /\ Live(s) /\ u \in Users /\ index[u] \in Index /\ session[s] \in Session
        /\ index[u].members \in SUBSET Sids /\ index[u].ttl \in 0..AbsoluteTtl /\ root[n] = None
    BY LiveFacts DEF RotateSession, Fresh, Index
  <1>1. Renewed(s) \in 0..SlidingTtl /\ Renewed(s) \in 0..AbsoluteTtl /\ Renewed(s) <= session[s].left
    BY <1>0, RenewedFacts
  <1>2. /\ Removed(index[u], s) \in Index /\ Removed(index[u], s).members = index[u].members \ {s}
        /\ Removed(index[u], s).members # {} => Removed(index[u], s).ttl = index[u].ttl
    BY <1>0, ListedTyped DEF Removed
  <1>3. /\ ix \in Index /\ ix.members = (index[u].members \ {s}) \cup {n} /\ Renewed(s) <= ix.ttl
        /\ index[u].members \ {s} # {} => index[u].ttl <= ix.ttl
    <2>. DEFINE old == Removed(index[u], s)
    <2>1. ix = Added(old, n, Renewed(s)) OBVIOUS
    <2>2. old \in Index /\ old.members = index[u].members \ {s}
          /\ (old.members # {} => old.ttl = index[u].ttl)
      BY <1>2
    <2>. HIDE DEF old, ix
    <2>3. /\ Added(old, n, Renewed(s)) \in Index
          /\ Added(old, n, Renewed(s)).members = old.members \cup {n}
          /\ Renewed(s) <= Added(old, n, Renewed(s)).ttl
          /\ old.members # {} => old.ttl <= Added(old, n, Renewed(s)).ttl
      BY <1>1, <2>2, AddedTyped
    <2>. QED BY <2>1, <2>2, <2>3
  <1>4. x \in Session /\ x.user = u /\ x.ttl = Renewed(s) /\ x.left = session[s].left
    BY <1>0, <1>1 DEF Session
  <1>5. /\ session' = [session EXCEPT ![s] = NoSession, ![n] = x] /\ index' = [index EXCEPT ![u] = ix]
        /\ root' = [root EXCEPT ![n] = root[s]]
    BY <1>0 DEF RotateSession, StoreInv, SessionsTypeOK
  <1>6. root[s] # None /\ root[s] \in Sids /\ s # n
    BY <1>0 DEF StoreInv, Rooted, SessionsTypeOK, Fresh
  <1>. HIDE DEF u, ix, x
  <1>7. session' \in [Sids -> Session \cup {NoSession}] /\ root' \in [Sids -> Sids \cup {None}]
    BY <1>4, <1>5, <1>6 DEF StoreInv, SessionsTypeOK
  <1>8. \A m \in Sids : /\ session'[m] = IF m = n THEN x ELSE IF m = s THEN NoSession ELSE session[m]
                        /\ root'[m] = IF m = n THEN root[s] ELSE root[m]
    BY <1>5, <1>6 DEF StoreInv, SessionsTypeOK
  <1>9. ASSUME NEW m \in Sids, m # s, Live(m)
        PROVE  session[m].user = u => m \in ix.members /\ session[m].ttl <= ix.ttl
    <2>1. ix.ttl \in Nat /\ index[u].ttl \in Nat BY <1>0, <1>3 DEF Index
    <2>2. session[m].ttl \in Nat BY <1>9, LiveFacts
    <2>3. session[m].user = u => m \in index[u].members /\ session[m].ttl <= index[u].ttl
      BY <1>9, LiveFacts
    <2>. QED BY <1>3, <1>9, <2>1, <2>2, <2>3
  <1>10. \A m \in Sids : /\ Live(m) => root[m] # None
                         /\ root[m] # None => root[root[m]] # None /\ root[m] \in Sids
    BY DEF StoreInv, Rooted, Fresh, SessionsTypeOK
  <1>11. \A m \in Sids : /\ session'[m] # NoSession => root'[m] # None
                         /\ root'[m] # None => root'[root'[m]] # None
    BY <1>0, <1>6, <1>8, <1>10 DEF Live
  <1>12. \A l, m \in Sids : session'[l] # NoSession /\ session'[m] # NoSession /\ root'[l] = root'[m] => l = m
    BY <1>0, <1>8 DEF StoreInv, OneSessionPerSignIn, Live
  <1>13. \A m \in Sids : session'[m] # NoSession =>
            \/ session'[m] = session[m] /\ root'[m] = root[m]
               /\ (session[m].user = u => m \in ix.members /\ session[m].ttl <= ix.ttl)
            \/ /\ session'[m].user = u /\ m \in ix.members
               /\ session'[m].ttl <= ix.ttl /\ session'[m].ttl <= session'[m].left
    BY <1>1, <1>3, <1>4, <1>8, <1>9 DEF Live
  <1>14. StoreInv' BY <1>0, <1>3, <1>5, <1>7, <1>11, <1>12, <1>13, OneListMoves
  <1>. QED BY <1>0, <1>5, <1>6, <1>14 DEF x

\* Listing drops what is over, and nothing else.
LEMMA ListsWell ==
  ASSUME StoreInv, NEW u \in Users, ListSessions(u)
  PROVE  StoreInv'
  <1>. DEFINE ix == Listed(Ongoing(u), index[u].ttl)
  <1>0. index[u] \in Index /\ index[u].members \in SUBSET Sids /\ index[u].ttl \in 0..AbsoluteTtl
    BY DEF StoreInv, SessionsTypeOK, Index
  <1>1. Ongoing(u) \subseteq index[u].members BY DEF Ongoing
  <1>2. ix \in Index /\ ix.members = Ongoing(u) /\ (Ongoing(u) # {} => ix.ttl = index[u].ttl)
    BY <1>0, <1>1, ListedTyped
  <1>3. index' = [index EXCEPT ![u] = ix] /\ root' = root
        /\ session' = [s \in Sids |-> IF s \in index[u].members \ Ongoing(u) THEN NoSession ELSE session[s]]
    BY DEF ListSessions
  <1>. HIDE DEF ix
  <1>4. session' \in [Sids -> Session \cup {NoSession}] /\ root' \in [Sids -> Sids \cup {None}]
    BY <1>3 DEF StoreInv, SessionsTypeOK
  <1>5. \A s \in Sids : session'[s] # NoSession =>
           session'[s] = session[s] /\ Live(s) /\ (s \in index[u].members => s \in Ongoing(u))
    BY <1>3 DEF Live
  <1>6. \A s \in Sids : session'[s] # NoSession =>
           session'[s] = session[s] /\ root'[s] = root[s]
           /\ (session[s].user = u => s \in ix.members /\ session[s].ttl <= ix.ttl)
    BY <1>2, <1>3, <1>5, LiveFacts
  <1>7. \A s \in Sids : /\ session'[s] # NoSession => root'[s] # None
                        /\ root'[s] # None => root'[root'[s]] # None
    BY <1>3, <1>5 DEF StoreInv, Rooted, Fresh
  <1>8. \A m, n \in Sids : session'[m] # NoSession /\ session'[n] # NoSession /\ root'[m] = root'[n] => m = n
    BY <1>3, <1>5 DEF StoreInv, OneSessionPerSignIn
  <1>. QED BY <1>2, <1>3, <1>4, <1>6, <1>7, <1>8, OneListMoves

\* Sessions and lists run down together.
LEMMA TicksWell ==
  ASSUME StoreInv, Tick
  PROVE  StoreInv'
  <1>1. /\ session' = [s \in Sids |-> IF ~Live(s) \/ session[s].ttl = 0 THEN NoSession
                                      ELSE [session[s] EXCEPT !.ttl = @ - 1, !.left = @ - 1]]
        /\ index' = [u \in Users |-> IF index[u].ttl = 0 THEN Listed({}, 0)
                                     ELSE [index[u] EXCEPT !.ttl = @ - 1]]
        /\ root' = root
    BY DEF Tick
  <1>2. ASSUME NEW s \in Sids, session'[s] # NoSession
        PROVE  /\ Live(s) /\ session'[s] \in Session /\ session'[s].user = session[s].user
               /\ session[s].ttl >= 1 /\ session'[s].ttl = session[s].ttl - 1
               /\ session'[s].ttl <= session'[s].left
    <2>1. Live(s) /\ session[s].ttl # 0
          /\ session'[s] = [session[s] EXCEPT !.ttl = @ - 1, !.left = @ - 1]
      BY <1>1, <1>2
    <2>2. /\ session[s] \in Session /\ session[s].ttl \in 0..SlidingTtl
          /\ session[s].left \in 0..AbsoluteTtl /\ session[s].ttl <= session[s].left
      BY <2>1, LiveFacts
    <2>3. session'[s].ttl = session[s].ttl - 1 /\ session'[s].left = session[s].left - 1
          /\ session'[s].user = session[s].user
      BY <2>1, <2>2 DEF Session
    <2>4. session[s].ttl - 1 \in 0..SlidingTtl /\ session[s].left - 1 \in 0..AbsoluteTtl
      BY <2>1, <2>2, TtlFacts
    <2>5. session'[s] \in Session BY <2>1, <2>2, <2>4 DEF Session
    <2>. QED BY <2>1, <2>2, <2>3, <2>5, TtlFacts
  <1>3. ASSUME NEW u \in Users
        PROVE  /\ index'[u] \in Index
               /\ index[u].ttl # 0 => index'[u].members = index[u].members /\ index'[u].ttl = index[u].ttl - 1
    <2>1. index[u] \in Index /\ index[u].ttl \in 0..AbsoluteTtl BY DEF StoreInv, SessionsTypeOK, Index
    <2>2. CASE index[u].ttl = 0
      <3>1. index'[u] = Listed({}, 0) /\ {} \in SUBSET Sids BY <1>1, <2>2
      <3>. QED BY <2>2, <3>1, ListedTyped, TtlFacts
    <2>3. CASE index[u].ttl # 0
      <3>1. index'[u] = [index[u] EXCEPT !.ttl = @ - 1] BY <1>1, <2>3
      <3>2. index[u].ttl - 1 \in 0..AbsoluteTtl BY <2>1, <2>3, TtlFacts
      <3>. QED BY <2>1, <3>1, <3>2 DEF Index
    <2>. QED BY <2>2, <2>3
  <1>4. SessionsTypeOK'
    <2>1. session' \in [Sids -> Session \cup {NoSession}] BY <1>1, <1>2
    <2>2. index' \in [Users -> Index] BY <1>1, <1>3
    <2>. QED BY <1>1, <2>1, <2>2 DEF SessionsTypeOK, StoreInv
  <1>5. WithinLifetime' BY <1>2 DEF WithinLifetime, Live
  <1>6. LiveIsListed'
    <2>. SUFFICES ASSUME NEW s \in Sids, session'[s] # NoSession
                  PROVE  /\ s \in index'[session'[s].user].members
                         /\ session'[s].ttl <= index'[session'[s].user].ttl
      BY DEF LiveIsListed, Live
    <2>. DEFINE u == session[s].user
    <2>1. /\ Live(s) /\ session'[s].user = u
          /\ session[s].ttl >= 1 /\ session'[s].ttl = session[s].ttl - 1
      BY <1>2
    <2>2. /\ u \in Users /\ s \in index[u].members /\ session[s].ttl <= index[u].ttl
          /\ session[s].ttl \in 0..SlidingTtl /\ index[u].ttl \in 0..AbsoluteTtl
      BY <2>1, LiveFacts DEF Index
    <2>3. index[u].ttl # 0 BY <2>1, <2>2, TtlFacts
    <2>4. index'[u].members = index[u].members /\ index'[u].ttl = index[u].ttl - 1
      BY <1>3, <2>2, <2>3
    <2>. QED BY <2>1, <2>2, <2>4, TtlFacts
  <1>7. OneSessionPerSignIn' BY <1>1, <1>2 DEF OneSessionPerSignIn, Live, StoreInv
  <1>8. Rooted' BY <1>1, <1>2 DEF Rooted, Live, Fresh, StoreInv
  <1>. QED BY <1>4, <1>5, <1>6, <1>7, <1>8 DEF StoreInv

\* Every script keeps the invariant.
LEMMA StoreInvStep == StoreInv /\ [SessionsNext]_svars => StoreInv'
  <1>. SUFFICES ASSUME StoreInv, [SessionsNext]_svars PROVE StoreInv' OBVIOUS
  <1>1. CASE UNCHANGED svars
    BY <1>1 DEF svars, StoreInv, SessionsTypeOK, WithinLifetime, LiveIsListed, OneSessionPerSignIn,
                Rooted, Live, Fresh
  <1>2. ASSUME NEW s \in Sids, ReadNothing(s) \/ RevokeSession(s) PROVE StoreInv'
    BY <1>1, <1>2, ForgetsWell DEF ReadNothing, RevokeSession, PastLifetime
  <1>. QED BY <1>1, <1>2, CreatesWell, ReadsWell, RotatesWell, ListsWell, TicksWell DEF SessionsNext

\* ... so it always holds, used in any way.
LEMMA StoreAlwaysInv == SessionsSpec => []StoreInv
  BY StoreInvInit, StoreInvStep, PTL DEF SessionsSpec

(* The applications. *)

\* The inductive invariant of the applications.
AppsInv == AppsTypeOK /\ OwnersAreDevelopers /\ RequestedIsUnverified

\* What those who manage an application do to it.
ByManager(u, role, a) ==
  \/ SetIcon(u, role, a) \/ RemoveIcon(u, role, a) \/ ResetSecret(u, role, a)
  \/ RemoveApp(u, role, a) \/ RequestVerification(u, a)
  \/ \E uris \in Uris : UpdateRedirectUris(u, role, a, uris)

ByAdministrator(a) == Approve(a) \/ Reject(a) \/ RevokeVerification(a)

\* A process that starts.
ByProcess ==
  \/ UpsertConsole(owner) \/ LabelConsole
  \/ owner # None /\ AdoptConsole(owner)

\* An application that stays is as public as it was, and its owner is the same, nobody
\* or the owner of all.
StaysPublic ==
  \A a \in Apps : Exists(a) /\ Exists(a)' =>
    /\ app[a].secret = "none" => app'[a].secret = "none"
    /\ app'[a].owner \in {app[a].owner, None, owner}

\* A row that keeps the invariant.
AppOK(x) ==
  /\ x \in App /\ MayOwn(x.owner)
  /\ ~x.console => ~(x.requested /\ x.verified)

LEMMA AppsAreOK == AppsInv => \A a \in Apps : Exists(a) => AppOK(app[a])
  BY DEF AppsInv, AppsTypeOK, OwnersAreDevelopers, RequestedIsUnverified, AppOK, Exists

\* One application is written.
LEMMA OneWritten ==
  ASSUME AppsInv, UNCHANGED <<owner, developer>>, NEW a \in Apps, NEW x, app' = [app EXCEPT ![a] = x],
         x = Deleted \/ AppOK(x)
  PROVE  /\ AppsInv'
         /\ \A b \in Apps \ {a} : app'[b] = app[b]
         /\ app'[a] = x
  BY AppsAreOK DEF AppsInv, AppsTypeOK, OwnersAreDevelopers, RequestedIsUnverified, AppOK, Exists, MayOwn

\* The writes of those who manage an application.
LEMMA ManagersWrite ==
  ASSUME AppsInv, UNCHANGED <<owner, developer>>, NEW a \in Apps, NEW u, NEW role, ByManager(u, role, a)
  PROVE  /\ AppsInv' /\ StaysPublic
         /\ \A b \in Apps : app'[b] # app[b] => role = "admin" \/ app[b].owner = u
  <1>0. Exists(a) /\ AppOK(app[a])
    BY AppsAreOK DEF ByManager, SetIcon, RemoveIcon, ResetSecret, RemoveApp, RequestVerification,
                     UpdateRedirectUris, Manages
  <1>1. ASSUME NEW x, app' = [app EXCEPT ![a] = x], x = Deleted \/ AppOK(x),
               x # Deleted => /\ x.owner = app[a].owner
                              /\ app[a].secret = "none" => x.secret = "none",
               role = "admin" \/ app[a].owner = u
        PROVE  /\ AppsInv' /\ StaysPublic
               /\ \A b \in Apps : app'[b] # app[b] => role = "admin" \/ app[b].owner = u
    BY <1>1, OneWritten DEF StaysPublic, Exists
  <1>2. CASE SetIcon(u, role, a)
    <2>1. app' = [app EXCEPT ![a] = [app[a] EXCEPT !.icon = TRUE]]
      BY <1>2 DEF SetIcon, Write
    <2>. QED BY <1>0, <1>1, <1>2, <2>1 DEF SetIcon, Manages, AppOK, App, MayOwn
  <1>3. CASE RemoveIcon(u, role, a)
    <2>1. app' = [app EXCEPT ![a] = [app[a] EXCEPT !.icon = FALSE]]
      BY <1>3 DEF RemoveIcon, Write
    <2>. QED BY <1>0, <1>1, <1>3, <2>1 DEF RemoveIcon, Manages, AppOK, App, MayOwn
  <1>4. CASE ResetSecret(u, role, a)
    <2>1. app' = [app EXCEPT ![a] = [app[a] EXCEPT !.secret = "rotated"]]
      BY <1>4 DEF ResetSecret, Write
    <2>. QED BY <1>0, <1>1, <1>4, <2>1 DEF ResetSecret, Manages, AppOK, App, MayOwn, Secrets
  <1>5. CASE RemoveApp(u, role, a)
    BY <1>0, <1>1, <1>5 DEF RemoveApp, Manages
  <1>6. CASE RequestVerification(u, a)
    <2>1. app' = [app EXCEPT ![a] = [app[a] EXCEPT !.requested = TRUE]]
      BY <1>6 DEF RequestVerification, Write
    <2>. QED BY <1>0, <1>1, <1>6, <2>1 DEF RequestVerification, AppOK, App, MayOwn
  <1>7. ASSUME NEW uris \in Uris, UpdateRedirectUris(u, role, a, uris)
        PROVE  /\ AppsInv' /\ StaysPublic
               /\ \A b \in Apps : app'[b] # app[b] => role = "admin" \/ app[b].owner = u
    <2>1. app' = [app EXCEPT ![a] = [app[a] EXCEPT !.uris = uris]]
      BY <1>7 DEF UpdateRedirectUris, Write
    <2>. QED BY <1>0, <1>1, <1>7, <2>1 DEF UpdateRedirectUris, Manages, AppOK, App, MayOwn
  <1>. QED BY <1>2, <1>3, <1>4, <1>5, <1>6, <1>7 DEF ByManager

\* The decisions about verification.
LEMMA AdministratorsDecide ==
  ASSUME AppsInv, UNCHANGED <<owner, developer>>, NEW a \in Apps, ByAdministrator(a)
  PROVE  AppsInv' /\ StaysPublic
  <1>1. PICK v \in BOOLEAN : Decide(a, v)
    BY DEF ByAdministrator, Approve, Reject, RevokeVerification
  <1>. DEFINE x == [app[a] EXCEPT !.requested = FALSE, !.verified = v]
  <1>2. app' = [app EXCEPT ![a] = x] BY <1>1 DEF Decide
  <1>3. Exists(a) /\ AppOK(app[a])
    BY AppsAreOK DEF ByAdministrator, Approve, Reject, RevokeVerification
  <1>4. AppOK(x) /\ x.owner = app[a].owner /\ x.secret = app[a].secret
    BY <1>3 DEF AppOK, App, MayOwn
  <1>. QED BY <1>2, <1>4, OneWritten DEF StaysPublic, Exists

\* A registration touches no application that is there.
LEMMA DevelopersRegister ==
  ASSUME AppsInv, UNCHANGED <<owner, developer>>, NEW a \in Apps, NEW u \in Users, NEW secret \in Secrets,
         RegisterApp(a, u, secret)
  PROVE  AppsInv' /\ StaysPublic /\ \A b \in Apps : Exists(b) => app'[b] = app[b]
  <1>1. AppOK(Plain(u, secret)) BY DEF RegisterApp, Plain, AppOK, App, Secrets, Uris
  <1>2. app' = [app EXCEPT ![a] = Plain(u, secret)] /\ ~Exists(a) BY DEF RegisterApp, Exists
  <1>. QED BY <1>1, <1>2, OneWritten DEF StaysPublic

\* The three statements of ensureConsoleClient.
LEMMA ProcessesStart ==
  ASSUME AppsInv, UNCHANGED <<owner, developer>>, owner \in Users \cup {None}, ByProcess
  PROVE  AppsInv' /\ StaysPublic
  <1>1. CASE UpsertConsole(owner)
    <2>1. CASE \E a \in Apps : IsConsole(a)
      <3>1. PICK a \in Apps : IsConsole(a) /\ Write(a, "uris", "callback")
        BY <1>1, <2>1 DEF UpsertConsole
      <3>. DEFINE x == [app[a] EXCEPT !.uris = "callback"]
      <3>2. app' = [app EXCEPT ![a] = x] BY <3>1 DEF Write
      <3>3. Exists(a) /\ AppOK(app[a]) BY <3>1, AppsAreOK DEF IsConsole
      <3>4. AppOK(x) /\ x.owner = app[a].owner /\ x.secret = app[a].secret
        BY <3>3 DEF AppOK, App, MayOwn, Uris
      <3>. QED BY <3>2, <3>4, OneWritten DEF StaysPublic, Exists
    <2>2. CASE ~\E a \in Apps : IsConsole(a)
      <3>. DEFINE x == [Plain(owner, "none") EXCEPT !.console = TRUE, !.uris = "callback", !.verified = TRUE]
      <3>1. PICK a \in Apps : app[a] = Unborn /\ app' = [app EXCEPT ![a] = x]
        BY <1>1, <2>2 DEF UpsertConsole
      <3>2. MayOwn(owner) BY <1>1, <2>2 DEF UpsertConsole
      <3>3. AppOK(x) BY <3>2 DEF Plain, AppOK, App, Secrets, Uris
      <3>4. ~Exists(a) BY <3>1 DEF Exists
      <3>. QED BY <3>1, <3>3, <3>4, OneWritten DEF StaysPublic
    <2>. QED BY <2>1, <2>2
  <1>2. ASSUME NEW f, app' = [a \in Apps |-> f[a]],
               \A a \in Apps : f[a] = app[a] \/ /\ Exists(a) /\ AppOK(f[a])
                                                /\ f[a].secret = app[a].secret
                                                /\ f[a].owner \in {app[a].owner, owner}
        PROVE  AppsInv' /\ StaysPublic
    BY <1>2, AppsAreOK DEF AppsInv, AppsTypeOK, OwnersAreDevelopers, RequestedIsUnverified, AppOK,
                           StaysPublic, Exists, MayOwn
  <1>3. CASE LabelConsole
    <2>. DEFINE f == [a \in Apps |-> IF IsConsole(a) THEN [app[a] EXCEPT !.verified = TRUE] ELSE app[a]]
    <2>1. \A a \in Apps : f[a] = app[a] \/ /\ Exists(a) /\ AppOK(f[a])
                                           /\ f[a].secret = app[a].secret
                                           /\ f[a].owner \in {app[a].owner, owner}
      BY AppsAreOK DEF IsConsole, AppOK, App, MayOwn
    <2>2. app' = [a \in Apps |-> f[a]] BY <1>3 DEF LabelConsole
    <2>. HIDE DEF f
    <2>. QED BY <1>2, <2>1, <2>2
  <1>4. CASE owner # None /\ AdoptConsole(owner)
    <2>. DEFINE f == [a \in Apps |-> IF IsConsole(a) /\ app[a].owner = None
                                     THEN [app[a] EXCEPT !.owner = owner] ELSE app[a]]
    <2>0. MayOwn(owner) BY <1>4 DEF AdoptConsole
    <2>1. \A a \in Apps : f[a] = app[a] \/ /\ Exists(a) /\ AppOK(f[a])
                                           /\ f[a].secret = app[a].secret
                                           /\ f[a].owner \in {app[a].owner, owner}
      BY <2>0, AppsAreOK DEF IsConsole, AppOK, App
    <2>2. app' = [a \in Apps |-> f[a]] BY <1>4 DEF AdoptConsole
    <2>. HIDE DEF f
    <2>. QED BY <1>2, <2>1, <2>2
  <1>. QED BY <1>1, <1>3, <1>4 DEF ByProcess

\* A developer whose row goes leaves no application behind.
LEMMA CommitKeepsOwners ==
  ASSUME AppsInv, AccessInv, NEW r \in Requests, Commits(r),
         IF tx[r].to = "none" THEN Disowns(tx[r].user) ELSE UNCHANGED app
  PROVE  AppsInv' /\ StaysPublic
  <1>. DEFINE t == tx[r]
  <1>1. /\ t \in Transaction /\ Writes(t) \subseteq {t.user}
        /\ developer' = [u \in Users |-> IF u \in Writes(t) THEN t.to ELSE developer[u]]
        /\ owner' = owner
    BY CommitWrites DEF Commits
  <1>2. \A a \in Apps : Exists(a) => AppOK(app[a]) BY AppsAreOK
  <1>3. CASE t.to = "none"
    <2>. DEFINE f == [a \in Apps |-> IF Exists(a) /\ app[a].owner = t.user
                                     THEN [app[a] EXCEPT !.owner = None] ELSE app[a]]
    <2>1. app' = f BY <1>3 DEF Disowns
    <2>2. ASSUME NEW a \in Apps, Exists(a)
          PROVE  /\ f[a] \in App /\ f[a].secret = app[a].secret
                 /\ f[a].console = app[a].console /\ f[a].requested = app[a].requested
                 /\ f[a].verified = app[a].verified
                 /\ \/ f[a].owner = None
                    \/ f[a].owner = app[a].owner /\ f[a].owner # t.user
      BY <1>2, <2>2 DEF AppOK, App
    <2>3. \A a \in Apps : ~Exists(a) => f[a] = app[a] OBVIOUS
    <2>4. f = [a \in Apps |-> f[a]] OBVIOUS
    <2>5. \A u \in Users \ {t.user} : developer'[u] = developer[u] BY <1>1
    <2>. HIDE DEF f, t
    <2>6. AppsTypeOK'
      BY <2>1, <2>2, <2>3, <2>4 DEF AppsTypeOK, AppsInv, Exists
    <2>7. StaysPublic BY <2>1, <2>2 DEF StaysPublic
    <2>8. OwnersAreDevelopers'
      BY <1>2, <2>1, <2>2, <2>3, <2>5 DEF OwnersAreDevelopers, Exists, MayOwn, AppOK, App
    <2>9. RequestedIsUnverified'
      BY <2>1, <2>2, <2>3 DEF RequestedIsUnverified, Exists, AppsInv
    <2>. QED BY <2>6, <2>7, <2>8, <2>9 DEF AppsInv
  <1>4. CASE t.to # "none"
    <2>1. app' = app BY <1>4
    <2>2. \A u \in Users : developer[u] # "none" => developer'[u] # "none" BY <1>1, <1>4
    <2>. QED BY <1>1, <2>1, <2>2 DEF AppsInv, AppsTypeOK, OwnersAreDevelopers, RequestedIsUnverified,
                                     StaysPublic, Exists, MayOwn
  <1>. QED BY <1>3, <1>4

(* The requests. *)

\* What a request knows at each of its steps.
Shape(x) ==
  /\ x.at \in {"read", "find", "drop", "rotate", "reread", "handle"} =>
       x.sid \in Sids /\ x.route \in ConsoleRoutes
  /\ x.at \in {"find", "drop", "rotate", "reread", "handle", "create"} =>
       x.user \in Users /\ x.role \in Roles
  /\ x.at = "close" => x.key \in Sids
  /\ x.at = "write" => \/ x.route = "boot"
                       \/ x.route = "edit" /\ x.user \in Users /\ x.role \in Roles /\ x.app \in Apps
  /\ x.at = "commit" => x.route \in {"grant", "revoke", "cli", "erase", "boot"}
  /\ x.at \in {"label", "seed", "adopt"} => x.route = "boot"
  /\ x.at \in {"label", "adopt"} \/ (x.at = "commit" /\ x.route = "boot") => owner \in Users

\* Requests have their shape; only one that is at its commit has a transaction open.
RequestsOK ==
  /\ req \in [Requests -> Request]
  /\ \A r \in Requests : Shape(req[r]) /\ (Open(r) => req[r].at = "commit")

\* What the steps of a request rely on.
Serving == AccessInv /\ StoreInv /\ RequestsOK

\* Only request r goes on, to another step.
Moves(r) ==
  /\ \A q \in Requests \ {r} : req'[q] = req[q]
  /\ req' \in [Requests -> Request]
  /\ Shape(req'[r])

\* A role is acted on only after these steps.
WithRole == {"rotate", "reread", "handle"}

LEMMA FreeIsARequest == Free \in Request /\ Shape(Free) /\ Free.at = "idle"
  BY DEF Free, Request, Shape, Steps

\* Ways in which a request goes on.
LEMMA Moved ==
  ASSUME RequestsOK, NEW r \in Requests, NEW x \in Request, Shape(x), req' = [req EXCEPT ![r] = x]
  PROVE  Moves(r) /\ req'[r] = x
  BY DEF RequestsOK, Moves

LEMMA Gone ==
  ASSUME RequestsOK, NEW r \in Requests, NEW step \in Steps, Goes(r, step),
         Shape([req[r] EXCEPT !.at = step])
  PROVE  Moves(r) /\ req'[r] = [req[r] EXCEPT !.at = step]
  <1>. DEFINE x == [req[r] EXCEPT !.at = step]
  <1>1. req' = [req EXCEPT ![r] = x] BY DEF Goes
  <1>2. x \in Request BY DEF RequestsOK, Request
  <1>. HIDE DEF x
  <1>3. Shape(x) BY DEF x
  <1>4. Moves(r) /\ req'[r] = x BY <1>1, <1>2, <1>3, Moved
  <1>. QED BY <1>4 DEF x

LEMMA Ended ==
  ASSUME RequestsOK, NEW r \in Requests, Ends(r)
  PROVE  Moves(r) /\ req'[r] = Free
  BY FreeIsARequest, Moved DEF Ends

\* Transactions of others go on as they are.
LEMMA OthersStayOpen ==
  ASSUME AccessInv, NEW r \in Requests,
         \/ UNCHANGED avars
         \/ \E u \in Users, to \in Access : Begins(r, u, to)
         \/ Refuses(r) \/ Commits(r) \/ Retries(r) \/ GivesUp(r)
         \/ \E u \in Users, v \in BOOLEAN : SetVerified(u, v)
  PROVE  /\ [AccessNext]_avars
         /\ owner' = owner
         /\ \A q \in Requests \ {r} : Open(q)' => Open(q)
         /\ UNCHANGED avars \/ (\E u \in Users, v \in BOOLEAN : SetVerified(u, v)) => (Open(r)' => Open(r))
         /\ Refuses(r) \/ Commits(r) \/ GivesUp(r) => ~Open(r)'
  <1>0. AccessTypeOK BY DEF AccessInv
  <1>1. CASE UNCHANGED avars
    <2>1. ASSUME Refuses(r) \/ Commits(r) \/ GivesUp(r) PROVE ~Open(r)'
      BY <1>0, <2>1 DEF Refuses, Commits, GivesUp, Passed, Open, AccessTypeOK
    <2>. QED BY <1>1, <2>1 DEF avars, Open
  <1>2. ASSUME NEW u \in Users, NEW v \in BOOLEAN, SetVerified(u, v)
        PROVE  [AccessNext]_avars /\ owner' = owner /\ \A q \in Requests : Open(q)' => Open(q)
    <2>1. {} \in SUBSET Users /\ {u} \in SUBSET Users /\ tx' = Passed(None, {}, {u})
      BY <1>2 DEF SetVerified
    <2>2. \A q \in Requests : tx'[q] # NoTx => tx[q] # NoTx
      BY <2>1 DEF Passed, Open
    <2>. QED BY <1>2, <2>2 DEF AccessNext, SetVerified, Open
  <1>3. CASE Commits(r)
    <2>1. tx' = Passed(r, Reads(tx[r]), Writes(tx[r])) BY <1>3 DEF Commits
    <2>2. tx' = [q \in Requests |-> tx'[q]] /\ tx'[r] = NoTx
          /\ \A q \in Requests \ {r} : tx[q] = NoTx => tx'[q] = NoTx
      BY <2>1 DEF Passed, Open
    <2>. QED BY <1>3, <2>2 DEF AccessNext, AccessStep, Open, Commits
  <1>4. CASE Refuses(r) \/ GivesUp(r)
    BY <1>0, <1>4 DEF AccessNext, AccessStep, Open, Refuses, GivesUp, AccessTypeOK
  <1>5. CASE Retries(r)
    <2>1. ~(Refuses(r) \/ Commits(r) \/ GivesUp(r)) \/ ~Open(r)'
      BY <1>0 DEF Refuses, Commits, GivesUp, Passed, Open, AccessTypeOK
    <2>. QED BY <1>0, <1>5, <2>1 DEF AccessNext, AccessStep, Open, Retries, AccessTypeOK
  <1>6. ASSUME NEW u \in Users, NEW to \in Access, Begins(r, u, to)
        PROVE  /\ [AccessNext]_avars /\ owner' = owner
               /\ \A q \in Requests \ {r} : Open(q)' => Open(q)
    BY <1>0, <1>6 DEF AccessNext, AccessStep, Begins, Open, AccessTypeOK
  <1>7. Refuses(r) \/ Commits(r) \/ GivesUp(r) => ~Open(r)'
    BY <1>0 DEF Refuses, Commits, GivesUp, Passed, Open, AccessTypeOK
  <1>8. UNCHANGED avars => (Open(r)' => Open(r)) BY DEF avars, Open
  <1>9. (\E u \in Users, v \in BOOLEAN : SetVerified(u, v)) => (Open(r)' => Open(r)) BY <1>2
  <1>. QED BY <1>1, <1>2, <1>3, <1>4, <1>5, <1>6, <1>7, <1>8, <1>9
\* One step of request r: the tables, the sessions and the applications change as
\* their own operations change them.
StepOK(r) ==
  /\ Moves(r)
  /\ [AccessNext]_avars /\ [SessionsNext]_svars /\ owner' = owner
  /\ \A q \in Requests : Open(q)' => req'[q].at = "commit"

\* Where no transaction is begun.
LEMMA NothingOpens ==
  ASSUME Serving, NEW r \in Requests, Moves(r), UNCHANGED avars \/ GivesUp(r) \/ Refuses(r) \/ Commits(r),
         UNCHANGED avars => req[r].at # "commit" \/ ~Open(r),
         [SessionsNext]_svars
  PROVE  StepOK(r)
  <1>1. /\ [AccessNext]_avars /\ owner' = owner
        /\ \A q \in Requests \ {r} : Open(q)' => Open(q)
        /\ UNCHANGED avars => (Open(r)' => Open(r))
        /\ Refuses(r) \/ Commits(r) \/ GivesUp(r) => ~Open(r)'
    BY OthersStayOpen DEF Serving
  <1>2. ~Open(r)' BY <1>1 DEF Serving, RequestsOK
  <1>. QED BY <1>1, <1>2 DEF StepOK, Moves, Serving, RequestsOK

\* What is known of a request in the middle of things.
LEMMA Facts ==
  ASSUME Serving, NEW r \in Requests
  PROVE  /\ RequestsOK /\ StoreInv /\ AccessInv /\ AccessTypeOK
         /\ req[r] \in Request /\ Shape(req[r])
         /\ developer \in [Users -> Access] /\ owner \in Users \cup {None}
         /\ None \notin Users /\ None \notin Sids
  BY IdentitiesAssumption, SessionsAssumption DEF Serving, RequestsOK, AccessInv, AccessTypeOK

\* Authentication.
LEMMA Authenticates ==
  ASSUME Serving, NEW r \in Requests,
         \/ \E s \in Sids, route \in ConsoleRoutes : Begin(r, s, route)
         \/ ReadCookie(r) \/ FindAccess(r) \/ DropSession(r) \/ Reread(r)
         \/ \E n \in Sids : Rotate(r, n)
  PROVE  /\ StepOK(r) /\ UNCHANGED database
         /\ req'[r].at \in WithRole => FindAccess(r) \/ Reread(r) \/ \E n \in Sids : Rotate(r, n)
  <1>0. /\ RequestsOK /\ StoreInv /\ req[r] \in Request /\ Shape(req[r])
        /\ developer \in [Users -> Access] /\ None \notin Users /\ None \notin Sids
    BY Facts
  <1>1. ASSUME NEW s \in Sids, NEW route \in ConsoleRoutes, Begin(r, s, route)
        PROVE  StepOK(r) /\ UNCHANGED database /\ req'[r].at \notin WithRole
    <2>. DEFINE x == [Free EXCEPT !.at = "read", !.route = route, !.sid = s]
    <2>1. x \in Request /\ Shape(x) /\ x.at = "read"
      BY DEF Free, Request, Shape, Steps, AllRoutes
    <2>2. req' = [req EXCEPT ![r] = x] /\ req[r].at = "idle" /\ UNCHANGED <<avars, app, svars>>
      BY <1>1 DEF Begin, At, database
    <2>. HIDE DEF x
    <2>3. Moves(r) /\ req'[r] = x BY <1>0, <2>1, <2>2, Moved
    <2>. QED BY <2>1, <2>2, <2>3, NothingOpens DEF WithRole, database
  <1>2. CASE ReadCookie(r)
    <2>1. CASE ReadNothing(req[r].sid) /\ Ends(r)
      <3>1. [SessionsNext]_svars /\ UNCHANGED database /\ req[r].at = "read"
        BY <1>0, <1>2, <2>1 DEF SessionsNext, ReadCookie, At, Shape
      <3>2. Moves(r) /\ req'[r] = Free BY <1>0, <2>1, Ended
      <3>. QED BY <3>1, <3>2, FreeIsARequest, NothingOpens DEF WithRole, database
    <2>2. CASE ~(ReadNothing(req[r].sid) /\ Ends(r))
      <3>. DEFINE record == session[req[r].sid]
                  x == [req[r] EXCEPT !.at = "find", !.user = record.user, !.role = record.role]
      <3>1. /\ ReadSession(req[r].sid) /\ req[r].at = "read" /\ UNCHANGED database
            /\ req' = [req EXCEPT ![r].at = "find", ![r].user = record.user, ![r].role = record.role]
        BY <1>2, <2>2 DEF ReadCookie, At
      <3>2. req[r].sid \in Sids /\ Live(req[r].sid) /\ req[r].route \in ConsoleRoutes
        BY <1>0, <3>1 DEF Shape, ReadSession
      <3>3. record \in Session /\ [SessionsNext]_svars
        BY <1>0, <3>1, <3>2, LiveFacts DEF SessionsNext
      <3>4. req' = [req EXCEPT ![r] = x] BY <1>0, <3>1 DEF RequestsOK
      <3>5. x \in Request /\ Shape(x) /\ x.at = "find"
        BY <1>0, <3>2, <3>3 DEF Request, Shape, Session, Steps
      <3>. HIDE DEF x, record
      <3>6. Moves(r) /\ req'[r] = x BY <1>0, <3>4, <3>5, Moved
      <3>. QED BY <3>1, <3>3, <3>5, <3>6, NothingOpens DEF WithRole, database
    <2>. QED BY <2>1, <2>2
  <1>3. CASE FindAccess(r)
    <2>0. /\ req[r].at = "find" /\ req[r].route \in ConsoleRoutes
          /\ UNCHANGED <<avars, app, svars>>
      BY <1>3 DEF FindAccess, At, database
    <2>1. CASE Goes(r, "drop") \/ Goes(r, "handle")
      <3>1. ASSUME NEW step \in {"drop", "handle"}, Goes(r, step) PROVE Moves(r)
        <4>1. Shape([req[r] EXCEPT !.at = step]) BY <1>0, <2>0 DEF Shape, Request
        <4>2. step \in Steps BY DEF Steps
        <4>. QED BY <1>0, <3>1, <4>1, <4>2, Gone
      <3>2. Moves(r) BY <2>1, <3>1
      <3>. QED BY <1>3, <2>0, <3>2, NothingOpens DEF database
    <2>2. CASE ~(Goes(r, "drop") \/ Goes(r, "handle"))
      <3>. DEFINE x == [req[r] EXCEPT !.at = "rotate", !.role = developer[req[r].user]]
      <3>1. /\ developer[req[r].user] \in Roles
            /\ req' = [req EXCEPT ![r].at = "rotate", ![r].role = developer[req[r].user]]
        BY <1>3, <2>2 DEF FindAccess
      <3>2. req' = [req EXCEPT ![r] = x] BY <1>0, <3>1 DEF RequestsOK
      <3>3. x \in Request /\ Shape(x)
        BY <1>0, <2>0, <3>1 DEF Request, Shape, Steps
      <3>. HIDE DEF x
      <3>4. Moves(r) BY <1>0, <3>2, <3>3, Moved
      <3>. QED BY <1>3, <2>0, <3>4, NothingOpens DEF database
    <2>. QED BY <2>1, <2>2
  <1>4. CASE DropSession(r)
    <2>1. Ends(r) /\ req[r].at = "drop" /\ UNCHANGED database /\ [SessionsNext]_svars
      BY <1>0, <1>4 DEF DropSession, At, SessionsNext, Shape
    <2>2. Moves(r) /\ req'[r] = Free BY <1>0, <2>1, Ended
    <2>. QED BY <2>1, <2>2, FreeIsARequest, NothingOpens DEF WithRole, database
  <1>5. CASE Reread(r)
    <2>1. CASE ReadNothing(req[r].sid) /\ Ends(r)
      <3>1. [SessionsNext]_svars /\ UNCHANGED database /\ req[r].at = "reread"
        BY <1>0, <1>5, <2>1 DEF SessionsNext, Reread, At, Shape
      <3>2. Moves(r) /\ req'[r] = Free BY <1>0, <2>1, Ended
      <3>. QED BY <1>5, <3>1, <3>2, NothingOpens DEF database
    <2>2. CASE ~(ReadNothing(req[r].sid) /\ Ends(r))
      <3>. DEFINE x == [req[r] EXCEPT !.at = "handle", !.role = session[req[r].sid].role]
      <3>1. /\ ReadSession(req[r].sid) /\ req[r].at = "reread" /\ UNCHANGED database
            /\ req' = [req EXCEPT ![r].at = "handle", ![r].role = session[req[r].sid].role]
        BY <1>5, <2>2 DEF Reread, At
      <3>2. req[r].sid \in Sids /\ Live(req[r].sid) /\ req[r].route \in ConsoleRoutes /\ req[r].user \in Users
        BY <1>0, <3>1 DEF Shape, ReadSession
      <3>3. session[req[r].sid].role \in Roles /\ [SessionsNext]_svars
        BY <1>0, <3>1, <3>2, LiveFacts DEF SessionsNext, Session
      <3>4. req' = [req EXCEPT ![r] = x] BY <1>0, <3>1 DEF RequestsOK
      <3>5. x \in Request /\ Shape(x)
        BY <1>0, <3>2, <3>3 DEF Request, Shape, Steps
      <3>. HIDE DEF x
      <3>6. Moves(r) BY <1>0, <3>4, <3>5, Moved
      <3>. QED BY <1>5, <3>1, <3>3, <3>6, NothingOpens DEF database
    <2>. QED BY <2>1, <2>2
  <1>6. ASSUME NEW n \in Sids, Rotate(r, n) PROVE StepOK(r) /\ UNCHANGED database
    <2>0. /\ req[r].at = "rotate" /\ UNCHANGED database
          /\ req[r].sid \in Sids /\ req[r].route \in ConsoleRoutes /\ req[r].user \in Users
          /\ req[r].role \in Roles
      BY <1>0, <1>6 DEF Rotate, At, Shape
    <2>1. CASE ReadNothing(req[r].sid) /\ Ends(r)
      <3>1. [SessionsNext]_svars BY <2>0, <2>1 DEF SessionsNext
      <3>2. Moves(r) BY <1>0, <2>1, Ended
      <3>. QED BY <2>0, <3>1, <3>2, NothingOpens DEF database
    <2>2. CASE ~(ReadNothing(req[r].sid) /\ Ends(r))
      <3>. DEFINE x == [req[r] EXCEPT !.at = "reread", !.sid = n]
      <3>1. /\ RotateSession(req[r].sid, n, req[r].role)
            /\ req' = [req EXCEPT ![r].at = "reread", ![r].sid = n]
        BY <1>6, <2>2 DEF Rotate
      <3>2. [SessionsNext]_svars BY <2>0, <3>1 DEF SessionsNext
      <3>3. req' = [req EXCEPT ![r] = x] BY <1>0, <3>1 DEF RequestsOK
      <3>4. x \in Request /\ Shape(x) BY <1>0, <2>0 DEF Request, Shape, Steps
      <3>. HIDE DEF x
      <3>5. Moves(r) BY <1>0, <3>3, <3>4, Moved
      <3>. QED BY <2>0, <3>2, <3>5, NothingOpens DEF database
    <2>. QED BY <2>1, <2>2
  <1>. QED BY <1>1, <1>2, <1>3, <1>4, <1>5, <1>6

\* A transaction that ends, well or not.
LEMMA TransactionEnds ==
  ASSUME Serving, NEW r \in Requests, Moves(r), GivesUp(r) \/ Refuses(r) \/ Commits(r), UNCHANGED svars
  PROVE  StepOK(r)
  <1>1. /\ [AccessNext]_avars /\ owner' = owner
        /\ \A q \in Requests \ {r} : Open(q)' => Open(q)
        /\ ~Open(r)'
    BY OthersStayOpen DEF Serving
  <1>. QED BY <1>1 DEF StepOK, Moves, Serving, RequestsOK

\* The grants, the revocations and the labels of developers.
LEMMA Transacts ==
  ASSUME Serving, NEW r \in Requests,
         \/ \E u \in Users, role \in Roles : BeginGrant(r, u, role)
         \/ \E u \in Users : BeginRevoke(r, u) \/ BeginCommand(r, u) \/ BeginErase(r, u)
         \/ BeginBoot(r) \/ Commit(r) \/ CommitFails(r)
         \/ \E u \in Users, v \in BOOLEAN : DecideOnDeveloper(r, u, v)
         \/ VerifyOwner(r)
  PROVE  /\ StepOK(r) /\ UNCHANGED svars
         /\ req'[r].at \notin WithRole
  <1>0. /\ RequestsOK /\ AccessInv /\ req[r] \in Request /\ Shape(req[r])
        /\ developer \in [Users -> Access] /\ owner \in Users \cup {None} /\ None \notin Users
        /\ "admin" \in Access /\ "none" \in Access /\ Roles \subseteq Access
    BY Facts DEF Access, Roles
  <1>. DEFINE Result == StepOK(r) /\ UNCHANGED svars /\ req'[r].at \notin WithRole
  <1>1. ASSUME NEW u \in Users, NEW to \in Access, Begins(r, u, to), Moves(r), req'[r].at = "commit",
               UNCHANGED <<app, svars>>
        PROVE  Result
    <2>1. [AccessNext]_avars /\ owner' = owner /\ \A q \in Requests \ {r} : Open(q)' => Open(q)
      BY <1>0, <1>1, OthersStayOpen
    <2>. QED BY <1>0, <1>1, <2>1 DEF StepOK, Moves, RequestsOK, WithRole
  <1>2. ASSUME NEW route \in {"cli", "erase", "boot"}, route = "boot" => owner \in Users,
               req' = [req EXCEPT ![r] = [Free EXCEPT !.at = "commit", !.route = route]]
        PROVE  Moves(r) /\ req'[r].at = "commit"
    <2>. DEFINE x == [Free EXCEPT !.at = "commit", !.route = route]
    <2>1. x \in Request /\ Shape(x) /\ x.at = "commit"
      BY <1>2 DEF Free, Request, Shape, Steps, AllRoutes, OtherRoutes
    <2>. HIDE DEF x
    <2>2. Moves(r) /\ req'[r] = x BY <1>0, <1>2, <2>1, Moved DEF x
    <2>. QED BY <2>1, <2>2
  <1>3. ASSUME Goes(r, "commit"), req[r].route \in {"grant", "revoke"}
        PROVE  Moves(r) /\ req'[r].at = "commit"
    <2>1. Shape([req[r] EXCEPT !.at = "commit"]) /\ "commit" \in Steps
      BY <1>0, <1>3 DEF Shape, Request, Steps
    <2>2. Moves(r) /\ req'[r] = [req[r] EXCEPT !.at = "commit"] BY <1>0, <1>3, <2>1, Gone
    <2>. QED BY <1>0, <2>2 DEF Request
  <1>4. ASSUME NEW u \in Users, NEW role \in Roles, BeginGrant(r, u, role) PROVE Result
    BY <1>0, <1>1, <1>3, <1>4 DEF BeginGrant, AdminHandles, Handles
  <1>5. ASSUME NEW u \in Users, BeginRevoke(r, u) PROVE Result
    BY <1>0, <1>1, <1>3, <1>5 DEF BeginRevoke, AdminHandles, Handles
  <1>6. ASSUME NEW u \in Users, BeginCommand(r, u) \/ BeginErase(r, u) PROVE Result
    BY <1>0, <1>1, <1>2, <1>6 DEF BeginCommand, BeginErase
  <1>7. CASE BeginBoot(r)
    <2>1. CASE owner = None
      <3>. DEFINE x == [Free EXCEPT !.at = "seed", !.route = "boot"]
      <3>1. /\ req' = [req EXCEPT ![r] = x] /\ req[r].at = "idle" /\ UNCHANGED <<avars, app, svars>>
        BY <1>7, <2>1 DEF BeginBoot, At
      <3>2. x \in Request /\ Shape(x) /\ x.at = "seed"
        BY DEF Free, Request, Shape, Steps, AllRoutes, OtherRoutes
      <3>. HIDE DEF x
      <3>3. Moves(r) /\ req'[r] = x BY <1>0, <3>1, <3>2, Moved
      <3>. QED BY <3>1, <3>2, <3>3, NothingOpens DEF WithRole
    <2>2. CASE owner # None
      BY <1>0, <1>1, <1>2, <1>7, <2>2 DEF BeginBoot
    <2>. QED BY <2>1, <2>2
  <1>8. CASE Commit(r)
    <2>1. Commits(r) /\ req[r].at = "commit" /\ UNCHANGED svars BY <1>8 DEF Commit, At
    <2>2. CASE req[r].route = "boot"
      <3>1. Goes(r, "label") BY <1>8, <2>2 DEF Commit
      <3>2. Shape([req[r] EXCEPT !.at = "label"]) /\ "label" \in Steps
        BY <1>0, <2>1, <2>2 DEF Shape, Request, Steps
      <3>3. Moves(r) /\ req'[r] = [req[r] EXCEPT !.at = "label"] BY <1>0, <3>1, <3>2, Gone
      <3>4. req'[r].at = "label" BY <1>0, <3>3 DEF Request
      <3>. QED BY <1>8, <2>1, <3>3, <3>4, TransactionEnds DEF WithRole, At
    <2>3. CASE req[r].route # "boot"
      <3>1. Moves(r) /\ req'[r] = Free BY <1>0, <1>8, <2>3, Ended DEF Commit
      <3>. QED BY <1>8, <2>1, <3>1, TransactionEnds, FreeIsARequest DEF WithRole, At
    <2>. QED BY <2>2, <2>3
  <1>9. CASE CommitFails(r)
    <2>1. CASE Retries(r) /\ UNCHANGED req
      <3>1. [AccessNext]_avars /\ owner' = owner /\ \A q \in Requests \ {r} : Open(q)' => Open(q)
        BY <1>0, <2>1, OthersStayOpen
      <3>2. req[r].at = "commit" /\ UNCHANGED <<app, svars>> BY <1>9 DEF CommitFails, At
      <3>. QED BY <1>0, <2>1, <3>1, <3>2 DEF StepOK, Moves, RequestsOK, WithRole
    <2>2. CASE ~(Retries(r) /\ UNCHANGED req)
      <3>1. (Refuses(r) \/ GivesUp(r)) /\ Ends(r) /\ req[r].at = "commit" /\ UNCHANGED <<app, svars>>
        BY <1>9, <2>2 DEF CommitFails, At
      <3>2. Moves(r) /\ req'[r] = Free BY <1>0, <3>1, Ended
      <3>. QED BY <3>1, <3>2, TransactionEnds, FreeIsARequest DEF WithRole
    <2>. QED BY <2>1, <2>2
  <1>10. ASSUME NEW u \in Users, NEW v \in BOOLEAN, SetVerified(u, v), Moves(r), req[r].at # "commit",
                req'[r].at \notin WithRole, UNCHANGED <<app, svars>>
         PROVE  Result
    <2>1. /\ [AccessNext]_avars /\ owner' = owner
          /\ \A q \in Requests \ {r} : Open(q)' => Open(q)
          /\ Open(r)' => Open(r)
      BY <1>0, <1>10, OthersStayOpen
    <2>. QED BY <1>0, <1>10, <2>1 DEF StepOK, Moves, RequestsOK
  <1>11. ASSUME NEW u \in Users, NEW v \in BOOLEAN, DecideOnDeveloper(r, u, v) PROVE Result
    <2>1. /\ SetVerified(u, v) /\ Ends(r) /\ req[r].at = "handle" /\ UNCHANGED <<app, svars>>
      BY <1>11 DEF DecideOnDeveloper, AdminHandles, Handles, At
    <2>2. Moves(r) /\ req'[r] = Free BY <1>0, <2>1, Ended
    <2>. QED BY <1>10, <2>1, <2>2, FreeIsARequest DEF WithRole
  <1>12. CASE VerifyOwner(r)
    <2>1. /\ Goes(r, "seed") /\ req[r].at = "label" /\ UNCHANGED <<app, svars>>
          /\ SetVerified(owner, TRUE) \/ UNCHANGED avars
      BY <1>12 DEF VerifyOwner, At
    <2>2. Shape([req[r] EXCEPT !.at = "seed"]) /\ "seed" \in Steps /\ owner \in Users
      BY <1>0, <2>1 DEF Shape, Request, Steps
    <2>3. Moves(r) /\ req'[r] = [req[r] EXCEPT !.at = "seed"] BY <1>0, <2>1, <2>2, Gone
    <2>4. req'[r].at = "seed" BY <1>0, <2>3 DEF Request
    <2>5. CASE SetVerified(owner, TRUE) BY <1>10, <2>1, <2>2, <2>3, <2>4, <2>5 DEF WithRole
    <2>6. CASE UNCHANGED avars BY <2>1, <2>3, <2>4, <2>6, NothingOpens DEF WithRole
    <2>. QED BY <2>1, <2>5, <2>6
  <1>. QED BY <1>4, <1>5, <1>6, <1>7, <1>8, <1>9, <1>11, <1>12

\* Sessions and applications, and whatever is given up.
LEMMA Handled ==
  ASSUME Serving, NEW r \in Requests,
         \/ Abandon(r) \/ SeedConsole(r) \/ LabelSeeded(r) \/ AdoptSeeded(r)
         \/ \E u \in Users : FindForLogin(r, u)
         \/ \E n \in Sids : CreateForLogin(r, n)
         \/ ListForUser(r) \/ EndListed(r) \/ Logout(r)
         \/ \E a \in Apps, secret \in Secrets : Register(r, a, secret)
         \/ EditIcon(r) \/ EditSecret(r) \/ \E uris \in Uris : EditRedirects(r, uris)
         \/ \E a \in Apps : FindManaged(r, a) \/ DropIcon(r, a) \/ DropApp(r, a)
                              \/ AskVerification(r, a) \/ DecideOnApp(r, a)
  PROVE  StepOK(r) /\ UNCHANGED avars /\ req'[r].at \notin WithRole
  <1>0. /\ RequestsOK /\ StoreInv /\ req[r] \in Request /\ Shape(req[r])
        /\ developer \in [Users -> Access] /\ owner \in Users \cup {None} /\ None \notin Users
    BY Facts
  <1>. DEFINE Result == StepOK(r) /\ UNCHANGED avars /\ req'[r].at \notin WithRole
  <1>1. ASSUME UNCHANGED avars, [SessionsNext]_svars, Ends(r), req[r].at # "commit" \/ ~Open(r) PROVE Result
    <2>1. Moves(r) /\ req'[r] = Free BY <1>0, <1>1, Ended
    <2>. QED BY <1>1, <2>1, NothingOpens, FreeIsARequest DEF WithRole
  <1>2. ASSUME UNCHANGED <<avars, svars>>, NEW step \in {"write", "adopt"}, Goes(r, step),
               Shape([req[r] EXCEPT !.at = step]), req[r].at # "commit"
        PROVE  Result
    <2>1. step \in Steps BY DEF Steps
    <2>2. Moves(r) /\ req'[r] = [req[r] EXCEPT !.at = step] BY <1>0, <1>2, <2>1, Gone
    <2>3. req'[r].at = step BY <1>0, <2>2 DEF Request
    <2>. QED BY <1>2, <2>2, <2>3, NothingOpens DEF WithRole
  <1>3. CASE Abandon(r) BY <1>1, <1>3 DEF Abandon, database
  <1>4. CASE SeedConsole(r)
    <2>1. Shape([req[r] EXCEPT !.at = "write"]) BY <1>0, <1>4 DEF Shape, Request, SeedConsole, At
    <2>. QED BY <1>2, <1>4, <2>1 DEF SeedConsole, At
  <1>5. CASE LabelSeeded(r)
    <2>1. CASE owner = None BY <1>1, <1>5, <2>1 DEF LabelSeeded, At
    <2>2. CASE owner # None
      <3>1. Shape([req[r] EXCEPT !.at = "adopt"])
        BY <1>0, <1>5, <2>2 DEF Shape, Request, LabelSeeded, At
      <3>. QED BY <1>2, <1>5, <2>2, <3>1 DEF LabelSeeded, At
    <2>. QED BY <2>1, <2>2
  <1>6. CASE AdoptSeeded(r) BY <1>1, <1>6 DEF AdoptSeeded, At
  <1>7. ASSUME NEW u \in Users, FindForLogin(r, u) PROVE Result
    <2>. DEFINE x == [Free EXCEPT !.at = "create", !.route = "login", !.user = u, !.role = developer[u]]
    <2>1. /\ req' = [req EXCEPT ![r] = x] /\ req[r].at = "idle" /\ UNCHANGED <<avars, app, svars>>
          /\ developer[u] \in Roles
      BY <1>0, <1>7 DEF FindForLogin, At, database, Access
    <2>2. x \in Request /\ Shape(x) /\ x.at = "create"
      BY <2>1 DEF Free, Request, Shape, Steps, AllRoutes, OtherRoutes
    <2>. HIDE DEF x
    <2>3. Moves(r) /\ req'[r] = x BY <1>0, <2>1, <2>2, Moved
    <2>. QED BY <2>1, <2>2, <2>3, NothingOpens DEF WithRole
  <1>8. ASSUME NEW n \in Sids, CreateForLogin(r, n) PROVE Result
    <2>1. req[r].at = "create" /\ req[r].user \in Users /\ req[r].role \in Roles
      BY <1>0, <1>8 DEF CreateForLogin, At, Shape
    <2>. QED BY <1>1, <1>8, <2>1 DEF CreateForLogin, database, SessionsNext
  <1>9. CASE ListForUser(r)
    <2>0. /\ req[r].at = "handle" /\ req[r].user \in Users /\ UNCHANGED avars
          /\ ListSessions(req[r].user)
      BY <1>0, <1>9 DEF ListForUser, At, database, Shape
    <2>1. [SessionsNext]_svars BY <2>0 DEF SessionsNext
    <2>2. CASE Ends(r) BY <1>1, <2>0, <2>1, <2>2
    <2>3. CASE ~Ends(r)
      <3>1. PICK k \in Ongoing(req[r].user) : req' = [req EXCEPT ![r].at = "close", ![r].key = k]
        BY <1>9, <2>3 DEF ListForUser
      <3>2. k \in Sids BY <1>0, <2>0, <3>1 DEF Ongoing, StoreInv, SessionsTypeOK, Index
      <3>. DEFINE x == [req[r] EXCEPT !.at = "close", !.key = k]
      <3>3. req' = [req EXCEPT ![r] = x] BY <1>0, <3>1 DEF RequestsOK
      <3>4. x \in Request /\ Shape(x) /\ x.at = "close"
        <4>1. x \in Request /\ x.at = "close" /\ x.key = k BY <1>0, <3>2 DEF Request, Steps
        <4>. HIDE DEF x
        <4>. QED BY <3>2, <4>1 DEF Shape
      <3>. HIDE DEF x
      <3>5. Moves(r) /\ req'[r] = x BY <1>0, <3>3, <3>4, Moved
      <3>. QED BY <2>0, <2>1, <3>4, <3>5, NothingOpens DEF WithRole
    <2>. QED BY <2>2, <2>3
  <1>10. CASE EndListed(r)
    <2>1. req[r].at = "close" /\ req[r].key \in Sids BY <1>0, <1>10 DEF EndListed, At, Shape
    <2>. QED BY <1>1, <1>10, <2>1 DEF EndListed, database, SessionsNext
  <1>11. CASE Logout(r)
    <2>1. req[r].at = "handle" /\ req[r].sid \in Sids BY <1>0, <1>11 DEF Logout, Handles, At, Shape
    <2>. QED BY <1>1, <1>11, <2>1 DEF Logout, database, SessionsNext
  <1>12. ASSUME NEW a \in Apps, NEW secret \in Secrets, Register(r, a, secret) PROVE Result
    BY <1>1, <1>12 DEF Register, Handles, At
  <1>13. CASE EditIcon(r) \/ EditSecret(r) \/ \E uris \in Uris : EditRedirects(r, uris)
    BY <1>1, <1>13 DEF EditIcon, EditSecret, EditRedirects, Edits, At
  <1>14. ASSUME NEW a \in Apps, FindManaged(r, a) PROVE Result
    <2>. DEFINE x == [req[r] EXCEPT !.at = "write", !.app = a]
    <2>1. /\ req[r].at = "handle" /\ req[r].route = "edit" /\ UNCHANGED <<avars, svars>>
          /\ req' = [req EXCEPT ![r].at = "write", ![r].app = a]
      BY <1>14 DEF FindManaged, Handles, At, database
    <2>2. req' = [req EXCEPT ![r] = x] BY <1>0, <2>1 DEF RequestsOK
    <2>3. x \in Request /\ Shape(x) /\ x.at = "write"
      BY <1>0, <2>1 DEF Request, Shape, Steps
    <2>. HIDE DEF x
    <2>4. Moves(r) /\ req'[r] = x BY <1>0, <2>2, <2>3, Moved
    <2>. QED BY <2>1, <2>3, <2>4, NothingOpens DEF WithRole
  <1>15. ASSUME NEW a \in Apps, DropIcon(r, a) \/ DropApp(r, a) \/ AskVerification(r, a) \/ DecideOnApp(r, a)
         PROVE  Result
    BY <1>1, <1>15 DEF DropIcon, DropApp, Removes, AskVerification, DecideOnApp, AdminHandles, Handles, At
  <1>. QED BY <1>3, <1>4, <1>5, <1>6, <1>7, <1>8, <1>9, <1>10, <1>11, <1>12, <1>13, <1>14, <1>15

\* Applications change by the hand of those who manage them, and of a process that starts.
LEMMA AppsMove ==
  ASSUME Serving, AppsInv, NEW r \in Requests, Serve(r)
  PROVE  /\ AppsInv' /\ StaysPublic
         /\ req[r].route \in AppRoutes =>
              \A a \in Apps : Exists(a) /\ app[a] # app'[a]
                               => req[r].role = "admin" \/ app[a].owner = req[r].user
  <1>0. AccessInv /\ Shape(req[r]) /\ owner \in Users \cup {None} BY Facts
  <1>. DEFINE Mine == \A a \in Apps : Exists(a) /\ app[a] # app'[a]
                                       => req[r].role = "admin" \/ app[a].owner = req[r].user
              Result == AppsInv' /\ StaysPublic /\ (req[r].route \in AppRoutes => Mine)
  <1>1. ASSUME UNCHANGED <<developer, app>> PROVE Result
    BY <1>1 DEF AppsInv, AppsTypeOK, OwnersAreDevelopers, RequestedIsUnverified, StaysPublic, Exists, MayOwn
  <1>2. CASE \/ \E s \in Sids, route \in ConsoleRoutes : Begin(r, s, route)
             \/ ReadCookie(r) \/ FindAccess(r) \/ DropSession(r) \/ Reread(r)
             \/ \E n \in Sids : Rotate(r, n)
    <2>1. UNCHANGED database BY <1>2, Authenticates
    <2>. QED BY <1>1, <2>1 DEF database, avars
  <1>3. CASE \/ \E u \in Users, role \in Roles : BeginGrant(r, u, role)
             \/ \E u \in Users : BeginRevoke(r, u) \/ BeginCommand(r, u) \/ BeginErase(r, u)
                                   \/ FindForLogin(r, u)
             \/ BeginBoot(r) \/ CommitFails(r) \/ Abandon(r)
             \/ \E u \in Users, v \in BOOLEAN : DecideOnDeveloper(r, u, v)
             \/ VerifyOwner(r)
             \/ \E n \in Sids : CreateForLogin(r, n)
             \/ ListForUser(r) \/ EndListed(r) \/ Logout(r)
             \/ \E a \in Apps : FindManaged(r, a)
    <2>1. UNCHANGED <<developer, app>>
      BY <1>3 DEF BeginGrant, BeginRevoke, BeginCommand, BeginErase, BeginBoot, Begins, CommitFails, Retries,
                  Refuses, GivesUp, Abandon, DecideOnDeveloper, SetVerified, VerifyOwner, FindForLogin,
                  CreateForLogin, ListForUser, EndListed, Logout, FindManaged, database, avars
    <2>. QED BY <1>1, <2>1
  <1>4. CASE Commit(r)
    <2>1. Commits(r) /\ IF tx[r].to = "none" THEN Disowns(tx[r].user) ELSE UNCHANGED app
      BY <1>4 DEF Commit
    <2>2. req[r].route \notin AppRoutes BY <1>0, <1>4 DEF Commit, At, Shape, AppRoutes
    <2>. QED BY <1>0, <2>1, <2>2, CommitKeepsOwners
  <1>5. CASE SeedConsole(r) \/ LabelSeeded(r) \/ AdoptSeeded(r)
    <2>1. ByProcess /\ UNCHANGED <<owner, developer>> /\ req[r].route = "boot"
      BY <1>0, <1>5, IdentitiesAssumption
         DEF SeedConsole, LabelSeeded, AdoptSeeded, ByProcess, At, Shape, avars
    <2>. QED BY <1>0, <2>1, ProcessesStart DEF AppRoutes
  <1>6. ASSUME NEW a \in Apps, NEW secret \in Secrets, Register(r, a, secret) PROVE Result
    <2>1. /\ RegisterApp(a, req[r].user, secret) /\ UNCHANGED <<owner, developer>> /\ req[r].user \in Users
      BY <1>0, <1>6 DEF Register, Handles, At, Shape, avars
    <2>. QED BY <2>1, DevelopersRegister
  <1>7. ASSUME NEW a \in Apps, DecideOnApp(r, a) PROVE Result
    <2>1. /\ ByAdministrator(a) /\ UNCHANGED <<owner, developer>> /\ req[r].route \notin AppRoutes
      BY <1>7 DEF DecideOnApp, AdminHandles, Handles, AppRoutes, avars, ByAdministrator
    <2>. QED BY <2>1, AdministratorsDecide
  <1>8. ASSUME NEW a \in Apps, ByManager(req[r].user, req[r].role, a), UNCHANGED avars PROVE Result
    <2>1. UNCHANGED <<owner, developer>> BY <1>8 DEF avars
    <2>. QED BY <1>8, <2>1, ManagersWrite
  <1>9. CASE EditIcon(r) \/ EditSecret(r) \/ \E uris \in Uris : EditRedirects(r, uris)
    <2>1. req[r].app \in Apps
      BY <1>0, <1>9 DEF EditIcon, EditSecret, EditRedirects, Edits, At, Shape
    <2>. QED BY <1>8, <1>9, <2>1 DEF EditIcon, EditSecret, EditRedirects, Edits, ByManager
  <1>10. ASSUME NEW a \in Apps, DropIcon(r, a) \/ DropApp(r, a) \/ AskVerification(r, a) PROVE Result
    BY <1>8, <1>10 DEF DropIcon, DropApp, Removes, AskVerification, ByManager
  <1>. QED BY <1>2, <1>3, <1>4, <1>5, <1>6, <1>7, <1>9, <1>10 DEF Serve

(* A request and the role it acts with. *)

\* A session that was drawn keeps its role, and no other is made of its id.
LEMMA RoleStays ==
  ASSUME StoreInv, [SessionsNext]_svars, NEW s \in Sids, ~Fresh(s), NEW role, Live(s) => session[s].role = role
  PROVE  ~Fresh(s)' /\ (Live(s)' => session'[s].role = role)
  <1>. DEFINE Result == root'[s] # None /\ (session'[s] # NoSession => session'[s].role = role)
  <1>0. /\ session \in [Sids -> Session \cup {NoSession}] /\ root \in [Sids -> Sids \cup {None}]
        /\ root[s] # None /\ None \notin Sids
    BY SessionsAssumption DEF StoreInv, SessionsTypeOK, Fresh
  <1>1. ASSUME UNCHANGED svars PROVE Result BY <1>0, <1>1 DEF svars, Live
  <1>2. ASSUME NEW n \in Sids, NEW u \in Users, NEW r \in Roles, CreateSession(n, u, r) PROVE Result
    <2>1. n # s /\ session'[s] = session[s] /\ root'[s] = root[s]
      BY <1>0, <1>2 DEF CreateSession, Fresh
    <2>. QED BY <1>0, <2>1 DEF Live
  <1>3. ASSUME NEW n \in Sids, ReadSession(n) PROVE Result
    <2>1. session'[s] # NoSession => session'[s].role = session[s].role /\ Live(s)
      <3>1. CASE n = s
        <4>1. session[s] \in Session /\ session'[s] = [session[s] EXCEPT !.ttl = Renewed(s)]
          BY <1>0, <1>3, <3>1 DEF ReadSession, Live
        <4>. QED BY <1>3, <3>1, <4>1 DEF Session, ReadSession
      <3>2. CASE n # s BY <1>0, <1>3, <3>2 DEF ReadSession, Live
      <3>. QED BY <3>1, <3>2
    <2>. QED BY <1>0, <1>3, <2>1 DEF ReadSession
  <1>4. ASSUME NEW n \in Sids, ReadNothing(n) \/ RevokeSession(n) PROVE Result
    BY <1>0, <1>4 DEF ReadNothing, RevokeSession, Forget, Live, svars
  <1>5. ASSUME NEW m \in Sids, NEW n \in Sids, NEW r \in Roles, RotateSession(m, n, r) PROVE Result
    <2>1. n # s /\ session'[s] \in {session[s], NoSession} /\ root'[s] = root[s]
      BY <1>0, <1>5 DEF RotateSession, Fresh
    <2>. QED BY <1>0, <2>1 DEF Live
  <1>6. ASSUME NEW u \in Users, ListSessions(u) PROVE Result
    <2>1. session'[s] \in {session[s], NoSession} /\ root'[s] = root[s]
      BY <1>0, <1>6 DEF ListSessions
    <2>. QED BY <1>0, <2>1 DEF Live
  <1>7. ASSUME Tick PROVE Result
    <2>1. session'[s] # NoSession => session'[s].role = session[s].role /\ Live(s)
      <3>1. session'[s] # NoSession => Live(s) /\ session'[s] = [session[s] EXCEPT !.ttl = @ - 1, !.left = @ - 1]
        BY <1>7 DEF Tick
      <3>. QED BY <1>0, <3>1 DEF Live, Session
    <2>. QED BY <1>0, <1>7, <2>1 DEF Tick
  <1>8. Result BY <1>1, <1>2, <1>3, <1>4, <1>5, <1>6, <1>7 DEF SessionsNext
  <1>. QED BY <1>8 DEF Fresh, Live

\* The role of a request is one its user had; a session it has drawn by rotation still
\* has that role, or is over.
HeldOK(r) ==
  /\ req[r].at \in WithRole => req[r].role \in held[r]
  /\ req[r].at = "reread" => /\ ~Fresh(req[r].sid)
                             /\ Live(req[r].sid) => session[req[r].sid].role = req[r].role

HeldInv == \A r \in Requests : HeldOK(r)

\* While a request is authenticated and handled, the roles its user had are remembered.
LEMMA HeldGrows ==
  ASSUME Witnessed, NEW r \in Requests, req'[r].at \in WithRole, req'[r].route \in ConsoleRoutes
  PROVE  /\ held[r] \subseteq held'[r]
         /\ None \notin Users /\ req'[r].user \in Users /\ developer'[req'[r].user] \in Roles
              => developer'[req'[r].user] \in held'[r]
  <1>1. held'[r] = held[r] \cup {role \in Roles : \E u \in Users : u = Presented(r)' /\ developer'[u] = role}
    BY DEF Witnessed, WithRole, Authenticating
  <1>2. ASSUME None \notin Users, req'[r].user \in Users PROVE Presented(r)' = req'[r].user
    BY <1>2 DEF Presented
  <1>. QED BY <1>1, <1>2

\* Every step of a request keeps to held roles.
LEMMA HeldStep ==
  ASSUME Serving, HeldInv, NEW r \in Requests, Serve(r), StepOK(r), Witnessed
  PROVE  HeldInv'
  <1>0. /\ StoreInv /\ RequestsOK /\ None \notin Users /\ Shape(req[r]) /\ req[r] \in Request
        /\ [SessionsNext]_svars
    BY Facts DEF StepOK
  <1>1. ASSUME NEW q \in Requests \ {r} PROVE HeldOK(q)'
    <2>1. req'[q] = req[q] /\ Shape(req[q]) /\ HeldOK(q)
      BY <1>1 DEF StepOK, Moves, Serving, RequestsOK, HeldInv
    <2>2. CASE req[q].at \in WithRole
      <3>1. req[q].role \in held'[q] BY <1>1, <2>1, <2>2, HeldGrows DEF HeldOK, Shape, WithRole
      <3>2. ASSUME req[q].at = "reread"
            PROVE  ~Fresh(req[q].sid)' /\ (Live(req[q].sid)' => session'[req'[q].sid].role = req[q].role)
        <4>. DEFINE s == req[q].sid
        <4>1. s \in Sids /\ ~Fresh(s) /\ (Live(s) => session[s].role = req[q].role)
          BY <2>1, <3>2 DEF Shape, HeldOK
        <4>2. req'[q].sid = s BY <2>1
        <4>. HIDE DEF s
        <4>3. root'[s] # None /\ (session'[s] # NoSession => session'[s].role = req[q].role)
          BY <1>0, <4>1, RoleStays DEF Fresh, Live
        <4>. QED BY <4>2, <4>3 DEF Fresh, Live
      <3>. QED BY <2>1, <3>1, <3>2 DEF HeldOK
    <2>3. CASE req[q].at \notin WithRole BY <2>1, <2>3 DEF HeldOK, WithRole
    <2>. QED BY <2>2, <2>3
  <1>2. CASE req'[r].at \notin WithRole
    <2>1. HeldOK(r)' BY <1>2 DEF HeldOK, WithRole
    <2>. QED BY <1>1, <2>1 DEF HeldInv
  <1>3. CASE req'[r].at \in WithRole
    <2>0. Shape(req'[r]) /\ HeldOK(r) BY DEF StepOK, Moves, HeldInv
    <2>1. req'[r].route \in ConsoleRoutes /\ req'[r].user \in Users
      BY <1>3, <2>0 DEF Shape, WithRole
    <2>2. held[r] \subseteq held'[r]
          /\ (developer'[req'[r].user] \in Roles => developer'[req'[r].user] \in held'[r])
      BY <1>0, <1>3, <2>1, HeldGrows
    <2>3. FindAccess(r) \/ Reread(r) \/ \E n \in Sids : Rotate(r, n)
      <3>1. CASE \/ \E s \in Sids, route \in ConsoleRoutes : Begin(r, s, route)
                 \/ ReadCookie(r) \/ FindAccess(r) \/ DropSession(r) \/ Reread(r)
                 \/ \E n \in Sids : Rotate(r, n)
        BY <1>3, <3>1, Authenticates
      <3>2. CASE \/ \E u \in Users, role \in Roles : BeginGrant(r, u, role)
                 \/ \E u \in Users : BeginRevoke(r, u) \/ BeginCommand(r, u) \/ BeginErase(r, u)
                 \/ BeginBoot(r) \/ Commit(r) \/ CommitFails(r)
                 \/ \E u \in Users, v \in BOOLEAN : DecideOnDeveloper(r, u, v)
                 \/ VerifyOwner(r)
        BY <1>3, <3>2, Transacts
      <3>. QED BY <1>3, <3>1, <3>2, Handled DEF Serve
    <2>4. CASE FindAccess(r)
      <3>1. /\ req[r].at = "find" /\ developer' = developer
            /\ \/ developer[req[r].user] = "none" /\ Goes(r, "drop")
               \/ developer[req[r].user] = req[r].role /\ Goes(r, "handle")
               \/ /\ developer[req[r].user] \in Roles
                  /\ req' = [req EXCEPT ![r].at = "rotate", ![r].role = developer[req[r].user]]
        BY <2>4 DEF FindAccess, At, database, avars
      <3>2. req'[r].user = req[r].user /\ req'[r].role = developer[req[r].user] /\ req'[r].at # "reread"
        BY <1>0, <1>3, <3>1 DEF Goes, RequestsOK, Request, WithRole
      <3>3. req[r].role \in Roles BY <1>0, <3>1 DEF Shape
      <3>4. req'[r].role \in Roles BY <2>0, <1>3 DEF Shape, WithRole
      <3>5. HeldOK(r)' BY <2>2, <3>1, <3>2, <3>4 DEF HeldOK
      <3>. QED BY <1>1, <3>5 DEF HeldInv
    <2>5. CASE Reread(r)
      <3>1. /\ req[r].at = "reread" /\ Live(req[r].sid)
            /\ req' = [req EXCEPT ![r].at = "handle", ![r].role = session[req[r].sid].role]
        BY <1>0, <1>3, <2>5, FreeIsARequest DEF Reread, At, ReadSession, Ends, RequestsOK, WithRole
      <3>2. session[req[r].sid].role = req[r].role /\ req[r].role \in held[r]
        BY <2>0, <3>1 DEF HeldOK, WithRole
      <3>3. req'[r].at = "handle" /\ req'[r].role = session[req[r].sid].role
        BY <1>0, <3>1 DEF RequestsOK, Request
      <3>4. HeldOK(r)' BY <2>2, <3>2, <3>3 DEF HeldOK
      <3>. QED BY <1>1, <3>4 DEF HeldInv
    <2>6. ASSUME NEW n \in Sids, Rotate(r, n) PROVE HeldInv'
      <3>1. /\ req[r].at = "rotate" /\ RotateSession(req[r].sid, n, req[r].role)
            /\ req' = [req EXCEPT ![r].at = "reread", ![r].sid = n]
        BY <1>0, <1>3, <2>6, FreeIsARequest DEF Rotate, At, Ends, RequestsOK, WithRole
      <3>2. req[r].sid \in Sids /\ req[r].role \in Roles /\ req[r].role \in held[r]
        BY <1>0, <2>0, <3>1 DEF Shape, HeldOK, WithRole
      <3>3. req'[r].at = "reread" /\ req'[r].role = req[r].role /\ req'[r].sid = n
        BY <1>0, <3>1 DEF RequestsOK, Request
      <3>. DEFINE s == req[r].sid
      <3>4. s \in Sids /\ Live(s) /\ RotateSession(s, n, req[r].role) BY <3>1, <3>2 DEF RotateSession
      <3>5. session'[n].role = req[r].role /\ root'[n] # None
        <4>. HIDE DEF s
        <4>1. /\ session' = [session EXCEPT ![s] = NoSession,
                                            ![n] = [session[s] EXCEPT !.role = req[r].role, !.ttl = Renewed(s)]]
              /\ session[s] \in Session
          BY <1>0, <3>2, <3>4, RotatesWell
        <4>2. root[s] # None /\ root' = [root EXCEPT ![n] = root[s]]
              /\ session \in [Sids -> Session \cup {NoSession}] /\ root \in [Sids -> Sids \cup {None}]
          BY <1>0, <3>4 DEF StoreInv, Rooted, SessionsTypeOK, RotateSession, Fresh
        <4>. QED BY <3>4, <4>1, <4>2 DEF Session
      <3>6. ~Fresh(n)' BY <3>5 DEF Fresh
      <3>7. HeldOK(r)' BY <2>2, <3>2, <3>3, <3>5, <3>6 DEF HeldOK, Fresh
      <3>. QED BY <1>1, <3>7 DEF HeldInv
    <2>. QED BY <2>3, <2>4, <2>5, <2>6
  <1>. QED BY <1>2, <1>3

-----------------------------------------------------------------------------
(* The console as a whole. *)

\* The inductive invariant of the console.
ConsoleInv ==
  /\ AccessInv /\ StoreInv /\ RequestsOK /\ AppsInv /\ HeldInv
  /\ held \in [Requests -> SUBSET Roles]
  /\ workload \in Workloads
  /\ begun \in 0..MaxRequests

LEMMA ConsoleInvInit == ConsoleInit => ConsoleInv
  <1>. SUFFICES ASSUME ConsoleInit PROVE ConsoleInv OBVIOUS
  <1>1. AccessInv /\ StoreInv BY AccessInvInit, StoreInvInit DEF ConsoleInit
  <1>2. RequestsOK
    BY FreeIsARequest DEF ConsoleInit, RequestsOK, AccessInit, Open
  <1>3. HeldInv /\ held \in [Requests -> SUBSET Roles]
    BY FreeIsARequest DEF ConsoleInit, HeldInv, HeldOK, WithRole
  <1>4. AppsInv
    <2>1. ASSUME NEW a \in Apps, Exists(a)
          PROVE  app[a] \in App /\ MayOwn(app[a].owner) /\ ~app[a].requested
      <3>1. PICK u \in Users, secret \in {"none", "issued"} : app[a] = Plain(u, secret)
        BY <2>1 DEF ConsoleInit, Exists
      <3>2. developer[app[a].owner] # "none" BY <2>1 DEF ConsoleInit
      <3>. QED BY <3>1, <3>2 DEF Plain, App, MayOwn, Secrets, Uris
    <2>2. AppsTypeOK
      <3>1. \A a \in Apps : app[a] \in App \cup {Unborn, Deleted} BY <2>1 DEF Exists
      <3>2. app = [a \in Apps |-> app[a]] BY DEF ConsoleInit
      <3>. QED BY <3>1, <3>2 DEF AppsTypeOK
    <2>. QED BY <2>1, <2>2 DEF AppsInv, OwnersAreDevelopers, RequestedIsUnverified
  <1>. QED BY <1>1, <1>2, <1>3, <1>4, ConsoleAssumption DEF ConsoleInv, ConsoleInit

\* A step of the console, seen from each of its parts.
LEMMA ConsoleMoves ==
  ASSUME ConsoleInv, ConsoleNext
  PROVE  /\ [AccessNext]_avars /\ [SessionsNext]_svars /\ RequestsOK' /\ AppsInv' /\ HeldInv'
         /\ StaysPublic
         /\ \A r \in Requests : req[r] # req'[r] /\ req[r].route \in AppRoutes =>
              \A a \in Apps : Exists(a) /\ app[a] # app'[a]
                               => req[r].role = "admin" \/ app[a].owner = req[r].user
         /\ \E r : {q \in Requests : At(q, "idle") /\ req'[q].at # "idle"} \subseteq {r}
  <1>0. Serving /\ AppsInv /\ HeldInv BY DEF ConsoleInv, Serving
  <1>1. Witnessed BY DEF ConsoleNext
  <1>2. ASSUME NEW r \in Requests, Serve(r)
        PROVE  StepOK(r)
    <2>1. CASE \/ \E s \in Sids, route \in ConsoleRoutes : Begin(r, s, route)
               \/ ReadCookie(r) \/ FindAccess(r) \/ DropSession(r) \/ Reread(r)
               \/ \E n \in Sids : Rotate(r, n)
      BY <1>0, <2>1, Authenticates
    <2>2. CASE \/ \E u \in Users, role \in Roles : BeginGrant(r, u, role)
               \/ \E u \in Users : BeginRevoke(r, u) \/ BeginCommand(r, u) \/ BeginErase(r, u)
               \/ BeginBoot(r) \/ Commit(r) \/ CommitFails(r)
               \/ \E u \in Users, v \in BOOLEAN : DecideOnDeveloper(r, u, v)
               \/ VerifyOwner(r)
      BY <1>0, <2>2, Transacts
    <2>3. CASE \/ Abandon(r) \/ SeedConsole(r) \/ LabelSeeded(r) \/ AdoptSeeded(r)
               \/ \E u \in Users : FindForLogin(r, u)
               \/ \E n \in Sids : CreateForLogin(r, n)
               \/ ListForUser(r) \/ EndListed(r) \/ Logout(r)
               \/ \E a \in Apps, secret \in Secrets : Register(r, a, secret)
               \/ EditIcon(r) \/ EditSecret(r) \/ \E uris \in Uris : EditRedirects(r, uris)
               \/ \E a \in Apps : FindManaged(r, a) \/ DropIcon(r, a) \/ DropApp(r, a)
                                    \/ AskVerification(r, a) \/ DecideOnApp(r, a)
      BY <1>0, <2>3, Handled
    <2>. QED BY <1>2, <2>1, <2>2, <2>3 DEF Serve
  <1>3. CASE TimePasses
    <2>1. UNCHANGED <<avars, app, req>> /\ [SessionsNext]_svars
      BY <1>3 DEF TimePasses, database, SessionsNext
    <2>2. RequestsOK' BY <1>0, <2>1 DEF RequestsOK, Serving, Shape, Open, avars
    <2>3. AppsInv' /\ StaysPublic
      BY <1>0, <2>1 DEF AppsInv, AppsTypeOK, OwnersAreDevelopers, RequestedIsUnverified, StaysPublic,
                        Exists, MayOwn, avars
    <2>4. HeldInv'
      <3>. SUFFICES ASSUME NEW q \in Requests, req[q].at \in WithRole PROVE HeldOK(q)'
        BY <2>1 DEF HeldInv, HeldOK, WithRole
      <3>1. Shape(req[q]) /\ HeldOK(q) /\ StoreInv /\ req' = req BY <1>0, <2>1 DEF Serving, RequestsOK, HeldInv
      <3>2. req[q].role \in held'[q] BY <1>1, <3>1, HeldGrows DEF HeldOK, Shape, WithRole
      <3>. DEFINE s == req[q].sid
      <3>3. CASE req[q].at = "reread"
        <4>1. s \in Sids /\ ~Fresh(s) /\ (Live(s) => session[s].role = req[q].role)
          BY <3>1, <3>3 DEF Shape, HeldOK
        <4>. HIDE DEF s
        <4>2. root'[s] # None /\ (session'[s] # NoSession => session'[s].role = req[q].role)
          BY <2>1, <3>1, <4>1, RoleStays DEF Fresh, Live
        <4>. QED BY <3>1, <3>2, <4>2 DEF HeldOK, Fresh, Live, s
      <3>4. CASE req[q].at # "reread" BY <3>1, <3>2, <3>4 DEF HeldOK
      <3>. QED BY <3>3, <3>4
    <2>5. {q \in Requests : At(q, "idle") /\ req'[q].at # "idle"} = {} BY <2>1 DEF At
    <2>6. AccessNext \/ UNCHANGED avars BY <2>1 DEF avars
    <2>. QED BY <2>1, <2>2, <2>3, <2>4, <2>5, <2>6
  <1>4. ASSUME NEW r \in Requests, Serve(r)
        PROVE  /\ [AccessNext]_avars /\ [SessionsNext]_svars /\ RequestsOK' /\ AppsInv' /\ HeldInv'
               /\ StaysPublic
               /\ \A q \in Requests : req[q] # req'[q] /\ req[q].route \in AppRoutes =>
                    \A a \in Apps : Exists(a) /\ app[a] # app'[a]
                                     => req[q].role = "admin" \/ app[a].owner = req[q].user
               /\ {q \in Requests : At(q, "idle") /\ req'[q].at # "idle"} \subseteq {r}
    <2>1. StepOK(r) BY <1>2, <1>4
    <2>2. HeldInv' BY <1>0, <1>1, <1>4, <2>1, HeldStep
    <2>3. /\ AppsInv' /\ StaysPublic
          /\ req[r].route \in AppRoutes =>
               \A a \in Apps : Exists(a) /\ app[a] # app'[a]
                                => req[r].role = "admin" \/ app[a].owner = req[r].user
      BY <1>0, <1>4, AppsMove
    <2>4. [AccessNext]_avars /\ [SessionsNext]_svars /\ \A q \in Requests \ {r} : req'[q] = req[q]
      BY <2>1 DEF StepOK, Moves
    <2>5. RequestsOK' BY <1>0, <2>1 DEF StepOK, Moves, RequestsOK, Serving, Shape, Open
    <2>6. {q \in Requests : At(q, "idle") /\ req'[q].at # "idle"} \subseteq {r}
      BY <2>4 DEF At
    <2>7. ASSUME NEW q \in Requests, req[q] # req'[q], req[q].route \in AppRoutes
          PROVE  \A a \in Apps : Exists(a) /\ app[a] # app'[a]
                                  => req[q].role = "admin" \/ app[a].owner = req[q].user
      BY <2>3, <2>4, <2>7
    <2>. QED BY <2>2, <2>3, <2>4, <2>5, <2>6, <2>7
  <1>5. CASE \E r \in Requests : Serve(r)
    BY <1>4, <1>5
  <1>. QED BY <1>3, <1>5 DEF ConsoleNext

\* Every step of the console keeps it.
LEMMA ConsoleInvStep == ConsoleInv /\ [ConsoleNext]_cvars => ConsoleInv'
  <1>. SUFFICES ASSUME ConsoleInv, [ConsoleNext]_cvars PROVE ConsoleInv' OBVIOUS
  <1>1. CASE UNCHANGED cvars
    <2>1. UNCHANGED <<avars, app, svars, req, held, workload, begun>> BY <1>1 DEF cvars
    <2>2. AccessInv' /\ StoreInv' BY <2>1, AccessInvStep, StoreInvStep DEF ConsoleInv
    <2>3. RequestsOK' BY <2>1 DEF ConsoleInv, RequestsOK, Shape, Open, avars
    <2>4. AppsInv'
      BY <2>1 DEF ConsoleInv, AppsInv, AppsTypeOK, OwnersAreDevelopers, RequestedIsUnverified, Exists,
                  MayOwn, avars
    <2>5. HeldInv' BY <2>1 DEF ConsoleInv, HeldInv, HeldOK, Fresh, Live, svars
    <2>. QED BY <2>1, <2>2, <2>3, <2>4, <2>5 DEF ConsoleInv
  <1>2. CASE ConsoleNext
    <2>1. /\ [AccessNext]_avars /\ [SessionsNext]_svars /\ RequestsOK' /\ AppsInv' /\ HeldInv'
          /\ \E r : {q \in Requests : At(q, "idle") /\ req'[q].at # "idle"} \subseteq {r}
      BY <1>2, ConsoleMoves
    <2>2. AccessInv' /\ StoreInv' BY <2>1, AccessInvStep, StoreInvStep DEF ConsoleInv
    <2>3. held' \in [Requests -> SUBSET Roles]
      <3>1. \A r \in Requests : held[r] \subseteq Roles BY DEF ConsoleInv
      <3>. QED BY <1>2, <3>1 DEF ConsoleNext, Witnessed
    <2>4. begun' \in 0..MaxRequests /\ workload' \in Workloads
      <3>. DEFINE S == {q \in Requests : At(q, "idle") /\ req'[q].at # "idle"}
      <3>1. PICK r : S \subseteq {r} BY <2>1
      <3>. HIDE DEF S
      <3>2. IsFiniteSet(S) BY <3>1, FS_Singleton, FS_Subset
      <3>3. Cardinality(S) \in Nat BY <3>2, FS_CardinalityType
      <3>4. begun' = begun + Cardinality(S) /\ begun' <= MaxRequests /\ workload' = workload
        BY <1>2 DEF ConsoleNext, Counted, S
      <3>. QED BY <3>3, <3>4, ConsoleAssumption DEF ConsoleInv
    <2>. QED BY <2>1, <2>2, <2>3, <2>4 DEF ConsoleInv
  <1>. QED BY <1>1, <1>2

\* What the console keeps true, whatever requests, processes and time do.
THEOREM ConsoleInvariant == ConsoleSpec => []ConsoleInv
  BY ConsoleInvInit, ConsoleInvStep, PTL DEF ConsoleSpec

\* Sessions are typed, end within their absolute lifetime, are listed for as long as
\* they live, and are one for each sign-in, however requests alternate
\* (session-store.ts).
THEOREM SessionsAlwaysInOrder == ConsoleSpec => []SessionsInOrder
  <1>1. ConsoleInv => SessionsInOrder
    BY DEF ConsoleInv, SessionsInOrder, ConsoleTypeOK, AccessInv, AppsInv, StoreInv, RequestsOK
  <1>. QED BY <1>1, ConsoleInvariant, PTL

\* A request is handled with a role its user had while it was authenticated, although
\* others may demote the user or rotate the session meanwhile (session-service.ts).
THEOREM AlwaysActsWithHeldRole == ConsoleSpec => []ActsWithHeldRole
  <1>1. ConsoleInv => ActsWithHeldRole
    BY DEF ConsoleInv, HeldInv, HeldOK, WithRole, ActsWithHeldRole, At
  <1>. QED BY <1>1, ConsoleInvariant, PTL

\* The console uses the two stores only as they allow.
THEOREM ConsoleUsesStores == ConsoleSpec => AccessSpec /\ SessionsSpec
  <1>1. ConsoleInit => AccessInit /\ SessionsInit BY DEF ConsoleInit
  <1>2. ConsoleInv /\ [ConsoleNext]_cvars => [AccessNext]_avars /\ [SessionsNext]_svars
    <2>1. UNCHANGED cvars => UNCHANGED avars /\ UNCHANGED svars BY DEF cvars
    <2>. QED BY <2>1, ConsoleMoves
  <1>. QED BY <1>1, <1>2, ConsoleInvariant, PTL DEF ConsoleSpec, AccessSpec, SessionsSpec

\* However requests, commands, deletions and starting processes overlap, the last
\* administrator and the owner keep their role (developer-repository.ts).
THEOREM RolesAlwaysRemain == ConsoleSpec => RolesRemain
  BY ConsoleUsesStores, RepositoryKeepsRoles, PTL

\* Applications change only by those who manage them, stay public, belong to
\* developers and await no decision that was taken (app-management.ts).
THEOREM AppsAlwaysManaged == ConsoleSpec => AppsAreManaged
  <1>. DEFINE ByManagers == \A r \in Requests, a \in Apps :
                (req[r] # req'[r] /\ req[r].route \in AppRoutes /\ Exists(a) /\ app[a] # app'[a])
                  => req[r].role = "admin" \/ app[a].owner = req[r].user
              AsPublic == \A a \in Apps : Exists(a) /\ Exists(a)' =>
                /\ app[a].secret = "none" => app'[a].secret = "none"
                /\ app'[a].owner \in {app[a].owner, None, owner}
  <1>1. ConsoleInv /\ [ConsoleNext]_cvars => [ByManagers]_cvars /\ [AsPublic]_cvars
    <2>1. ConsoleInv /\ ConsoleNext => ByManagers /\ AsPublic BY ConsoleMoves DEF StaysPublic
    <2>. QED BY <2>1
  <1>2. ConsoleInv => OwnersAreDevelopers /\ RequestedIsUnverified BY DEF ConsoleInv, AppsInv
  <1>3. OnlyManagersChange <=> [][ByManagers]_cvars BY DEF OnlyManagersChange
  <1>4. PublicStaysPublic <=> [][AsPublic]_cvars BY DEF PublicStaysPublic
  <1>. HIDE DEF ByManagers, AsPublic
  <1>. QED BY <1>1, <1>2, <1>3, <1>4, ConsoleInvariant, PTL DEF ConsoleSpec, AppsAreManaged

(* The rate limits. *)

Ages == 0 .. Window \cup {Never}
Outs == {"idle", "waiting", "refused", "failed", "served"}
Arrived == [endpoint : Endpoints, address : Addresses \cup {"none"}, uid : Uids \cup {"none"},
            passed : 0 .. 2, out : Outs, ages : [1 .. 2 -> Ages]]
Entries == [count : Nat, left : 0 .. Window]

OwnersOf(b) ==
  CASE b = "global" -> {<<>>}
    [] b = "status" -> {<<a, u>> : a \in Addresses, u \in Uids}
    [] OTHER -> {<<a>> : a \in Addresses}

\* How far a request has come.
ArrivedOK(q) ==
  /\ q \in Arrived /\ q.passed <= Len(Chain(q.endpoint))
  /\ q.out = "idle" => q.passed = 0 /\ q.ages[1] = Never /\ q.ages[2] = Never
  /\ q.out # "idle" => q.address \in Addresses /\ (q.endpoint = "status" => q.uid \in Uids)
  /\ q.out = "waiting" =>
       q.passed < Len(Chain(q.endpoint)) /\ \A k \in 1 .. 2 : k > q.passed => q.ages[k] = Never
  /\ q.out = "refused" =>
       q.passed < Len(Chain(q.endpoint)) /\ \A k \in 1 .. 2 : k > q.passed + 1 => q.ages[k] = Never

\* Those that a bucket of an owner has counted some ticks ago, and those it let pass.
CountedAgo(b, o, lo, hi) ==
  {r \in Arrivals : \E k \in 1 .. 2 :
     /\ k <= Len(Chain(request[r].endpoint)) /\ Chain(request[r].endpoint)[k] = b
     /\ Owner(b, r) = o /\ request[r].ages[k] \in lo .. hi}

PassedAgo(b, o, lo, hi) ==
  {r \in Arrivals : \E k \in 1 .. 2 :
     /\ k <= Len(Chain(request[r].endpoint)) /\ Chain(request[r].endpoint)[k] = b
     /\ Owner(b, r) = o /\ request[r].ages[k] \in lo .. hi /\ k <= request[r].passed}

Holds(b, o) == IF b = "pacing" THEN pacing[o[1]] ELSE CounterOf(<<b>> \o o)

\* The window that runs has counted no more than came in it, and passed no more than
\* that and than its maximum, which also holds of the window before.
WindowOK(b, o) ==
  LET x == Holds(b, o)
      e == Window - x.left
  IN /\ x.left = 0 => /\ PassedAgo(b, o, 0, 0) = {}
                      /\ Cardinality(PassedAgo(b, o, 0, Window - 1)) <= Maximum[b]
     /\ x.left > 0 => /\ Cardinality(PassedAgo(b, o, 0, e)) <= x.count
                      /\ Cardinality(PassedAgo(b, o, 0, e)) <= Maximum[b]
                      /\ x.count <= Cardinality(CountedAgo(b, o, 0, e))
                      /\ Cardinality(PassedAgo(b, o, e + 1, Window - 1)) <= Maximum[b]

EntriesOK ==
  /\ \A k \in DOMAIN counter : counter[k] \in Entries /\ counter[k].left > 0
  /\ pacing \in [Addresses -> Entries]
  /\ \A a \in Addresses : pacing[a].left > 0 => pacing[a].count > 0
  /\ IsFiniteSet(HeldEntries(pacing)) /\ sinceSweep \in 0 .. Window

Came == {r \in Arrivals : request[r].out # "idle"}

LimitsInv ==
  /\ \A r \in Arrivals : ArrivedOK(request[r])
  /\ request \in [Arrivals -> Arrived] /\ IsFiniteSet(Came)
  /\ EntriesOK
  /\ \A b \in Buckets : \A o \in OwnersOf(b) : WindowOK(b, o)
  /\ RefusedForCause

LEMMA LimitsAreNumbers ==
  /\ Window \in Nat \ {0} /\ MaxEntries \in Nat \ {0}
  /\ \A b \in Buckets : Maximum[b] \in Nat \ {0}
  BY ThrottleAssumption DEF ThrottleAssumption

LEMMA Chains ==
  ASSUME NEW e \in Endpoints
  PROVE  /\ Len(Chain(e)) \in {1, 2} /\ DOMAIN Chain(e) = 1 .. Len(Chain(e))
         /\ \A k \in 1 .. Len(Chain(e)) : Chain(e)[k] \in Buckets
         /\ Len(Chain(e)) = 2 => Chain(e)[1] # Chain(e)[2]
         /\ \A k \in 1 .. Len(Chain(e)) : Chain(e)[k] = "status" <=> e = "status" /\ k = 2
  <1>1. CASE e = "token"
    <2>1. Chain(e) = <<"token", "global">> BY <1>1 DEF Chain
    <2>. QED BY <1>1, <2>1 DEF Buckets
  <1>2. CASE e = "authorize"
    <2>1. Chain(e) = <<"authorize">> BY <1>2 DEF Chain
    <2>. QED BY <1>2, <2>1 DEF Buckets
  <1>3. CASE e = "status"
    <2>1. Chain(e) = <<"poll", "status">> BY <1>3 DEF Chain
    <2>. QED BY <1>3, <2>1 DEF Buckets
  <1>4. CASE e = "join"
    <2>1. Chain(e) = <<"pacing">> BY <1>4 DEF Chain
    <2>. QED BY <1>4, <2>1 DEF Buckets
  <1>. QED BY <1>1, <1>2, <1>3, <1>4 DEF Endpoints

\* A bucket is passed once, so it is at one place of a chain.
LEMMA OnePlace ==
  ASSUME NEW r \in Arrivals, request[r] \in Arrived,
         NEW k \in 1 .. 2, k <= Len(Chain(request[r].endpoint))
  PROVE  Position(Chain(request[r].endpoint)[k], r) = k
  <1>. DEFINE c == Chain(request[r].endpoint)
  <1>1. request[r].endpoint \in Endpoints BY DEF Arrived
  <1>2. \A i \in DOMAIN c : c[i] = c[k] => i = k BY <1>1, Chains
  <1>3. k \in DOMAIN c BY <1>1, Chains
  <1>. QED BY <1>2, <1>3 DEF Position

LEMMA CountedAre ==
  ASSUME \A r \in Arrivals : ArrivedOK(request[r]), NEW b, NEW o
  PROVE  /\ CountedBy(b, o) = CountedAgo(b, o, 0, Window - 1)
         /\ PassedBy(b, o) = PassedAgo(b, o, 0, Window - 1)
  <1>1. ASSUME NEW r \in Arrivals
        PROVE  /\ r \in CountedBy(b, o) <=> r \in CountedAgo(b, o, 0, Window - 1)
               /\ r \in PassedBy(b, o) <=> r \in PassedAgo(b, o, 0, Window - 1)
    <2>1. request[r] \in Arrived /\ request[r].endpoint \in Endpoints /\ request[r].passed \in 0 .. 2
      BY DEF ArrivedOK, Arrived
    <2>. DEFINE c == Chain(request[r].endpoint)
    <2>2. \A k \in 1 .. 2 : k <= Len(c) /\ c[k] = b => Position(b, r) = k BY <2>1, OnePlace
    <2>3. \A k : k \in DOMAIN c <=> k \in 1 .. 2 /\ k <= Len(c) BY <2>1, Chains
    <2>. QED BY <2>1, <2>2, <2>3 DEF CountedBy, PassedBy, CountedAgo, PassedAgo
  <1>. QED BY <1>1 DEF CountedBy, PassedBy, CountedAgo, PassedAgo

AllArrivedOK == \A r \in Arrivals : ArrivedOK(request[r])
SetsAreCounts == \A b, o : /\ CountedBy(b, o) = CountedAgo(b, o, 0, Window - 1)
                           /\ PassedBy(b, o) = PassedAgo(b, o, 0, Window - 1)

LEMMA CountedAreNext == AllArrivedOK' => SetsAreCounts'
  <1>1. AllArrivedOK => SetsAreCounts BY CountedAre DEF AllArrivedOK, SetsAreCounts
  <1>. QED BY <1>1, PTL

LEMMA KeysApart ==
  ASSUME NEW b \in Buckets, NEW o \in OwnersOf(b), NEW c \in Buckets, NEW p \in OwnersOf(c),
         <<b>> \o o = <<c>> \o p
  PROVE  b = c /\ o = p
  <1>. DEFINE S == Buckets \cup Addresses \cup Uids
  <1>1. o \in Seq(S) /\ p \in Seq(S)
    <2>1. ASSUME NEW d, NEW q \in OwnersOf(d) PROVE q \in Seq(S)
      <3>1. CASE d = "global" BY <3>1 DEF OwnersOf
      <3>2. CASE d = "status"
        <4>1. PICK a \in Addresses, u \in Uids : q = <<a, u>> BY <3>2 DEF OwnersOf
        <4>. QED BY <4>1
      <3>3. CASE d \notin {"global", "status"}
        <4>1. PICK a \in Addresses : q = <<a>> BY <3>3 DEF OwnersOf
        <4>. QED BY <4>1
      <3>. QED BY <3>1, <3>2, <3>3
    <2>. QED BY <2>1
  <1>2. <<b>> \in Seq(S) /\ <<c>> \in Seq(S) /\ Len(<<b>>) = 1 /\ Len(<<c>>) = 1 OBVIOUS
  <1>. HIDE DEF S
  <1>3. b = (<<b>> \o o)[1] /\ c = (<<c>> \o p)[1] BY <1>1, <1>2
  <1>4. Len(o) = Len(p) BY <1>1, <1>2
  <1>5. \A i \in 1 .. Len(o) : o[i] = (<<b>> \o o)[i + 1] BY <1>1, <1>2
  <1>6. \A i \in 1 .. Len(p) : p[i] = (<<c>> \o p)[i + 1] BY <1>1, <1>2
  <1>7. \A i \in 1 .. Len(o) : o[i] = p[i] BY <1>4, <1>5, <1>6
  <1>. QED BY <1>1, <1>3, <1>4, <1>7, SeqEqual

LEMMA NextOfOwner ==
  ASSUME NEW r \in Arrivals, ArrivedOK(request[r]), Waits(r)
  PROVE  /\ Next1(r) \in Buckets /\ Owner(Next1(r), r) \in OwnersOf(Next1(r))
         /\ request[r].passed + 1 \in 1 .. 2
         /\ request[r].passed + 1 <= Len(Chain(request[r].endpoint))
  <1>. DEFINE q == request[r]
  <1>1. /\ q.endpoint \in Endpoints /\ q.passed \in 0 .. 2 /\ q.passed < Len(Chain(q.endpoint))
        /\ q.address \in Addresses /\ (q.endpoint = "status" => q.uid \in Uids)
    BY DEF ArrivedOK, Arrived, Waits
  <1>2. PICK len \in {1, 2} : len = Len(Chain(q.endpoint)) BY <1>1, Chains
  <1>3. q.passed + 1 \in 1 .. Len(Chain(q.endpoint)) /\ q.passed + 1 \in 1 .. 2
    <2>1. \A i \in 0 .. 2 : i < len => i + 1 \in 1 .. len /\ i + 1 \in 1 .. 2
      <3>1. len = 1 \/ len = 2 BY <1>2
      <3>2. CASE len = 1 BY <3>2
      <3>3. CASE len = 2 BY <3>3
      <3>. QED BY <3>1, <3>2, <3>3
    <2>. QED BY <1>1, <1>2, <2>1
  <1>4. Next1(r) \in Buckets /\ (Next1(r) = "status" => q.endpoint = "status")
    BY <1>1, <1>3, Chains DEF Next1
  <1>5. Owner(Next1(r), r) \in OwnersOf(Next1(r))
    <2>1. CASE Next1(r) = "global" BY <2>1 DEF Owner, OwnersOf
    <2>2. CASE Next1(r) = "status" BY <1>1, <1>4, <2>2 DEF Owner, OwnersOf
    <2>3. CASE Next1(r) \notin {"global", "status"} BY <1>1, <2>3 DEF Owner, OwnersOf
    <2>. QED BY <2>1, <2>2, <2>3
  <1>. QED BY <1>3, <1>4, <1>5

\* What decides where a request is counted.
LEMMA SameCounts ==
  ASSUME NEW s \in Arrivals,
         request'[s].endpoint = request[s].endpoint, request'[s].address = request[s].address,
         request'[s].uid = request[s].uid, request'[s].ages = request[s].ages,
         request'[s].passed = request[s].passed
  PROVE  \A b, o, lo, hi : /\ s \in CountedAgo(b, o, lo, hi)' <=> s \in CountedAgo(b, o, lo, hi)
                           /\ s \in PassedAgo(b, o, lo, hi)' <=> s \in PassedAgo(b, o, lo, hi)
  <1>1. \A b : Owner(b, s)' = Owner(b, s) BY DEF Owner
  <1>. QED BY <1>1 DEF CountedAgo, PassedAgo

\* Whoever has not been counted is nowhere.
LEMMA NotCounted ==
  ASSUME NEW s \in Arrivals, request[s].ages[1] = Never, request[s].ages[2] = Never
  PROVE  \A b, o : \A lo \in Nat : \A hi : s \notin CountedAgo(b, o, lo, hi) /\ s \notin PassedAgo(b, o, lo, hi)
  BY DEF CountedAgo, PassedAgo, Never

LEMMA CountsCame ==
  ASSUME LimitsInv
  PROVE  \A b, o : \A lo \in Nat : \A hi :
           /\ CountedAgo(b, o, lo, hi) \subseteq Came /\ IsFiniteSet(CountedAgo(b, o, lo, hi))
           /\ PassedAgo(b, o, lo, hi) \subseteq CountedAgo(b, o, lo, hi)
           /\ IsFiniteSet(PassedAgo(b, o, lo, hi))
  <1>. TAKE b, o
  <1>. TAKE lo \in Nat
  <1>. TAKE hi
  <1>1. ASSUME NEW s \in CountedAgo(b, o, lo, hi) PROVE s \in Came
    <2>1. s \in Arrivals /\ ArrivedOK(request[s]) BY DEF LimitsInv, CountedAgo
    <2>2. request[s].out # "idle" BY <1>1, <2>1, NotCounted DEF ArrivedOK
    <2>. QED BY <2>1, <2>2 DEF Came
  <1>2. PassedAgo(b, o, lo, hi) \subseteq CountedAgo(b, o, lo, hi) BY DEF PassedAgo, CountedAgo
  <1>. QED BY <1>1, <1>2, FS_Subset DEF LimitsInv

\* The next bucket of a request has counted it: it is one more there, and passes or
\* not, and nothing has changed elsewhere.
LEMMA Marks ==
  ASSUME LimitsInv, NEW r \in Arrivals, Waits(r), NEW passes \in BOOLEAN, CountedNow(r, passes),
         NEW b, b = Next1(r), NEW o, o = Owner(b, r)
  PROVE  /\ request' \in [Arrivals -> Arrived] /\ Came' = Came
         /\ \A s \in Arrivals : ArrivedOK(request'[s])
         /\ \A s \in Arrivals \ {r} : request'[s] = request[s]
         /\ request'[r].out = "refused" <=> ~ passes
         /\ ~ passes => request'[r].passed = request[r].passed
         /\ \A k : request'[r].endpoint = request[r].endpoint /\ Owner(k, r)' = Owner(k, r)
         /\ \A c, p : \A lo, hi \in Nat : c # b \/ p # o =>
              CountedAgo(c, p, lo, hi)' = CountedAgo(c, p, lo, hi) /\ PassedAgo(c, p, lo, hi)' = PassedAgo(c, p, lo, hi)
         /\ \A hi \in Nat :
              /\ CountedAgo(b, o, 0, hi)' = CountedAgo(b, o, 0, hi) \cup {r} /\ r \notin CountedAgo(b, o, 0, hi)
              /\ PassedAgo(b, o, 0, hi)' = PassedAgo(b, o, 0, hi) \cup (IF passes THEN {r} ELSE {})
         /\ \A lo \in Nat \ {0} : \A hi \in Nat : PassedAgo(b, o, lo, hi)' = PassedAgo(b, o, lo, hi)
  <1>. DEFINE q == request[r]
              n == q.passed + 1
              y == [q EXCEPT !.ages[n] = 0, !.passed = IF passes THEN n ELSE n - 1,
                             !.out = IF ~passes THEN "refused"
                                     ELSE IF n = Len(Chain(q.endpoint)) THEN "served" ELSE "waiting"]
  <1>1. /\ q \in Arrived /\ ArrivedOK(q) /\ q.endpoint \in Endpoints /\ q.passed \in 0 .. 2
        /\ request \in [Arrivals -> Arrived] /\ q.ages \in [1 .. 2 -> Ages]
    BY DEF LimitsInv, Arrived
  <1>2. n \in 1 .. 2 /\ n <= Len(Chain(q.endpoint)) /\ Chain(q.endpoint)[n] = b
    BY <1>1, NextOfOwner DEF Next1
  <1>3. request' = [request EXCEPT ![r] = y] BY <1>1, <1>2 DEF CountedNow
  <1>4. /\ y \in Arrived /\ y.endpoint = q.endpoint /\ y.address = q.address /\ y.uid = q.uid
        /\ y.ages = [q.ages EXCEPT ![n] = 0]
        /\ y.passed = (IF passes THEN n ELSE q.passed)
        /\ y.out = (IF ~passes THEN "refused"
                    ELSE IF n = Len(Chain(q.endpoint)) THEN "served" ELSE "waiting")
    <2>1. [q.ages EXCEPT ![n] = 0] \in [1 .. 2 -> Ages]
      BY <1>1, <1>2, LimitsAreNumbers DEF Ages
    <2>2. n - 1 = q.passed BY <1>1
    <2>3. y = [q EXCEPT !.ages = [q.ages EXCEPT ![n] = 0],
                        !.passed = IF passes THEN n ELSE q.passed,
                        !.out = IF ~passes THEN "refused"
                                ELSE IF n = Len(Chain(q.endpoint)) THEN "served" ELSE "waiting"]
      BY <1>1, <2>2 DEF Arrived
    <2>4. (IF passes THEN n ELSE q.passed) \in 0 .. 2 BY <1>1, <1>2
    <2>5. (IF ~passes THEN "refused"
           ELSE IF n = Len(Chain(q.endpoint)) THEN "served" ELSE "waiting") \in Outs
      BY DEF Outs
    <2>. HIDE DEF n, y
    <2>. QED BY <1>1, <2>1, <2>3, <2>4, <2>5 DEF Arrived
  <1>. HIDE DEF y
  <1>5. request' \in [Arrivals -> Arrived] /\ request'[r] = y
        /\ \A s \in Arrivals \ {r} : request'[s] = request[s]
    BY <1>1, <1>3, <1>4
  <1>6. \A k : request'[r].endpoint = q.endpoint /\ Owner(k, r)' = Owner(k, r)
    BY <1>4, <1>5 DEF Owner
  <1>7. Came' = Came BY <1>4, <1>5 DEF Came, Waits
  <1>8. y.ages[n] = 0 /\ \A k \in 1 .. 2 : k # n => y.ages[k] = q.ages[k] BY <1>1, <1>2, <1>4
  <1>9. \A k \in 1 .. 2 : k > q.passed => q.ages[k] = Never BY <1>1 DEF ArrivedOK, Waits
  <1>10. ArrivedOK(y)
    <2>1. q.address \in Addresses /\ (q.endpoint = "status" => q.uid \in Uids) /\ q.out = "waiting"
      BY <1>1 DEF ArrivedOK, Waits
    <2>2. y.passed <= Len(Chain(y.endpoint)) /\ (y.out = "waiting" => y.passed < Len(Chain(y.endpoint)))
          /\ (y.out = "refused" => y.passed < Len(Chain(y.endpoint)))
      BY <1>1, <1>2, <1>4, Chains
    <2>3. y.out = "waiting" => \A k \in 1 .. 2 : k > y.passed => y.ages[k] = Never
      BY <1>1, <1>4, <1>8, <1>9
    <2>4. y.out = "refused" => \A k \in 1 .. 2 : k > y.passed + 1 => y.ages[k] = Never
      BY <1>1, <1>4, <1>8, <1>9
    <2>5. y.out # "idle" BY <1>4
    <2>. QED BY <1>4, <2>1, <2>2, <2>3, <2>4, <2>5 DEF ArrivedOK
  <1>11. \A s \in Arrivals : ArrivedOK(request'[s]) BY <1>5, <1>10 DEF LimitsInv
  <1>12. \A s \in Arrivals \ {r} : \A c, p, lo, hi :
           /\ s \in CountedAgo(c, p, lo, hi)' <=> s \in CountedAgo(c, p, lo, hi)
           /\ s \in PassedAgo(c, p, lo, hi)' <=> s \in PassedAgo(c, p, lo, hi)
    BY <1>5, SameCounts
  <1>13. \A k \in 1 .. 2 : k <= Len(Chain(q.endpoint)) /\ Chain(q.endpoint)[k] = b => k = n
    BY <1>1, <1>2, Chains
  <1>14. \A k \in 1 .. 2 : k # n => (k <= y.passed <=> k <= q.passed)
    BY <1>1, <1>2, <1>4
  <1>15. ASSUME NEW c, NEW p, NEW lo \in Nat, NEW hi \in Nat, c # b \/ p # o
         PROVE  /\ r \in CountedAgo(c, p, lo, hi)' <=> r \in CountedAgo(c, p, lo, hi)
                /\ r \in PassedAgo(c, p, lo, hi)' <=> r \in PassedAgo(c, p, lo, hi)
    <2>1. ASSUME NEW k \in 1 .. 2, Chain(q.endpoint)[k] = c, Owner(c, r) = p PROVE k # n
      BY <1>2, <1>15, <2>1
    <2>. QED BY <1>4, <1>5, <1>6, <1>8, <1>14, <2>1 DEF CountedAgo, PassedAgo
  <1>16. ASSUME NEW c, NEW p, NEW lo \in Nat, NEW hi \in Nat, c # b \/ p # o
         PROVE  /\ CountedAgo(c, p, lo, hi)' = CountedAgo(c, p, lo, hi)
                /\ PassedAgo(c, p, lo, hi)' = PassedAgo(c, p, lo, hi)
    <2>1. /\ CountedAgo(c, p, lo, hi)' \subseteq Arrivals /\ CountedAgo(c, p, lo, hi) \subseteq Arrivals
          /\ PassedAgo(c, p, lo, hi)' \subseteq Arrivals /\ PassedAgo(c, p, lo, hi) \subseteq Arrivals
      BY DEF CountedAgo, PassedAgo
    <2>. QED BY <1>12, <1>15, <1>16, <2>1
  <1>17. \A lo, hi \in Nat : r \notin CountedAgo(b, o, lo, hi) /\ r \notin PassedAgo(b, o, lo, hi)
    <2>1. q.ages[n] = -1 BY <1>1, <1>2, <1>9 DEF Never
    <2>. QED BY <1>13, <2>1 DEF CountedAgo, PassedAgo
  <1>18. ASSUME NEW hi \in Nat PROVE r \in CountedAgo(b, o, 0, hi)' /\ (r \in PassedAgo(b, o, 0, hi)' <=> passes)
    <2>1. Owner(b, r)' = o BY <1>6
    <2>2. 0 \in 0 .. hi OBVIOUS
    <2>3. r \in CountedAgo(b, o, 0, hi)' BY <1>2, <1>4, <1>5, <1>8, <2>1, <2>2 DEF CountedAgo
    <2>4. n <= y.passed <=> passes BY <1>1, <1>4
    <2>5. r \in PassedAgo(b, o, 0, hi)' <=> passes
      BY <1>2, <1>4, <1>5, <1>8, <1>13, <2>1, <2>2, <2>4 DEF PassedAgo
    <2>. QED BY <2>3, <2>5
  <1>19. ASSUME NEW lo \in Nat \ {0}, NEW hi \in Nat PROVE r \notin PassedAgo(b, o, lo, hi)'
    <2>1. 0 \notin lo .. hi OBVIOUS
    <2>. QED BY <1>4, <1>5, <1>8, <1>13, <2>1 DEF PassedAgo
  <1>20. \A lo, hi \in Nat :
           /\ CountedAgo(b, o, lo, hi)' \subseteq Arrivals /\ CountedAgo(b, o, lo, hi) \subseteq Arrivals
           /\ PassedAgo(b, o, lo, hi)' \subseteq Arrivals /\ PassedAgo(b, o, lo, hi) \subseteq Arrivals
    BY DEF CountedAgo, PassedAgo
  <1>21. ASSUME NEW hi \in Nat
         PROVE  /\ CountedAgo(b, o, 0, hi)' = CountedAgo(b, o, 0, hi) \cup {r}
                /\ PassedAgo(b, o, 0, hi)' = PassedAgo(b, o, 0, hi) \cup (IF passes THEN {r} ELSE {})
    BY <1>12, <1>17, <1>18, <1>20
  <1>22. ASSUME NEW lo \in Nat \ {0}, NEW hi \in Nat PROVE PassedAgo(b, o, lo, hi)' = PassedAgo(b, o, lo, hi)
    <2>1. ASSUME NEW s \in Arrivals
          PROVE  s \in PassedAgo(b, o, lo, hi)' <=> s \in PassedAgo(b, o, lo, hi)
      <3>1. CASE s = r BY <1>17, <1>19, <3>1
      <3>2. CASE s # r BY <1>12, <3>2
      <3>. QED BY <3>1, <3>2
    <2>. QED BY <1>20, <2>1
  <1>23. (request'[r].out = "refused" <=> ~ passes) /\ (~ passes => request'[r].passed = q.passed)
    BY <1>4, <1>5
  <1>. QED BY <1>5, <1>6, <1>7, <1>11, <1>16, <1>17, <1>21, <1>22, <1>23

LEMMA EntriesHeld ==
  ASSUME EntriesOK, NEW b \in Buckets, NEW o \in OwnersOf(b)
  PROVE  /\ Holds(b, o) \in Entries
         /\ b = "pacing" => o[1] \in Addresses /\ o = <<o[1]>>
  <1>1. CASE b = "pacing"
    <2>1. PICK a \in Addresses : o = <<a>> BY <1>1 DEF OwnersOf
    <2>2. o[1] = a BY <2>1
    <2>. QED BY <1>1, <2>1, <2>2 DEF Holds, EntriesOK
  <1>2. CASE b # "pacing"
    <2>1. NoCount \in Entries BY LimitsAreNumbers DEF NoCount, Entries
    <2>. QED BY <1>2, <2>1 DEF Holds, CounterOf, EntriesOK
  <1>. QED BY <1>1, <1>2

AllHeld == \A b \in Buckets : \A o \in OwnersOf(b) : Holds(b, o) \in Entries

LEMMA EntriesHeldNext == EntriesOK' => AllHeld'
  <1>1. EntriesOK => AllHeld BY EntriesHeld DEF AllHeld
  <1>. QED BY <1>1, PTL

\* A window in which nothing happened.
LEMMA SameWindow ==
  ASSUME NEW b, NEW o, WindowOK(b, o), Holds(b, o) \in Entries, Holds(b, o)' \in Entries,
         Holds(b, o)' = Holds(b, o) \/ (Holds(b, o).left = 0 /\ Holds(b, o)'.left = 0),
         \A lo, hi \in Nat : /\ PassedAgo(b, o, lo, hi)' = PassedAgo(b, o, lo, hi)
                             /\ CountedAgo(b, o, lo, hi)' = CountedAgo(b, o, lo, hi)
  PROVE  WindowOK(b, o)'
  <1>. DEFINE x == Holds(b, o)
  <1>0. Window \in Nat \ {0} BY LimitsAreNumbers
  <1>1. CASE Holds(b, o)'.left = 0
    <2>1. x.left = 0 BY <1>1
    <2>2. PassedAgo(b, o, 0, 0)' = PassedAgo(b, o, 0, 0) OBVIOUS
    <2>3. PassedAgo(b, o, 0, Window - 1)' = PassedAgo(b, o, 0, Window - 1) BY <1>0
    <2>. QED BY <1>1, <2>1, <2>2, <2>3 DEF WindowOK
  <1>2. CASE Holds(b, o)'.left > 0
    <2>1. x.left > 0 /\ Holds(b, o)' = x /\ x.left \in 0 .. Window BY <1>2 DEF Entries
    <2>2. PICK e \in Nat : e = Window - x.left BY <1>0, <2>1
    <2>3. /\ PassedAgo(b, o, 0, e)' = PassedAgo(b, o, 0, e) /\ CountedAgo(b, o, 0, e)' = CountedAgo(b, o, 0, e)
          /\ PassedAgo(b, o, e + 1, Window - 1)' = PassedAgo(b, o, e + 1, Window - 1)
      BY <1>0
    <2>4. /\ Cardinality(PassedAgo(b, o, 0, e)) <= x.count
          /\ Cardinality(PassedAgo(b, o, 0, e)) <= Maximum[b]
          /\ x.count <= Cardinality(CountedAgo(b, o, 0, e))
          /\ Cardinality(PassedAgo(b, o, e + 1, Window - 1)) <= Maximum[b]
      BY <2>1, <2>2 DEF WindowOK
    <2>. QED BY <1>2, <2>1, <2>2, <2>3, <2>4 DEF WindowOK
  <1>3. Holds(b, o)'.left = 0 \/ Holds(b, o)'.left > 0 BY <1>0 DEF Entries
  <1>. QED BY <1>1, <1>2, <1>3

\* The entry that counts one more: the one that runs, or a new one.
Runs(b, o) == IF Holds(b, o).left = 0 THEN NoCount ELSE Holds(b, o)

\* A window that counts one more.
LEMMA CountedWindow ==
  ASSUME LimitsInv, NEW b \in Buckets, NEW o \in OwnersOf(b), NEW r, NEW passes \in BOOLEAN,
         Holds(b, o)' = Incremented(Runs(b, o)),
         passes => Runs(b, o).count + 1 <= Maximum[b],
         \A hi \in Nat :
           /\ CountedAgo(b, o, 0, hi)' = CountedAgo(b, o, 0, hi) \cup {r} /\ r \notin CountedAgo(b, o, 0, hi)
           /\ PassedAgo(b, o, 0, hi)' = PassedAgo(b, o, 0, hi) \cup (IF passes THEN {r} ELSE {}),
         \A lo \in Nat \ {0} : \A hi \in Nat : PassedAgo(b, o, lo, hi)' = PassedAgo(b, o, lo, hi)
  PROVE  WindowOK(b, o)' /\ Holds(b, o)' \in Entries /\ Holds(b, o)'.left > 0
  <1>. DEFINE x == Holds(b, o)
              y == Holds(b, o)'
  <1>0. /\ Window \in Nat \ {0} /\ Maximum[b] \in Nat \ {0} BY LimitsAreNumbers
  <1>1. x \in Entries /\ WindowOK(b, o) BY EntriesHeld DEF LimitsInv
  <1>2. \A lo \in Nat : \A hi : /\ IsFiniteSet(PassedAgo(b, o, lo, hi)) /\ IsFiniteSet(CountedAgo(b, o, lo, hi))
                            /\ Cardinality(PassedAgo(b, o, lo, hi)) \in Nat
                            /\ Cardinality(CountedAgo(b, o, lo, hi)) \in Nat
    BY CountsCame, FS_CardinalityType
  <1>3. ASSUME NEW hi \in Nat
        PROVE  /\ Cardinality(CountedAgo(b, o, 0, hi)') = Cardinality(CountedAgo(b, o, 0, hi)) + 1
               /\ Cardinality(PassedAgo(b, o, 0, hi)') =
                    Cardinality(PassedAgo(b, o, 0, hi)) + (IF passes THEN 1 ELSE 0)
    <2>1. r \notin CountedAgo(b, o, 0, hi) /\ r \notin PassedAgo(b, o, 0, hi) BY CountsCame
    <2>2. Cardinality(CountedAgo(b, o, 0, hi) \cup {r}) = Cardinality(CountedAgo(b, o, 0, hi)) + 1
      BY <1>2, <2>1, FS_AddElement
    <2>3. Cardinality(PassedAgo(b, o, 0, hi) \cup {r}) = Cardinality(PassedAgo(b, o, 0, hi)) + 1
      BY <1>2, <2>1, FS_AddElement
    <2>4. CASE passes
      <3>1. PassedAgo(b, o, 0, hi)' = PassedAgo(b, o, 0, hi) \cup {r} BY <2>4
      <3>. QED BY <2>2, <2>3, <2>4, <3>1
    <2>5. CASE ~ passes
      <3>1. PassedAgo(b, o, 0, hi)' = PassedAgo(b, o, 0, hi) BY <2>5
      <3>2. Cardinality(PassedAgo(b, o, 0, hi)) \in Nat BY <1>2
      <3>3. Cardinality(PassedAgo(b, o, 0, hi)') = Cardinality(PassedAgo(b, o, 0, hi)) + 0 BY <3>1, <3>2
      <3>. QED BY <2>2, <2>5, <3>3
    <2>. QED BY <2>4, <2>5
  <1>4. CASE x.left > 0
    <2>1. x.left \in 1 .. Window /\ x.count \in Nat /\ Runs(b, o) = x BY <1>0, <1>1, <1>4 DEF Entries, Runs
    <2>2. PICK e \in Nat : e = Window - x.left BY <1>0, <2>1
    <2>3. y.left = x.left /\ y.count = x.count + 1 /\ y \in Entries BY <1>0, <2>1 DEF Incremented, Entries
    <2>4. /\ Cardinality(PassedAgo(b, o, 0, e)) <= x.count
          /\ Cardinality(PassedAgo(b, o, 0, e)) <= Maximum[b]
          /\ x.count <= Cardinality(CountedAgo(b, o, 0, e))
          /\ Cardinality(PassedAgo(b, o, e + 1, Window - 1)) <= Maximum[b]
      BY <1>1, <1>4, <2>2 DEF WindowOK
    <2>5. PassedAgo(b, o, e + 1, Window - 1)' = PassedAgo(b, o, e + 1, Window - 1) BY <1>0
    <2>6. /\ Cardinality(PassedAgo(b, o, 0, e)') <= y.count
          /\ Cardinality(PassedAgo(b, o, 0, e)') <= Maximum[b]
          /\ y.count <= Cardinality(CountedAgo(b, o, 0, e)')
      <3>1. Cardinality(PassedAgo(b, o, 0, e)) \in Nat /\ Cardinality(CountedAgo(b, o, 0, e)) \in Nat BY <1>2
      <3>2. passes => x.count + 1 <= Maximum[b] BY <2>1
      <3>3. /\ Cardinality(CountedAgo(b, o, 0, e)') = Cardinality(CountedAgo(b, o, 0, e)) + 1
            /\ Cardinality(PassedAgo(b, o, 0, e)') =
                 Cardinality(PassedAgo(b, o, 0, e)) + (IF passes THEN 1 ELSE 0)
        BY <1>3
      <3>. HIDE DEF x, y
      <3>. QED BY <1>0, <2>1, <2>3, <2>4, <3>1, <3>2, <3>3
    <2>. QED BY <2>1, <2>2, <2>3, <2>4, <2>5, <2>6 DEF WindowOK
  <1>5. CASE x.left = 0
    <2>1. Runs(b, o) = NoCount BY <1>5 DEF Runs
    <2>2. y = [count |-> 1, left |-> Window] /\ y \in Entries
      BY <1>0, <2>1 DEF Incremented, NoCount, Entries
    <2>3. PassedAgo(b, o, 0, 0) = {} /\ Cardinality(PassedAgo(b, o, 0, Window - 1)) <= Maximum[b]
      BY <1>1, <1>5 DEF WindowOK
    <2>4. Cardinality(PassedAgo(b, o, 0, 0)) = 0 BY <2>3, FS_EmptySet
    <2>5. Cardinality(PassedAgo(b, o, 0, 0)') <= 1 /\ 1 <= Cardinality(CountedAgo(b, o, 0, 0)')
      <3>1. Cardinality(CountedAgo(b, o, 0, 0)) \in Nat BY <1>2
      <3>. QED BY <1>3, <2>4, <3>1
    <2>6. PassedAgo(b, o, 1, Window - 1)' = PassedAgo(b, o, 1, Window - 1) BY <1>0
    <2>7. PassedAgo(b, o, 1, Window - 1) \subseteq PassedAgo(b, o, 0, Window - 1)
      BY <1>0 DEF PassedAgo
    <2>8. Cardinality(PassedAgo(b, o, 1, Window - 1)) <= Cardinality(PassedAgo(b, o, 0, Window - 1))
      BY <1>2, <2>7, FS_Subset
    <2>9. Cardinality(PassedAgo(b, o, 1, Window - 1)') <= Maximum[b]
      <3>1. /\ Cardinality(PassedAgo(b, o, 1, Window - 1)) \in Nat
            /\ Cardinality(PassedAgo(b, o, 0, Window - 1)) \in Nat
        BY <1>2
      <3>. QED BY <1>0, <2>3, <2>6, <2>8, <3>1
    <2>10. y.left = Window /\ y.count = 1 /\ Window - y.left = 0 /\ y.left > 0 BY <1>0, <2>2
    <2>11. Cardinality(PassedAgo(b, o, 0, 0)') <= Maximum[b]
      <3>1. Cardinality(PassedAgo(b, o, 0, 0)') = 0 \/ Cardinality(PassedAgo(b, o, 0, 0)') = 1
        BY <1>3, <2>4
      <3>. QED BY <1>0, <3>1
    <2>. QED BY <2>2, <2>5, <2>9, <2>10, <2>11 DEF WindowOK
  <1>6. x.left = 0 \/ x.left > 0 BY <1>0, <1>1 DEF Entries
  <1>. QED BY <1>4, <1>5, <1>6

\* Why r was refused, in the tick in which it was.
Cause(r) ==
  LET bucket == Next1(r) IN
  \/ Cardinality(CountedBy(bucket, Owner(bucket, r)) \ {r}) >= Maximum[bucket]
  \/ bucket = "pacing" /\ Cardinality(LiveEntries(pacing)) >= MaxEntries

RefusedNow(r) == request[r].out = "refused" /\ request[r].ages[request[r].passed + 1] = 0

AllCaused == \A r \in Arrivals : RefusedNow(r) => Cause(r)

LEMMA Causes == RefusedForCause <=> AllCaused
  BY DEF RefusedForCause, AllCaused, RefusedNow, Cause

LEMMA CausesNext == AllCaused' => RefusedForCause'
  BY Causes, PTL

\* A cause stays one while no less is counted and no less is live.
LEMMA CauseStays ==
  ASSUME LimitsInv, NEW s \in Arrivals, request'[s] = request[s], RefusedNow(s),
         AllArrivedOK', IsFiniteSet(Came'),
         \A b, o : /\ CountedAgo(b, o, 0, Window - 1) \subseteq CountedAgo(b, o, 0, Window - 1)'
                   /\ CountedAgo(b, o, 0, Window - 1)' \subseteq Came',
         LiveEntries(pacing) \subseteq LiveEntries(pacing'), IsFiniteSet(LiveEntries(pacing'))
  PROVE  Cause(s)'
  <1>1. PICK b : b = Next1(s) OBVIOUS
  <1>2. PICK o : o = Owner(b, s) OBVIOUS
  <1>3. Next1(s)' = b /\ Owner(b, s)' = o BY <1>1, <1>2 DEF Next1, Owner
  <1>4. /\ CountedBy(b, o) = CountedAgo(b, o, 0, Window - 1)
        /\ CountedBy(b, o)' = CountedAgo(b, o, 0, Window - 1)'
    <2>1. CountedBy(b, o) = CountedAgo(b, o, 0, Window - 1) BY CountedAre DEF LimitsInv
    <2>2. SetsAreCounts' BY CountedAreNext
    <2>. QED BY <2>1, <2>2 DEF SetsAreCounts
  <1>5. Cause(s) BY Causes DEF LimitsInv, AllCaused
  <1>6. b \in Buckets
    <2>1. ArrivedOK(request[s]) /\ request[s].out = "refused" BY DEF LimitsInv, RefusedNow
    <2>2. /\ request[s].endpoint \in Endpoints /\ request[s].passed \in 0 .. 2
          /\ request[s].passed < Len(Chain(request[s].endpoint))
      BY <2>1 DEF ArrivedOK, Arrived
    <2>3. request[s].passed + 1 \in 1 .. Len(Chain(request[s].endpoint)) BY <2>2, Chains
    <2>. QED BY <1>1, <2>2, <2>3, Chains DEF Next1
  <1>7. CASE Cardinality(CountedBy(b, o) \ {s}) >= Maximum[b]
    <2>1. CountedBy(b, o) \ {s} \subseteq (CountedBy(b, o) \ {s})' BY <1>4
    <2>2. IsFiniteSet((CountedBy(b, o) \ {s})')
      <3>1. (CountedBy(b, o) \ {s})' \subseteq Came' BY <1>4
      <3>. QED BY <3>1, FS_Subset
    <2>3. /\ Cardinality(CountedBy(b, o) \ {s}) <= Cardinality((CountedBy(b, o) \ {s})')
          /\ Cardinality(CountedBy(b, o) \ {s}) \in Nat
          /\ Cardinality((CountedBy(b, o) \ {s})') \in Nat
      BY <2>1, <2>2, FS_Subset, FS_CardinalityType
    <2>4. Cardinality((CountedBy(b, o) \ {s})') >= Maximum[b] BY <1>6, <1>7, <2>3, LimitsAreNumbers
    <2>. QED BY <1>3, <2>4 DEF Cause
  <1>8. CASE b = "pacing" /\ Cardinality(LiveEntries(pacing)) >= MaxEntries
    <2>1. /\ Cardinality(LiveEntries(pacing)) <= Cardinality(LiveEntries(pacing'))
          /\ Cardinality(LiveEntries(pacing)) \in Nat
          /\ Cardinality(LiveEntries(pacing')) \in Nat
      BY FS_Subset, FS_CardinalityType
    <2>2. Cardinality(LiveEntries(pacing)') >= MaxEntries
      BY <1>8, <2>1, LimitsAreNumbers DEF LiveEntries
    <2>. QED BY <1>3, <1>8, <2>2 DEF Cause
  <1>. QED BY <1>1, <1>2, <1>5, <1>7, <1>8 DEF Cause

LEMMA LiveAreHeld == EntriesOK => LiveEntries(pacing) \subseteq HeldEntries(pacing) /\ IsFiniteSet(LiveEntries(pacing))
  <1>1. EntriesOK => LiveEntries(pacing) \subseteq HeldEntries(pacing)
    BY DEF EntriesOK, LiveEntries, HeldEntries
  <1>. QED BY <1>1, FS_Subset DEF EntriesOK

LEMMA LiveAreFiniteNext == EntriesOK' => IsFiniteSet(LiveEntries(pacing'))
  <1>1. EntriesOK' => IsFiniteSet(LiveEntries(pacing))' BY LiveAreHeld, PTL
  <1>2. LiveEntries(pacing)' = LiveEntries(pacing') BY DEF LiveEntries
  <1>. QED BY <1>1, <1>2

\* A step in which one bucket counts one request.
LEMMA MarkedStep ==
  ASSUME LimitsInv, NEW r \in Arrivals, Waits(r), NEW passes \in BOOLEAN, CountedNow(r, passes),
         NEW b, b = Next1(r), NEW o, o = Owner(b, r), EntriesOK', WindowOK(b, o)',
         \A c \in Buckets : \A p \in OwnersOf(c) : c # b \/ p # o =>
           Holds(c, p)' = Holds(c, p) \/ (Holds(c, p).left = 0 /\ Holds(c, p)'.left = 0),
         LiveEntries(pacing) \subseteq LiveEntries(pacing'),
         ~ passes => \/ Cardinality(CountedAgo(b, o, 0, Window - 1)) >= Maximum[b]
                     \/ b = "pacing" /\ Cardinality(LiveEntries(pacing')) >= MaxEntries
  PROVE  LimitsInv'
  <1>0. Window \in Nat \ {0} /\ Window - 1 \in Nat BY LimitsAreNumbers
  <1>1. /\ request' \in [Arrivals -> Arrived] /\ Came' = Came
        /\ \A s \in Arrivals : ArrivedOK(request'[s])
        /\ \A s \in Arrivals \ {r} : request'[s] = request[s]
        /\ request'[r].out = "refused" <=> ~ passes
        /\ ~ passes => request'[r].passed = request[r].passed
        /\ \A k : request'[r].endpoint = request[r].endpoint /\ Owner(k, r)' = Owner(k, r)
        /\ \A c, p : \A lo, hi \in Nat : c # b \/ p # o =>
             CountedAgo(c, p, lo, hi)' = CountedAgo(c, p, lo, hi) /\ PassedAgo(c, p, lo, hi)' = PassedAgo(c, p, lo, hi)
        /\ \A hi \in Nat :
             CountedAgo(b, o, 0, hi)' = CountedAgo(b, o, 0, hi) \cup {r} /\ r \notin CountedAgo(b, o, 0, hi)
    BY Marks
  <1>2. AllArrivedOK' BY <1>1 DEF AllArrivedOK
  <1>3. \A c \in Buckets : \A p \in OwnersOf(c) : WindowOK(c, p)'
    <2>. TAKE c \in Buckets
    <2>. TAKE p \in OwnersOf(c)
    <2>1. CASE c = b /\ p = o BY <2>1
    <2>2. CASE c # b \/ p # o
      <3>1. WindowOK(c, p) /\ EntriesOK BY DEF LimitsInv
      <3>2. Holds(c, p) \in Entries BY <3>1, EntriesHeld
      <3>3. Holds(c, p)' \in Entries BY EntriesHeldNext DEF AllHeld
      <3>. QED BY <1>1, <2>2, <3>1, <3>2, <3>3, SameWindow
    <2>. QED BY <2>1, <2>2
  <1>4. IsFiniteSet(Came') BY <1>1 DEF LimitsInv
  <1>5. IsFiniteSet(LiveEntries(pacing')) BY LiveAreFiniteNext
  <1>6. \A c, p : /\ CountedAgo(c, p, 0, Window - 1) \subseteq CountedAgo(c, p, 0, Window - 1)'
                  /\ CountedAgo(c, p, 0, Window - 1)' \subseteq Came'
    <2>1. \A c, p : CountedAgo(c, p, 0, Window - 1) \subseteq Came BY CountsCame
    <2>2. r \in Came BY DEF Came, Waits
    <2>3. ASSUME NEW c, NEW p
          PROVE  /\ CountedAgo(c, p, 0, Window - 1) \subseteq CountedAgo(c, p, 0, Window - 1)'
                 /\ CountedAgo(c, p, 0, Window - 1)' \subseteq Came
      <3>1. CASE c = b /\ p = o BY <1>0, <1>1, <2>1, <2>2, <3>1
      <3>2. CASE c # b \/ p # o BY <1>0, <1>1, <2>1, <3>2
      <3>. QED BY <3>1, <3>2
    <2>. QED BY <1>1, <2>3
  <1>7. \A s \in Arrivals : RefusedNow(s)' => Cause(s)'
    <2>. SUFFICES ASSUME NEW s \in Arrivals, RefusedNow(s)' PROVE Cause(s)' OBVIOUS
    <2>1. CASE s # r
      <3>1. request'[s] = request[s] BY <1>1, <2>1
      <3>2. RefusedNow(s) BY <3>1 DEF RefusedNow
      <3>. QED BY <1>2, <1>4, <1>5, <1>6, <3>1, <3>2, CauseStays
    <2>2. CASE s = r
      <3>1. ~ passes /\ request'[r].passed = request[r].passed BY <1>1, <2>2 DEF RefusedNow
      <3>2. Next1(r)' = b /\ Owner(b, r)' = o BY <1>1, <3>1 DEF Next1
      <3>3. CountedBy(b, o)' = CountedAgo(b, o, 0, Window - 1)'
        BY <1>2, CountedAreNext DEF SetsAreCounts
      <3>4. (CountedBy(b, o) \ {r})' = CountedAgo(b, o, 0, Window - 1)
        BY <1>0, <1>1, <3>3
      <3>5. LiveEntries(pacing)' = LiveEntries(pacing') BY DEF LiveEntries
      <3>. QED BY <2>2, <3>1, <3>2, <3>4, <3>5 DEF Cause
    <2>. QED BY <2>1, <2>2
  <1>8. RefusedForCause' BY <1>7, CausesNext DEF AllCaused
  <1>. QED BY <1>1, <1>3, <1>4, <1>8 DEF LimitsInv

\* A window that has counted its maximum has as many requests within the last ticks.
LEMMA FilledWindow ==
  ASSUME LimitsInv, NEW b \in Buckets, NEW o \in OwnersOf(b), Runs(b, o).count >= Maximum[b]
  PROVE  Cardinality(CountedAgo(b, o, 0, Window - 1)) >= Maximum[b]
  <1>0. Window \in Nat \ {0} /\ Maximum[b] \in Nat \ {0} BY LimitsAreNumbers
  <1>1. Holds(b, o) \in Entries BY EntriesHeld DEF LimitsInv
  <1>2. Runs(b, o) = Holds(b, o) /\ Holds(b, o).left > 0
    <2>1. Holds(b, o).left = 0 => Runs(b, o).count = 0 BY DEF Runs, NoCount
    <2>. QED BY <1>0, <1>1, <2>1 DEF Runs, Entries
  <1>3. PICK e \in Nat : e = Window - Holds(b, o).left /\ e <= Window - 1
    BY <1>0, <1>1, <1>2 DEF Entries
  <1>4. Holds(b, o).count <= Cardinality(CountedAgo(b, o, 0, e))
    BY <1>2, <1>3 DEF LimitsInv, WindowOK
  <1>5. CountedAgo(b, o, 0, e) \subseteq CountedAgo(b, o, 0, Window - 1) BY <1>0, <1>3 DEF CountedAgo
  <1>6. IsFiniteSet(CountedAgo(b, o, 0, Window - 1)) BY CountsCame
  <1>7. /\ Cardinality(CountedAgo(b, o, 0, e)) <= Cardinality(CountedAgo(b, o, 0, Window - 1))
        /\ Cardinality(CountedAgo(b, o, 0, e)) \in Nat
        /\ Cardinality(CountedAgo(b, o, 0, Window - 1)) \in Nat
    BY <1>5, <1>6, FS_Subset, FS_CardinalityType
  <1>8. Holds(b, o).count \in Nat BY <1>1 DEF Entries
  <1>. QED BY <1>0, <1>2, <1>4, <1>7, <1>8

\* The rate-limit library counts (api/rate-limit.ts).
LEMMA CountStep ==
  ASSUME LimitsInv, NEW r \in Arrivals, Count(r)
  PROVE  LimitsInv'
  <1>0. ArrivedOK(request[r]) /\ EntriesOK /\ Waits(r) BY DEF LimitsInv, Count
  <1>1. PICK b \in Buckets : b = Next1(r) BY <1>0, NextOfOwner
  <1>2. PICK o \in OwnersOf(b) : o = Owner(b, r) BY <1>0, <1>1, NextOfOwner
  <1>3. PICK key : key = <<b>> \o o OBVIOUS
  <1>4. PICK x : x = Incremented(CounterOf(key)) OBVIOUS
  <1>. DEFINE passes == x.count <= Maximum[b]
  <1>5. /\ b # "pacing" /\ UNCHANGED <<pacing, sinceSweep>>
        /\ counter' = [k \in DOMAIN counter \cup {key} |-> IF k = key THEN x ELSE counter[k]]
        /\ CountedNow(r, passes)
    BY <1>1, <1>2, <1>3, <1>4 DEF Count, KeyGenerator
  <1>6. Holds(b, o)' = x /\ Holds(b, o) = CounterOf(key)
    BY <1>3, <1>5 DEF Holds, CounterOf
  <1>7. \A c \in Buckets : \A p \in OwnersOf(c) : c # b \/ p # o => Holds(c, p)' = Holds(c, p)
    <2>. TAKE c \in Buckets
    <2>. TAKE p \in OwnersOf(c)
    <2>. HAVE c # b \/ p # o
    <2>1. CASE c = "pacing" BY <1>5, <2>1 DEF Holds
    <2>2. CASE c # "pacing"
      <3>1. <<c>> \o p # key BY <1>3, KeysApart
      <3>2. CounterOf(<<c>> \o p)' = CounterOf(<<c>> \o p) BY <1>5, <3>1 DEF CounterOf
      <3>. QED BY <2>2, <3>2 DEF Holds
    <2>. QED BY <2>1, <2>2
  <1>8. Holds(b, o) \in Entries BY <1>0, EntriesHeld
  <1>9. x = Incremented(Runs(b, o))
    <2>1. Holds(b, o).left = 0 => Holds(b, o) = NoCount
      BY <1>0, <1>6 DEF CounterOf, EntriesOK, Entries
    <2>. QED BY <1>4, <1>6, <2>1 DEF Runs
  <1>10. Runs(b, o).count \in Nat /\ x.count = Runs(b, o).count + 1
    BY <1>8, <1>9 DEF Runs, Entries, NoCount, Incremented
  <1>11. /\ \A hi \in Nat :
              /\ CountedAgo(b, o, 0, hi)' = CountedAgo(b, o, 0, hi) \cup {r} /\ r \notin CountedAgo(b, o, 0, hi)
              /\ PassedAgo(b, o, 0, hi)' = PassedAgo(b, o, 0, hi) \cup (IF passes THEN {r} ELSE {})
         /\ \A lo \in Nat \ {0} : \A hi \in Nat : PassedAgo(b, o, lo, hi)' = PassedAgo(b, o, lo, hi)
    <2>1. passes \in BOOLEAN OBVIOUS
    <2>. HIDE DEF passes
    <2>. QED BY <1>0, <1>1, <1>2, <1>5, <2>1, Marks
  <1>12. WindowOK(b, o)' /\ Holds(b, o)' \in Entries /\ Holds(b, o)'.left > 0
    <2>1. passes \in BOOLEAN /\ (passes => Runs(b, o).count + 1 <= Maximum[b]) BY <1>10
    <2>. HIDE DEF passes
    <2>. QED BY <1>6, <1>9, <1>11, <2>1, CountedWindow
  <1>13. EntriesOK'
    <2>1. \A k \in DOMAIN counter' : counter'[k] \in Entries /\ counter'[k].left > 0
      BY <1>0, <1>5, <1>6, <1>12 DEF EntriesOK
    <2>2. HeldEntries(pacing') = HeldEntries(pacing) BY <1>5
    <2>. QED BY <1>0, <1>5, <2>1, <2>2 DEF EntriesOK, HeldEntries
  <1>14. ~ passes => Cardinality(CountedAgo(b, o, 0, Window - 1)) >= Maximum[b]
    <2>. SUFFICES ASSUME ~ passes PROVE Cardinality(CountedAgo(b, o, 0, Window - 1)) >= Maximum[b]
      OBVIOUS
    <2>1. Runs(b, o).count >= Maximum[b] BY <1>10, LimitsAreNumbers
    <2>. QED BY <2>1, FilledWindow
  <1>15. LiveEntries(pacing) \subseteq LiveEntries(pacing') BY <1>5
  <1>16. passes \in BOOLEAN OBVIOUS
  <1>. HIDE DEF passes
  <1>. QED BY <1>0, <1>1, <1>2, <1>5, <1>7, <1>12, <1>13, <1>14, <1>15, <1>16, MarkedStep

\* The ghost server paces a connection (connectionPacing).
LEMMA PaceStep ==
  ASSUME LimitsInv, NEW r \in Arrivals, Pace(r)
  PROVE  LimitsInv'
  <1>. USE LimitsAreNumbers
  <1>0. ArrivedOK(request[r]) /\ EntriesOK /\ Waits(r) /\ Next1(r) = "pacing"
    BY DEF LimitsInv, Pace
  <1>0b. PICK b \in Buckets : b = "pacing" BY DEF Buckets
  <1>1. PICK a \in Addresses : a = request[r].address BY <1>0 DEF ArrivedOK, Waits
  <1>2. PICK o : o = <<a>> OBVIOUS
  <1>3. b \in Buckets /\ o \in OwnersOf(b) /\ o = Owner(b, r) /\ o[1] = a
    BY <1>0b, <1>1, <1>2 DEF Buckets, OwnersOf, Owner
  <1>. DEFINE new == a \notin LiveEntries(pacing)
              sweeps == new /\ Cardinality(HeldEntries(pacing)) >= MaxEntries /\ sinceSweep >= Window
              swept == IF sweeps
                       THEN [d \in Addresses |-> IF d \in LiveEntries(pacing) THEN pacing[d] ELSE NoCount]
                       ELSE pacing
              full == sweeps /\ Cardinality(HeldEntries(swept)) >= MaxEntries
              entry == Incremented(IF new THEN NoCount ELSE swept[a])
              passes == ~ full /\ entry.count <= Maximum[b]
  <1>4. /\ sinceSweep' = (IF sweeps THEN 0 ELSE sinceSweep) /\ UNCHANGED counter
        /\ pacing' = (IF full THEN swept ELSE [swept EXCEPT ![a] = entry])
        /\ CountedNow(r, passes)
    BY <1>0b, <1>1 DEF Pace
  <1>5. swept \in [Addresses -> Entries]
    BY <1>0 DEF EntriesOK, NoCount, Entries
  <1>6. \A d \in Addresses : /\ swept[d] = pacing[d] \/ (swept[d] = NoCount /\ pacing[d].left = 0)
                             /\ d \in LiveEntries(pacing) => swept[d] = pacing[d]
    BY <1>0 DEF EntriesOK, LiveEntries, Entries
  <1>7. HeldEntries(swept) \subseteq HeldEntries(pacing) BY <1>6 DEF HeldEntries, NoCount
  <1>8. Holds(b, o) = pacing[a] /\ Holds(b, o)' = pacing'[a] BY <1>0b, <1>3 DEF Holds
  <1>9. new <=> pacing[a].left = 0 BY <1>0 DEF EntriesOK, LiveEntries, Entries
  <1>10. entry = Incremented(Runs(b, o))
    BY <1>8, <1>9, <1>6 DEF Runs, LiveEntries
  <1>11. full => new /\ sweeps OBVIOUS
  <1>12. pacing[a] \in Entries /\ Runs(b, o) \in Entries
    BY <1>0, <1>8 DEF EntriesOK, Runs, NoCount, Entries
  <1>13. /\ entry \in Entries /\ entry.left > 0 /\ entry.count = Runs(b, o).count + 1 /\ entry.count > 0
    BY <1>10, <1>12 DEF Incremented, Entries
  <1>14. sweeps => HeldEntries(swept) \subseteq LiveEntries(swept)
    BY <1>6 DEF HeldEntries, LiveEntries, NoCount
  <1>15. sweeps \in BOOLEAN /\ full \in BOOLEAN /\ passes \in BOOLEAN OBVIOUS
  <1>. HIDE DEF entry, full, sweeps, swept
  <1>16. pacing' \in [Addresses -> Entries] BY <1>4, <1>5, <1>13
  <1>17. \A d \in Addresses \ {a} : pacing'[d] = swept[d] BY <1>4, <1>5
  <1>18. pacing'[a] = IF full THEN swept[a] ELSE entry BY <1>4, <1>5
  <1>19. EntriesOK'
    <2>1. \A d \in Addresses : pacing'[d].left > 0 => pacing'[d].count > 0
      BY <1>0, <1>6, <1>13, <1>17, <1>18 DEF EntriesOK, NoCount
    <2>2. HeldEntries(pacing') \subseteq HeldEntries(pacing) \cup {a}
      BY <1>7, <1>17 DEF HeldEntries
    <2>3. IsFiniteSet(HeldEntries(pacing) \cup {a}) BY <1>0, FS_AddElement DEF EntriesOK
    <2>4. IsFiniteSet(HeldEntries(pacing')) BY <2>2, <2>3, FS_Subset
    <2>5. sinceSweep' \in 0 .. Window BY <1>0, <1>4 DEF EntriesOK
    <2>6. HeldEntries(pacing)' = HeldEntries(pacing') BY DEF HeldEntries
    <2>. QED BY <1>0, <1>4, <1>16, <2>1, <2>4, <2>5, <2>6 DEF EntriesOK
  <1>20. LiveEntries(pacing) \subseteq LiveEntries(pacing')
    <2>. SUFFICES ASSUME NEW d \in LiveEntries(pacing) PROVE d \in LiveEntries(pacing') OBVIOUS
    <2>1. d \in Addresses /\ pacing[d].left > 0 /\ swept[d] = pacing[d] BY <1>6 DEF LiveEntries
    <2>. QED BY <1>13, <1>17, <1>18, <2>1 DEF LiveEntries
  <1>21. \A c \in Buckets : \A p \in OwnersOf(c) : c # b \/ p # o =>
           Holds(c, p)' = Holds(c, p) \/ (Holds(c, p).left = 0 /\ Holds(c, p)'.left = 0)
    <2>. TAKE c \in Buckets
    <2>. TAKE p \in OwnersOf(c)
    <2>. HAVE c # b \/ p # o
    <2>1. CASE c # "pacing" BY <1>4, <2>1 DEF Holds, CounterOf
    <2>2. CASE c = "pacing"
      <3>1. p[1] \in Addresses /\ p = <<p[1]>> BY <1>0, <2>2, EntriesHeld
      <3>2. p[1] # a BY <1>0b, <1>2, <2>2, <3>1
      <3>3. Holds(c, p) = pacing[p[1]] /\ Holds(c, p)' = swept[p[1]]
        BY <1>17, <2>2, <3>1, <3>2 DEF Holds
      <3>. QED BY <1>6, <3>1, <3>3 DEF NoCount
    <2>. QED BY <2>1, <2>2
  <1>22. /\ \A hi \in Nat :
              /\ CountedAgo(b, o, 0, hi)' = CountedAgo(b, o, 0, hi) \cup {r} /\ r \notin CountedAgo(b, o, 0, hi)
              /\ PassedAgo(b, o, 0, hi)' = PassedAgo(b, o, 0, hi) \cup (IF passes THEN {r} ELSE {})
         /\ \A lo \in Nat \ {0} : \A hi \in Nat : PassedAgo(b, o, lo, hi)' = PassedAgo(b, o, lo, hi)
    <2>1. b = Next1(r) BY <1>0, <1>0b
    <2>. HIDE DEF passes
    <2>. QED BY <1>0, <1>3, <1>4, <1>15, <2>1, Marks
  <1>23. WindowOK(b, o)'
    <2>1. CASE ~ full
      <3>1. Holds(b, o)' = Incremented(Runs(b, o)) BY <1>8, <1>10, <1>18, <2>1
      <3>2. passes => Runs(b, o).count + 1 <= Maximum[b] BY <1>13
      <3>. HIDE LimitsAreNumbers DEF passes
      <3>. QED BY <1>3, <1>15, <1>22, <3>1, <3>2, CountedWindow
    <2>2. CASE full
      <3>1. Holds(b, o).left = 0 /\ Holds(b, o)'.left = 0
        BY <1>6, <1>8, <1>9, <1>11, <1>18, <2>2 DEF NoCount
      <3>2. ~ passes BY <2>2
      <3>3. \A hi \in Nat : PassedAgo(b, o, 0, hi)' = PassedAgo(b, o, 0, hi) BY <1>22, <3>2
      <3>4. WindowOK(b, o) BY <1>3 DEF LimitsInv
      <3>5. Window - 1 \in Nat OBVIOUS
      <3>6. PassedAgo(b, o, 0, 0)' = PassedAgo(b, o, 0, 0) /\ PassedAgo(b, o, 0, Window - 1)' = PassedAgo(b, o, 0, Window - 1)
        BY <3>3, <3>5
      <3>. QED BY <3>1, <3>4, <3>6 DEF WindowOK
    <2>. QED BY <2>1, <2>2
  <1>24. ~ passes => \/ Cardinality(CountedAgo(b, o, 0, Window - 1)) >= Maximum[b]
                     \/ Cardinality(LiveEntries(pacing')) >= MaxEntries
    <2>1. CASE full
      <3>1. Cardinality(HeldEntries(swept)) >= MaxEntries /\ pacing' = swept
        BY <1>4, <2>1 DEF full
      <3>2. HeldEntries(swept) \subseteq LiveEntries(pacing') BY <1>11, <1>14, <2>1, <3>1
      <3>3. IsFiniteSet(LiveEntries(pacing')) BY <1>19, LiveAreFiniteNext
      <3>4. /\ Cardinality(HeldEntries(swept)) <= Cardinality(LiveEntries(pacing'))
            /\ Cardinality(HeldEntries(swept)) \in Nat /\ Cardinality(LiveEntries(pacing')) \in Nat
        BY <3>2, <3>3, FS_Subset, FS_CardinalityType
      <3>. QED BY <3>1, <3>4
    <2>2. CASE ~ full /\ ~ passes
      <3>1. Runs(b, o).count >= Maximum[b] BY <1>3, <1>12, <1>13, <2>2 DEF Entries
      <3>. QED BY <1>3, <3>1, FilledWindow
    <2>. QED BY <2>1, <2>2
  <1>25. b = Next1(r) BY <1>0, <1>0b
  <1>26. ~ passes => \/ Cardinality(CountedAgo(b, o, 0, Window - 1)) >= Maximum[b]
                     \/ b = "pacing" /\ Cardinality(LiveEntries(pacing')) >= MaxEntries
    BY <1>0b, <1>24
  <1>27. Waits(r) /\ CountedNow(r, passes) /\ passes \in BOOLEAN BY <1>0, <1>4
  <1>28. o = Owner(b, r) BY <1>3
  <1>. HIDE LimitsAreNumbers DEF passes
  <1>. QED BY <1>19, <1>20, <1>21, <1>23, <1>25, <1>26, <1>27, <1>28, MarkedStep

\* A step that counts nothing.
LEMMA UncountedStep ==
  ASSUME LimitsInv, request' \in [Arrivals -> Arrived], AllArrivedOK', IsFiniteSet(Came'),
         Came \subseteq Came', UNCHANGED <<counter, pacing, sinceSweep>>,
         \A b, o : \A lo, hi \in Nat : /\ CountedAgo(b, o, lo, hi)' = CountedAgo(b, o, lo, hi)
                                       /\ PassedAgo(b, o, lo, hi)' = PassedAgo(b, o, lo, hi),
         \A s \in Arrivals : request'[s].out = "refused" => request'[s] = request[s]
  PROVE  LimitsInv'
  <1>0. Window \in Nat \ {0} /\ Window - 1 \in Nat BY LimitsAreNumbers
  <1>1. EntriesOK' BY DEF LimitsInv, EntriesOK, HeldEntries
  <1>2. \A c \in Buckets : \A p \in OwnersOf(c) : WindowOK(c, p)'
    <2>. TAKE c \in Buckets
    <2>. TAKE p \in OwnersOf(c)
    <2>1. WindowOK(c, p) /\ Holds(c, p) \in Entries BY EntriesHeld DEF LimitsInv
    <2>2. Holds(c, p)' = Holds(c, p) BY DEF Holds, CounterOf
    <2>. QED BY <2>1, <2>2, SameWindow
  <1>3. \A c, p : /\ CountedAgo(c, p, 0, Window - 1) \subseteq CountedAgo(c, p, 0, Window - 1)'
                  /\ CountedAgo(c, p, 0, Window - 1)' \subseteq Came'
    <2>1. \A c, p : CountedAgo(c, p, 0, Window - 1) \subseteq Came BY CountsCame
    <2>. QED BY <1>0, <2>1
  <1>4. LiveEntries(pacing) \subseteq LiveEntries(pacing') /\ IsFiniteSet(LiveEntries(pacing'))
    BY <1>1, LiveAreFiniteNext
  <1>5. AllCaused'
    <2>. SUFFICES ASSUME NEW s \in Arrivals, RefusedNow(s)' PROVE Cause(s)' BY DEF AllCaused
    <2>1. request'[s] = request[s] BY DEF RefusedNow
    <2>2. RefusedNow(s) BY <2>1 DEF RefusedNow
    <2>. QED BY <1>3, <1>4, <2>1, <2>2, CauseStays
  <1>6. RefusedForCause' BY <1>5, CausesNext
  <1>. QED BY <1>1, <1>2, <1>6 DEF LimitsInv, AllArrivedOK

LEMMA ArriveStep ==
  ASSUME LimitsInv, NEW r \in Arrivals, NEW e \in Endpoints, NEW a \in Addresses,
         NEW u \in Uids \cup {"none"}, Arrive(r, e, a, u)
  PROVE  LimitsInv'
  <1>. DEFINE y == [NoRequest EXCEPT !.endpoint = e, !.address = a, !.uid = u, !.out = "waiting"]
  <1>1. /\ request[r].out = "idle" /\ (u # "none" <=> e = "status")
        /\ request' = [request EXCEPT ![r] = y] /\ UNCHANGED <<counter, pacing, sinceSweep>>
    BY DEF Arrive
  <1>2. /\ y.endpoint = e /\ y.address = a /\ y.uid = u /\ y.passed = 0 /\ y.out = "waiting"
        /\ y.ages = <<Never, Never>> /\ y \in Arrived
    <2>1. <<Never, Never>> \in [1 .. 2 -> Ages] BY DEF Ages
    <2>2. /\ NoRequest \in Arrived /\ NoRequest.passed = 0 /\ NoRequest.ages = <<Never, Never>>
      BY <2>1 DEF NoRequest, Arrived, Outs, Endpoints
    <2>3. "waiting" \in Outs BY DEF Outs
    <2>. HIDE DEF NoRequest
    <2>. QED BY <2>2, <2>3 DEF Arrived
  <1>3. y.ages[1] = Never /\ y.ages[2] = Never BY <1>2
  <1>. HIDE DEF y
  <1>4. ArrivedOK(y) BY <1>1, <1>2, <1>3, Chains DEF ArrivedOK
  <1>5. request \in [Arrivals -> Arrived] /\ IsFiniteSet(Came) BY DEF LimitsInv
  <1>6. request' \in [Arrivals -> Arrived] /\ request'[r] = y
        /\ \A s \in Arrivals \ {r} : request'[s] = request[s]
    BY <1>1, <1>2, <1>5
  <1>7. AllArrivedOK' BY <1>4, <1>6 DEF AllArrivedOK, LimitsInv
  <1>8. Came' = Came \cup {r} BY <1>2, <1>6 DEF Came
  <1>9. IsFiniteSet(Came') BY <1>5, <1>8, FS_AddElement
  <1>10. ASSUME NEW b, NEW o, NEW lo \in Nat, NEW hi \in Nat
         PROVE  /\ CountedAgo(b, o, lo, hi)' = CountedAgo(b, o, lo, hi)
                /\ PassedAgo(b, o, lo, hi)' = PassedAgo(b, o, lo, hi)
    <2>1. /\ CountedAgo(b, o, lo, hi)' \subseteq Arrivals /\ CountedAgo(b, o, lo, hi) \subseteq Arrivals
          /\ PassedAgo(b, o, lo, hi)' \subseteq Arrivals /\ PassedAgo(b, o, lo, hi) \subseteq Arrivals
      BY DEF CountedAgo, PassedAgo
    <2>2. r \notin CountedAgo(b, o, lo, hi) /\ r \notin PassedAgo(b, o, lo, hi)
      BY <1>1, NotCounted DEF LimitsInv, ArrivedOK
    <2>3. r \notin CountedAgo(b, o, lo, hi)' /\ r \notin PassedAgo(b, o, lo, hi)'
      BY <1>3, <1>6 DEF CountedAgo, PassedAgo, Never
    <2>4. \A s \in Arrivals \ {r} : /\ s \in CountedAgo(b, o, lo, hi)' <=> s \in CountedAgo(b, o, lo, hi)
                                    /\ s \in PassedAgo(b, o, lo, hi)' <=> s \in PassedAgo(b, o, lo, hi)
      BY <1>6, SameCounts
    <2>. QED BY <2>1, <2>2, <2>3, <2>4
  <1>11. \A s \in Arrivals : request'[s].out = "refused" => request'[s] = request[s]
    BY <1>2, <1>6
  <1>. QED BY <1>1, <1>6, <1>7, <1>8, <1>9, <1>10, <1>11, UncountedStep

LEMMA FailStep ==
  ASSUME LimitsInv, NEW r \in Arrivals, CountFails(r)
  PROVE  LimitsInv'
  <1>. DEFINE y == [request[r] EXCEPT !.out = "failed"]
  <1>1. /\ request[r].out = "waiting" /\ request' = [request EXCEPT ![r] = y]
        /\ UNCHANGED <<counter, pacing, sinceSweep>>
    BY DEF CountFails, Waits
  <1>2. request \in [Arrivals -> Arrived] /\ IsFiniteSet(Came) /\ ArrivedOK(request[r])
    BY DEF LimitsInv
  <1>3. /\ y.endpoint = request[r].endpoint /\ y.address = request[r].address
        /\ y.uid = request[r].uid /\ y.passed = request[r].passed /\ y.out = "failed"
        /\ y.ages = request[r].ages /\ y \in Arrived
    BY <1>2 DEF Arrived, Outs
  <1>. HIDE DEF y
  <1>4. ArrivedOK(y) BY <1>1, <1>2, <1>3 DEF ArrivedOK
  <1>6. request' \in [Arrivals -> Arrived] /\ request'[r] = y
        /\ \A s \in Arrivals \ {r} : request'[s] = request[s]
    BY <1>1, <1>2, <1>3
  <1>7. AllArrivedOK' BY <1>4, <1>6 DEF AllArrivedOK, LimitsInv
  <1>8. Came' = Came BY <1>1, <1>3, <1>6 DEF Came
  <1>10. ASSUME NEW b, NEW o, NEW lo \in Nat, NEW hi \in Nat
         PROVE  /\ CountedAgo(b, o, lo, hi)' = CountedAgo(b, o, lo, hi)
                /\ PassedAgo(b, o, lo, hi)' = PassedAgo(b, o, lo, hi)
    <2>1. /\ CountedAgo(b, o, lo, hi)' \subseteq Arrivals /\ CountedAgo(b, o, lo, hi) \subseteq Arrivals
          /\ PassedAgo(b, o, lo, hi)' \subseteq Arrivals /\ PassedAgo(b, o, lo, hi) \subseteq Arrivals
      BY DEF CountedAgo, PassedAgo
    <2>2. \A s \in Arrivals : /\ s \in CountedAgo(b, o, lo, hi)' <=> s \in CountedAgo(b, o, lo, hi)
                              /\ s \in PassedAgo(b, o, lo, hi)' <=> s \in PassedAgo(b, o, lo, hi)
      BY <1>3, <1>6, SameCounts
    <2>. QED BY <2>1, <2>2
  <1>11. \A s \in Arrivals : request'[s].out = "refused" => request'[s] = request[s]
    BY <1>3, <1>6
  <1>. QED BY <1>1, <1>2, <1>6, <1>7, <1>8, <1>10, <1>11, UncountedStep

\* A tick: what was counted is a tick older, and so is each window.
LEMMA WindowTickStep ==
  ASSUME LimitsInv, WindowTick
  PROVE  LimitsInv'
  <1>0. Window \in Nat \ {0} /\ \A b \in Buckets : Maximum[b] \in Nat \ {0} BY LimitsAreNumbers
  <1>1. \A t \in Ages : /\ Aged(t) \in Ages /\ Aged(t) # 0 /\ (t = Never <=> Aged(t) = Never)
                        /\ \A lo, hi \in Nat : hi + 1 <= Window - 1 =>
                             (Aged(t) \in lo + 1 .. hi + 1 <=> t \in lo .. hi)
                        /\ \A lo, hi \in Nat : hi <= Window - 1 =>
                             (Aged(t) \in lo + 1 .. hi => t \in lo .. hi)
    BY <1>0 DEF Ages, Aged, Never
  <1>2. ASSUME NEW s \in Arrivals
        PROVE  /\ request'[s] \in Arrived /\ ArrivedOK(request'[s])
               /\ request'[s].endpoint = request[s].endpoint
               /\ request'[s].passed = request[s].passed /\ request'[s].out = request[s].out
               /\ \A k \in 1 .. 2 : /\ request[s].ages[k] \in Ages
                                    /\ request'[s].ages[k] = Aged(request[s].ages[k])
               /\ \A b : Owner(b, s)' = Owner(b, s)
    <2>. DEFINE q == request[s]
                t == <<Aged(q.ages[1]), Aged(q.ages[2])>>
                y == [q EXCEPT !.ages = t]
    <2>1. q \in Arrived /\ ArrivedOK(q) BY DEF LimitsInv
    <2>2. q.ages[1] \in Ages /\ q.ages[2] \in Ages BY <2>1 DEF Arrived
    <2>3. t \in [1 .. 2 -> Ages] /\ t[1] = Aged(q.ages[1]) /\ t[2] = Aged(q.ages[2])
      BY <1>1, <2>2
    <2>4. request'[s] = y BY DEF WindowTick
    <2>. HIDE DEF t
    <2>5. /\ y \in Arrived /\ y.endpoint = q.endpoint /\ y.address = q.address /\ y.uid = q.uid
          /\ y.passed = q.passed /\ y.out = q.out /\ y.ages = t
      BY <2>1, <2>3 DEF Arrived
    <2>. HIDE DEF y
    <2>6. \A k \in 1 .. 2 : q.ages[k] \in Ages /\ y.ages[k] = Aged(q.ages[k]) BY <2>2, <2>3, <2>5
    <2>7. \A k \in 1 .. 2 : q.ages[k] = Never => y.ages[k] = Never BY <1>1, <2>6
    <2>8. ArrivedOK(y) BY <2>1, <2>5, <2>7 DEF ArrivedOK
    <2>9. \A b : Owner(b, s)' = Owner(b, s) BY <2>4, <2>5 DEF Owner
    <2>. QED BY <2>4, <2>5, <2>6, <2>8, <2>9
  <1>3. request' \in [Arrivals -> Arrived] BY <1>2 DEF WindowTick
  <1>4. Came' = Came BY <1>2 DEF Came
  <1>5. ASSUME NEW b, NEW o, NEW lo \in Nat, NEW hi \in Nat, NEW lo1 \in Nat, NEW hi1 \in Nat,
                lo1 = lo + 1, hi1 = hi + 1, hi1 <= Window - 1
         PROVE  /\ CountedAgo(b, o, lo1, hi1)' = CountedAgo(b, o, lo, hi)
                /\ PassedAgo(b, o, lo1, hi1)' = PassedAgo(b, o, lo, hi)
    <2>1. \A s \in Arrivals : \A k \in 1 .. 2 :
            request'[s].ages[k] \in lo1 .. hi1 <=> request[s].ages[k] \in lo .. hi
      BY <1>1, <1>2, <1>5
    <2>. QED BY <1>2, <2>1 DEF CountedAgo, PassedAgo
  <1>6. ASSUME NEW b, NEW o, NEW lo \in Nat, NEW hi \in Nat, NEW lo1 \in Nat,
               lo1 = lo + 1, hi <= Window - 1
        PROVE  PassedAgo(b, o, lo1, hi)' \subseteq PassedAgo(b, o, lo, hi)
    <2>1. \A s \in Arrivals : \A k \in 1 .. 2 :
            request'[s].ages[k] \in lo1 .. hi => request[s].ages[k] \in lo .. hi
      BY <1>1, <1>2, <1>6
    <2>. QED BY <1>2, <2>1 DEF PassedAgo
  <1>7. ASSUME NEW b, NEW o, NEW hi \in Nat
         PROVE  /\ CountedAgo(b, o, 0, hi)' = CountedAgo(b, o, 1, hi)'
                /\ PassedAgo(b, o, 0, hi)' = PassedAgo(b, o, 1, hi)'
                /\ PassedAgo(b, o, 0, 0)' = {}
    <2>3. \A s \in Arrivals : \A k \in 1 .. 2 : request'[s].ages[k] # 0 BY <1>1, <1>2
    <2>4. \A s \in Arrivals : \A k \in 1 .. 2 :
            request'[s].ages[k] \in 0 .. hi <=> request'[s].ages[k] \in 1 .. hi
      BY <2>3
    <2>5. CountedAgo(b, o, 0, hi)' = CountedAgo(b, o, 1, hi)' BY <2>4 DEF CountedAgo
    <2>6. PassedAgo(b, o, 0, hi)' = PassedAgo(b, o, 1, hi)' BY <2>4 DEF PassedAgo
    <2>7. \A s \in Arrivals : \A k \in 1 .. 2 : request'[s].ages[k] \notin 0 .. 0 BY <2>3
    <2>8. PassedAgo(b, o, 0, 0)' = {} BY <2>7 DEF PassedAgo
    <2>. QED BY <2>5, <2>6, <2>8
  <1>8. EntriesOK'
    <2>0. EntriesOK BY DEF LimitsInv
    <2>1. \A k \in DOMAIN counter' : counter'[k] \in Entries /\ counter'[k].left > 0
      BY <1>0, <2>0 DEF WindowTick, EntriesOK, Entries
    <2>2. ASSUME NEW a \in Addresses
          PROVE  /\ pacing'[a] \in Entries /\ pacing'[a].count = pacing[a].count
                 /\ pacing'[a].left > 0 => pacing[a].left > 0
      BY <1>0, <2>0 DEF WindowTick, EntriesOK, Entries
    <2>3. pacing' \in [Addresses -> Entries] BY <2>2 DEF WindowTick
    <2>4. HeldEntries(pacing)' = HeldEntries(pacing) BY <2>2 DEF HeldEntries
    <2>5. HeldEntries(pacing') = HeldEntries(pacing) BY <2>2 DEF HeldEntries
    <2>6. sinceSweep' \in 0 .. Window BY <1>0, <2>0 DEF WindowTick, EntriesOK
    <2>. QED BY <2>0, <2>1, <2>2, <2>3, <2>4, <2>5, <2>6 DEF EntriesOK
  <1>9. ASSUME NEW b \in Buckets, NEW o \in OwnersOf(b)
        PROVE  /\ Holds(b, o) \in Entries /\ Holds(b, o)' \in Entries
               /\ Holds(b, o)'.left = (IF Holds(b, o).left > 0 THEN Holds(b, o).left - 1 ELSE 0)
               /\ Holds(b, o)'.left > 0 => Holds(b, o)'.count = Holds(b, o).count
    <2>0. EntriesOK /\ Holds(b, o) \in Entries BY EntriesHeld DEF LimitsInv
    <2>1. CASE b = "pacing"
      <3>1. PICK a \in Addresses : o = <<a>> BY <2>1 DEF OwnersOf
      <3>2. o[1] = a BY <3>1
      <3>3. Holds(b, o) = pacing[a] /\ Holds(b, o)' = pacing'[a] BY <2>1, <3>2 DEF Holds
      <3>4. pacing'[a] = IF pacing[a].left > 0 THEN [pacing[a] EXCEPT !.left = @ - 1] ELSE pacing[a]
        BY DEF WindowTick
      <3>. HIDE DEF Holds
      <3>5. PICK c \in Nat, t \in 0 .. Window : pacing[a] = [count |-> c, left |-> t]
        BY <2>0, <3>3 DEF Entries
      <3>6. pacing'[a] = [count |-> c, left |-> IF t > 0 THEN t - 1 ELSE 0] BY <3>4, <3>5
      <3>. QED BY <1>0, <2>0, <3>3, <3>5, <3>6 DEF Entries
    <2>2. CASE b # "pacing"
      <3>. DEFINE key == <<b>> \o o
      <3>. HIDE DEF key
      <3>1. Holds(b, o) = (IF key \in DOMAIN counter THEN counter[key] ELSE NoCount)
            /\ Holds(b, o)' = (IF key \in DOMAIN counter' THEN counter'[key] ELSE NoCount)
        BY <2>2 DEF Holds, CounterOf, key
      <3>2. DOMAIN counter' = {j \in DOMAIN counter : counter[j].left > 1}
            /\ \A k \in DOMAIN counter' : counter'[k] = [counter[k] EXCEPT !.left = @ - 1]
        BY DEF WindowTick
      <3>3. CASE key \in DOMAIN counter /\ counter[key].left > 1
        <4>1. PICK c \in Nat, t \in 0 .. Window : counter[key] = [count |-> c, left |-> t]
          BY <2>0, <3>3 DEF EntriesOK, Entries
        <4>2. counter'[key] = [count |-> c, left |-> t - 1] BY <3>2, <3>3, <4>1
        <4>3. Holds(b, o) = counter[key] /\ Holds(b, o)' = counter'[key] /\ t > 1
          BY <3>1, <3>2, <3>3, <4>1
        <4>. HIDE DEF Holds
        <4>. QED BY <1>0, <4>1, <4>2, <4>3 DEF Entries
      <3>4. CASE key \in DOMAIN counter /\ ~ (counter[key].left > 1)
        <4>1. counter[key].left = 1 BY <2>0, <3>4 DEF EntriesOK, Entries
        <4>2. Holds(b, o)' = NoCount /\ Holds(b, o).left = 1 BY <3>1, <3>2, <3>4, <4>1
        <4>. QED BY <1>0, <2>0, <4>2 DEF NoCount, Entries
      <3>5. CASE key \notin DOMAIN counter
        <4>1. Holds(b, o)' = NoCount /\ Holds(b, o) = NoCount BY <3>1, <3>2, <3>5
        <4>. QED BY <1>0, <2>0, <4>1 DEF NoCount, Entries
      <3>. QED BY <3>3, <3>4, <3>5
    <2>. QED BY <2>1, <2>2
  <1>10. ASSUME NEW b \in Buckets, NEW o \in OwnersOf(b)
        PROVE  WindowOK(b, o)'
    <2>. DEFINE x == Holds(b, o)
    <2>1. WindowOK(b, o) BY DEF LimitsInv
    <2>2. x \in Entries /\ x' \in Entries /\ x.left \in 0 .. Window /\ x.count \in Nat
          /\ x'.left = (IF x.left > 0 THEN x.left - 1 ELSE 0)
          /\ (x'.left > 0 => x'.count = x.count)
      BY <1>9 DEF Entries
    <2>3. \A lo \in Nat : \A hi : IsFiniteSet(PassedAgo(b, o, lo, hi)) BY CountsCame
    <2>4. Maximum[b] \in Nat /\ Window - 1 \in Nat BY <1>0
    <2>5. CASE x.left > 1
      <3>1. PICK e \in Nat : e = Window - x.left BY <1>0, <2>2
      <3>2. PICK e1 \in Nat : e1 = e + 1 BY <3>1
      <3>3. PICK e2 \in Nat : e2 = e1 + 1 BY <3>2
      <3>4. e1 = e + 1 /\ e2 = e1 + 1 /\ e1 <= Window - 1 /\ Window - x'.left = e1
            /\ x'.left > 0 /\ x'.count = x.count
        BY <1>0, <2>2, <2>5, <3>1, <3>2, <3>3
      <3>. HIDE DEF x
      <3>5. CountedAgo(b, o, 0, e1)' = CountedAgo(b, o, 0, e)
        <4>1. CountedAgo(b, o, 0, e1)' = CountedAgo(b, o, 1, e1)' BY <1>7
        <4>2. CountedAgo(b, o, 1, e1)' = CountedAgo(b, o, 0, e) BY <1>5, <3>4
        <4>. QED BY <4>1, <4>2
      <3>6. PassedAgo(b, o, 0, e1)' = PassedAgo(b, o, 0, e)
        <4>1. PassedAgo(b, o, 0, e1)' = PassedAgo(b, o, 1, e1)' BY <1>7
        <4>2. PassedAgo(b, o, 1, e1)' = PassedAgo(b, o, 0, e) BY <1>5, <3>4
        <4>. QED BY <4>1, <4>2
      <3>7. PassedAgo(b, o, e2, Window - 1)' \subseteq PassedAgo(b, o, e1, Window - 1)
        BY <1>6, <2>4, <3>4
      <3>8. /\ Cardinality(PassedAgo(b, o, e2, Window - 1)') <= Cardinality(PassedAgo(b, o, e1, Window - 1))
            /\ Cardinality(PassedAgo(b, o, e2, Window - 1)') \in Nat
            /\ Cardinality(PassedAgo(b, o, e1, Window - 1)) \in Nat
        BY <2>3, <3>4, <3>7, FS_Subset, FS_CardinalityType
      <3>9. /\ Cardinality(PassedAgo(b, o, 0, e)) <= x.count
            /\ Cardinality(PassedAgo(b, o, 0, e)) <= Maximum[b]
            /\ x.count <= Cardinality(CountedAgo(b, o, 0, e))
            /\ Cardinality(PassedAgo(b, o, e1, Window - 1)) <= Maximum[b]
        BY <2>1, <2>2, <2>5, <3>1, <3>4 DEF WindowOK, x
      <3>10. Cardinality(PassedAgo(b, o, e2, Window - 1)') <= Maximum[b]
        BY <2>4, <3>8, <3>9
      <3>11. /\ Cardinality(PassedAgo(b, o, 0, e1)') <= x'.count
            /\ Cardinality(PassedAgo(b, o, 0, e1)') <= Maximum[b]
            /\ x'.count <= Cardinality(CountedAgo(b, o, 0, e1)')
        BY <3>4, <3>5, <3>6, <3>9
      <3>12. x'.left \in Nat BY <2>2 DEF Entries
      <3>. QED BY <3>4, <3>10, <3>11, <3>12 DEF WindowOK, x
    <2>6. CASE x.left <= 1
      <3>1. x'.left = 0 BY <2>2, <2>6
      <3>2. PassedAgo(b, o, 0, 0)' = {} BY <1>7
      <3>3. PassedAgo(b, o, 0, Window - 1)' \subseteq PassedAgo(b, o, 0, Window - 1)
        <4>1. PassedAgo(b, o, 0, Window - 1)' = PassedAgo(b, o, 1, Window - 1)' BY <1>7, <2>4
        <4>2. PassedAgo(b, o, 1, Window - 1)' \subseteq PassedAgo(b, o, 0, Window - 1) BY <1>6, <2>4
        <4>. QED BY <4>1, <4>2
      <3>4. Cardinality(PassedAgo(b, o, 0, Window - 1)) <= Maximum[b]
        <4>1. CASE x.left = 0 BY <2>1, <4>1 DEF WindowOK
        <4>2. CASE x.left = 1 BY <2>1, <4>2 DEF WindowOK
        <4>. QED BY <2>2, <2>6, <4>1, <4>2
      <3>5. /\ Cardinality(PassedAgo(b, o, 0, Window - 1)') <= Cardinality(PassedAgo(b, o, 0, Window - 1))
            /\ Cardinality(PassedAgo(b, o, 0, Window - 1)') \in Nat
            /\ Cardinality(PassedAgo(b, o, 0, Window - 1)) \in Nat
        BY <2>3, <3>3, FS_Subset, FS_CardinalityType
      <3>6. Cardinality(PassedAgo(b, o, 0, Window - 1)') <= Maximum[b] BY <2>4, <3>4, <3>5
      <3>. HIDE DEF x
      <3>. QED BY <3>1, <3>2, <3>6 DEF WindowOK, x
    <2>. QED BY <2>2, <2>5, <2>6
  <1>11. ASSUME NEW s \in Arrivals PROVE ~ RefusedNow(s)'
    <2>. SUFFICES ASSUME request'[s].out = "refused" PROVE request'[s].ages[request'[s].passed + 1] # 0
      BY DEF RefusedNow
    <2>1. request'[s] \in Arrived /\ request'[s].endpoint \in Endpoints
          /\ request'[s].passed \in 0 .. 2 /\ request'[s].passed < Len(Chain(request'[s].endpoint))
      BY <1>2 DEF ArrivedOK, Arrived
    <2>2. request'[s].passed + 1 \in 1 .. 2 BY <2>1, Chains
    <2>. QED BY <1>1, <1>2, <2>2
  <1>12. RefusedForCause' BY <1>11, CausesNext DEF AllCaused
  <1>13. \A r \in Arrivals : ArrivedOK(request'[r]) BY <1>2
  <1>14. IsFiniteSet(Came') BY <1>4 DEF LimitsInv
  <1>. QED BY <1>3, <1>8, <1>10, <1>12, <1>13, <1>14 DEF LimitsInv

LEMMA LimitsInvInit == ThrottleInit => LimitsInv
  <1>. SUFFICES ASSUME ThrottleInit PROVE LimitsInv OBVIOUS
  <1>0. Window \in Nat \ {0} /\ \A b \in Buckets : Maximum[b] \in Nat \ {0} BY LimitsAreNumbers
  <1>1. /\ NoRequest \in Arrived /\ NoRequest.passed = 0 /\ NoRequest.out = "idle"
        /\ NoRequest.endpoint = "token" /\ NoRequest.ages[1] = Never /\ NoRequest.ages[2] = Never
    <2>1. <<Never, Never>> \in [1 .. 2 -> Ages] BY DEF Ages
    <2>. QED BY <2>1 DEF NoRequest, Arrived, Outs, Endpoints
  <1>2. \A r \in Arrivals : request[r] = NoRequest BY DEF ThrottleInit
  <1>. HIDE DEF NoRequest
  <1>3. request \in [Arrivals -> Arrived] BY <1>1 DEF ThrottleInit
  <1>4. ArrivedOK(NoRequest) BY <1>1, Chains DEF ArrivedOK, Endpoints
  <1>5. Came = {} /\ IsFiniteSet(Came) BY <1>1, <1>2, FS_EmptySet DEF Came
  <1>6. EntriesOK
    <2>1. HeldEntries(pacing) = {} BY DEF ThrottleInit, HeldEntries, NoCount
    <2>2. DOMAIN counter = {} BY DEF ThrottleInit
    <2>3. NoCount \in Entries /\ ~ (NoCount.left > 0) BY <1>0 DEF NoCount, Entries
    <2>4. pacing \in [Addresses -> Entries] /\ \A a \in Addresses : ~ (pacing[a].left > 0)
      BY <2>3 DEF ThrottleInit
    <2>5. sinceSweep \in 0 .. Window BY <1>0 DEF ThrottleInit
    <2>. QED BY <2>1, <2>2, <2>4, <2>5, FS_EmptySet DEF EntriesOK
  <1>7. ASSUME NEW b \in Buckets, NEW o \in OwnersOf(b) PROVE WindowOK(b, o)
    <2>1. Holds(b, o).left = 0
      <3>1. CASE b = "pacing"
        <4>1. PICK a \in Addresses : o = <<a>> BY <3>1 DEF OwnersOf
        <4>. QED BY <3>1, <4>1 DEF Holds, ThrottleInit, NoCount
      <3>2. CASE b # "pacing" BY <3>2 DEF Holds, CounterOf, ThrottleInit, NoCount
      <3>. QED BY <3>1, <3>2
    <2>2. \A r \in Arrivals : \A lo \in Nat : \A hi : r \notin PassedAgo(b, o, lo, hi)
      BY <1>1, <1>2, NotCounted
    <2>3. PassedAgo(b, o, 0, 0) = {} /\ PassedAgo(b, o, 0, Window - 1) = {} BY <2>2 DEF PassedAgo
    <2>4. Cardinality(PassedAgo(b, o, 0, Window - 1)) = 0 BY <2>3, FS_EmptySet
    <2>. QED BY <1>0, <2>1, <2>3, <2>4 DEF WindowOK
  <1>8. RefusedForCause BY <1>1, <1>2 DEF RefusedForCause
  <1>. QED BY <1>2, <1>3, <1>4, <1>5, <1>6, <1>7, <1>8 DEF LimitsInv

\* Each step of a request, and a tick.
LEMMA LimitsInvStep == LimitsInv /\ [ThrottleNext]_throttleVars => LimitsInv'
  <1>. SUFFICES ASSUME LimitsInv, [ThrottleNext]_throttleVars PROVE LimitsInv' OBVIOUS
  <1>1. CASE \E r \in Arrivals, e \in Endpoints, a \in Addresses, u \in Uids \cup {"none"} :
               Arrive(r, e, a, u)
    BY <1>1, ArriveStep
  <1>2. ASSUME NEW r \in Arrivals, Count(r) PROVE LimitsInv' BY <1>2, CountStep
  <1>3. ASSUME NEW r \in Arrivals, CountFails(r) PROVE LimitsInv' BY <1>3, FailStep
  <1>4. ASSUME NEW r \in Arrivals, Pace(r) PROVE LimitsInv' BY <1>4, PaceStep
  <1>5. CASE WindowTick BY <1>5, WindowTickStep
  <1>6. CASE UNCHANGED throttleVars
    <2>1. UNCHANGED <<counter, pacing, sinceSweep, request>> BY <1>6 DEF throttleVars
    <2>2. /\ request' \in [Arrivals -> Arrived] /\ AllArrivedOK' /\ Came' = Came /\ IsFiniteSet(Came)
      BY <2>1 DEF LimitsInv, AllArrivedOK, Came
    <2>3. \A b, o : \A lo, hi \in Nat : /\ CountedAgo(b, o, lo, hi)' = CountedAgo(b, o, lo, hi)
                                        /\ PassedAgo(b, o, lo, hi)' = PassedAgo(b, o, lo, hi)
      BY <2>1 DEF CountedAgo, PassedAgo, Owner
    <2>. QED BY <2>1, <2>2, <2>3, UncountedStep
  <1>. QED BY <1>1, <1>2, <1>3, <1>4, <1>5, <1>6 DEF ThrottleNext

\* What each window has counted and let pass, in every state of the rate limits.
THEOREM LimitsInvariant == ThrottleSpec => []LimitsInv
  BY LimitsInvInit, LimitsInvStep, PTL DEF ThrottleSpec

LEMMA LimitsFromInv == LimitsInv => LimitsHold
  <1>. SUFFICES ASSUME LimitsInv PROVE LimitsHold OBVIOUS
  <1>0. Window \in Nat \ {0} /\ \A b \in Buckets : Maximum[b] \in Nat \ {0} BY LimitsAreNumbers
  <1>1. ASSUME NEW b \in Buckets, NEW o \in OwnersOf(b)
        PROVE  Cardinality(PassedAgo(b, o, 0, Window - 1)) <= 2 * Maximum[b]
    <2>. DEFINE x == Holds(b, o)
                e == Window - x.left
                now == PassedAgo(b, o, 0, e)
                before == PassedAgo(b, o, e + 1, Window - 1)
    <2>1. WindowOK(b, o) /\ x \in Entries BY EntriesHeld DEF LimitsInv
    <2>2. Maximum[b] \in Nat /\ x.left \in 0 .. Window BY <1>0, <2>1 DEF Entries
    <2>3. \A lo \in Nat : \A hi : IsFiniteSet(PassedAgo(b, o, lo, hi)) BY CountsCame
    <2>4. CASE x.left = 0
      <3>1. Cardinality(PassedAgo(b, o, 0, Window - 1)) <= Maximum[b] BY <2>1, <2>4 DEF WindowOK
      <3>2. Cardinality(PassedAgo(b, o, 0, Window - 1)) \in Nat BY <2>3, FS_CardinalityType
      <3>. QED BY <2>2, <3>1, <3>2
    <2>5. CASE x.left > 0
      <3>1. e \in Nat /\ e + 1 \in Nat /\ e <= Window - 1 BY <1>0, <2>2, <2>5
      <3>2. Cardinality(now) <= Maximum[b] /\ Cardinality(before) <= Maximum[b]
        BY <2>1, <2>5 DEF WindowOK
      <3>. HIDE DEF e
      <3>3. PassedAgo(b, o, 0, Window - 1) = now \cup before
        <4>1. \A t \in Int : t \in 0 .. Window - 1 <=> t \in 0 .. e \/ t \in e + 1 .. Window - 1
          BY <1>0, <3>1
        <4>2. \A r \in Arrivals : \A k \in 1 .. 2 : request[r].ages[k] \in Int
          BY <1>0 DEF LimitsInv, ArrivedOK, Arrived, Ages, Never
        <4>. QED BY <4>1, <4>2 DEF PassedAgo
      <3>4. IsFiniteSet(now) /\ IsFiniteSet(before) BY <2>3, <3>1
      <3>. HIDE DEF now, before
      <3>5. /\ Cardinality(now) \in Nat /\ Cardinality(before) \in Nat
            /\ Cardinality(now \cap before) \in Nat
            /\ Cardinality(now \cup before) = Cardinality(now) + Cardinality(before) - Cardinality(now \cap before)
        BY <3>4, FS_Union, FS_Intersection, FS_CardinalityType
      <3>6. Cardinality(now \cup before) <= 2 * Maximum[b] BY <2>2, <3>2, <3>5
      <3>. QED BY <3>3, <3>6
    <2>. QED BY <2>2, <2>4, <2>5
  <1>2. NoneBeyond
    <2>. SUFFICES ASSUME NEW r \in Arrivals, NEW k \in 1 .. request[r].passed,
                         NEW b, b = Chain(request[r].endpoint)[k]
                  PROVE  Cardinality(PassedBy(b, Owner(b, r))) <= 2 * Maximum[b]
      BY DEF NoneBeyond
    <2>1. /\ ArrivedOK(request[r]) /\ request[r].endpoint \in Endpoints /\ request[r].passed \in 0 .. 2
          /\ request[r].passed <= Len(Chain(request[r].endpoint))
          /\ request[r].out # "idle" => request[r].address \in Addresses
               /\ (request[r].endpoint = "status" => request[r].uid \in Uids)
      BY DEF LimitsInv, ArrivedOK, Arrived
    <2>2. Len(Chain(request[r].endpoint)) \in Nat BY <2>1, Chains
    <2>3. k \in 1 .. Len(Chain(request[r].endpoint)) BY <2>1, <2>2
    <2>4. b \in Buckets /\ (b = "status" => request[r].endpoint = "status") BY <2>1, <2>3, Chains
    <2>5. CASE request[r].out # "idle"
      <3>1. Owner(b, r) \in OwnersOf(b)
        <4>1. CASE b = "global" BY <4>1 DEF Owner, OwnersOf
        <4>2. CASE b = "status" BY <2>1, <2>4, <2>5, <4>2 DEF Owner, OwnersOf
        <4>3. CASE b \notin {"global", "status"} BY <2>1, <2>5, <4>3 DEF Owner, OwnersOf
        <4>. QED BY <4>1, <4>2, <4>3
      <3>2. PassedBy(b, Owner(b, r)) = PassedAgo(b, Owner(b, r), 0, Window - 1)
        BY CountedAre DEF LimitsInv
      <3>. QED BY <1>1, <2>4, <3>1, <3>2
    <2>6. CASE request[r].out = "idle" BY <2>6 DEF LimitsInv, ArrivedOK
    <2>. QED BY <2>5, <2>6
  <1>3. RejectedSpendNothing
    <2>. SUFFICES ASSUME NEW r \in Arrivals, request[r].out = "refused", request[r].passed = 0
                  PROVE  request[r].ages[2] = Never
      BY DEF RejectedSpendNothing
    <2>. QED BY DEF LimitsInv, ArrivedOK
  <1>. QED BY <1>2, <1>3 DEF LimitsInv, LimitsHold

\* The limits do hold: no window lets more than twice its maximum pass, whoever is
\* refused is refused for what its own kind has spent, and those refused by the limit
\* of their address cost the bucket behind it nothing (rate-limit.ts, ghost-server.ts).
THEOREM LimitsAlwaysHold == ThrottleSpec => []LimitsHold
  BY LimitsInvariant, LimitsFromInv, PTL
=============================================================================
