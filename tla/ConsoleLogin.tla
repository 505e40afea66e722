------------------------------ MODULE ConsoleLogin ------------------------------
(***************************************************************************)
(* How a browser gets its session of the Developer Console                 *)
(* (src/src/api/developer-routes.ts: /developers/login and                 *)
(* /developers/callback, developer-oidc-login.ts, developer-cookies.ts).   *)
(* The transaction of a sign-in, its state and its verifier, is kept in    *)
(* one cookie of the browser, whichever of its tabs began it; a response   *)
(* sets or clears the cookie when it arrives, not when it is computed.  A  *)
(* callback is a link: it may be opened again, or in another browser.  The *)
(* provider that issues codes is external; here it is the same program.    *)
(***************************************************************************)
EXTENDS Naturals, FiniteSets

CONSTANTS
  Browsers, People,
  Transactions,   \* random states with their verifiers; each is drawn once
  Callbacks,      \* bound: the requests that callbacks make
  Nothing

ASSUME LoginAssumption ==
  Nothing \notin Browsers \cup People \cup Transactions \cup [of : People, spent : BOOLEAN]

VARIABLES
  cookie,         \* of each browser, the transaction in its cookie
  drawn,          \* of each transaction, the browser that began it
  code,           \* of each transaction, the code that it led to
  callback,       \* each request of a callback
  signedIn,       \* of each browser, whose session it has and from which transaction
  allowed         \* those who have access to the console

loginVars == <<cookie, drawn, code, callback, signedIn, allowed>>

\* A code remembers the challenge and the person it was issued for.
Code == [of : People, spent : BOOLEAN]
CallbackStages == {"unused", "exchange", "subject", "access", "session", "failed", "denied", "answered"}
CallbackRequest ==
  [at : CallbackStages, browser : Browsers \cup {Nothing},
   stored : Transactions \cup {Nothing},    \* from the cookie
   state : Transactions \cup {Nothing},     \* in the link, and the code beside it
   subject : People \cup {Nothing}]

Unused ==
  [at |-> "unused", browser |-> Nothing, stored |-> Nothing, state |-> Nothing, subject |-> Nothing]

LoginTypeOK ==
  /\ cookie \in [Browsers -> Transactions \cup {Nothing}]
  /\ drawn \in [Transactions -> Browsers \cup {Nothing}]
  /\ code \in [Transactions -> Code \cup {Nothing}]
  /\ callback \in [Callbacks -> CallbackRequest]
  /\ signedIn \in [Browsers -> [person : People, by : Transactions] \cup {Nothing}]
  /\ allowed \subseteq People

LoginInit ==
  /\ cookie = [b \in Browsers |-> Nothing]
  /\ drawn = [t \in Transactions |-> Nothing]
  /\ code = [t \in Transactions |-> Nothing]
  /\ callback = [k \in Callbacks |-> Unused]
  /\ signedIn = [b \in Browsers |-> Nothing]
  /\ allowed = People

\* Mutant: the transaction is created with the route, and every sign-in has it.
CreateTransactionWithRoute(t) == t = CHOOSE u \in Transactions : TRUE

CreateTransaction(t) == drawn[t] = Nothing

\* A browser without a session begins to sign in; a later tab overwrites the
\* cookie of an earlier one.
BeginLogin(b, t) ==
  /\ signedIn[b] = Nothing
  /\ CreateTransaction(t)
  /\ drawn' = [drawn EXCEPT ![t] = b]
  /\ cookie' = [cookie EXCEPT ![b] = t]
  /\ UNCHANGED <<code, callback, signedIn, allowed>>

\* The provider redirects someone who has verified as a player, with a code.
IssueCode(t, p) ==
  /\ drawn[t] # Nothing /\ code[t] = Nothing
  /\ code' = [code EXCEPT ![t] = [of |-> p, spent |-> FALSE]]
  /\ UNCHANGED <<cookie, drawn, callback, signedIn, allowed>>

StatesEqual(stored, state) == stored = state

\* The callback of t is opened in b; with an error, another state or without a
\* cookie, it is sent back to the beginning.
OpenCallback(k, b, t, error) ==
  /\ callback[k] = Unused
  /\ drawn[t] # Nothing /\ (error \/ code[t] # Nothing)
  /\ callback' =
       [callback EXCEPT ![k] =
          [at |-> IF ~error /\ StatesEqual(cookie[b], t) THEN "exchange" ELSE "failed",
           browser |-> b, stored |-> cookie[b], state |-> t, subject |-> Nothing]]
  /\ UNCHANGED <<cookie, drawn, code, signedIn, allowed>>

\* The token endpoint takes a code once, with the verifier it was asked for with.
Redeems(stored, state) == stored = state /\ ~code[state].spent

ExchangeCode(k) ==
  LET r == callback[k] IN
  /\ r.at = "exchange"
  /\ \/ /\ Redeems(r.stored, r.state)
        /\ code' = [code EXCEPT ![r.state].spent = TRUE]
        /\ callback' = [callback EXCEPT ![k].at = "subject"]
     \/ /\ ~Redeems(r.stored, r.state)
        /\ callback' = [callback EXCEPT ![k].at = "failed"]
        /\ UNCHANGED code
  /\ UNCHANGED <<cookie, drawn, signedIn, allowed>>

\* Any request, to the provider or to the stores, may fail; a code that was
\* taken stays so.
Fails(k) ==
  /\ callback[k].at \in {"exchange", "subject", "access", "session"}
  /\ callback' = [callback EXCEPT ![k].at = "failed"]
  /\ code' = IF callback[k].at = "exchange" /\ Redeems(callback[k].stored, callback[k].state)
             THEN [code EXCEPT ![callback[k].state].spent = TRUE] ELSE code
  /\ UNCHANGED <<cookie, drawn, signedIn, allowed>>

FetchSubject(k) ==
  /\ callback[k].at = "subject"
  /\ callback' = [callback EXCEPT ![k].at = "access", ![k].subject = code[callback[k].state].of]
  /\ UNCHANGED <<cookie, drawn, code, signedIn, allowed>>

FindAccessOf(k) ==
  /\ callback[k].at = "access"
  /\ callback' = [callback EXCEPT ![k].at =
                    IF callback[k].subject \in allowed THEN "session" ELSE "denied"]
  /\ UNCHANGED <<cookie, drawn, code, signedIn, allowed>>

\* Every answer clears the cookie, whatever it has come to hold since the
\* callback was read; the last one carries the session.
AnswerCallback(k) ==
  LET r == callback[k] IN
  /\ r.at \in {"session", "failed", "denied"}
  /\ signedIn' = IF r.at = "session"
                 THEN [signedIn EXCEPT ![r.browser] = [person |-> r.subject, by |-> r.state]]
                 ELSE signedIn
  /\ cookie' = [cookie EXCEPT ![r.browser] = Nothing]
  /\ callback' = [callback EXCEPT ![k].at = "answered"]
  /\ UNCHANGED <<drawn, code, allowed>>

WithdrawAccess(p) ==
  /\ p \in allowed
  /\ allowed' = allowed \ {p}
  /\ UNCHANGED <<cookie, drawn, code, callback, signedIn>>

SignOut(b) ==
  /\ signedIn[b] # Nothing
  /\ signedIn' = [signedIn EXCEPT ![b] = Nothing]
  /\ UNCHANGED <<cookie, drawn, code, callback, allowed>>

LoginNext ==
  \/ \E b \in Browsers, t \in Transactions : BeginLogin(b, t)
  \/ \E t \in Transactions, p \in People : IssueCode(t, p)
  \/ \E k \in Callbacks, b \in Browsers, t \in Transactions, error \in BOOLEAN :
       OpenCallback(k, b, t, error)
  \/ \E k \in Callbacks :
       ExchangeCode(k) \/ Fails(k) \/ FetchSubject(k) \/ FindAccessOf(k) \/ AnswerCallback(k)
  \/ \E p \in People : WithdrawAccess(p)
  \/ \E b \in Browsers : SignOut(b)

LoginSpec == LoginInit /\ [][LoginNext]_loginVars

---------------------------------------------------------------------------
\* A browser has a session only of a sign-in that was begun in it, as the person
\* who verified there, and no sign-in gives two: also when links are opened
\* again or elsewhere, and callbacks cross (developer-routes.ts:226-273).
LoginIsItsOwn ==
  /\ LoginTypeOK
  /\ \A b \in Browsers :
       signedIn[b] # Nothing =>
         /\ drawn[signedIn[b].by] = b
         /\ code[signedIn[b].by].of = signedIn[b].person
  /\ \A j, k \in Callbacks :
       /\ j # k
       /\ {callback[j].at, callback[k].at} \subseteq {"subject", "access", "session", "denied"}
       => callback[j].state # callback[k].state
=============================================================================
