------------------------------- MODULE SignInFlow -------------------------------
(***************************************************************************)
(* The way of a browser through interactions of the OIDC library: the      *)
(* routes of src/src/api/interaction-routes.ts and microsoft-oauth-        *)
(* routes.ts, OAuthInteractionService and ProviderInteractionGateway.  The *)
(* sign-ins behind the interactions are Redemption, which Verification is  *)
(* shown to implement.  Every await is a place where other requests run, a *)
(* call may fail, answer too late or not at all.                           *)
(***************************************************************************)
EXTENDS Naturals, FiniteSets

CONSTANTS Interactions,  \* uids of interactions
          Codes, Players, Claims, Nil,  \* as in Redemption
          Methods,       \* "online", "skin", "microsoft"
          Asks,          \* sets of methods that acr_values permit
          Grants,        \* ids of grants
          Transactions,  \* states of Microsoft transactions
          Visits,        \* requests in flight at the same time
          MaxVisits,     \* bound: requests in all
          MaxMishaps     \* bound: calls that fail, requests that die, records that expire

ASSUME FlowAssumption ==
  /\ Methods = {"online", "skin", "microsoft"} /\ Asks \subseteq SUBSET Methods
  /\ Grants # {} /\ MaxVisits \in Nat \ {0} /\ MaxMishaps \in Nat
  /\ Nil \notin UNION {Interactions, Codes, Players, Claims, Methods, Grants, Transactions}

VARIABLES about,      \* what a behaviour is about: "answers" or "transactions"
          asked,      \* the library's interactions
          signin,     \* Redemption
          via,        \* the method of the claim on a sign-in, then of its record
          challenged, \* interactions with a skin challenge
          browser,    \* the account of the browser's session
          saved,      \* the account of each grant in PostgreSQL
          serves,     \* the account of the session that an answered grant serves
          cookie,     \* the transaction cookies: the interaction of each state
          visit,      \* the requests
          visits, mishaps,  \* how many there were
          proved,     \* history: who proved themself for an interaction, and how
          fruit,      \* history: grants answered with, since the sign-in was bound
          leaked,     \* history: grants whose clean-up failed
          stale       \* history: grants whose answer was replaced or is over

requestVars == <<asked, browser, saved, serves, fruit, leaked, stale>>
storeVars == <<signin, via, challenged, proved>>
flowVars == <<about, requestVars, storeVars, cookie, visit, visits, mishaps>>

Store == INSTANCE Redemption WITH None <- Nil

Pages == {"page", "complete", "abort", "notyou", "microsoft", "skin", "switch"}

\* The requests of a behaviour.
PagesOf(topic) == IF topic = "transactions" THEN {"microsoft", "complete", "notyou"}
                                            ELSE Pages \ {"microsoft"}

Places == {"idle", "inspect", "status", "allocate", "discard", "reset", "switch",
           "claim", "details", "grant", "load", "write", "undo", "giveback", "finish",
           "find", "exchange", "resolve", "bind"}

Answer == [kind : {"none", "denied", "login", "consent"}, account : Players \cup {Nil},
           method : Methods \cup {Nil}, grant : Grants \cup {Nil}]

\* What the library is answered with names its grant, unless the user denied.
Result == {a \in Answer :
  CASE a.kind = "login" -> Nil \notin {a.account, a.method, a.grant}
    [] a.kind = "consent" -> a.method = Nil /\ Nil \notin {a.account, a.grant}
    [] OTHER -> {a.account, a.method, a.grant} = {Nil}}

NoAnswer == [kind |-> "none", account |-> Nil, method |-> Nil, grant |-> Nil]

\* account: of the session, when the interaction began; lost: that session has
\* ended or changed; grant: that the session has for the client.
Interaction == [prompt : {"none", "login", "consent", "gone"}, acr : SUBSET Methods,
                account : Players \cup {Nil}, lost : BOOLEAN,
                grant : Grants \cup {Nil}, result : Result]

NotAsked == [prompt |-> "none", acr |-> {}, account |-> Nil, lost |-> FALSE,
             grant |-> Nil, result |-> NoAnswer]

\* fresh: the grant is one that the request has made.
Visit == [at : Places, kind : Pages \cup {"callback"}, u : Interactions \cup {Nil},
          state : Transactions \cup {Nil}, claim : Claims \cup {Nil},
          grant : Grants \cup {Nil}, fresh : BOOLEAN, answer : Answer]

NoVisit == [at |-> "idle", kind |-> "page", u |-> Nil, state |-> Nil, claim |-> Nil,
            grant |-> Nil, fresh |-> FALSE, answer |-> NoAnswer]

FlowTypeOK ==
  /\ about \in {"answers", "transactions"}
  /\ asked \in [Interactions -> Interaction]
  /\ via \in [Interactions -> Methods \cup {Nil}]
  /\ challenged \subseteq Interactions
  /\ browser \in Players \cup {Nil}
  /\ saved \in [Grants -> Players \cup {Nil}]
  /\ serves \in [Grants -> Players \cup {Nil}]
  /\ cookie \in [Transactions -> Interactions \cup {Nil}]
  /\ visit \in [Visits -> Visit]
  /\ visits \in 0..MaxVisits /\ mishaps \in 0..MaxMishaps
  /\ leaked \subseteq Grants /\ stale \subseteq Grants

Exists(u) == asked[u].prompt \in {"login", "consent"}

\* permitsAuthenticationMethod
Permits(u, method) == method \in asked[u].acr

\* The browser may have signed in before, for a client that uses a grant; or it has
\* been sent to Microsoft for its interactions, and has one request less to go.
FlowInit ==
  /\ about \in {"answers", "transactions"}
  /\ \/ /\ asked = [u \in Interactions |-> NotAsked]
        /\ cookie = [x \in Transactions |-> Nil] /\ visits = 0
     \/ /\ about = "transactions"
        /\ asked \in [Interactions ->
             {[NotAsked EXCEPT !.prompt = "login", !.acr = acr] : acr \in Asks}]
        /\ cookie \in [Transactions -> Interactions] /\ visits = 1
        /\ \A x \in Transactions : Permits(cookie[x], "microsoft")
  /\ Store!Init /\ via = [u \in Interactions |-> Nil] /\ challenged = {}
  /\ browser \in IF about = "transactions" THEN {Nil} ELSE Players \cup {Nil}
  /\ saved = [[g \in Grants |-> Nil] EXCEPT ![CHOOSE g \in Grants : TRUE] = browser]
  /\ serves = saved
  /\ visit = [v \in Visits |-> NoVisit] /\ mishaps = 0
  /\ proved = [u \in Interactions |-> {}] /\ fruit = [u \in Interactions |-> {}]
  /\ leaked = {} /\ stale = {}
--------------------------------------------------------------------------------
Here(v, place) == visit[v].at = place

Does(v, r) == visit' = [visit EXCEPT ![v] = r]

Goes(v, place) == Does(v, [visit[v] EXCEPT !.at = place])

\* The browser drops the transaction cookie with the reply of the callback.
Replies(v) ==
  /\ Does(v, NoVisit)
  /\ cookie' = [x \in Transactions |-> IF x = visit[v].state THEN Nil ELSE cookie[x]]

\* Ids, states and codes are random: what nothing knows of is drawn, and which of
\* those it is makes no difference.
Drawn(S) == IF S = {} THEN {} ELSE {CHOOSE x \in S : TRUE}

NewClaims == Drawn({h \in Claims : Store!Unheld(h) /\ \A v \in Visits : visit[v].claim # h})
NewCodes == Drawn({c \in Codes : Store!Unoffered(c)})
NewStates == Drawn({x \in Transactions : cookie[x] = Nil /\ \A v \in Visits : visit[v].state # x})

Mishap == mishaps < MaxMishaps /\ mishaps' = mishaps + 1
NoMishap == UNCHANGED <<visits, mishaps>>

Phase(u) == signin[u].phase

\* interactionDetails: the interaction of the cookie, while its session stands.
Found(u) == Exists(u) /\ ~asked[u].lost

\* Grants that only answers before these name.
Dropped(gone, now) ==
  {gone[u].result.grant : u \in Interactions} \ ({now[u].result.grant : u \in Interactions} \cup {Nil})

Asked(u, a) == asked' = [asked EXCEPT ![u] = a]
--------------------------------------------------------------------------------
(* The OIDC library and the browser. *)

\* An authorization that needs the user: to sign in, or to consent.
Authorize(u) ==
  /\ asked[u].prompt = "none"
  /\ \E acr \in Asks, prompt \in {"login", "consent"}, g \in Grants \cup {Nil} :
       /\ prompt = "consent" => browser # Nil /\ acr = Methods
       /\ g # Nil => prompt = "consent" /\ serves[g] = browser /\ saved[g] # Nil
       /\ Asked(u, [NotAsked EXCEPT !.prompt = prompt, !.acr = acr, !.account = browser,
                                    !.grant = g])
  /\ UNCHANGED <<storeVars, browser, saved, serves, fruit, leaked, stale, cookie, visit>>
  /\ NoMishap

\* The interactions of a session that ends or becomes another account's.
Bereaved(a, account) ==
  [u \in Interactions |-> IF a[u].account # Nil /\ a[u].account # account
                          THEN [a[u] EXCEPT !.lost = TRUE] ELSE a[u]]

\* The library answers the client with what an interaction came to, once.
Resume(u) ==
  LET answer == asked[u].result
      over == [asked EXCEPT ![u] = [NotAsked EXCEPT !.prompt = "gone"]]
      account == IF answer.kind = "login" THEN answer.account ELSE browser
  IN /\ Found(u) /\ answer.kind # "none"
     /\ browser' = account
     /\ asked' = Bereaved(over, account)
     /\ serves' = IF answer.grant = Nil THEN serves
                  ELSE [serves EXCEPT ![answer.grant] = account]
     /\ UNCHANGED <<storeVars, saved, fruit, leaked, stale, cookie, visit>>
     /\ NoMishap

\* Five minutes are over for an interaction, a sign-in or a transaction.
ExpireInteraction(u) ==
  /\ Exists(u)
  /\ asked' = [asked EXCEPT ![u] = [NotAsked EXCEPT !.prompt = "gone"]]
  /\ stale' = stale \cup Dropped(asked, asked')
  /\ UNCHANGED <<storeVars, browser, saved, serves, fruit, leaked, cookie, visit>>
  /\ Mishap /\ UNCHANGED visits

Close(u) ==
  /\ Store!Close({u})
  /\ via' = [via EXCEPT ![u] = Nil]

ExpireSignIn(u) ==
  /\ Phase(u) # "closed"
  /\ Close(u)
  /\ UNCHANGED <<challenged, proved, requestVars, cookie, visit>>
  /\ Mishap /\ UNCHANGED visits

ExpireTransaction(x) ==
  /\ cookie[x] # Nil /\ \A v \in Visits : visit[v].state # x
  /\ cookie' = [cookie EXCEPT ![x] = Nil]
  /\ UNCHANGED <<storeVars, requestVars, visit>>
  /\ Mishap /\ UNCHANGED visits

\* A code typed in the lobby, or a skin found changed; the code may have been
\* mistyped, so any sign-in on offer can be met.
TakeElsewhere(u) ==
  /\ \E method \in {"online", "skin"}, h \in NewClaims :
       /\ method = "skin" => u \in challenged
       /\ Store!Take(u, h)
       /\ via' = [via EXCEPT ![u] = method]
  /\ UNCHANGED <<challenged, proved, requestVars, cookie, visit>>
  /\ NoMishap

\* The record becomes verified: it names the player and the method.
Binds(u, p) ==
  /\ Store!Bind(u, p)
  /\ fruit' = [fruit EXCEPT ![u] = {}]
  /\ UNCHANGED via

BindElsewhere(u) ==
  /\ via[u] \in {"online", "skin"}
  /\ \/ \E p \in Players :
          /\ Binds(u, p)
          /\ proved' = [proved EXCEPT ![u] = @ \cup {<<p, via[u]>>}]
          /\ challenged' = IF via[u] = "skin" THEN challenged \ {u} ELSE challenged
     \/ /\ \E c \in NewCodes : Store!OfferAgain(u, c)
        /\ via' = [via EXCEPT ![u] = Nil]
        /\ UNCHANGED <<challenged, proved, fruit>>
  /\ UNCHANGED <<asked, browser, saved, serves, leaked, stale, cookie, visit>>
  /\ NoMishap
--------------------------------------------------------------------------------
(* Requests of the browser, up to the sign-in. *)

StartVisit(v) ==
  /\ Here(v, "idle") /\ visits < MaxVisits /\ visits' = visits + 1
  /\ \/ \E kind \in PagesOf(about), u \in Interactions :
          /\ asked[u].prompt # "none"
          /\ Does(v, [NoVisit EXCEPT !.at = "inspect", !.kind = kind, !.u = u])
     \/ \E x \in Transactions :
          /\ cookie[x] # Nil
          /\ Does(v, [NoVisit EXCEPT !.at = "find", !.kind = "callback", !.state = x])
  /\ UNCHANGED <<storeVars, requestVars, cookie, mishaps>>

\* Where a request goes that finds its interaction.
After(kind, prompt, permitted) ==
  CASE kind = "abort" -> "load"
    [] kind = "complete" /\ prompt = "login" -> "claim"
    [] kind = "complete" /\ prompt = "consent" -> "details"
    [] kind = "switch" /\ prompt = "consent" -> "switch"
    [] kind = "page" /\ prompt = "login" -> "status"
    [] kind = "notyou" /\ prompt = "login" -> "discard"
    [] kind \in {"microsoft", "skin"} /\ prompt = "login" /\ permitted -> "allocate"
    [] OTHER -> "idle"

\* requireActiveInteraction, requireLoginInteraction
Inspect(v) ==
  LET u == visit[v].u
      kind == visit[v].kind
      next == IF Found(u) THEN After(kind, asked[u].prompt, Permits(u, kind)) ELSE "idle"
  IN /\ Here(v, "inspect")
     /\ IF next = "idle" THEN Replies(v)
        ELSE /\ Does(v, [visit[v] EXCEPT !.at = next,
                           !.answer.kind = IF kind = "abort" THEN "denied" ELSE "none"])
             /\ UNCHANGED cookie
     /\ UNCHANGED <<storeVars, requestVars>> /\ NoMishap

\* start: the page shows the player to confirm, or is to have a code unless a claim
\* is under way.
Status(v) ==
  /\ Here(v, "status")
  /\ IF Phase(visit[v].u) \in {"closed", "offered"} THEN Goes(v, "allocate") /\ UNCHANGED cookie
                                     ELSE Replies(v)
  /\ UNCHANGED <<storeVars, requestVars>> /\ NoMishap

\* allocate, and what follows it in each request.
Allocated(v) ==
  LET u == visit[v].u
  IN CASE visit[v].kind = "microsoft" ->
            /\ \/ \E x \in NewStates : cookie' = [cookie EXCEPT ![x] = u]
               \/ UNCHANGED cookie
            /\ Does(v, NoVisit) /\ UNCHANGED challenged
       [] visit[v].kind = "skin" ->
            challenged' = challenged \cup {u} /\ Replies(v)
       [] visit[v].kind = "callback" ->
            /\ UNCHANGED challenged
            /\ \/ Goes(v, "exchange") /\ UNCHANGED cookie
               \/ Replies(v)
       [] OTHER -> Replies(v) /\ UNCHANGED challenged

Allocate(v) ==
  /\ Here(v, "allocate")
  /\ \/ /\ Phase(visit[v].u) = "offered" /\ UNCHANGED signin
        /\ Allocated(v)
     \/ /\ \E c \in NewCodes : Store!Offer(visit[v].u, c)
        /\ Allocated(v)
     \/ /\ Phase(visit[v].u) # "offered" /\ UNCHANGED <<signin, challenged>>
        /\ Replies(v)
  /\ UNCHANGED <<via, proved, requestVars>> /\ NoMishap

\* resetVerification
Discard(v) ==
  /\ Here(v, "discard")
  /\ challenged' = challenged \ {visit[v].u}
  /\ Goes(v, "reset")
  /\ UNCHANGED <<signin, via, proved, requestVars, cookie>> /\ NoMishap

Reset(v) ==
  /\ Here(v, "reset")
  /\ IF Phase(visit[v].u) = "bound"
     THEN Close(visit[v].u) /\ Goes(v, "allocate") /\ UNCHANGED cookie
     ELSE UNCHANGED <<signin, via>> /\ Replies(v)
  /\ UNCHANGED <<challenged, proved, requestVars>> /\ NoMishap

\* switchAccount: the session of the interaction is destroyed.
SwitchAccount(v) ==
  /\ Here(v, "switch")
  /\ IF Found(visit[v].u)
     THEN browser' = Nil /\ asked' = Bereaved(asked, Nil)
     ELSE UNCHANGED <<browser, asked>>
  /\ Replies(v)
  /\ UNCHANGED <<storeVars, saved, serves, fruit, leaked, stale>> /\ NoMishap
--------------------------------------------------------------------------------
(* The callback from Microsoft. *)

\* readTransaction
TransactionOf(x) == cookie[x]

\* prepareMicrosoftCallback: the interaction of the transaction, without its cookie.
Find(v) ==
  LET u == TransactionOf(visit[v].state)
  IN /\ Here(v, "find")
     /\ IF u # Nil /\ Exists(u) /\ asked[u].prompt = "login" /\ Permits(u, "microsoft")
        THEN Does(v, [visit[v] EXCEPT !.at = "allocate", !.u = u]) /\ UNCHANGED cookie
        ELSE Replies(v)
     /\ UNCHANGED <<storeVars, requestVars>> /\ NoMishap

\* verifyAuthorizationCode: who signed in at Microsoft for this transaction, unless
\* a service fails or they own no game.
Exchange(v) ==
  /\ Here(v, "exchange")
  /\ \/ /\ \E p \in Players :
             /\ Does(v, [visit[v] EXCEPT !.at = "resolve", !.answer.account = p])
             /\ cookie[visit[v].state] # Nil
             /\ proved' = [proved EXCEPT ![cookie[visit[v].state]] = @ \cup {<<p, "microsoft">>}]
        /\ UNCHANGED cookie
     \/ Replies(v) /\ UNCHANGED proved
  /\ UNCHANGED <<signin, via, challenged, requestVars>> /\ NoMishap

\* resolveInteraction: claim, store the player, complete or release.
Resolve(v) ==
  LET u == visit[v].u
  IN /\ Here(v, "resolve")
     /\ IF Phase(u) = "offered"
        THEN \E h \in NewClaims :
               /\ Store!Take(u, h) /\ via' = [via EXCEPT ![u] = "microsoft"]
               /\ Does(v, [visit[v] EXCEPT !.at = "bind", !.claim = h])
               /\ UNCHANGED cookie
        ELSE UNCHANGED <<signin, via>> /\ Replies(v)
     /\ UNCHANGED <<challenged, proved, requestVars>> /\ NoMishap

Holds(v, phase) == Phase(visit[v].u) = phase /\ signin[visit[v].u].holder = visit[v].claim

Bind(v) ==
  LET u == visit[v].u
  IN /\ Here(v, "bind")
     /\ \/ Holds(v, "taken") /\ Binds(u, visit[v].answer.account)
        \/ /\ Holds(v, "taken") /\ \E c \in NewCodes : Store!OfferAgain(u, c)
           /\ via' = [via EXCEPT ![u] = Nil] /\ UNCHANGED fruit
        \/ ~Holds(v, "taken") /\ UNCHANGED <<signin, via, fruit>>
     /\ Replies(v)
     /\ UNCHANGED <<challenged, proved, asked, browser, saved, serves, leaked, stale>>
     /\ NoMishap
--------------------------------------------------------------------------------
(* complete: the sign-in is claimed and its result persisted. *)

\* claimVerified: a wrong code is refused, and the last of them ends the sign-in.
Claim(v) ==
  LET u == visit[v].u
  IN /\ Here(v, "claim")
     /\ \/ \E h \in NewClaims :
             /\ Store!Leave(u, h)
             /\ Does(v, [visit[v] EXCEPT !.at = "details", !.claim = h,
                  !.answer = [kind |-> "login", account |-> signin[u].player,
                              method |-> via[u], grant |-> Nil]])
             /\ UNCHANGED <<via, cookie>>
        \/ /\ Phase(u) = "bound" /\ via[u] = "online"
           /\ Close(u) \/ UNCHANGED <<signin, via>>
           /\ Replies(v)
        \/ /\ Phase(u) # "bound"
           /\ UNCHANGED <<signin, via>> /\ Replies(v)
     /\ UNCHANGED <<challenged, proved, requestVars>> /\ NoMishap

\* Mutant: the method is not compared with what was asked for.
DetailsOfAnyMethod(v) ==
  LET u == visit[v].u
      a == asked[u]
  IN /\ Here(v, "details")
     /\ CASE ~Found(u) -> IF visit[v].claim = Nil THEN Replies(v)
                           ELSE Goes(v, "giveback") /\ UNCHANGED cookie
          [] Found(u) /\ a.prompt = "login" -> Goes(v, "grant") /\ UNCHANGED cookie
          [] Found(u) /\ a.prompt = "consent" ->
               /\ Does(v, [visit[v] EXCEPT !.at = "grant", !.grant = a.grant,
                    !.answer = [NoAnswer EXCEPT !.kind = "consent", !.account = a.account]])
               /\ UNCHANGED cookie
     /\ UNCHANGED <<storeVars, requestVars>> /\ NoMishap

\* persistVerifiedResult and persistConsent look at the interaction again.
Details(v) ==
  LET u == visit[v].u
      a == asked[u]
  IN /\ Here(v, "details")
     /\ CASE ~Found(u) \/ (a.prompt = "login" /\ ~Permits(u, visit[v].answer.method)) ->
               IF visit[v].claim = Nil THEN Replies(v)
               ELSE Goes(v, "giveback") /\ UNCHANGED cookie
          [] Found(u) /\ a.prompt = "login" /\ Permits(u, visit[v].answer.method) ->
               Goes(v, "grant") /\ UNCHANGED cookie
          [] Found(u) /\ a.prompt = "consent" ->
               /\ Does(v, [visit[v] EXCEPT !.at = "grant", !.grant = a.grant,
                    !.answer = [NoAnswer EXCEPT !.kind = "consent", !.account = a.account]])
               /\ UNCHANGED cookie
     /\ UNCHANGED <<storeVars, requestVars>> /\ NoMishap

GrantOwner(v) == visit[v].answer.account

NewGrants == Drawn({g \in Grants :
  /\ saved[g] = Nil /\ serves[g] = Nil
  /\ \A v \in Visits : visit[v].grant # g
  /\ \A u \in Interactions : g \notin {asked[u].grant, asked[u].result.grant}})

WithGrant(v, g, place) ==
  Does(v, [visit[v] EXCEPT !.at = place, !.grant = g, !.fresh = (visit[v].grant = Nil),
                           !.answer.grant = g])

Saves(v, g) == saved' = [saved EXCEPT ![g] = GrantOwner(v)]

\* grant.save: of a new grant, or of the one that the consent extends.
SaveGrant(v) ==
  LET old == visit[v].grant
  IN /\ Here(v, "grant")
     /\ \/ /\ old # Nil /\ saved[old] = Nil
           /\ Replies(v) /\ UNCHANGED saved /\ NoMishap
        \/ /\ old # Nil /\ saved[old] # Nil /\ UNCHANGED <<saved, cookie>>
           /\ \/ WithGrant(v, old, "load") /\ NoMishap
              \/ WithGrant(v, old, "undo") /\ Mishap
        \/ /\ old = Nil /\ UNCHANGED cookie
           /\ \E g \in NewGrants :
                \/ Saves(v, g) /\ WithGrant(v, g, "load") /\ NoMishap
                \/ /\ Saves(v, g) \/ UNCHANGED saved
                   /\ WithGrant(v, g, "undo") /\ Mishap
     /\ UNCHANGED <<storeVars, asked, browser, serves, fruit, leaked, stale, visits>>

\* interactionResult: the interaction is read,
Load(v) ==
  /\ Here(v, "load")
  /\ \/ Found(visit[v].u) /\ Goes(v, "write") /\ UNCHANGED cookie
     \/ /\ ~Found(visit[v].u)
        /\ IF visit[v].kind = "abort" THEN Replies(v) ELSE Goes(v, "undo") /\ UNCHANGED cookie
  /\ UNCHANGED <<storeVars, requestVars>> /\ NoMishap

\* and saved with its result; one that is over meanwhile is of no more use.
Writes(v) ==
  LET u == visit[v].u
      g == visit[v].grant
  IN /\ asked' = IF Exists(u) THEN [asked EXCEPT ![u].result = visit[v].answer] ELSE asked
     /\ stale' = stale \cup Dropped(asked, asked')
                       \cup (IF Exists(u) \/ g = Nil THEN {} ELSE {g})
     /\ fruit' = IF Holds(v, "leaving") THEN [fruit EXCEPT ![u] = @ \cup {g}] ELSE fruit

\* The answer of Redis may be late: what was saved stands, and counts as failed.
SaveAnswer(v) ==
  /\ Here(v, "write")
  /\ \/ /\ Writes(v) /\ NoMishap
        /\ IF visit[v].claim = Nil THEN Replies(v) ELSE Goes(v, "finish") /\ UNCHANGED cookie
     \/ /\ Writes(v) \/ UNCHANGED <<asked, stale, fruit>>
        /\ Mishap /\ UNCHANGED visits
        /\ IF visit[v].kind = "abort" THEN Replies(v) ELSE Goes(v, "undo") /\ UNCHANGED cookie
  /\ UNCHANGED <<storeVars, browser, saved, serves, leaked>>

\* Mutant: a failure leaves the grant that was made.
UndoesNone(v) == FALSE

Undoes(v) == visit[v].fresh

\* After a failure the grant that was made is destroyed, if that succeeds.
Undo(v) ==
  LET g == visit[v].grant
  IN /\ Here(v, "undo")
     /\ \/ /\ Undoes(v) /\ NoMishap
           /\ saved' = [saved EXCEPT ![g] = Nil]
           /\ fruit' = [u \in Interactions |-> fruit[u] \ {g}]
           /\ leaked' = leaked \ {g} /\ stale' = stale \ {g}
        \/ /\ Undoes(v) /\ Mishap /\ leaked' = leaked \cup {g}
           /\ UNCHANGED <<saved, fruit, stale, visits>>
        \/ ~Undoes(v) /\ NoMishap /\ UNCHANGED <<saved, fruit, leaked, stale>>
     /\ IF visit[v].claim = Nil THEN Replies(v) ELSE Goes(v, "giveback") /\ UNCHANGED cookie
     /\ UNCHANGED <<storeVars, asked, browser, serves>>

\* releaseFailedFinalization
GiveBack(v) ==
  /\ Here(v, "giveback")
  /\ \/ Holds(v, "leaving") /\ Store!Stay(visit[v].u) /\ NoMishap
     \/ ~Holds(v, "leaving") /\ UNCHANGED signin /\ NoMishap
     \/ Mishap /\ UNCHANGED <<signin, visits>>
  /\ Replies(v)
  /\ UNCHANGED <<via, challenged, proved, requestVars>>

\* completeFinalization
Finish(v) ==
  /\ Here(v, "finish")
  /\ \/ Holds(v, "leaving") /\ Close(visit[v].u) /\ NoMishap
     \/ ~Holds(v, "leaving") /\ UNCHANGED <<signin, via>> /\ NoMishap
     \/ Mishap /\ UNCHANGED <<signin, via, visits>>
  /\ Replies(v)
  /\ UNCHANGED <<challenged, proved, requestVars>>

\* The process ends under a request, whose reply the browser never sees.
Die(v) ==
  LET g == visit[v].grant
  IN /\ ~Here(v, "idle") /\ Mishap
     /\ Does(v, NoVisit)
     /\ leaked' = IF visit[v].fresh /\ saved[g] # Nil THEN leaked \cup {g} ELSE leaked
     /\ UNCHANGED <<storeVars, asked, browser, saved, serves, fruit, stale, cookie, visits>>
--------------------------------------------------------------------------------
Signs(v) == StartVisit(v) \/ Inspect(v) \/ Status(v) \/ Allocate(v) \/ Discard(v) \/ Reset(v)
Returns(v) == Find(v) \/ Exchange(v) \/ Resolve(v) \/ Bind(v)
Completes(v) == \/ Claim(v) \/ Details(v) \/ SaveGrant(v) \/ Load(v) \/ SaveAnswer(v)
                \/ Undo(v) \/ GiveBack(v) \/ Finish(v)

FlowNext ==
  /\ UNCHANGED about
  /\ \/ \E u \in Interactions :
          \/ Authorize(u) \/ Resume(u) \/ ExpireInteraction(u) \/ ExpireSignIn(u)
          \/ TakeElsewhere(u) \/ BindElsewhere(u)
     \/ \E x \in Transactions : ExpireTransaction(x)
     \/ \E v \in Visits : Signs(v) \/ SwitchAccount(v) \/ Returns(v) \/ Completes(v) \/ Die(v)

FlowSpec == FlowInit /\ [][FlowNext]_flowVars
--------------------------------------------------------------------------------
\* A sign-in is answered with an account only when its player has proved themself
\* for this very interaction, in a way that the client permits: whatever becomes of
\* codes, challenges and transactions of other interactions meanwhile.
AnsweredAsProved ==
  \A u \in Interactions :
    LET a == asked[u].result
    IN a.kind = "login" => <<a.account, a.method>> \in proved[u] /\ Permits(u, a.method)

\* A grant that was saved is in the hands of a request, named by an answer that the
\* library has yet to take, or in use; unless its clean-up failed or its answer was
\* replaced or came to nothing.
NoGrantForgotten ==
  \A g \in Grants : saved[g] # Nil =>
    \/ serves[g] # Nil \/ g \in leaked \cup stale
    \/ \E v \in Visits : visit[v].grant = g
    \/ \E u \in Interactions : asked[u].result.grant = g

\* A grant that a session uses is its account's, also when a browser changes the
\* account while interactions of the other are still open.
GrantServesItsOwner ==
  \A g \in Grants : serves[g] # Nil /\ saved[g] # Nil => saved[g] = serves[g]

\* One proof brings one grant, however often its completion is tried again.
OneGrantPerProof ==
  \A u \in Interactions : Cardinality({g \in fruit[u] \ leaked : saved[g] # Nil}) <= 1

\* What a session used before is not lost to a request that fails: it destroys only
\* what it has made.
FailureSparesGrants ==
  [][\A g \in Grants : saved[g] # Nil /\ saved'[g] = Nil =>
       \E v \in Visits : visit[v].grant = g /\ visit[v].fresh]_flowVars

\* Interactions are answered with who was proved, and a grant serves its owner.
AnswersInOrder == FlowTypeOK /\ AnsweredAsProved /\ GrantServesItsOwner

\* Grants are neither lost nor left behind, whatever fails between two writes
\* (interaction-gateway.ts: persistVerifiedResult, persistConsent).
GrantsAreKept == [][NoGrantForgotten']_flowVars /\ [][OneGrantPerProof']_flowVars /\ FailureSparesGrants
=============================================================================
