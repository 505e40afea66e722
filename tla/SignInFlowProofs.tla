----------------------------- MODULE SignInFlowProofs -----------------------------
(***************************************************************************)
(* Proofs about SignInFlow, for any interactions, sign-ins, requests,      *)
(* grants and transactions, and any number of mishaps.                     *)
(*                                                                         *)
(* A request looks at its interaction, its sign-in and its grant at        *)
(* different moments and keeps what it saw, so the properties rest on what *)
(* it may still go by: VisitOK, in parts for each thing it looked at.      *)
(* A request that does not move keeps it when the step of another Spares   *)
(* it; Moved is what a step has to show.                                   *)
(*                                                                         *)
(* One proof brings one grant because a sign-in that can be claimed has    *)
(* only grants whose clean-up failed (FruitOK), and the request that holds *)
(* it knows the only other one (AboutSignIn).                              *)
(***************************************************************************)
EXTENDS SignInFlow, FiniteSetTheorems, TLAPS

SignInRecord == [phase : {"closed", "offered", "taken", "bound", "leaving"},
                 code : Codes \cup {Nil}, holder : Claims \cup {Nil}, player : Players \cup {Nil}]

\* A sign-in that is bound names who was proved, and how.
SignInOK(u) ==
  LET s == signin[u]
  IN /\ s.phase \in {"taken", "leaving"} <=> s.holder # Nil
     /\ s.phase \in {"taken", "bound", "leaving"} => via[u] \in Methods
     /\ s.phase \in {"bound", "leaving"} => s.player # Nil /\ <<s.player, via[u]>> \in proved[u]

Typed ==
  /\ FlowTypeOK
  /\ signin \in [Interactions -> SignInRecord]
  /\ proved \in [Interactions -> SUBSET (Players \X Methods)]
  /\ fruit \in [Interactions -> SUBSET Grants]

SignIns == \A u \in Interactions : SignInOK(u)

\* What an interaction names is its account's, and its answer was proved.
AskedOK(u) ==
  LET a == asked[u]
  IN /\ a.prompt \in {"none", "gone"} => a.result = NoAnswer /\ a.grant = Nil /\ a.account = Nil
     /\ a.prompt = "consent" => a.account # Nil
     /\ a.account # Nil /\ ~a.lost => browser = a.account
     /\ a.grant # Nil => /\ serves[a.grant] # Nil
                         /\ saved[a.grant] # Nil => saved[a.grant] = a.account
     /\ a.result.grant # Nil /\ saved[a.result.grant] # Nil => saved[a.result.grant] = a.result.account
     /\ a.result.kind = "login" => /\ <<a.result.account, a.result.method>> \in proved[u]
                                   /\ Permits(u, a.result.method)
     /\ a.result.kind = "consent" => a.result.account = a.account

AllAsked == \A u \in Interactions : AskedOK(u)

Keeping == {"details", "grant", "load", "write", "undo", "giveback", "finish"}
Made == {"load", "write", "undo", "giveback", "finish"}

\* What a request holds at each place,
VisitShape(r) ==
  /\ r.at \notin {"idle", "find"} => r.u # Nil
  /\ r.state # Nil <=> r.kind = "callback"
  /\ r.at \in {"find", "exchange", "resolve", "bind"} => r.kind = "callback"
  /\ r.kind = "callback" => r.at \in {"find", "allocate", "exchange", "resolve", "bind"}
  /\ r.kind = "abort" => r.at \in {"inspect", "load", "write"}
  /\ r.at \in {"resolve", "bind"} => r.answer.account # Nil
  /\ r.at \in {"bind", "giveback", "finish"} => r.claim # Nil
  /\ r.claim # Nil => r.at \in {"bind"} \cup Keeping
  /\ r.grant # Nil => r.at \in {"grant"} \cup Made
  /\ r.fresh => r.grant # Nil /\ r.at \in Made

\* and the answer it is about to give.
AnswerShape(r) ==
  LET a == r.answer
  IN /\ r.at \notin Keeping => a.kind = "none"
     /\ r.at \notin Keeping \cup {"resolve", "bind"} => a = NoAnswer
     /\ r.at \notin Made => a.grant = Nil
     /\ r.at \in Keeping => /\ r.claim # Nil <=> a.kind = "login"
                            /\ a.kind \in {"login", "consent"} => a.account # Nil
                            /\ a.kind \in {"none", "denied"} => a.account = Nil
                            /\ a.method # Nil <=> a.kind = "login"
     /\ a.kind \in {"none", "denied"} => a.grant = Nil
     /\ r.at = "details" => a.kind \in {"login", "none"}
     /\ r.at \in {"grant", "undo"} => a.kind \in {"login", "consent"}
     /\ r.at = "grant" /\ r.claim # Nil => r.grant = Nil
     /\ r.at \in {"load", "write"} => a.kind \in IF r.kind = "abort" THEN {"denied"} ELSE {"login", "consent"}
     /\ r.at \in {"load", "write", "undo", "finish"} => a.grant = r.grant
     /\ r.at \in {"load", "write", "undo", "finish"} /\ a.kind # "denied" => r.grant # Nil
     /\ r.at \in Made /\ r.claim # Nil /\ r.grant # Nil => r.fresh

\* Of the interaction.
AboutAsked(r) ==
  r.u # Nil =>
    /\ asked[r.u].prompt # "none"
    /\ r.at = "claim" \/ r.answer.kind = "login" => asked[r.u].prompt # "consent"
    /\ r.answer.kind = "login" /\ r.at \notin {"details", "giveback"} /\ Exists(r.u)
         => Permits(r.u, r.answer.method)
    /\ r.answer.kind = "consent" /\ Exists(r.u) => r.answer.account = asked[r.u].account

\* Of the sign-in.
AboutSignIn(r) ==
  /\ r.kind = "callback" /\ r.u # Nil => cookie[r.state] \in {r.u, Nil}
  /\ r.at \in {"resolve", "bind"} => <<r.answer.account, "microsoft">> \in proved[r.u]
  /\ r.at = "bind" /\ Phase(r.u) = "taken" /\ signin[r.u].holder = r.claim => via[r.u] = "microsoft"
  /\ r.answer.kind = "login" => <<r.answer.account, r.answer.method>> \in proved[r.u]
  /\ r.claim # Nil /\ Phase(r.u) = "leaving" /\ signin[r.u].holder = r.claim =>
       fruit[r.u] \ leaked \subseteq IF r.at \in {"undo", "finish"} THEN {r.grant} ELSE {}

Kept(g) == \/ serves[g] # Nil \/ g \in leaked \cup stale
           \/ \E u \in Interactions : asked[u].result.grant = g

\* Of the grant.
AboutGrant(r) ==
  r.grant # Nil =>
    /\ ~r.fresh => serves[r.grant] # Nil
    /\ r.fresh /\ r.at \in {"load", "write"} => saved[r.grant] # Nil
    /\ saved[r.grant] # Nil => saved[r.grant] = r.answer.account
    /\ r.at \in {"finish", "giveback"} /\ saved[r.grant] # Nil => Kept(r.grant)

VisitOK(r) == VisitShape(r) /\ AnswerShape(r) /\ AboutAsked(r) /\ AboutSignIn(r) /\ AboutGrant(r)

AllVisits == \A v \in Visits, r \in Visit : visit[v] = r => VisitOK(r)

\* No two requests hold the same claim, or made the same grant.
Apart == \A v, w \in Visits : v # w =>
  /\ visit[v].claim # Nil => visit[w].claim # visit[v].claim
  /\ visit[v].fresh /\ visit[w].fresh => visit[w].grant # visit[v].grant

\* A sign-in has brought one grant at most, and none when it can be claimed, apart from
\* those whose clean-up failed.
FruitOK(u) ==
  /\ \A g \in fruit[u] : saved[g] # Nil
  /\ \A g, h \in fruit[u] \ leaked : g = h
  /\ Phase(u) = "bound" => fruit[u] \subseteq leaked

Fruits == \A u \in Interactions : FruitOK(u)

FlowInv ==
  /\ Typed /\ SignIns /\ AllAsked /\ AllVisits /\ Apart /\ Fruits
  /\ NoGrantForgotten /\ GrantServesItsOwner

--------------------------------------------------------------------------------
(* What does not change stays true. *)

ReadVars == <<asked, signin, via, browser, saved, serves, proved, fruit, leaked, stale>>

LEMMA Things ==
  /\ Nil \notin Interactions /\ Nil \notin Codes /\ Nil \notin Players /\ Nil \notin Claims
  /\ Nil \notin Methods /\ Nil \notin Grants /\ Nil \notin Transactions
  /\ "online" \in Methods /\ "skin" \in Methods /\ "microsoft" \in Methods
  /\ Grants # {} /\ MaxVisits \in Nat /\ 1 <= MaxVisits /\ MaxMishaps \in Nat
  BY FlowAssumption

LEMMA DrawnOf == ASSUME NEW S, NEW x \in Drawn(S) PROVE x \in S
  BY DEF Drawn

LEMMA NewIsUnknown ==
  /\ \A h \in NewClaims : /\ h \in Claims
                          /\ \A i \in Interactions : signin[i].holder # h
                          /\ \A v \in Visits : visit[v].claim # h
  /\ \A c \in NewCodes : c \in Codes
  /\ \A x \in NewStates : x \in Transactions /\ cookie[x] = Nil /\ \A v \in Visits : visit[v].state # x
  /\ \A g \in NewGrants : /\ g \in Grants /\ saved[g] = Nil /\ serves[g] = Nil
                          /\ \A v \in Visits : visit[v].grant # g
                          /\ \A u \in Interactions : asked[u].grant # g /\ asked[u].result.grant # g
  BY DrawnOf DEF NewClaims, NewCodes, NewStates, NewGrants, Store!Unheld

LEMMA NoVisitOK == NoVisit \in Visit /\ VisitOK(NoVisit) /\ NoVisit.claim = Nil /\ NoVisit.grant = Nil
                   /\ NoVisit.state = Nil /\ ~NoVisit.fresh
  BY Things DEF NoVisit, NoAnswer, Visit, Answer, Places, Pages, VisitOK, VisitShape, AnswerShape,
     AboutAsked, AboutSignIn, AboutGrant, Keeping, Made

LEMMA NoVisitStays == VisitOK(NoVisit)'
  BY Things DEF NoVisit, NoAnswer, VisitOK, VisitShape, AnswerShape,
     AboutAsked, AboutSignIn, AboutGrant, Keeping, Made

LEMMA SameAsked ==
  ASSUME AllAsked, UNCHANGED <<asked, browser, saved, serves>>,
         \A u \in Interactions : proved[u] \subseteq proved'[u]
  PROVE  AllAsked'
  BY DEF AllAsked, AskedOK, Permits

LEMMA SameSignIns ==
  ASSUME SignIns, UNCHANGED <<signin, via>>, \A u \in Interactions : proved[u] \subseteq proved'[u]
  PROVE  SignIns'
  BY DEF SignIns, SignInOK

LEMMA SameFruits ==
  ASSUME Fruits, UNCHANGED <<fruit, leaked, saved, signin>>
  PROVE  Fruits'
  BY DEF Fruits, FruitOK, Phase

LEMMA SameVisit ==
  ASSUME NEW r, VisitOK(r), UNCHANGED ReadVars, UNCHANGED cookie
  PROVE  VisitOK(r)'
  BY DEF ReadVars, VisitOK, VisitShape, AnswerShape, AboutAsked, AboutSignIn, AboutGrant,
         Exists, Permits, Phase, Kept

\* The step leaves alone what the visit, which does not move, goes by.
Spares(r) ==
  /\ r.u # Nil =>
       /\ proved[r.u] \subseteq proved'[r.u]
       /\ asked[r.u].prompt # "none" =>
            /\ asked'[r.u].prompt \in {asked[r.u].prompt, "gone"}
            /\ asked'[r.u].prompt # "gone" => /\ asked'[r.u].acr = asked[r.u].acr
                                              /\ asked'[r.u].account = asked[r.u].account
  /\ r.state # Nil => cookie'[r.state] \in {cookie[r.state], Nil}
  /\ r.u # Nil /\ r.claim # Nil /\ signin'[r.u].holder = r.claim =>
       /\ signin[r.u].holder = r.claim /\ signin'[r.u].phase = signin[r.u].phase
       /\ via'[r.u] = via[r.u] /\ fruit'[r.u] \ leaked' \subseteq fruit[r.u] \ leaked
  /\ r.grant # Nil =>
       /\ serves[r.grant] # Nil => serves'[r.grant] # Nil
       /\ saved'[r.grant] # Nil => saved'[r.grant] = saved[r.grant] /\ (Kept(r.grant) => Kept(r.grant)')
       /\ r.fresh => saved'[r.grant] = saved[r.grant]

LEMMA Spared ==
  ASSUME NEW r \in Visit, VisitOK(r), Spares(r)
  PROVE  VisitOK(r)'
  <1>1. VisitShape(r)' /\ AnswerShape(r)' BY DEF VisitOK, VisitShape, AnswerShape
  <1>2. AboutAsked(r)' BY DEF VisitOK, AboutAsked, Spares, Exists, Permits
  <1>3. AboutSignIn(r)'
    <2>. USE DEF VisitOK, AboutSignIn, Spares, VisitShape, AnswerShape, Phase
    <2>1. (r.kind = "callback" /\ r.u # Nil => cookie[r.state] \in {r.u, Nil})' OBVIOUS
    <2>2. (r.at \in {"resolve", "bind"} => <<r.answer.account, "microsoft">> \in proved[r.u])'
      OBVIOUS
    <2>3. (r.at = "bind" /\ Phase(r.u) = "taken" /\ signin[r.u].holder = r.claim
             => via[r.u] = "microsoft")' OBVIOUS
    <2>4. (r.answer.kind = "login" => <<r.answer.account, r.answer.method>> \in proved[r.u])'
      BY DEF Keeping
    <2>5. (r.claim # Nil /\ Phase(r.u) = "leaving" /\ signin[r.u].holder = r.claim =>
       fruit[r.u] \ leaked \subseteq IF r.at \in {"undo", "finish"} THEN {r.grant} ELSE {})'
      BY DEF Keeping
    <2>. QED BY <2>1, <2>2, <2>3, <2>4, <2>5
  <1>4. AboutGrant(r)' BY DEF VisitOK, AboutGrant, Spares
  <1>. QED BY <1>1, <1>2, <1>3, <1>4 DEF VisitOK

\* What is remembered of the grants when one visit, or none, goes on to q.
Remembers(g, old, new) ==
  saved'[g] # Nil =>
    \/ new = g
    \/ saved[g] # Nil /\ (Kept(g) => Kept(g)') /\ (old = g => Kept(g)')

LEMMA Moved ==
  ASSUME FlowInv, Typed', SignIns', AllAsked', Fruits', GrantServesItsOwner',
         NEW v \in Visits, NEW q \in Visit, Does(v, q), VisitOK(q)',
         \A w \in Visits, r \in Visit : w # v /\ visit[w] = r => Spares(r),
         q.claim \in {Nil, visit[v].claim} \cup NewClaims,
         q.fresh => (visit[v].fresh /\ q.grant = visit[v].grant) \/ q.grant \in NewGrants,
         \A g \in Grants : Remembers(g, visit[v].grant, q.grant)
  PROVE  FlowInv'
  <1>1. visit \in [Visits -> Visit] /\ visit' = [visit EXCEPT ![v] = q]
    BY DEF FlowInv, Typed, FlowTypeOK, Does
  <1>2. AllVisits'
    <2>. SUFFICES ASSUME NEW w \in Visits, NEW r \in Visit, visit'[w] = r PROVE VisitOK(r)'
      BY DEF AllVisits
    <2>1. CASE w = v BY <1>1, <2>1
    <2>2. CASE w # v
      <3>1. visit[w] = r BY <1>1, <2>2
      <3>2. VisitOK(r) /\ Spares(r) BY <2>2, <3>1 DEF FlowInv, AllVisits
      <3>. QED BY <3>2, Spared
    <2>. QED BY <2>1, <2>2
  <1>3. Apart'
    <2>1. ASSUME NEW w \in Visits, w # v
          PROVE  /\ q.claim # Nil => visit[w].claim # q.claim
                 /\ q.fresh /\ visit[w].fresh => visit[w].grant # q.grant
      BY <2>1, NewIsUnknown DEF FlowInv, Apart
    <2>. QED BY <1>1, <2>1 DEF Apart, FlowInv
  <1>4. NoGrantForgotten'
    <2>. SUFFICES ASSUME NEW g \in Grants, saved'[g] # Nil
                  PROVE  Kept(g)' \/ \E w \in Visits : visit'[w].grant = g
      BY DEF NoGrantForgotten, Kept
    <2>1. CASE q.grant = g BY <1>1, <2>1
    <2>2. CASE q.grant # g
      <3>1. saved[g] # Nil /\ (Kept(g) => Kept(g)') /\ (visit[v].grant = g => Kept(g)')
        BY <2>2 DEF Remembers
      <3>2. Kept(g) \/ \E w \in Visits : visit[w].grant = g
        BY <3>1 DEF FlowInv, NoGrantForgotten, Kept
      <3>. QED BY <1>1, <3>1, <3>2
    <2>. QED BY <2>1, <2>2
  <1>. QED BY <1>2, <1>3, <1>4 DEF FlowInv

LEMMA NoneMoved ==
  ASSUME FlowInv, Typed', SignIns', AllAsked', Fruits', GrantServesItsOwner', UNCHANGED visit,
         \A w \in Visits, r \in Visit : visit[w] = r => Spares(r),
         \A g \in Grants : Remembers(g, Nil, Nil)
  PROVE  FlowInv'
  <1>1. visit \in [Visits -> Visit] BY DEF FlowInv, Typed, FlowTypeOK
  <1>2. AllVisits'
    <2>. SUFFICES ASSUME NEW w \in Visits, NEW r \in Visit, visit'[w] = r PROVE VisitOK(r)'
      BY DEF AllVisits
    <2>1. VisitOK(r) /\ Spares(r) BY DEF FlowInv, AllVisits
    <2>. QED BY <2>1, Spared
  <1>3. Apart' BY DEF Apart, FlowInv
  <1>4. NoGrantForgotten'
    <2>. SUFFICES ASSUME NEW g \in Grants, saved'[g] # Nil
                  PROVE  Kept(g)' \/ \E w \in Visits : visit'[w].grant = g
      BY DEF NoGrantForgotten, Kept
    <2>1. saved[g] # Nil /\ (Kept(g) => Kept(g)') BY Things DEF Remembers
    <2>2. Kept(g) \/ \E w \in Visits : visit[w].grant = g
      BY <2>1 DEF FlowInv, NoGrantForgotten, Kept
    <2>. QED BY <2>1, <2>2
  <1>. QED BY <1>2, <1>3, <1>4 DEF FlowInv

\* A step of a visit that reads only.
CookiesOf(v) == \A x \in Transactions : \/ cookie'[x] \in {cookie[x], Nil}
                                        \/ \A w \in Visits : w # v => visit[w].state # x

LEMMA OnlyRead ==
  ASSUME FlowInv, UNCHANGED ReadVars, Typed', NEW v \in Visits, CookiesOf(v),
         NEW q \in Visit, Does(v, q), VisitOK(q)',
         q.claim \in {Nil, visit[v].claim},
         q.fresh => visit[v].fresh /\ q.grant = visit[v].grant,
         visit[v].grant \in {Nil, q.grant} \/ (saved[visit[v].grant] # Nil => Kept(visit[v].grant))
  PROVE  FlowInv'
  <1>. USE DEF ReadVars
  <1>1. SignIns' /\ AllAsked' /\ Fruits' /\ GrantServesItsOwner'
    BY SameSignIns, SameAsked, SameFruits DEF FlowInv, GrantServesItsOwner
  <1>2. ASSUME NEW g PROVE Kept(g) => Kept(g)' BY DEF Kept
  <1>3. ASSUME NEW w \in Visits, NEW r \in Visit, w # v, visit[w] = r PROVE Spares(r)
    <2>1. r.state \in Transactions \cup {Nil} BY DEF Visit
    <2>. QED BY <1>2, <1>3, <2>1 DEF Spares, CookiesOf
  <1>4. ASSUME NEW g \in Grants PROVE Remembers(g, visit[v].grant, q.grant)
    BY <1>2, Things DEF Remembers
  <1>. QED BY <1>1, <1>3, <1>4, Moved

--------------------------------------------------------------------------------
(* The steps of a request that only read. *)

Counted ==
  /\ visits' \in 0..MaxVisits /\ mishaps' \in 0..MaxMishaps
  /\ about' = about /\ challenged' \subseteq Interactions

LEMMA NoMishapCounts ==
  ASSUME Typed, NoMishap, UNCHANGED <<about, challenged>> PROVE Counted
  BY DEF Typed, FlowTypeOK, NoMishap, Counted

LEMMA MishapCounts ==
  ASSUME Typed, Mishap, UNCHANGED <<about, challenged, visits>> PROVE Counted
  BY Things DEF Typed, FlowTypeOK, Mishap, Counted

LEMMA ReadTyped ==
  ASSUME Typed, UNCHANGED ReadVars, Counted, cookie' \in [Transactions -> Interactions \cup {Nil}],
         NEW v \in Visits, NEW q \in Visit, Does(v, q)
  PROVE  Typed'
  BY DEF ReadVars, Counted, Typed, FlowTypeOK, Does

LEMMA ReplyCookies ==
  ASSUME Typed, NEW v \in Visits, Replies(v)
  PROVE  cookie' \in [Transactions -> Interactions \cup {Nil}] /\ CookiesOf(v)
  BY DEF Typed, FlowTypeOK, Replies, CookiesOf

LEMMA SameCookies ==
  ASSUME Typed, UNCHANGED cookie, NEW v
  PROVE  cookie' \in [Transactions -> Interactions \cup {Nil}] /\ CookiesOf(v)
  BY DEF Typed, FlowTypeOK, CookiesOf

LEMMA ReplyKeeps ==
  ASSUME FlowInv, UNCHANGED ReadVars, Counted, NEW v \in Visits, Replies(v),
         visit[v].grant = Nil \/ (saved[visit[v].grant] # Nil => Kept(visit[v].grant))
  PROVE  FlowInv'
  <1>1. Does(v, NoVisit) /\ CookiesOf(v) /\ cookie' \in [Transactions -> Interactions \cup {Nil}]
    BY ReplyCookies DEF Replies, FlowInv
  <1>2. Typed' BY <1>1, NoVisitOK, ReadTyped DEF FlowInv
  <1>. QED BY <1>1, <1>2, NoVisitOK, NoVisitStays, OnlyRead

LEMMA GoKeeps ==
  ASSUME FlowInv, UNCHANGED ReadVars, Counted, UNCHANGED cookie, NEW v \in Visits,
         NEW q \in Visit, Does(v, q), VisitOK(q), q.claim \in {Nil, visit[v].claim},
         q.fresh => visit[v].fresh /\ q.grant = visit[v].grant,
         visit[v].grant \in {Nil, q.grant}
  PROVE  FlowInv'
  <1>1. CookiesOf(v) /\ cookie' \in [Transactions -> Interactions \cup {Nil}]
    BY SameCookies DEF FlowInv
  <1>2. Typed' BY <1>1, ReadTyped DEF FlowInv
  <1>3. VisitOK(q)' BY SameVisit
  <1>. QED BY <1>1, <1>2, <1>3, OnlyRead

LEMMA VisitFacts ==
  ASSUME FlowInv, NEW v \in Visits
  PROVE  visit[v] \in Visit /\ VisitOK(visit[v])
  BY DEF FlowInv, Typed, FlowTypeOK, AllVisits

LEMMA StartKeeps ==
  ASSUME FlowInv, NEW v \in Visits, StartVisit(v), UNCHANGED about
  PROVE  FlowInv'
  <1>1. visit[v].grant = Nil BY VisitFacts DEF StartVisit, Here, VisitOK, VisitShape, Made
  <1>2. UNCHANGED ReadVars /\ UNCHANGED cookie
    BY DEF StartVisit, storeVars, requestVars, ReadVars
  <1>3. Counted
    <2>1. visits' = visits + 1 /\ visits < MaxVisits /\ UNCHANGED <<challenged, mishaps>>
      BY DEF StartVisit, storeVars
    <2>2. visits \in 0..MaxVisits /\ mishaps \in 0..MaxMishaps /\ challenged \subseteq Interactions
      BY DEF FlowInv, Typed, FlowTypeOK
    <2>3. visits' \in 0..MaxVisits BY <2>1, <2>2, Things
    <2>. QED BY <2>1, <2>2, <2>3 DEF Counted
  <1>4. ASSUME NEW kind \in PagesOf(about), NEW u \in Interactions, asked[u].prompt # "none",
               Does(v, [NoVisit EXCEPT !.at = "inspect", !.kind = kind, !.u = u])
        PROVE  FlowInv'
    <2>1. PICK q \in Visit : q = [NoVisit EXCEPT !.at = "inspect", !.kind = kind, !.u = u]
      BY <1>4, NoVisitOK DEF Visit, NoVisit, PagesOf, Pages, Places
    <2>2. kind # "callback" /\ u # Nil BY <1>4, Things DEF PagesOf, Pages
    <2>3. VisitOK(q)
      BY <1>4, <2>1, <2>2, Things DEF NoVisit, NoAnswer, VisitOK, VisitShape, AnswerShape,
         AboutAsked, AboutSignIn, AboutGrant, Keeping, Made
    <2>. QED BY <1>1, <1>2, <1>3, <1>4, <2>1, <2>3, GoKeeps DEF NoVisit
  <1>5. ASSUME NEW x \in Transactions,
               Does(v, [NoVisit EXCEPT !.at = "find", !.kind = "callback", !.state = x])
        PROVE  FlowInv'
    <2>1. PICK q \in Visit : q = [NoVisit EXCEPT !.at = "find", !.kind = "callback", !.state = x]
      BY <1>5, NoVisitOK DEF Visit, NoVisit, Places
    <2>2. VisitOK(q)
      BY <1>5, <2>1, Things DEF NoVisit, NoAnswer, VisitOK, VisitShape, AnswerShape,
         AboutAsked, AboutSignIn, AboutGrant, Keeping, Made
    <2>. QED BY <1>1, <1>2, <1>3, <1>5, <2>1, <2>2, GoKeeps DEF NoVisit
  <1>. QED BY <1>4, <1>5 DEF StartVisit

LEMMA InspectKeeps ==
  ASSUME FlowInv, NEW v \in Visits, Inspect(v), UNCHANGED about
  PROVE  FlowInv'
  <1>1. PICK r \in Visit : r = visit[v] BY VisitFacts
  <1>2. r.at = "inspect" /\ VisitOK(r) BY <1>1, VisitFacts DEF Inspect, Here
  <1>3. r.u # Nil /\ r.grant = Nil /\ r.claim = Nil /\ ~r.fresh /\ r.answer = NoAnswer
    BY <1>2 DEF VisitOK, VisitShape, AnswerShape, Made, Keeping
  <1>4. UNCHANGED ReadVars /\ Counted
    BY NoMishapCounts DEF Inspect, storeVars, requestVars, ReadVars, FlowInv
  <1>. DEFINE next == IF Found(r.u) THEN After(r.kind, asked[r.u].prompt, Permits(r.u, r.kind)) ELSE "idle"
  <1>5. CASE next = "idle"
    <2>1. Replies(v) BY <1>1, <1>5 DEF Inspect
    <2>. QED BY <1>1, <1>3, <1>4, <2>1, ReplyKeeps
  <1>6. CASE next # "idle"
    <2>1. /\ next \in {"load", "claim", "details", "switch", "status", "discard", "allocate"}
          /\ next = "load" <=> r.kind = "abort"
          /\ next = "claim" => asked[r.u].prompt = "login"
      BY <1>6 DEF After
    <2>2. /\ Does(v, [r EXCEPT !.at = next, !.answer.kind = IF r.kind = "abort" THEN "denied" ELSE "none"])
          /\ UNCHANGED cookie
      BY <1>1, <1>6 DEF Inspect
    <2>. HIDE DEF next
    <2>3. PICK q \in Visit :
            q = [r EXCEPT !.at = next, !.answer.kind = IF r.kind = "abort" THEN "denied" ELSE "none"]
      <3>. DEFINE kind == IF r.kind = "abort" THEN "denied" ELSE "none"
      <3>1. kind \in {"none", "denied", "login", "consent"} OBVIOUS
      <3>. HIDE DEF kind
      <3>2. [r.answer EXCEPT !.kind = kind] \in Answer BY <3>1 DEF Visit, Answer
      <3>3. [r EXCEPT !.at = next, !.answer = [r.answer EXCEPT !.kind = kind]] \in Visit
        BY <2>1, <3>2 DEF Visit, Places
      <3>. QED BY <3>3 DEF kind
    <2>4. /\ q.at = next /\ q.u = r.u /\ q.kind = r.kind /\ q.state = r.state /\ q.claim = Nil
          /\ q.grant = Nil /\ ~q.fresh
          /\ q.answer.account = Nil /\ q.answer.method = Nil /\ q.answer.grant = Nil
          /\ q.answer.kind = IF r.kind = "abort" THEN "denied" ELSE "none"
          /\ next # "load" => q.answer = NoAnswer
      BY <1>3, <2>1, <2>3 DEF Visit, NoAnswer
    <2>5. VisitShape(q) BY <1>2, <1>3, <2>1, <2>4 DEF VisitOK, VisitShape, Keeping, Made
    <2>6. AnswerShape(q) BY <2>1, <2>4, Things DEF AnswerShape, Keeping, Made
    <2>7. AboutAsked(q) BY <1>2, <2>1, <2>4 DEF VisitOK, AboutAsked
    <2>8. AboutSignIn(q) /\ AboutGrant(q)
      BY <1>2, <2>1, <2>4 DEF VisitOK, AboutSignIn, AboutGrant
    <2>9. VisitOK(q) BY <2>5, <2>6, <2>7, <2>8 DEF VisitOK
    <2>. QED BY <1>1, <1>3, <1>4, <2>2, <2>3, <2>4, <2>9, GoKeeps
  <1>. QED BY <1>5, <1>6

LEMMA GoesKeeps ==
  ASSUME FlowInv, UNCHANGED ReadVars, Counted, UNCHANGED cookie, NEW v \in Visits,
         NEW place \in Places, Goes(v, place), VisitOK([visit[v] EXCEPT !.at = place])
  PROVE  FlowInv'
  <1>1. PICK q \in Visit : q = [visit[v] EXCEPT !.at = place] BY VisitFacts DEF Visit
  <1>2. Does(v, q) /\ VisitOK(q) BY <1>1 DEF Goes
  <1>3. q.claim = visit[v].claim /\ q.fresh = visit[v].fresh /\ q.grant = visit[v].grant
    BY <1>1, VisitFacts DEF Visit
  <1>. QED BY <1>2, <1>3, GoKeeps

\* Another place on the way, of which nothing more is known.
LEMMA EarlierPlaces ==
  ASSUME NEW r \in Visit, VisitOK(r), NEW place \in {"allocate", "reset", "exchange"},
         r.at \in {"status", "discard", "allocate"},
         place = "exchange" <=> r.kind = "callback"
  PROVE  VisitOK([r EXCEPT !.at = place])
  <1>1. PICK q \in Visit : q = [r EXCEPT !.at = place] BY DEF Visit, Places
  <1>2. /\ q.at = place /\ q.u = r.u /\ q.kind = r.kind /\ q.state = r.state /\ q.claim = r.claim
        /\ q.grant = r.grant /\ q.fresh = r.fresh /\ q.answer = r.answer
    BY <1>1 DEF Visit
  <1>3. VisitShape(q) BY <1>2 DEF VisitOK, VisitShape, Keeping, Made
  <1>4. AnswerShape(q) BY <1>2, Things DEF VisitOK, AnswerShape, Keeping, Made, NoAnswer
  <1>5. AboutAsked(q) BY <1>2 DEF VisitOK, AboutAsked
  <1>6. AboutSignIn(q) /\ AboutGrant(q) BY <1>2 DEF VisitOK, AboutSignIn, AboutGrant
  <1>. QED BY <1>1, <1>3, <1>4, <1>5, <1>6 DEF VisitOK

LEMMA StatusKeeps ==
  ASSUME FlowInv, NEW v \in Visits, Status(v), UNCHANGED about
  PROVE  FlowInv'
  <1>1. PICK r \in Visit : r = visit[v] BY VisitFacts
  <1>2. r.at = "status" /\ VisitOK(r) BY <1>1, VisitFacts DEF Status, Here
  <1>3. r.grant = Nil /\ UNCHANGED ReadVars /\ Counted
    BY <1>2, NoMishapCounts DEF VisitOK, VisitShape, Made, Status, storeVars, requestVars, ReadVars, FlowInv
  <1>4. CASE Replies(v) BY <1>1, <1>3, <1>4, ReplyKeeps
  <1>5. CASE Goes(v, "allocate") /\ UNCHANGED cookie
    <2>1. VisitOK([r EXCEPT !.at = "allocate"])
      <3>1. r.kind # "callback" BY <1>2 DEF VisitOK, VisitShape, AboutSignIn
      <3>. QED BY <1>2, <3>1, EarlierPlaces
    <2>. QED BY <1>1, <1>3, <1>5, <2>1, GoesKeeps DEF Places
  <1>. QED BY <1>4, <1>5 DEF Status

LEMMA FindKeeps ==
  ASSUME FlowInv, NEW v \in Visits, Find(v), UNCHANGED about
  PROVE  FlowInv'
  <1>1. PICK r \in Visit : r = visit[v] BY VisitFacts
  <1>2. r.at = "find" /\ VisitOK(r) BY <1>1, VisitFacts DEF Find, Here
  <1>3. /\ r.grant = Nil /\ r.claim = Nil /\ ~r.fresh /\ r.answer = NoAnswer
        /\ r.kind = "callback" /\ r.state \in Transactions
    BY <1>2 DEF VisitOK, VisitShape, AnswerShape, Made, Keeping, Visit
  <1>4. UNCHANGED ReadVars /\ Counted
    BY NoMishapCounts DEF Find, storeVars, requestVars, ReadVars, FlowInv
  <1>5. CASE Replies(v) BY <1>1, <1>3, <1>4, <1>5, ReplyKeeps
  <1>6. CASE ~Replies(v)
    <2>1. PICK u : u = cookie[r.state] OBVIOUS
    <2>2. u \in Interactions /\ u # Nil BY <1>1, <1>3, <1>6, <2>1, Things
      DEF Find, TransactionOf, FlowInv, Typed, FlowTypeOK
    <2>3. Exists(u) /\ Does(v, [r EXCEPT !.at = "allocate", !.u = u]) /\ UNCHANGED cookie
      BY <1>1, <1>6, <2>1 DEF Find, TransactionOf
    <2>4. PICK q \in Visit : q = [r EXCEPT !.at = "allocate", !.u = u]
      BY <2>2 DEF Visit, Places
    <2>5. /\ q.at = "allocate" /\ q.u = u /\ q.kind = "callback" /\ q.state = r.state /\ q.claim = Nil
          /\ q.grant = Nil /\ ~q.fresh /\ q.answer = NoAnswer
      BY <1>3, <2>4 DEF Visit
    <2>6. VisitShape(q) /\ AnswerShape(q)
      BY <1>3, <2>2, <2>5, Things DEF VisitShape, AnswerShape, Keeping, Made, NoAnswer
    <2>7. AboutAsked(q) BY <2>3, <2>5 DEF AboutAsked, Exists, NoAnswer
    <2>8. AboutSignIn(q) /\ AboutGrant(q)
      BY <2>1, <2>5 DEF AboutSignIn, AboutGrant, NoAnswer
    <2>9. VisitOK(q) BY <2>6, <2>7, <2>8 DEF VisitOK
    <2>. QED BY <1>1, <1>3, <1>4, <2>3, <2>4, <2>5, <2>9, GoKeeps
  <1>. QED BY <1>5, <1>6

LEMMA DetailsKeeps ==
  ASSUME FlowInv, NEW v \in Visits, Details(v), UNCHANGED about
  PROVE  FlowInv'
  <1>1. PICK r \in Visit : r = visit[v] BY VisitFacts
  <1>2. r.at = "details" /\ VisitOK(r) BY <1>1, VisitFacts DEF Details, Here
  <1>3. r.grant = Nil /\ ~r.fresh /\ r.u \in Interactions /\ r.kind # "callback"
    BY <1>2 DEF VisitOK, VisitShape, Made, Visit
  <1>4. UNCHANGED ReadVars /\ Counted
    BY NoMishapCounts DEF Details, storeVars, requestVars, ReadVars, FlowInv
  <1>5. AskedOK(r.u) /\ asked[r.u] \in Interaction
    BY <1>3 DEF FlowInv, AllAsked, Typed, FlowTypeOK
  <1>6. CASE Replies(v) BY <1>1, <1>3, <1>4, <1>6, ReplyKeeps
  <1>7. CASE r.claim # Nil /\ Goes(v, "giveback") /\ UNCHANGED cookie
    <2>1. VisitOK([r EXCEPT !.at = "giveback"])
      <3>1. PICK q \in Visit : q = [r EXCEPT !.at = "giveback"] BY DEF Visit, Places
      <3>2. /\ q.at = "giveback" /\ q.u = r.u /\ q.kind = r.kind /\ q.state = r.state
            /\ q.claim = r.claim /\ q.grant = r.grant /\ q.fresh = r.fresh /\ q.answer = r.answer
        BY <3>1 DEF Visit
      <3>3. VisitShape(q) BY <1>2, <1>7, <3>2 DEF VisitOK, VisitShape, Keeping, Made
      <3>4. AnswerShape(q) BY <1>2, <1>3, <3>2 DEF VisitOK, AnswerShape, Keeping, Made
      <3>5. AboutAsked(q) BY <1>2, <3>2 DEF VisitOK, AboutAsked
      <3>6. AboutSignIn(q) /\ AboutGrant(q)
        BY <1>2, <1>3, <3>2 DEF VisitOK, AboutSignIn, AboutGrant
      <3>. QED BY <3>1, <3>3, <3>4, <3>5, <3>6 DEF VisitOK
    <2>. QED BY <1>1, <1>4, <1>7, <2>1, GoesKeeps DEF Places
  <1>8. CASE /\ Found(r.u) /\ asked[r.u].prompt = "login" /\ Permits(r.u, r.answer.method)
             /\ Goes(v, "grant") /\ UNCHANGED cookie
    <2>1. r.answer.kind = "login" /\ r.claim # Nil
      <3>1. r.answer.method # Nil
        BY <1>5, <1>8, Things DEF Permits, Interaction
      <3>. QED BY <1>2, <3>1 DEF VisitOK, AnswerShape, Keeping
    <2>2. VisitOK([r EXCEPT !.at = "grant"])
      <3>1. PICK q \in Visit : q = [r EXCEPT !.at = "grant"] BY DEF Visit, Places
      <3>2. /\ q.at = "grant" /\ q.u = r.u /\ q.kind = r.kind /\ q.state = r.state
            /\ q.claim = r.claim /\ q.grant = r.grant /\ q.fresh = r.fresh /\ q.answer = r.answer
        BY <3>1 DEF Visit
      <3>3. VisitShape(q) BY <1>2, <1>3, <2>1, <3>2 DEF VisitOK, VisitShape, Keeping, Made
      <3>4. AnswerShape(q) BY <1>2, <1>3, <2>1, <3>2 DEF VisitOK, AnswerShape, Keeping, Made
      <3>5. AboutAsked(q) BY <1>2, <1>8, <2>1, <3>2 DEF VisitOK, AboutAsked
      <3>6. AboutSignIn(q) /\ AboutGrant(q)
        BY <1>2, <1>3, <3>2 DEF VisitOK, AboutSignIn, AboutGrant
      <3>. QED BY <3>1, <3>3, <3>4, <3>5, <3>6 DEF VisitOK
    <2>. QED BY <1>1, <1>4, <1>8, <2>2, GoesKeeps DEF Places
  <1>9. CASE /\ Found(r.u) /\ asked[r.u].prompt = "consent" /\ UNCHANGED cookie
             /\ Does(v, [r EXCEPT !.at = "grant", !.grant = asked[r.u].grant,
                  !.answer = [NoAnswer EXCEPT !.kind = "consent", !.account = asked[r.u].account]])
    <2>1. r.claim = Nil
      BY <1>2, <1>3, <1>9, Things DEF VisitOK, AnswerShape, Keeping, AboutAsked
    <2>2. PICK a \in Answer : a = [NoAnswer EXCEPT !.kind = "consent", !.account = asked[r.u].account]
      BY <1>5 DEF Answer, NoAnswer, Interaction
    <2>3. a.kind = "consent" /\ a.account = asked[r.u].account /\ a.account # Nil /\ a.method = Nil
          /\ a.grant = Nil
      BY <1>5, <1>9, <2>2 DEF NoAnswer, AskedOK
    <2>4. PICK q \in Visit : q = [r EXCEPT !.at = "grant", !.grant = asked[r.u].grant, !.answer = a]
      BY <1>5, <2>2 DEF Visit, Places, Interaction
    <2>5. /\ q.at = "grant" /\ q.u = r.u /\ q.kind = r.kind /\ q.state = r.state
          /\ q.claim = Nil /\ q.grant = asked[r.u].grant /\ ~q.fresh /\ q.answer = a
      BY <1>3, <2>1, <2>4 DEF Visit
    <2>6. VisitShape(q) BY <1>2, <1>3, <2>5, Things DEF VisitOK, VisitShape, Keeping, Made
    <2>7. AnswerShape(q) BY <2>3, <2>5 DEF AnswerShape, Keeping, Made
    <2>8. AboutAsked(q) BY <1>2, <2>3, <2>5 DEF VisitOK, AboutAsked
    <2>9. AboutSignIn(q) BY <1>3, <2>3, <2>5 DEF AboutSignIn
    <2>10. AboutGrant(q) BY <1>5, <2>3, <2>5 DEF AskedOK, AboutGrant
    <2>11. VisitOK(q) BY <2>6, <2>7, <2>8, <2>9, <2>10 DEF VisitOK
    <2>. QED BY <1>1, <1>3, <1>4, <1>9, <2>2, <2>4, <2>5, <2>11, GoKeeps
  <1>. QED BY <1>1, <1>6, <1>7, <1>8, <1>9 DEF Details, Found, Exists

LEMMA LoadKeeps ==
  ASSUME FlowInv, NEW v \in Visits, Load(v), UNCHANGED about
  PROVE  FlowInv'
  <1>1. PICK r \in Visit : r = visit[v] BY VisitFacts
  <1>2. r.at = "load" /\ VisitOK(r) BY <1>1, VisitFacts DEF Load, Here
  <1>3. r.u \in Interactions /\ r.kind # "callback"
    BY <1>2 DEF VisitOK, VisitShape, Made, Visit
  <1>4. UNCHANGED ReadVars /\ Counted
    BY NoMishapCounts DEF Load, storeVars, requestVars, ReadVars, FlowInv
  <1>5. CASE r.kind = "abort" /\ Replies(v)
    <2>1. r.grant = Nil BY <1>2, <1>5 DEF VisitOK, AnswerShape
    <2>. QED BY <1>1, <1>4, <1>5, <2>1, ReplyKeeps
  <1>6. ASSUME NEW place \in {"write", "undo"}, Goes(v, place), UNCHANGED cookie,
               place = "undo" => r.kind # "abort"
        PROVE  FlowInv'
    <2>1. VisitOK([r EXCEPT !.at = place])
      <3>1. PICK q \in Visit : q = [r EXCEPT !.at = place] BY DEF Visit, Places
      <3>2. /\ q.at = place /\ q.u = r.u /\ q.kind = r.kind /\ q.state = r.state
            /\ q.claim = r.claim /\ q.grant = r.grant /\ q.fresh = r.fresh /\ q.answer = r.answer
        BY <3>1 DEF Visit
      <3>3. VisitShape(q) BY <1>2, <1>6, <3>2 DEF VisitOK, VisitShape, Keeping, Made
      <3>4. AnswerShape(q) BY <1>2, <1>6, <3>2 DEF VisitOK, AnswerShape, Keeping, Made
      <3>5. AboutAsked(q) BY <1>2, <1>6, <3>2 DEF VisitOK, AboutAsked
      <3>6. AboutSignIn(q) /\ AboutGrant(q)
        BY <1>2, <1>6, <3>2 DEF VisitOK, AboutSignIn, AboutGrant
      <3>. QED BY <3>1, <3>3, <3>4, <3>5, <3>6 DEF VisitOK
    <2>. QED BY <1>1, <1>4, <1>6, <2>1, GoesKeeps DEF Places
  <1>. QED BY <1>1, <1>5, <1>6 DEF Load

LEMMA DiscardKeeps ==
  ASSUME FlowInv, NEW v \in Visits, Discard(v), UNCHANGED about
  PROVE  FlowInv'
  <1>1. PICK r \in Visit : r = visit[v] BY VisitFacts
  <1>2. r.at = "discard" /\ VisitOK(r) BY <1>1, VisitFacts DEF Discard, Here
  <1>3. UNCHANGED ReadVars /\ Counted /\ UNCHANGED cookie /\ Goes(v, "reset")
    BY DEF Discard, requestVars, ReadVars, FlowInv, Counted, Typed, FlowTypeOK, NoMishap
  <1>4. VisitOK([r EXCEPT !.at = "reset"])
    <2>1. r.kind # "callback" BY <1>2 DEF VisitOK, VisitShape
    <2>. QED BY <1>2, <2>1, EarlierPlaces
  <1>. QED BY <1>1, <1>3, <1>4, GoesKeeps DEF Places

--------------------------------------------------------------------------------
(* The steps of a request that change the sign-in. *)

\* The sign-in of u becomes s, by method m.
StoreStep(u, s, m) ==
  /\ s \in SignInRecord /\ m \in Methods \cup {Nil}
  /\ signin' = [signin EXCEPT ![u] = s] /\ via' = [via EXCEPT ![u] = m]
  /\ UNCHANGED <<asked, browser, saved, serves, leaked, stale>>
  /\ fruit' = fruit \/ fruit' = [fruit EXCEPT ![u] = {}]
  /\ proved' \in [Interactions -> SUBSET (Players \X Methods)]
  /\ \A i \in Interactions : proved[i] \subseteq proved'[i]
  /\ s.holder \in {Nil} \cup NewClaims
  /\ s.phase \in {"taken", "leaving"} <=> s.holder # Nil
  /\ s.phase \in {"taken", "bound", "leaving"} => m \in Methods
  /\ s.phase \in {"bound", "leaving"} => s.player # Nil /\ <<s.player, m>> \in proved'[u]
  /\ s.phase = "bound" => fruit'[u] \subseteq leaked

LEMMA StoreParts ==
  ASSUME FlowInv, NEW u \in Interactions, NEW s, NEW m, StoreStep(u, s, m)
  PROVE  /\ SignIns' /\ AllAsked' /\ Fruits' /\ GrantServesItsOwner'
         /\ \A g : Kept(g) => Kept(g)'
         /\ \A w \in Visits, r \in Visit :
              /\ visit[w] = r
              /\ r.state # Nil => cookie'[r.state] \in {cookie[r.state], Nil}
              => Spares(r)
  <1>1. /\ signin \in [Interactions -> SignInRecord] /\ via \in [Interactions -> Methods \cup {Nil}]
        /\ fruit \in [Interactions -> SUBSET Grants]
    BY DEF FlowInv, Typed, FlowTypeOK
  <1>2. SignIns'
    <2>. SUFFICES ASSUME NEW i \in Interactions PROVE SignInOK(i)' BY DEF SignIns
    <2>1. CASE i = u BY <1>1, <2>1 DEF StoreStep, SignInOK
    <2>2. CASE i # u BY <1>1, <2>2 DEF StoreStep, SignInOK, FlowInv, SignIns
    <2>. QED BY <2>1, <2>2
  <1>3. AllAsked' BY SameAsked DEF StoreStep, FlowInv
  <1>4. Fruits'
    <2>. SUFFICES ASSUME NEW i \in Interactions PROVE FruitOK(i)' BY DEF Fruits
    <2>1. fruit'[i] \subseteq fruit[i] /\ FruitOK(i) /\ UNCHANGED <<leaked, saved>>
      BY <1>1 DEF StoreStep, FlowInv, Fruits
    <2>2. Phase(i)' = "bound" => fruit'[i] \subseteq leaked
      BY <1>1, <2>1 DEF StoreStep, Phase, FruitOK
    <2>. QED BY <2>1, <2>2 DEF FruitOK
  <1>5. GrantServesItsOwner' BY DEF StoreStep, FlowInv, GrantServesItsOwner
  <1>6. ASSUME NEW g PROVE Kept(g) => Kept(g)' BY DEF Kept, StoreStep
  <1>7. ASSUME NEW w \in Visits, NEW r \in Visit, visit[w] = r,
               r.state # Nil => cookie'[r.state] \in {cookie[r.state], Nil}
        PROVE  Spares(r)
    <2>1. r.u \in Interactions \cup {Nil} BY DEF Visit
    <2>2. ASSUME r.u # Nil, r.claim # Nil, signin'[r.u].holder = r.claim
          PROVE  r.u # u
      BY <1>1, <1>7, <2>1, <2>2, NewIsUnknown DEF StoreStep
    <2>3. ASSUME r.u # Nil, r.u # u
          PROVE  signin'[r.u] = signin[r.u] /\ via'[r.u] = via[r.u] /\ fruit'[r.u] = fruit[r.u]
      BY <1>1, <2>1, <2>3 DEF StoreStep
    <2>4. r.u # Nil => proved[r.u] \subseteq proved'[r.u] BY <2>1 DEF StoreStep
    <2>5. UNCHANGED <<asked, saved, serves, leaked>> BY DEF StoreStep
    <2>. QED BY <1>6, <1>7, <2>2, <2>3, <2>4, <2>5 DEF Spares
  <1>. QED BY <1>2, <1>3, <1>4, <1>5, <1>6, <1>7

LEMMA StoreTyped ==
  ASSUME FlowInv, NEW u \in Interactions, NEW s, NEW m, StoreStep(u, s, m), Counted,
         cookie' \in [Transactions -> Interactions \cup {Nil}], visit' \in [Visits -> Visit]
  PROVE  Typed'
  <1>1. Typed BY DEF FlowInv
  <1>2. /\ signin' \in [Interactions -> SignInRecord] /\ via' \in [Interactions -> Methods \cup {Nil}]
        /\ fruit' \in [Interactions -> SUBSET Grants]
    BY <1>1 DEF StoreStep, Typed, FlowTypeOK
  <1>. QED BY <1>1, <1>2 DEF Typed, FlowTypeOK, StoreStep, Counted

LEMMA StoreMoved ==
  ASSUME FlowInv, NEW u \in Interactions, NEW s, NEW m, StoreStep(u, s, m), Counted,
         NEW v \in Visits, cookie' \in [Transactions -> Interactions \cup {Nil}], CookiesOf(v),
         NEW q \in Visit, Does(v, q), VisitOK(q)',
         q.claim \in {Nil, visit[v].claim} \cup NewClaims, ~q.fresh,
         visit[v].grant = Nil \/ (saved[visit[v].grant] # Nil => Kept(visit[v].grant))
  PROVE  FlowInv'
  <1>1. Typed'
    <2>1. visit' \in [Visits -> Visit] BY DEF FlowInv, Typed, FlowTypeOK, Does
    <2>. QED BY <2>1, StoreTyped
  <1>2. /\ SignIns' /\ AllAsked' /\ Fruits' /\ GrantServesItsOwner'
        /\ \A g : Kept(g) => Kept(g)'
    BY StoreParts
  <1>3. ASSUME NEW w \in Visits, NEW r \in Visit, w # v, visit[w] = r PROVE Spares(r)
    <2>1. r.state \in Transactions \cup {Nil} BY DEF Visit
    <2>2. r.state # Nil => cookie'[r.state] \in {cookie[r.state], Nil}
      BY <1>3, <2>1 DEF CookiesOf
    <2>. QED BY <1>3, <2>2, StoreParts
  <1>4. ASSUME NEW g \in Grants PROVE Remembers(g, visit[v].grant, q.grant)
    BY <1>2, Things DEF Remembers, StoreStep
  <1>. QED BY <1>1, <1>2, <1>3, <1>4, Moved

LEMMA StoreStill ==
  ASSUME FlowInv, NEW u \in Interactions, NEW s, NEW m, StoreStep(u, s, m), Counted,
         UNCHANGED <<visit, cookie>>
  PROVE  FlowInv'
  <1>1. Typed'
    <2>1. visit' \in [Visits -> Visit] /\ cookie' \in [Transactions -> Interactions \cup {Nil}]
      BY DEF FlowInv, Typed, FlowTypeOK
    <2>. QED BY <2>1, StoreTyped
  <1>2. /\ SignIns' /\ AllAsked' /\ Fruits' /\ GrantServesItsOwner'
        /\ \A g : Kept(g) => Kept(g)'
    BY StoreParts
  <1>3. ASSUME NEW w \in Visits, NEW r \in Visit, visit[w] = r PROVE Spares(r)
    BY <1>3, StoreParts
  <1>4. ASSUME NEW g \in Grants PROVE Remembers(g, Nil, Nil)
    BY <1>2, Things DEF Remembers, StoreStep
  <1>. QED BY <1>1, <1>2, <1>3, <1>4, NoneMoved

LEMMA StoreReplies ==
  ASSUME FlowInv, NEW u \in Interactions, NEW s, NEW m, StoreStep(u, s, m), Counted,
         NEW v \in Visits, Replies(v),
         visit[v].grant = Nil \/ (saved[visit[v].grant] # Nil => Kept(visit[v].grant))
  PROVE  FlowInv'
  <1>1. Does(v, NoVisit) /\ CookiesOf(v) /\ cookie' \in [Transactions -> Interactions \cup {Nil}]
    BY ReplyCookies DEF Replies, FlowInv
  <1>. QED BY <1>1, NoVisitOK, NoVisitStays, StoreMoved

\* The moves of Redemption are such steps.
RestStays == UNCHANGED <<asked, browser, saved, serves, proved, leaked, stale>>

LEMMA OfferStep ==
  ASSUME FlowInv, NEW u \in Interactions, NEW c \in NewCodes, NEW m \in {Nil, via[u]},
         Store!Offer(u, c) \/ Store!OfferAgain(u, c), via' = [via EXCEPT ![u] = m],
         UNCHANGED fruit, RestStays
  PROVE  \E s : StoreStep(u, s, m)
  <1>1. PICK s : s = Store!At("offered", c, Nil, Nil) OBVIOUS
  <1>2. s \in SignInRecord /\ s.phase = "offered" /\ s.holder = Nil
    BY <1>1, NewIsUnknown DEF Store!At, SignInRecord
  <1>3. signin' = [signin EXCEPT ![u] = s]
    BY <1>1 DEF Store!Offer, Store!OfferAgain, Store!Moves
  <1>4. m \in Methods \cup {Nil} BY DEF FlowInv, Typed, FlowTypeOK
  <1>5. proved' \in [Interactions -> SUBSET (Players \X Methods)] /\ proved' = proved
    BY DEF RestStays, FlowInv, Typed
  <1>. QED BY <1>2, <1>3, <1>4, <1>5 DEF StoreStep, RestStays

LEMMA TakeStep ==
  ASSUME FlowInv, NEW u \in Interactions, NEW h \in NewClaims, NEW m \in Methods,
         Store!Take(u, h), via' = [via EXCEPT ![u] = m], UNCHANGED fruit, RestStays
  PROVE  /\ \E s : StoreStep(u, s, m)
         /\ signin'[u].phase = "taken"
  <1>1. PICK s : s = Store!At("taken", Nil, h, Nil) OBVIOUS
  <1>2. s \in SignInRecord /\ s.phase = "taken" /\ s.holder = h /\ h # Nil
    BY <1>1, NewIsUnknown, Things DEF Store!At, SignInRecord
  <1>3. signin' = [signin EXCEPT ![u] = s] BY <1>1 DEF Store!Take, Store!Moves
  <1>4. proved' \in [Interactions -> SUBSET (Players \X Methods)] /\ proved' = proved
    BY DEF RestStays, FlowInv, Typed
  <1>5. StoreStep(u, s, m) BY <1>2, <1>3, <1>4 DEF StoreStep, RestStays
  <1>. QED BY <1>2, <1>3, <1>5 DEF FlowInv, Typed

LEMMA BindStep ==
  ASSUME FlowInv, NEW u \in Interactions, NEW p \in Players, Binds(u, p),
         proved' \in [Interactions -> SUBSET (Players \X Methods)],
         \A i \in Interactions : proved[i] \subseteq proved'[i],
         <<p, via[u]>> \in proved'[u],
         UNCHANGED <<asked, browser, saved, serves, leaked, stale>>
  PROVE  \E s, m : StoreStep(u, s, m)
  <1>1. PICK s : s = Store!At("bound", Nil, Nil, p) OBVIOUS
  <1>2. s \in SignInRecord /\ s.phase = "bound" /\ s.holder = Nil /\ s.player = p /\ p # Nil
    BY <1>1, Things DEF Store!At, SignInRecord
  <1>3. signin' = [signin EXCEPT ![u] = s] /\ signin[u].phase = "taken"
    BY <1>1 DEF Binds, Store!Bind, Store!Moves
  <1>4. PICK m : m = via[u] OBVIOUS
  <1>5. /\ via \in [Interactions -> Methods \cup {Nil}] /\ fruit \in [Interactions -> SUBSET Grants]
        /\ SignInOK(u)
    BY DEF FlowInv, Typed, FlowTypeOK, SignIns
  <1>6. m \in Methods BY <1>3, <1>4, <1>5 DEF SignInOK
  <1>7. via' = [via EXCEPT ![u] = m] /\ fruit' = [fruit EXCEPT ![u] = {}] /\ fruit'[u] = {}
    BY <1>4, <1>5 DEF Binds
  <1>8. StoreStep(u, s, m) BY <1>2, <1>3, <1>4, <1>6, <1>7 DEF StoreStep
  <1>. QED BY <1>8

LEMMA LeaveStep ==
  ASSUME FlowInv, NEW u \in Interactions, NEW h \in NewClaims, Store!Leave(u, h),
         UNCHANGED <<via, fruit>>, RestStays
  PROVE  /\ \E s, m : StoreStep(u, s, m)
         /\ signin[u].player \in Players /\ via[u] \in Methods
         /\ <<signin[u].player, via[u]>> \in proved[u] /\ fruit[u] \subseteq leaked
  <1>1. PICK s : s = Store!At("leaving", Nil, h, signin[u].player) OBVIOUS
  <1>2. /\ signin[u] \in SignInRecord /\ SignInOK(u) /\ FruitOK(u) /\ signin[u].phase = "bound"
        /\ via \in [Interactions -> Methods \cup {Nil}]
    BY DEF Store!Leave, FlowInv, Typed, FlowTypeOK, SignIns, Fruits
  <1>3. /\ signin[u].player \in Players /\ via[u] \in Methods
        /\ <<signin[u].player, via[u]>> \in proved[u] /\ fruit[u] \subseteq leaked
    BY <1>2 DEF SignInOK, SignInRecord, FruitOK, Phase
  <1>4. /\ s \in SignInRecord /\ s.phase = "leaving" /\ s.holder = h /\ h # Nil
        /\ s.player = signin[u].player /\ s.player # Nil
    BY <1>1, <1>3, NewIsUnknown, Things DEF Store!At, SignInRecord
  <1>5. signin' = [signin EXCEPT ![u] = s] BY <1>1 DEF Store!Leave, Store!Moves
  <1>6. PICK m : m = via[u] OBVIOUS
  <1>7. via' = [via EXCEPT ![u] = m] BY <1>2, <1>6
  <1>8. proved' \in [Interactions -> SUBSET (Players \X Methods)] /\ proved' = proved
    BY DEF RestStays, FlowInv, Typed
  <1>9. StoreStep(u, s, m) BY <1>3, <1>4, <1>5, <1>6, <1>7, <1>8 DEF StoreStep, RestStays
  <1>. QED BY <1>3, <1>9

LEMMA StayStep ==
  ASSUME FlowInv, NEW u \in Interactions, Store!Stay(u), fruit[u] \subseteq leaked,
         UNCHANGED <<via, fruit>>, RestStays
  PROVE  \E s, m : StoreStep(u, s, m)
  <1>1. PICK s : s = Store!At("bound", Nil, Nil, signin[u].player) OBVIOUS
  <1>2. /\ signin[u] \in SignInRecord /\ SignInOK(u) /\ signin[u].phase = "leaving"
        /\ via \in [Interactions -> Methods \cup {Nil}]
    BY DEF Store!Stay, FlowInv, Typed, FlowTypeOK, SignIns
  <1>3. /\ signin[u].player \in Players /\ via[u] \in Methods
        /\ <<signin[u].player, via[u]>> \in proved[u]
    BY <1>2 DEF SignInOK, SignInRecord
  <1>4. /\ s \in SignInRecord /\ s.phase = "bound" /\ s.holder = Nil
        /\ s.player = signin[u].player /\ s.player # Nil
    BY <1>1, <1>3, Things DEF Store!At, SignInRecord
  <1>5. signin' = [signin EXCEPT ![u] = s] BY <1>1 DEF Store!Stay, Store!Moves
  <1>6. PICK m : m = via[u] OBVIOUS
  <1>7. via' = [via EXCEPT ![u] = m] BY <1>2, <1>6
  <1>8. proved' \in [Interactions -> SUBSET (Players \X Methods)] /\ proved' = proved
    BY DEF RestStays, FlowInv, Typed
  <1>9. StoreStep(u, s, m) BY <1>3, <1>4, <1>5, <1>6, <1>7, <1>8 DEF StoreStep, RestStays
  <1>. QED BY <1>9

LEMMA CloseStep ==
  ASSUME FlowInv, NEW u \in Interactions, Close(u), UNCHANGED fruit, RestStays
  PROVE  \E s, m : StoreStep(u, s, m)
  <1>1. PICK s : s = Store!Closed OBVIOUS
  <1>2. s \in SignInRecord /\ s.phase = "closed" /\ s.holder = Nil
    BY <1>1 DEF Store!Closed, Store!At, SignInRecord
  <1>3. signin \in [Interactions -> SignInRecord] BY DEF FlowInv, Typed
  <1>4. signin' = [signin EXCEPT ![u] = s] BY <1>1, <1>3 DEF Close, Store!Close
  <1>5. proved' \in [Interactions -> SUBSET (Players \X Methods)] /\ proved' = proved
    BY DEF RestStays, FlowInv, Typed
  <1>6. StoreStep(u, s, Nil) BY <1>2, <1>4, <1>5 DEF StoreStep, RestStays, Close
  <1>. QED BY <1>6

LEMMA StoreGoes ==
  ASSUME FlowInv, NEW u \in Interactions, NEW s, NEW m, StoreStep(u, s, m), Counted,
         NEW v \in Visits, UNCHANGED cookie, NEW place \in Places, Goes(v, place),
         VisitOK([visit[v] EXCEPT !.at = place]), visit[v].grant = Nil
  PROVE  FlowInv'
  <1>1. PICK r \in Visit : r = visit[v] BY VisitFacts
  <1>2. PICK q \in Visit : q = [r EXCEPT !.at = place] BY DEF Visit
  <1>3. /\ q.u = r.u /\ q.state = r.state /\ q.claim = r.claim /\ q.grant = r.grant /\ q.fresh = r.fresh
    BY <1>2 DEF Visit
  <1>4. Does(v, q) /\ VisitOK(q) BY <1>1, <1>2 DEF Goes
  <1>5. Spares(r) BY <1>1, StoreParts
  <1>6. VisitOK(q)'
    <2>1. Spares(q) BY <1>3, <1>5 DEF Spares
    <2>. QED BY <1>4, <2>1, Spared
  <1>7. ~q.fresh BY <1>1, <1>3, <1>4 DEF VisitOK, VisitShape
  <1>8. CookiesOf(v) /\ cookie' \in [Transactions -> Interactions \cup {Nil}]
    BY SameCookies DEF FlowInv
  <1>. QED BY <1>1, <1>3, <1>4, <1>6, <1>7, <1>8, StoreMoved

LEMMA AllocatedKeeps ==
  ASSUME FlowInv, NEW v \in Visits, Here(v, "allocate"), Allocated(v), NoMishap, UNCHANGED about,
         NEW s, NEW m, StoreStep(visit[v].u, s, m)
  PROVE  FlowInv'
  <1>1. PICK r \in Visit : r = visit[v] BY VisitFacts
  <1>2. r.at = "allocate" /\ VisitOK(r) BY <1>1, VisitFacts DEF Here
  <1>3. r.u \in Interactions /\ r.grant = Nil
    BY <1>2 DEF VisitOK, VisitShape, Made, Visit
  <1>4. Counted
    BY <1>1, <1>3 DEF Allocated, FlowInv, Typed, FlowTypeOK, NoMishap, Counted
  <1>5. CASE Replies(v) BY <1>1, <1>3, <1>4, <1>5, StoreReplies
  <1>6. CASE r.kind = "callback" /\ Goes(v, "exchange") /\ UNCHANGED cookie
    <2>1. VisitOK([r EXCEPT !.at = "exchange"]) BY <1>2, <1>6, EarlierPlaces
    <2>. QED BY <1>1, <1>3, <1>4, <1>6, <2>1, StoreGoes DEF Places
  <1>7. CASE /\ Does(v, NoVisit)
             /\ (\E x \in NewStates : cookie' = [cookie EXCEPT ![x] = r.u]) \/ UNCHANGED cookie
    <2>1. CookiesOf(v) /\ cookie' \in [Transactions -> Interactions \cup {Nil}]
      BY <1>3, <1>7, NewIsUnknown DEF CookiesOf, FlowInv, Typed, FlowTypeOK
    <2>. QED BY <1>1, <1>3, <1>4, <1>7, <2>1, NoVisitOK, NoVisitStays, StoreMoved
  <1>. QED BY <1>1, <1>5, <1>6, <1>7 DEF Allocated

LEMMA AllocateKeeps ==
  ASSUME FlowInv, NEW v \in Visits, Allocate(v), UNCHANGED about
  PROVE  FlowInv'
  <1>1. PICK u : u = visit[v].u OBVIOUS
  <1>2. u \in Interactions /\ visit[v].grant = Nil /\ Here(v, "allocate")
    BY <1>1, VisitFacts DEF Allocate, Here, VisitOK, VisitShape, Made, Visit
  <1>3. RestStays /\ UNCHANGED <<via, fruit>> /\ NoMishap
    BY DEF Allocate, requestVars, RestStays
  <1>4. /\ via' = [via EXCEPT ![u] = via[u]] /\ SignInOK(u) /\ signin[u] \in SignInRecord
        /\ via[u] \in Methods \cup {Nil} /\ signin \in [Interactions -> SignInRecord]
    BY <1>2, <1>3 DEF FlowInv, Typed, FlowTypeOK, SignIns
  <1>5. CASE Phase(u) = "offered" /\ UNCHANGED signin /\ Allocated(v)
    <2>1. PICK s \in SignInRecord : s = signin[u] BY <1>4
    <2>2. s.phase = "offered" /\ s.holder = Nil BY <1>4, <1>5, <2>1 DEF Phase, SignInOK
    <2>3. signin' = [signin EXCEPT ![u] = s] BY <1>4, <1>5, <2>1
    <2>4. proved' \in [Interactions -> SUBSET (Players \X Methods)] /\ proved' = proved
      BY <1>3 DEF RestStays, FlowInv, Typed
    <2>5. StoreStep(u, s, via[u]) BY <1>3, <1>4, <2>2, <2>3, <2>4 DEF StoreStep, RestStays
    <2>. QED BY <1>1, <1>2, <1>3, <1>5, <2>5, AllocatedKeeps
  <1>6. ASSUME NEW c \in NewCodes, Store!Offer(u, c), Allocated(v) PROVE FlowInv'
    <2>1. \E s : StoreStep(u, s, via[u]) BY <1>2, <1>3, <1>4, <1>6, OfferStep
    <2>. QED BY <1>1, <1>2, <1>3, <1>6, <2>1, AllocatedKeeps
  <1>7. CASE UNCHANGED <<signin, challenged>> /\ Replies(v)
    <2>1. UNCHANGED ReadVars BY <1>3, <1>7 DEF ReadVars, RestStays
    <2>2. Counted BY <1>3, <1>7, NoMishapCounts DEF FlowInv
    <2>. QED BY <1>2, <1>7, <2>1, <2>2, ReplyKeeps
  <1>. QED BY <1>1, <1>5, <1>6, <1>7 DEF Allocate

LEMMA ResetKeeps ==
  ASSUME FlowInv, NEW v \in Visits, Reset(v), UNCHANGED about
  PROVE  FlowInv'
  <1>1. PICK r \in Visit : r = visit[v] BY VisitFacts
  <1>2. r.at = "reset" /\ VisitOK(r) BY <1>1, VisitFacts DEF Reset, Here
  <1>3. r.u \in Interactions /\ r.grant = Nil /\ r.kind # "callback"
    BY <1>2 DEF VisitOK, VisitShape, Made, Visit
  <1>4. RestStays /\ UNCHANGED fruit /\ Counted
    BY NoMishapCounts DEF Reset, requestVars, RestStays, FlowInv
  <1>5. CASE Close(r.u) /\ Goes(v, "allocate") /\ UNCHANGED cookie
    <2>1. VisitOK([r EXCEPT !.at = "allocate"])
      <3>1. PICK q \in Visit : q = [r EXCEPT !.at = "allocate"] BY DEF Visit, Places
      <3>2. /\ q.at = "allocate" /\ q.u = r.u /\ q.kind = r.kind /\ q.state = r.state
            /\ q.claim = r.claim /\ q.grant = r.grant /\ q.fresh = r.fresh /\ q.answer = r.answer
        BY <3>1 DEF Visit
      <3>3. VisitShape(q) BY <1>2, <1>3, <3>2 DEF VisitOK, VisitShape, Keeping, Made
      <3>4. AnswerShape(q) BY <1>2, <3>2, Things DEF VisitOK, AnswerShape, Keeping, Made, NoAnswer
      <3>5. AboutAsked(q) BY <1>2, <3>2 DEF VisitOK, AboutAsked
      <3>6. AboutSignIn(q) /\ AboutGrant(q) BY <1>2, <1>3, <3>2 DEF VisitOK, AboutSignIn, AboutGrant
      <3>. QED BY <3>1, <3>3, <3>4, <3>5, <3>6 DEF VisitOK
    <2>2. \E s, m : StoreStep(r.u, s, m) BY <1>3, <1>4, <1>5, CloseStep
    <2>. QED BY <1>1, <1>3, <1>4, <1>5, <2>1, <2>2, StoreGoes DEF Places
  <1>6. CASE UNCHANGED <<signin, via>> /\ Replies(v)
    <2>1. UNCHANGED ReadVars BY <1>4, <1>6 DEF ReadVars, RestStays
    <2>. QED BY <1>1, <1>3, <1>4, <1>6, <2>1, ReplyKeeps
  <1>. QED BY <1>1, <1>5, <1>6 DEF Reset

LEMMA FinishKeeps ==
  ASSUME FlowInv, NEW v \in Visits, Finish(v), UNCHANGED about
  PROVE  FlowInv'
  <1>1. PICK r \in Visit : r = visit[v] BY VisitFacts
  <1>2. r.at = "finish" /\ VisitOK(r) BY <1>1, VisitFacts DEF Finish, Here
  <1>3. r.u \in Interactions /\ (r.grant = Nil \/ (saved[r.grant] # Nil => Kept(r.grant)))
    BY <1>2 DEF VisitOK, VisitShape, AboutGrant, Visit
  <1>4. RestStays /\ UNCHANGED fruit /\ Replies(v)
    BY DEF Finish, requestVars, RestStays
  <1>5. Counted BY NoMishapCounts, MishapCounts DEF Finish, FlowInv
  <1>6. CASE Close(r.u)
    <2>1. \E s, m : StoreStep(r.u, s, m) BY <1>3, <1>4, <1>6, CloseStep
    <2>. QED BY <1>1, <1>3, <1>4, <1>5, <2>1, StoreReplies
  <1>7. CASE UNCHANGED <<signin, via>>
    <2>1. UNCHANGED ReadVars BY <1>4, <1>7 DEF ReadVars, RestStays
    <2>. QED BY <1>1, <1>3, <1>4, <1>5, <2>1, ReplyKeeps
  <1>. QED BY <1>1, <1>6, <1>7 DEF Finish

LEMMA GiveBackKeeps ==
  ASSUME FlowInv, NEW v \in Visits, GiveBack(v), UNCHANGED about
  PROVE  FlowInv'
  <1>1. PICK r \in Visit : r = visit[v] BY VisitFacts
  <1>2. r.at = "giveback" /\ VisitOK(r) BY <1>1, VisitFacts DEF GiveBack, Here
  <1>3. r.u \in Interactions /\ (r.grant = Nil \/ (saved[r.grant] # Nil => Kept(r.grant)))
    BY <1>2 DEF VisitOK, VisitShape, AboutGrant, Visit
  <1>4. RestStays /\ UNCHANGED <<via, fruit>> /\ Replies(v)
    BY DEF GiveBack, requestVars, RestStays
  <1>5. Counted BY NoMishapCounts, MishapCounts DEF GiveBack, FlowInv
  <1>6. CASE Holds(v, "leaving") /\ Store!Stay(r.u)
    <2>1. fruit[r.u] \subseteq leaked
      BY <1>1, <1>2, <1>6 DEF Holds, VisitOK, VisitShape, AboutSignIn
    <2>2. \E s, m : StoreStep(r.u, s, m) BY <1>3, <1>4, <1>6, <2>1, StayStep
    <2>. QED BY <1>1, <1>3, <1>4, <1>5, <2>2, StoreReplies
  <1>7. CASE UNCHANGED signin
    <2>1. UNCHANGED ReadVars BY <1>4, <1>7 DEF ReadVars, RestStays
    <2>. QED BY <1>1, <1>3, <1>4, <1>5, <2>1, ReplyKeeps
  <1>. QED BY <1>1, <1>6, <1>7 DEF GiveBack

LEMMA BindKeeps ==
  ASSUME FlowInv, NEW v \in Visits, Bind(v), UNCHANGED about
  PROVE  FlowInv'
  <1>1. PICK r \in Visit : r = visit[v] BY VisitFacts
  <1>2. r.at = "bind" /\ VisitOK(r) BY <1>1, VisitFacts DEF Bind, Here
  <1>3. /\ r.u \in Interactions /\ r.grant = Nil
        /\ r.answer.account \in Players /\ <<r.answer.account, "microsoft">> \in proved[r.u]
    BY <1>2 DEF VisitOK, VisitShape, AboutSignIn, Made, Visit, Answer
  <1>4. UNCHANGED <<asked, browser, saved, serves, proved, leaked, stale>> /\ Replies(v)
    BY DEF Bind
  <1>5. RestStays BY <1>4 DEF RestStays
  <1>6. Counted BY NoMishapCounts DEF Bind, FlowInv
  <1>7. CASE Holds(v, "taken") /\ Binds(r.u, r.answer.account)
    <2>1. via[r.u] = "microsoft" BY <1>1, <1>2, <1>7 DEF Holds, VisitOK, AboutSignIn
    <2>2. proved' \in [Interactions -> SUBSET (Players \X Methods)] /\ proved' = proved
      BY <1>4 DEF FlowInv, Typed
    <2>3. \E s, m : StoreStep(r.u, s, m) BY <1>3, <1>4, <1>7, <2>1, <2>2, BindStep
    <2>. QED BY <1>1, <1>3, <1>4, <1>6, <2>3, StoreReplies
  <1>8. ASSUME NEW c \in NewCodes, Store!OfferAgain(r.u, c), via' = [via EXCEPT ![r.u] = Nil],
               UNCHANGED fruit
        PROVE  FlowInv'
    <2>1. \E s : StoreStep(r.u, s, Nil) BY <1>3, <1>5, <1>8, OfferStep
    <2>. QED BY <1>1, <1>3, <1>4, <1>6, <2>1, StoreReplies
  <1>9. CASE UNCHANGED <<signin, via, fruit>>
    <2>1. UNCHANGED ReadVars BY <1>4, <1>9 DEF ReadVars
    <2>. QED BY <1>1, <1>3, <1>4, <1>6, <2>1, ReplyKeeps
  <1>. QED BY <1>1, <1>7, <1>8, <1>9 DEF Bind

LEMMA ResolveKeeps ==
  ASSUME FlowInv, NEW v \in Visits, Resolve(v), UNCHANGED about
  PROVE  FlowInv'
  <1>1. PICK r \in Visit : r = visit[v] BY VisitFacts
  <1>2. r.at = "resolve" /\ VisitOK(r) BY <1>1, VisitFacts DEF Resolve, Here
  <1>3. r.u \in Interactions /\ r.grant = Nil /\ ~r.fresh /\ r.kind = "callback"
        /\ r.answer.kind = "none" /\ r.claim = Nil
    BY <1>2 DEF VisitOK, VisitShape, AnswerShape, Made, Keeping, Visit
  <1>4. RestStays /\ UNCHANGED fruit /\ Counted
    BY NoMishapCounts DEF Resolve, requestVars, RestStays, FlowInv
  <1>5. ASSUME NEW h \in NewClaims, Store!Take(r.u, h), via' = [via EXCEPT ![r.u] = "microsoft"],
               Does(v, [r EXCEPT !.at = "bind", !.claim = h]), UNCHANGED cookie
        PROVE  FlowInv'
    <2>1. PICK s : StoreStep(r.u, s, "microsoft")
      BY <1>3, <1>4, <1>5, Things, TakeStep
    <2>2. h \in Claims /\ h # Nil BY NewIsUnknown, Things
    <2>3. PICK q \in Visit : q = [r EXCEPT !.at = "bind", !.claim = h] BY <2>2 DEF Visit, Places
    <2>4. /\ q.at = "bind" /\ q.u = r.u /\ q.kind = r.kind /\ q.state = r.state
          /\ q.claim = h /\ q.grant = Nil /\ ~q.fresh /\ q.answer = r.answer
      BY <1>3, <2>3 DEF Visit
    <2>5. VisitShape(q)' BY <1>2, <1>3, <2>2, <2>4 DEF VisitOK, VisitShape, Keeping, Made
    <2>6. AnswerShape(q)' BY <1>2, <1>3, <2>4 DEF VisitOK, AnswerShape, Keeping, Made
    <2>7. AboutAsked(q)' BY <1>2, <1>3, <1>4, <2>4 DEF VisitOK, AboutAsked, RestStays
    <2>8. AboutSignIn(q)'
      <3>1. /\ via' = [via EXCEPT ![r.u] = "microsoft"] /\ via \in [Interactions -> Methods \cup {Nil}]
            /\ signin'[r.u].phase = "taken" /\ UNCHANGED <<proved, cookie>>
        BY <1>3, <1>4, <1>5, TakeStep, Things DEF FlowInv, Typed, FlowTypeOK, RestStays
      <3>. QED BY <1>2, <1>3, <2>4, <3>1 DEF VisitOK, AboutSignIn, Phase
    <2>9. AboutGrant(q)' BY <2>4 DEF AboutGrant
    <2>10. VisitOK(q)' BY <2>5, <2>6, <2>7, <2>8, <2>9 DEF VisitOK
    <2>11. CookiesOf(v) /\ cookie' \in [Transactions -> Interactions \cup {Nil}]
      BY <1>5, SameCookies DEF FlowInv
    <2>. QED BY <1>1, <1>3, <1>4, <1>5, <2>1, <2>3, <2>4, <2>10, <2>11, StoreMoved
  <1>6. CASE UNCHANGED <<signin, via>> /\ Replies(v)
    <2>1. UNCHANGED ReadVars BY <1>4, <1>6 DEF ReadVars, RestStays
    <2>. QED BY <1>1, <1>3, <1>4, <1>6, <2>1, ReplyKeeps
  <1>. QED BY <1>1, <1>5, <1>6 DEF Resolve

LEMMA ClaimKeeps ==
  ASSUME FlowInv, NEW v \in Visits, Claim(v), UNCHANGED about
  PROVE  FlowInv'
  <1>1. PICK r \in Visit : r = visit[v] BY VisitFacts
  <1>2. r.at = "claim" /\ VisitOK(r) BY <1>1, VisitFacts DEF Claim, Here
  <1>3. r.u \in Interactions /\ r.grant = Nil /\ ~r.fresh /\ r.kind # "callback" /\ r.state = Nil
        /\ asked[r.u].prompt # "consent" /\ asked[r.u].prompt # "none"
    BY <1>2 DEF VisitOK, VisitShape, AboutAsked, Made, Visit
  <1>4. RestStays /\ UNCHANGED fruit /\ Counted
    BY NoMishapCounts DEF Claim, requestVars, RestStays, FlowInv
  <1>5. ASSUME NEW h \in NewClaims, Store!Leave(r.u, h), UNCHANGED <<via, cookie>>,
               Does(v, [r EXCEPT !.at = "details", !.claim = h,
                  !.answer = [kind |-> "login", account |-> signin[r.u].player,
                              method |-> via[r.u], grant |-> Nil]])
        PROVE  FlowInv'
    <2>1. PICK s, m : StoreStep(r.u, s, m) BY <1>3, <1>4, <1>5, LeaveStep
    <2>2. /\ signin[r.u].player \in Players /\ via[r.u] \in Methods
          /\ <<signin[r.u].player, via[r.u]>> \in proved[r.u] /\ fruit[r.u] \subseteq leaked
      BY <1>3, <1>4, <1>5, LeaveStep
    <2>3. h \in Claims /\ h # Nil BY NewIsUnknown, Things
    <2>4. PICK a \in Answer : a = [kind |-> "login", account |-> signin[r.u].player,
                                   method |-> via[r.u], grant |-> Nil]
      BY <2>2 DEF Answer
    <2>5. /\ a.kind = "login" /\ a.account = signin[r.u].player /\ a.account # Nil
          /\ a.method = via[r.u] /\ a.method # Nil /\ a.grant = Nil
      BY <2>2, <2>4, Things
    <2>6. PICK q \in Visit : q = [r EXCEPT !.at = "details", !.claim = h, !.answer = a]
      BY <2>3 DEF Visit, Places
    <2>7. /\ q.at = "details" /\ q.u = r.u /\ q.kind = r.kind /\ q.state = r.state
          /\ q.claim = h /\ q.grant = Nil /\ ~q.fresh /\ q.answer = a
      BY <1>3, <2>6 DEF Visit
    <2>8. VisitShape(q)' BY <1>2, <1>3, <2>3, <2>7 DEF VisitOK, VisitShape, Keeping, Made
    <2>9. AnswerShape(q)' BY <2>3, <2>5, <2>7 DEF AnswerShape, Keeping, Made
    <2>10. AboutAsked(q)' BY <1>3, <1>4, <2>5, <2>7 DEF AboutAsked, RestStays
    <2>11. AboutSignIn(q)'
      <3>1. UNCHANGED <<proved, fruit, leaked>> BY <1>4 DEF RestStays
      <3>. QED BY <1>3, <2>2, <2>5, <2>7, <3>1 DEF AboutSignIn
    <2>12. AboutGrant(q)' BY <2>7 DEF AboutGrant
    <2>13. VisitOK(q)' BY <2>8, <2>9, <2>10, <2>11, <2>12 DEF VisitOK
    <2>14. CookiesOf(v) /\ cookie' \in [Transactions -> Interactions \cup {Nil}]
      BY <1>5, SameCookies DEF FlowInv
    <2>. QED BY <1>1, <1>3, <1>4, <1>5, <2>1, <2>4, <2>6, <2>7, <2>13, <2>14, StoreMoved
  <1>6. CASE Close(r.u) /\ Replies(v)
    <2>1. \E s, m : StoreStep(r.u, s, m) BY <1>3, <1>4, <1>6, CloseStep
    <2>. QED BY <1>1, <1>3, <1>4, <1>6, <2>1, StoreReplies
  <1>7. CASE UNCHANGED <<signin, via>> /\ Replies(v)
    <2>1. UNCHANGED ReadVars BY <1>4, <1>7 DEF ReadVars, RestStays
    <2>. QED BY <1>1, <1>3, <1>4, <1>7, <2>1, ReplyKeeps
  <1>. QED BY <1>1, <1>5, <1>6, <1>7 DEF Claim

LEMMA TakeElsewhereKeeps ==
  ASSUME FlowInv, NEW u \in Interactions, TakeElsewhere(u), UNCHANGED about
  PROVE  FlowInv'
  <1>1. RestStays /\ UNCHANGED fruit /\ UNCHANGED <<visit, cookie>> /\ Counted
    BY NoMishapCounts DEF TakeElsewhere, requestVars, RestStays, FlowInv
  <1>2. PICK method \in Methods, h \in NewClaims :
          Store!Take(u, h) /\ via' = [via EXCEPT ![u] = method]
    BY Things DEF TakeElsewhere
  <1>3. PICK s : StoreStep(u, s, method) BY <1>1, <1>2, TakeStep
  <1>. QED BY <1>1, <1>3, StoreStill

LEMMA BindElsewhereKeeps ==
  ASSUME FlowInv, NEW u \in Interactions, BindElsewhere(u), UNCHANGED about
  PROVE  FlowInv'
  <1>1. UNCHANGED <<asked, browser, saved, serves, leaked, stale>> /\ UNCHANGED <<visit, cookie>>
        /\ via[u] \in Methods
    BY Things DEF BindElsewhere
  <1>2. Counted BY DEF BindElsewhere, NoMishap, FlowInv, Typed, FlowTypeOK, Counted
  <1>3. ASSUME NEW p \in Players, Binds(u, p),
               proved' = [proved EXCEPT ![u] = @ \cup {<<p, via[u]>>}]
        PROVE  FlowInv'
    <2>1. proved \in [Interactions -> SUBSET (Players \X Methods)] BY DEF FlowInv, Typed
    <2>2. /\ proved' \in [Interactions -> SUBSET (Players \X Methods)]
          /\ \A i \in Interactions : proved[i] \subseteq proved'[i]
          /\ <<p, via[u]>> \in proved'[u]
      BY <1>1, <1>3, <2>1
    <2>3. \E s, m : StoreStep(u, s, m) BY <1>1, <1>3, <2>2, BindStep
    <2>. QED BY <1>1, <1>2, <2>3, StoreStill
  <1>4. ASSUME NEW c \in NewCodes, Store!OfferAgain(u, c), via' = [via EXCEPT ![u] = Nil],
               UNCHANGED <<proved, fruit>>
        PROVE  FlowInv'
    <2>1. RestStays BY <1>1, <1>4 DEF RestStays
    <2>2. \E s : StoreStep(u, s, Nil) BY <1>4, <2>1, OfferStep
    <2>. QED BY <1>1, <1>2, <2>2, StoreStill
  <1>. QED BY <1>3, <1>4 DEF BindElsewhere

LEMMA ExpireSignInKeeps ==
  ASSUME FlowInv, NEW u \in Interactions, ExpireSignIn(u), UNCHANGED about
  PROVE  FlowInv'
  <1>1. RestStays /\ UNCHANGED fruit /\ UNCHANGED <<visit, cookie>> /\ Counted /\ Close(u)
    BY MishapCounts DEF ExpireSignIn, requestVars, RestStays, FlowInv
  <1>2. \E s, m : StoreStep(u, s, m) BY <1>1, CloseStep
  <1>. QED BY <1>1, <1>2, StoreStill

LEMMA ExpireTransactionKeeps ==
  ASSUME FlowInv, NEW x \in Transactions, ExpireTransaction(x), UNCHANGED about
  PROVE  FlowInv'
  <1>1. UNCHANGED ReadVars /\ UNCHANGED visit /\ Counted
    BY MishapCounts DEF ExpireTransaction, storeVars, requestVars, ReadVars, FlowInv
  <1>2. /\ cookie' = [cookie EXCEPT ![x] = Nil]
        /\ cookie' \in [Transactions -> Interactions \cup {Nil}]
        /\ \A y \in Transactions : cookie'[y] \in {cookie[y], Nil}
    BY DEF ExpireTransaction, FlowInv, Typed, FlowTypeOK
  <1>3. Typed' BY <1>1, <1>2 DEF ReadVars, Counted, FlowInv, Typed, FlowTypeOK
  <1>4. SignIns' /\ AllAsked' /\ Fruits' /\ GrantServesItsOwner'
    BY <1>1, SameSignIns, SameAsked, SameFruits DEF ReadVars, FlowInv, GrantServesItsOwner
  <1>5. ASSUME NEW g PROVE Kept(g) => Kept(g)' BY <1>1 DEF Kept, ReadVars
  <1>6. ASSUME NEW w \in Visits, NEW r \in Visit, visit[w] = r PROVE Spares(r)
    <2>1. r.state \in Transactions \cup {Nil} BY DEF Visit
    <2>. QED BY <1>1, <1>2, <1>5, <2>1 DEF Spares, ReadVars
  <1>7. ASSUME NEW g \in Grants PROVE Remembers(g, Nil, Nil)
    BY <1>1, <1>5, Things DEF Remembers, ReadVars
  <1>. QED BY <1>1, <1>3, <1>4, <1>6, <1>7, NoneMoved

LEMMA ExchangeKeeps ==
  ASSUME FlowInv, NEW v \in Visits, Exchange(v), UNCHANGED about
  PROVE  FlowInv'
  <1>1. PICK r \in Visit : r = visit[v] BY VisitFacts
  <1>2. r.at = "exchange" /\ VisitOK(r) BY <1>1, VisitFacts DEF Exchange, Here
  <1>3. /\ r.u \in Interactions /\ r.u # Nil /\ r.grant = Nil /\ ~r.fresh /\ r.kind = "callback"
        /\ r.state \in Transactions /\ r.answer = NoAnswer /\ r.claim = Nil
    BY <1>2 DEF VisitOK, VisitShape, AnswerShape, Made, Keeping, Visit
  <1>4. UNCHANGED <<asked, signin, via, browser, saved, serves, fruit, leaked, stale>> /\ Counted
    BY NoMishapCounts DEF Exchange, requestVars, FlowInv
  <1>5. CASE Replies(v) /\ UNCHANGED proved
    <2>1. UNCHANGED ReadVars BY <1>4, <1>5 DEF ReadVars
    <2>. QED BY <1>1, <1>3, <1>4, <1>5, <2>1, ReplyKeeps
  <1>6. ASSUME NEW p \in Players, UNCHANGED cookie, cookie[r.state] # Nil,
               Does(v, [r EXCEPT !.at = "resolve", !.answer.account = p]),
               proved' = [proved EXCEPT ![cookie[r.state]] = @ \cup {<<p, "microsoft">>}]
        PROVE  FlowInv'
    <2>1. cookie[r.state] = r.u BY <1>2, <1>3, <1>6 DEF VisitOK, AboutSignIn
    <2>2. /\ proved' \in [Interactions -> SUBSET (Players \X Methods)]
          /\ \A i \in Interactions : proved[i] \subseteq proved'[i]
          /\ <<p, "microsoft">> \in proved'[r.u]
      <3>1. proved \in [Interactions -> SUBSET (Players \X Methods)] BY DEF FlowInv, Typed
      <3>. QED BY <1>3, <1>6, <2>1, <3>1, Things
    <2>3. PICK a \in Answer : a = [NoAnswer EXCEPT !.account = p] BY DEF NoAnswer, Answer
    <2>4. a.kind = "none" /\ a.account = p /\ p # Nil /\ a.grant = Nil
      BY <2>3, Things DEF NoAnswer
    <2>5. PICK q \in Visit : q = [r EXCEPT !.at = "resolve", !.answer = a] BY DEF Visit, Places
    <2>6. /\ q.at = "resolve" /\ q.u = r.u /\ q.kind = r.kind /\ q.state = r.state
          /\ q.claim = Nil /\ q.grant = Nil /\ ~q.fresh /\ q.answer = a
      BY <1>3, <2>5 DEF Visit
    <2>7. Does(v, q) BY <1>3, <1>6, <2>3, <2>5
    <2>8. VisitOK(q)'
      <3>1. VisitShape(q)' BY <1>2, <1>3, <2>4, <2>6 DEF VisitOK, VisitShape, Keeping, Made
      <3>2. AnswerShape(q)' BY <2>4, <2>6 DEF AnswerShape, Keeping, Made
      <3>3. AboutAsked(q)' BY <1>2, <1>4, <2>4, <2>6 DEF VisitOK, AboutAsked
      <3>4. AboutSignIn(q)'
        BY <1>3, <1>6, <2>1, <2>2, <2>4, <2>6 DEF AboutSignIn
      <3>5. AboutGrant(q)' BY <2>6 DEF AboutGrant
      <3>. QED BY <3>1, <3>2, <3>3, <3>4, <3>5 DEF VisitOK
    <2>9. Typed'
      BY <1>4, <1>6, <2>2, <2>7 DEF FlowInv, Typed, FlowTypeOK, Counted, Does
    <2>10. SignIns' /\ AllAsked' /\ Fruits' /\ GrantServesItsOwner'
      BY <1>4, <2>2, SameSignIns, SameAsked, SameFruits DEF FlowInv, GrantServesItsOwner
    <2>11. ASSUME NEW g PROVE Kept(g) => Kept(g)' BY <1>4 DEF Kept
    <2>12. ASSUME NEW w \in Visits, NEW t \in Visit, visit[w] = t PROVE Spares(t)
      <3>1. t.u \in Interactions \cup {Nil} BY DEF Visit
      <3>. QED BY <1>4, <1>6, <2>2, <2>11, <3>1 DEF Spares
    <2>13. ASSUME NEW g \in Grants PROVE Remembers(g, r.grant, q.grant)
      BY <1>3, <1>4, <2>11, Things DEF Remembers
    <2>. QED BY <1>1, <2>6, <2>7, <2>8, <2>9, <2>10, <2>12, <2>13, Moved
  <1>. QED BY <1>1, <1>5, <1>6 DEF Exchange

--------------------------------------------------------------------------------
(* The steps of the library, which change interactions. *)

\* An interaction stays what it is, or is over.
Ages(u) ==
  asked[u].prompt # "none" =>
    /\ asked'[u].prompt \in {asked[u].prompt, "gone"}
    /\ asked'[u].prompt # "gone" => /\ asked'[u].acr = asked[u].acr
                                    /\ asked'[u].account = asked[u].account

AskStep ==
  /\ UNCHANGED <<signin, via, proved, saved, fruit, leaked>>
  /\ asked' \in [Interactions -> Interaction] /\ browser' \in Players \cup {Nil}
  /\ serves' \in [Grants -> Players \cup {Nil}] /\ stale' \subseteq Grants
  /\ AllAsked' /\ GrantServesItsOwner'
  /\ \A u \in Interactions : Ages(u)
  /\ \A g \in Grants : /\ serves[g] # Nil => serves'[g] # Nil
                       /\ Kept(g) => Kept(g)'

LEMMA AskParts ==
  ASSUME FlowInv, AskStep
  PROVE  /\ SignIns' /\ Fruits'
         /\ \A w \in Visits, r \in Visit :
              /\ visit[w] = r
              /\ r.state # Nil => cookie'[r.state] \in {cookie[r.state], Nil}
              => Spares(r)
  <1>1. SignIns' /\ Fruits' BY SameSignIns, SameFruits DEF AskStep, FlowInv
  <1>2. ASSUME NEW w \in Visits, NEW r \in Visit, visit[w] = r,
               r.state # Nil => cookie'[r.state] \in {cookie[r.state], Nil}
        PROVE  Spares(r)
    <2>1. r.u \in Interactions \cup {Nil} /\ r.grant \in Grants \cup {Nil} BY DEF Visit
    <2>. QED BY <1>2, <2>1 DEF Spares, AskStep, Ages
  <1>. QED BY <1>1, <1>2

LEMMA AskTyped ==
  ASSUME FlowInv, AskStep, Counted, cookie' \in [Transactions -> Interactions \cup {Nil}],
         visit' \in [Visits -> Visit]
  PROVE  Typed'
  BY DEF FlowInv, AskStep, Counted, Typed, FlowTypeOK

LEMMA AskStill ==
  ASSUME FlowInv, AskStep, Counted, UNCHANGED <<visit, cookie>>
  PROVE  FlowInv'
  <1>1. Typed' BY AskTyped DEF FlowInv, Typed, FlowTypeOK
  <1>2. SignIns' /\ Fruits' /\ AllAsked' /\ GrantServesItsOwner' BY AskParts DEF AskStep
  <1>3. ASSUME NEW w \in Visits, NEW r \in Visit, visit[w] = r PROVE Spares(r)
    BY <1>3, AskParts
  <1>4. ASSUME NEW g \in Grants PROVE Remembers(g, Nil, Nil) BY Things DEF Remembers, AskStep
  <1>. QED BY <1>1, <1>2, <1>3, <1>4, NoneMoved

LEMMA AskReplies ==
  ASSUME FlowInv, AskStep, Counted, NEW v \in Visits, Replies(v), visit[v].grant = Nil
  PROVE  FlowInv'
  <1>1. Does(v, NoVisit) /\ CookiesOf(v) /\ cookie' \in [Transactions -> Interactions \cup {Nil}]
    BY ReplyCookies DEF Replies, FlowInv
  <1>2. Typed' BY <1>1, AskTyped, NoVisitOK DEF FlowInv, Typed, FlowTypeOK, Does
  <1>3. SignIns' /\ Fruits' /\ AllAsked' /\ GrantServesItsOwner' BY AskParts DEF AskStep
  <1>4. ASSUME NEW w \in Visits, NEW r \in Visit, w # v, visit[w] = r PROVE Spares(r)
    <2>1. r.state \in Transactions \cup {Nil} BY DEF Visit
    <2>2. r.state # Nil => cookie'[r.state] \in {cookie[r.state], Nil}
      BY <1>1, <1>4, <2>1 DEF CookiesOf
    <2>. QED BY <1>4, <2>2, AskParts
  <1>5. ASSUME NEW g \in Grants PROVE Remembers(g, visit[v].grant, NoVisit.grant)
    BY Things, NoVisitOK DEF Remembers, AskStep
  <1>. QED BY <1>1, <1>2, <1>3, <1>4, <1>5, NoVisitOK, NoVisitStays, Moved

LEMMA AskedFacts ==
  ASSUME FlowInv, NEW u \in Interactions
  PROVE  asked[u] \in Interaction /\ AskedOK(u) /\ asked \in [Interactions -> Interaction]
  BY DEF FlowInv, Typed, FlowTypeOK, AllAsked

LEMMA AuthorizeKeeps ==
  ASSUME FlowInv, NEW u \in Interactions, Authorize(u), UNCHANGED about
  PROVE  FlowInv'
  <1>1. PICK acr \in Asks, prompt \in {"login", "consent"}, g \in Grants \cup {Nil} :
       /\ prompt = "consent" => browser # Nil
       /\ g # Nil => prompt = "consent" /\ serves[g] = browser /\ saved[g] # Nil
       /\ Asked(u, [NotAsked EXCEPT !.prompt = prompt, !.acr = acr, !.account = browser,
                                    !.grant = g])
    BY DEF Authorize
  <1>2. /\ asked[u].prompt = "none"
        /\ UNCHANGED <<storeVars, browser, saved, serves, fruit, leaked, stale, cookie, visit>>
        /\ Counted
    BY NoMishapCounts DEF Authorize, storeVars, FlowInv
  <1>3. browser \in Players \cup {Nil} BY DEF FlowInv, Typed, FlowTypeOK
  <1>4. acr \subseteq Methods BY FlowAssumption
  <1>5. NoAnswer \in Result BY Things DEF NoAnswer, Result, Answer
  <1>6. PICK a \in Interaction : a = [NotAsked EXCEPT !.prompt = prompt, !.acr = acr, !.account = browser,
                                    !.grant = g]
    BY <1>3, <1>4, <1>5 DEF NotAsked, Interaction
  <1>7. /\ a.prompt = prompt /\ a.account = browser /\ a.grant = g /\ ~a.lost /\ a.result = NoAnswer
        /\ asked' = [asked EXCEPT ![u] = a]
    BY <1>1, <1>6 DEF NotAsked, Asked
  <1>8. asked' \in [Interactions -> Interaction] BY <1>6, <1>7, AskedFacts
  <1>9. AllAsked'
    <2>. SUFFICES ASSUME NEW i \in Interactions PROVE AskedOK(i)' BY DEF AllAsked
    <2>1. CASE i = u
      <3>1. asked'[i] = a BY <1>7, <2>1, AskedFacts
      <3>2. g # Nil => /\ serves'[g] # Nil /\ saved'[g] = browser
        BY <1>1, <1>2 DEF FlowInv, GrantServesItsOwner
      <3>. QED BY <1>1, <1>2, <1>7, <3>1, <3>2 DEF AskedOK, NoAnswer
    <2>2. CASE i # u
      <3>1. asked'[i] = asked[i] /\ AskedOK(i) BY <1>7, <2>2, AskedFacts
      <3>. QED BY <1>2, <3>1 DEF AskedOK, storeVars, Permits
    <2>. QED BY <2>1, <2>2
  <1>10. \A i \in Interactions : Ages(i) BY <1>2, <1>7, AskedFacts DEF Ages
  <1>11. ASSUME NEW h \in Grants PROVE Kept(h) => Kept(h)'
    <2>1. asked[u].result.grant = Nil
      <3>1. AskedOK(u) BY AskedFacts
      <3>2. asked[u].result = NoAnswer BY <1>2, <3>1 DEF AskedOK
      <3>. QED BY <3>2 DEF NoAnswer
    <2>2. \A i \in Interactions \ {u} : asked'[i] = asked[i] BY <1>7, AskedFacts
    <2>. QED BY <1>2, <2>1, <2>2, Things DEF Kept
  <1>12. AskStep
    BY <1>2, <1>8, <1>9, <1>10, <1>11
    DEF AskStep, storeVars, FlowInv, Typed, FlowTypeOK, GrantServesItsOwner
  <1>. QED BY <1>2, <1>12, AskStill

\* Where an interaction ends and a session becomes another account's.
LEMMA BereavedOf ==
  ASSUME NEW a, a \in [Interactions -> Interaction], NEW account, NEW i \in Interactions
  PROVE  /\ Bereaved(a, account) \in [Interactions -> Interaction]
         /\ Bereaved(a, account)[i] \in Interaction
         /\ Bereaved(a, account)[i].prompt = a[i].prompt /\ Bereaved(a, account)[i].acr = a[i].acr
         /\ Bereaved(a, account)[i].account = a[i].account
         /\ Bereaved(a, account)[i].grant = a[i].grant /\ Bereaved(a, account)[i].result = a[i].result
         /\ ~Bereaved(a, account)[i].lost => ~a[i].lost /\ a[i].account \in {Nil, account}
  <1>1. a[i] \in Interaction OBVIOUS
  <1>2. ASSUME NEW b \in Interaction
        PROVE  /\ [b EXCEPT !.lost = TRUE] \in Interaction
               /\ [b EXCEPT !.lost = TRUE].prompt = b.prompt /\ [b EXCEPT !.lost = TRUE].acr = b.acr
               /\ [b EXCEPT !.lost = TRUE].account = b.account
               /\ [b EXCEPT !.lost = TRUE].grant = b.grant /\ [b EXCEPT !.lost = TRUE].result = b.result
               /\ [b EXCEPT !.lost = TRUE].lost
    BY DEF Interaction
  <1>3. Bereaved(a, account)[i] = IF a[i].account # Nil /\ a[i].account # account
                          THEN [a[i] EXCEPT !.lost = TRUE] ELSE a[i]
    BY DEF Bereaved
  <1>4. Bereaved(a, account) \in [Interactions -> Interaction] BY <1>2 DEF Bereaved
  <1>. QED BY <1>1, <1>2, <1>3, <1>4

LEMMA OverIs ==
  ASSUME NEW o, o = [NotAsked EXCEPT !.prompt = "gone"]
  PROVE  /\ o \in Interaction /\ o.prompt = "gone" /\ o.account = Nil /\ o.grant = Nil
         /\ o.result = NoAnswer
  <1>1. NoAnswer \in Result BY Things DEF NoAnswer, Result, Answer
  <1>. QED BY <1>1 DEF NotAsked, Interaction

LEMMA ExpireInteractionKeeps ==
  ASSUME FlowInv, NEW u \in Interactions, ExpireInteraction(u), UNCHANGED about
  PROVE  FlowInv'
  <1>1. PICK o : o = [NotAsked EXCEPT !.prompt = "gone"] OBVIOUS
  <1>2. /\ asked' = [asked EXCEPT ![u] = o] /\ stale' = stale \cup Dropped(asked, asked')
        /\ UNCHANGED <<storeVars, browser, saved, serves, fruit, leaked, cookie, visit>>
        /\ Counted
    BY <1>1, MishapCounts DEF ExpireInteraction, storeVars, FlowInv
  <1>3. /\ asked'[u] = o /\ \A i \in Interactions \ {u} : asked'[i] = asked[i]
        /\ asked' \in [Interactions -> Interaction]
    BY <1>1, <1>2, OverIs, AskedFacts
  <1>4. AllAsked'
    <2>. SUFFICES ASSUME NEW i \in Interactions PROVE AskedOK(i)' BY DEF AllAsked
    <2>1. CASE i = u BY <1>1, <1>3, <2>1, OverIs DEF AskedOK, NoAnswer
    <2>2. CASE i # u
      <3>1. asked'[i] = asked[i] /\ AskedOK(i) BY <1>3, <2>2, AskedFacts
      <3>. QED BY <1>2, <3>1 DEF AskedOK, storeVars, Permits
    <2>. QED BY <2>1, <2>2
  <1>5. \A i \in Interactions : Ages(i) BY <1>1, <1>3, OverIs DEF Ages
  <1>6. stale' \subseteq Grants
    <2>1. \A i \in Interactions : asked[i].result.grant \in Grants \cup {Nil}
      BY AskedFacts DEF Interaction, Result, Answer
    <2>. QED BY <1>2, <2>1 DEF Dropped, FlowInv, Typed, FlowTypeOK
  <1>7. ASSUME NEW g \in Grants PROVE Kept(g) => Kept(g)'
    BY <1>2, Things DEF Kept, Dropped
  <1>8. AskStep
    BY <1>2, <1>3, <1>4, <1>5, <1>6, <1>7
    DEF AskStep, storeVars, FlowInv, Typed, FlowTypeOK, GrantServesItsOwner
  <1>. QED BY <1>2, <1>8, AskStill

LEMMA SwitchAccountKeeps ==
  ASSUME FlowInv, NEW v \in Visits, SwitchAccount(v), UNCHANGED about
  PROVE  FlowInv'
  <1>1. visit[v].grant = Nil BY VisitFacts DEF SwitchAccount, Here, VisitOK, VisitShape, Made
  <1>2. /\ UNCHANGED <<storeVars, saved, serves, fruit, leaked, stale>> /\ Replies(v)
        /\ Counted
    BY NoMishapCounts DEF SwitchAccount, storeVars, FlowInv
  <1>3. CASE UNCHANGED <<browser, asked>>
    <2>1. UNCHANGED ReadVars BY <1>2, <1>3 DEF ReadVars, storeVars
    <2>. QED BY <1>1, <1>2, <2>1, ReplyKeeps
  <1>4. CASE browser' = Nil /\ asked' = Bereaved(asked, Nil)
    <2>1. asked \in [Interactions -> Interaction] BY DEF FlowInv, Typed, FlowTypeOK
    <2>2. ASSUME NEW i \in Interactions
          PROVE  /\ asked' \in [Interactions -> Interaction] /\ asked'[i].prompt = asked[i].prompt
                 /\ asked'[i].acr = asked[i].acr /\ asked'[i].account = asked[i].account
                 /\ asked'[i].grant = asked[i].grant /\ asked'[i].result = asked[i].result
                 /\ ~asked'[i].lost => asked[i].account = Nil
      BY <1>4, <2>1, BereavedOf
    <2>3. asked' \in [Interactions -> Interaction] BY <1>4, <2>1 DEF Bereaved, Interaction
    <2>4. AllAsked'
      <3>. SUFFICES ASSUME NEW i \in Interactions PROVE AskedOK(i)' BY DEF AllAsked
      <3>1. AskedOK(i) BY AskedFacts
      <3>. QED BY <1>2, <1>4, <2>2, <3>1 DEF AskedOK, storeVars, Permits
    <2>5. \A i \in Interactions : Ages(i) BY <2>2 DEF Ages
    <2>6. ASSUME NEW g \in Grants PROVE Kept(g) => Kept(g)' BY <1>2, <2>2 DEF Kept
    <2>7. AskStep
      BY <1>2, <1>4, <2>3, <2>4, <2>5, <2>6
      DEF AskStep, storeVars, FlowInv, Typed, FlowTypeOK, GrantServesItsOwner
    <2>. QED BY <1>1, <1>2, <2>7, AskReplies
  <1>. QED BY <1>3, <1>4 DEF SwitchAccount

LEMMA ResumeKeeps ==
  ASSUME FlowInv, NEW u \in Interactions, Resume(u), UNCHANGED about
  PROVE  FlowInv'
  <1>1. PICK o : o = [NotAsked EXCEPT !.prompt = "gone"] OBVIOUS
  <1>2. PICK answer \in Result : answer = asked[u].result BY AskedFacts DEF Interaction
  <1>3. PICK account : account = IF answer.kind = "login" THEN answer.account ELSE browser OBVIOUS
  <1>4. PICK over : over = [asked EXCEPT ![u] = o] OBVIOUS
  <1>5. /\ Found(u) /\ answer.kind # "none" /\ browser' = account
        /\ asked' = Bereaved(over, account)
        /\ serves' = IF answer.grant = Nil THEN serves
                     ELSE [serves EXCEPT ![answer.grant] = account]
        /\ UNCHANGED <<storeVars, saved, fruit, leaked, stale, cookie, visit>>
        /\ Counted
    BY <1>1, <1>2, <1>3, <1>4, NoMishapCounts DEF Resume, storeVars, FlowInv
  <1>6. answer.grant # Nil => /\ account \in Players /\ account # Nil /\ account = answer.account
    <2>1. /\ answer.kind \in {"login", "consent"} => answer.account \in Players /\ answer.account # Nil
          /\ answer.grant # Nil => answer.kind \in {"login", "consent"}
      BY Things DEF Result, Answer
    <2>2. answer.kind = "consent" => browser = answer.account
      BY <1>2, <1>5, <2>1, AskedFacts DEF AskedOK, Found
    <2>. QED BY <1>3, <2>1, <2>2
  <1>7. over \in [Interactions -> Interaction] /\ over[u] = o
        /\ \A i \in Interactions \ {u} : over[i] = asked[i]
    BY <1>1, <1>4, OverIs, AskedFacts
  <1>8. ASSUME NEW i \in Interactions
        PROVE  /\ asked'[i].prompt = over[i].prompt
               /\ asked'[i].acr = over[i].acr /\ asked'[i].account = over[i].account
               /\ asked'[i].grant = over[i].grant /\ asked'[i].result = over[i].result
               /\ ~asked'[i].lost => over[i].account \in {Nil, account}
    BY <1>5, <1>7, BereavedOf
  <1>9. asked' \in [Interactions -> Interaction]
    <2>1. u \in Interactions OBVIOUS
    <2>. QED BY <1>5, <1>7, <2>1, BereavedOf
  <1>10. serves \in [Grants -> Players \cup {Nil}] /\ browser \in Players \cup {Nil}
         /\ answer.grant \in Grants \cup {Nil} /\ answer.account \in Players \cup {Nil}
    BY DEF FlowInv, Typed, FlowTypeOK, Result, Answer
  <1>11. /\ serves' \in [Grants -> Players \cup {Nil}] /\ browser' \in Players \cup {Nil}
         /\ \A g \in Grants : serves'[g] = IF g = answer.grant THEN account ELSE serves[g]
         /\ \A g \in Grants : serves[g] # Nil => serves'[g] # Nil
    BY <1>3, <1>5, <1>6, <1>10, Things
  <1>12. AllAsked'
    <2>. SUFFICES ASSUME NEW i \in Interactions PROVE AskedOK(i)' BY DEF AllAsked
    <2>1. CASE i = u BY <1>1, <1>7, <1>8, <2>1, OverIs DEF AskedOK, NoAnswer
    <2>2. CASE i # u
      <3>1. over[i] = asked[i] /\ AskedOK(i) /\ asked[i] \in Interaction BY <1>7, <2>2, AskedFacts
      <3>2. asked[i].grant \in Grants \cup {Nil} BY <3>1 DEF Interaction
      <3>3. asked[i].grant # Nil => serves'[asked[i].grant] # Nil BY <1>11, <3>1, <3>2 DEF AskedOK
      <3>. QED BY <1>5, <1>8, <3>1, <3>3 DEF AskedOK, storeVars, Permits
    <2>. QED BY <2>1, <2>2
  <1>13. \A i \in Interactions : Ages(i) BY <1>1, <1>7, <1>8, OverIs DEF Ages
  <1>14. GrantServesItsOwner'
    <2>. SUFFICES ASSUME NEW g \in Grants, serves'[g] # Nil, saved'[g] # Nil
                  PROVE  saved'[g] = serves'[g]
      BY DEF GrantServesItsOwner
    <2>1. saved' = saved BY <1>5
    <2>2. CASE g = answer.grant
      <3>1. saved[g] = answer.account BY <1>2, <2>1, <2>2, AskedFacts, Things DEF AskedOK
      <3>. QED BY <1>6, <1>11, <2>1, <2>2, <3>1, Things
    <2>3. CASE g # answer.grant BY <1>11, <2>1, <2>3 DEF FlowInv, GrantServesItsOwner
    <2>. QED BY <2>2, <2>3
  <1>15. ASSUME NEW g \in Grants PROVE Kept(g) => Kept(g)'
    <2>1. g = answer.grant => serves'[g] # Nil BY <1>6, <1>11, Things
    <2>2. \A i \in Interactions : i # u => asked'[i].result = asked[i].result BY <1>7, <1>8
    <2>. QED BY <1>2, <1>5, <1>11, <2>1, <2>2 DEF Kept
  <1>16. AskStep
    BY <1>5, <1>9, <1>11, <1>12, <1>13, <1>14, <1>15
    DEF AskStep, storeVars, FlowInv, Typed, FlowTypeOK
  <1>. QED BY <1>5, <1>16, AskStill

--------------------------------------------------------------------------------
(* The steps of a request that change grants and answers. *)

\* The request r goes on to a place with the grant g.
Granted(r, q, place, g) ==
  /\ q = [r EXCEPT !.at = place, !.grant = g, !.fresh = (r.grant = Nil), !.answer.grant = g]
  /\ q.at = place /\ q.u = r.u /\ q.kind = r.kind /\ q.state = r.state
  /\ q.claim = r.claim /\ q.grant = g /\ (q.fresh <=> r.grant = Nil)
  /\ q.answer.kind = r.answer.kind /\ q.answer.account = r.answer.account
  /\ q.answer.method = r.answer.method /\ q.answer.grant = g

LEMMA GrantedOf ==
  ASSUME NEW r \in Visit, NEW place \in Places, NEW g \in Grants
  PROVE  \E q \in Visit : Granted(r, q, place, g)
  <1>1. PICK a \in Answer : a = [r.answer EXCEPT !.grant = g] BY DEF Visit, Answer
  <1>2. /\ a.kind = r.answer.kind /\ a.account = r.answer.account
        /\ a.method = r.answer.method /\ a.grant = g
    BY <1>1 DEF Visit, Answer
  <1>3. PICK new \in BOOLEAN : new <=> r.grant = Nil OBVIOUS
  <1>4. PICK q \in Visit : q = [r EXCEPT !.at = place, !.grant = g, !.fresh = new, !.answer = a]
    BY DEF Visit
  <1>5. /\ q.at = place /\ q.u = r.u /\ q.kind = r.kind /\ q.state = r.state
        /\ q.claim = r.claim /\ q.grant = g /\ (q.fresh <=> r.grant = Nil) /\ q.answer = a
    BY <1>3, <1>4 DEF Visit
  <1>6. new = (r.grant = Nil) BY <1>3
  <1>7. q = [r EXCEPT !.at = place, !.grant = g, !.fresh = (r.grant = Nil), !.answer.grant = g]
    BY <1>1, <1>4, <1>6
  <1>8. Granted(r, q, place, g) BY <1>2, <1>5, <1>7 DEF Granted
  <1>. QED BY <1>8

LEMMA SaveGrantKeeps ==
  ASSUME FlowInv, NEW v \in Visits, SaveGrant(v), UNCHANGED about
  PROVE  FlowInv'
  <1>1. PICK r \in Visit : r = visit[v] BY VisitFacts
  <1>2. r.at = "grant" /\ VisitOK(r) BY <1>1, VisitFacts DEF SaveGrant, Here
  <1>3. /\ r.u \in Interactions /\ ~r.fresh /\ r.kind \notin {"callback", "abort"}
        /\ r.answer \in Answer /\ r.answer.kind \in {"login", "consent"} /\ r.answer.account \in Players
        /\ r.claim # Nil => r.grant = Nil
    BY <1>2 DEF VisitOK, VisitShape, AnswerShape, Keeping, Made, Visit, Answer
  <1>4. UNCHANGED <<storeVars, asked, browser, serves, fruit, leaked, stale>>
    BY DEF SaveGrant
  <1>5. Counted BY <1>4, NoMishapCounts, MishapCounts DEF SaveGrant, storeVars, FlowInv
  <1>6. CASE saved[r.grant] = Nil /\ Replies(v) /\ UNCHANGED saved
    <2>1. UNCHANGED ReadVars BY <1>4, <1>6 DEF ReadVars, storeVars
    <2>. QED BY <1>1, <1>5, <1>6, <2>1, ReplyKeeps
  <1>8. ASSUME r.grant # Nil, UNCHANGED <<saved, cookie>>, NEW place \in {"load", "undo"},
               WithGrant(v, r.grant, place)
        PROVE  FlowInv'
    <2>1. r.grant \in Grants BY <1>8 DEF Visit
    <2>2. PICK q \in Visit : Granted(r, q, place, r.grant) BY <2>1, GrantedOf DEF Places
    <2>. USE DEF Granted
    <2>3. Does(v, q) BY <1>1, <1>8, <2>2 DEF WithGrant
    <2>4. VisitShape(q) BY <1>2, <1>3, <1>8, <2>2 DEF VisitOK, VisitShape, Keeping, Made
    <2>5. AnswerShape(q) BY <1>2, <1>3, <1>8, <2>2 DEF VisitOK, AnswerShape, Keeping, Made
    <2>6. AboutAsked(q) BY <1>2, <2>2 DEF VisitOK, AboutAsked
    <2>7. AboutSignIn(q) BY <1>2, <1>3, <1>8, <2>2 DEF VisitOK, AboutSignIn
    <2>8. AboutGrant(q) BY <1>2, <1>3, <1>8, <2>2 DEF VisitOK, AboutGrant
    <2>9. VisitOK(q) BY <2>4, <2>5, <2>6, <2>7, <2>8 DEF VisitOK
    <2>10. UNCHANGED ReadVars BY <1>4, <1>8 DEF ReadVars, storeVars
    <2>. QED BY <1>1, <1>5, <1>8, <2>2, <2>3, <2>9, <2>10, GoKeeps
  <1>9. ASSUME r.grant = Nil, UNCHANGED cookie, NEW g \in NewGrants, NEW place \in {"load", "undo"},
               WithGrant(v, g, place), Saves(v, g) \/ (place = "undo" /\ UNCHANGED saved)
        PROVE  FlowInv'
    <2>1. /\ g \in Grants /\ g # Nil /\ saved[g] = Nil /\ serves[g] = Nil
          /\ \A w \in Visits : visit[w].grant # g
          /\ \A u \in Interactions : asked[u].grant # g /\ asked[u].result.grant # g
      BY NewIsUnknown, Things
    <2>2. PICK q \in Visit : Granted(r, q, place, g) BY <2>1, GrantedOf DEF Places
    <2>. USE DEF Granted
    <2>3. Does(v, q) BY <1>1, <1>9, <2>2 DEF WithGrant
    <2>4. /\ \A h \in Grants : h # g => saved'[h] = saved[h]
          /\ saved'[g] \in {Nil, r.answer.account}
          /\ place = "load" => saved'[g] = r.answer.account
          /\ saved' \in [Grants -> Players \cup {Nil}]
      <3>1. saved \in [Grants -> Players \cup {Nil}] BY DEF FlowInv, Typed, FlowTypeOK
      <3>. QED BY <1>1, <1>3, <1>9, <2>1, <3>1 DEF Saves, GrantOwner
    <2>5. UNCHANGED <<signin, via, challenged, proved, asked, browser, serves, fruit, leaked, stale>>
      BY <1>4 DEF storeVars
    <2>6. VisitShape(q)' BY <1>2, <1>3, <2>1, <2>2 DEF VisitOK, VisitShape, Keeping, Made
    <2>7. AnswerShape(q)' BY <1>2, <1>3, <1>9, <2>1, <2>2 DEF VisitOK, AnswerShape, Keeping, Made
    <2>8. AboutAsked(q)' BY <1>2, <2>2, <2>5 DEF VisitOK, AboutAsked, Exists, Permits
    <2>9. AboutSignIn(q)' BY <1>2, <1>3, <2>2, <2>5 DEF VisitOK, AboutSignIn, Phase
    <2>10. AboutGrant(q)'
      <3>1. q.fresh /\ q.at = place /\ q.grant = g /\ q.answer.account = r.answer.account
        BY <1>9, <2>2
      <3>2. r.answer.account # Nil BY <1>3, Things
      <3>3. q.at \notin {"finish", "giveback"} BY <3>1
      <3>. QED BY <2>4, <3>1, <3>2, <3>3 DEF AboutGrant
    <2>11. VisitOK(q)' BY <2>6, <2>7, <2>8, <2>9, <2>10 DEF VisitOK
    <2>12. Typed' BY <1>5, <1>9, <2>3, <2>4, <2>5 DEF FlowInv, Typed, FlowTypeOK, Counted, Does
    <2>13. SignIns' BY <2>5, SameSignIns DEF FlowInv
    <2>14. AllAsked'
      <3>. SUFFICES ASSUME NEW i \in Interactions PROVE AskedOK(i)' BY DEF AllAsked
      <3>1. AskedOK(i) /\ asked[i] \in Interaction BY AskedFacts
      <3>2. asked[i].grant \in Grants \cup {Nil} /\ asked[i].result.grant \in Grants \cup {Nil}
        BY <3>1 DEF Interaction, Result, Answer
      <3>. QED BY <2>1, <2>4, <2>5, <3>1, <3>2 DEF AskedOK, Permits
    <2>15. Fruits'
      <3>1. \A u \in Interactions : fruit[u] \subseteq Grants BY DEF FlowInv, Typed
      <3>. QED BY <2>1, <2>4, <2>5, <3>1 DEF Fruits, FruitOK, FlowInv, Phase
    <2>16. GrantServesItsOwner' BY <2>1, <2>4, <2>5 DEF GrantServesItsOwner, FlowInv
    <2>17. ASSUME NEW h PROVE Kept(h) => Kept(h)' BY <2>5 DEF Kept
    <2>18. ASSUME NEW w \in Visits, NEW t \in Visit, visit[w] = t PROVE Spares(t)
      <3>1. t.grant \in Grants \cup {Nil} /\ t.grant # g BY <2>1, <2>18 DEF Visit
      <3>. QED BY <1>9, <2>4, <2>5, <2>17, <3>1 DEF Spares
    <2>19. ASSUME NEW h \in Grants PROVE Remembers(h, r.grant, q.grant)
      BY <1>9, <2>2, <2>4, <2>17, Things DEF Remembers
    <2>. QED BY <1>1, <1>9, <2>2, <2>3, <2>11, <2>12, <2>13, <2>14, <2>15, <2>16, <2>18, <2>19, Moved
  <1>10. CASE r.grant # Nil BY <1>1, <1>6, <1>8, <1>10 DEF SaveGrant
  <1>11. CASE r.grant = Nil
    <2>1. PICK g \in NewGrants :
                \/ Saves(v, g) /\ WithGrant(v, g, "load")
                \/ (Saves(v, g) \/ UNCHANGED saved) /\ WithGrant(v, g, "undo")
      BY <1>1, <1>11 DEF SaveGrant
    <2>2. UNCHANGED cookie BY <1>1, <1>11 DEF SaveGrant
    <2>. QED BY <1>9, <1>11, <2>1, <2>2
  <1>. QED BY <1>10, <1>11

LEMMA DieKeeps ==
  ASSUME FlowInv, NEW v \in Visits, Die(v), UNCHANGED about
  PROVE  FlowInv'
  <1>1. PICK r \in Visit : r = visit[v] BY VisitFacts
  <1>2. VisitOK(r) BY <1>1, VisitFacts
  <1>3. UNCHANGED <<signin, via, challenged, proved, asked, browser, saved, serves, fruit, stale, cookie>>
        /\ Does(v, NoVisit)
        /\ leaked' = IF r.fresh /\ saved[r.grant] # Nil THEN leaked \cup {r.grant} ELSE leaked
    BY <1>1 DEF Die, storeVars
  <1>4. Counted BY <1>3, MishapCounts DEF Die, FlowInv
  <1>5. leaked' \subseteq Grants /\ leaked \subseteq leaked'
    BY <1>2, <1>3 DEF VisitOK, VisitShape, Visit, FlowInv, Typed, FlowTypeOK
  <1>6. Typed' BY <1>3, <1>4, <1>5, NoVisitOK DEF FlowInv, Typed, FlowTypeOK, Counted, Does
  <1>7. SignIns' /\ AllAsked' /\ GrantServesItsOwner'
    BY <1>3, SameSignIns, SameAsked DEF FlowInv, GrantServesItsOwner
  <1>8. Fruits' BY <1>3, <1>5 DEF FlowInv, Fruits, FruitOK, Phase
  <1>9. ASSUME NEW g PROVE Kept(g) => Kept(g)' BY <1>3, <1>5 DEF Kept
  <1>10. ASSUME NEW w \in Visits, NEW t \in Visit, visit[w] = t PROVE Spares(t)
    BY <1>3, <1>5, <1>9 DEF Spares
  <1>11. ASSUME NEW g \in Grants PROVE Remembers(g, r.grant, NoVisit.grant)
    <2>1. r.grant = g /\ saved[g] # Nil => Kept(g)'
      BY <1>2, <1>3, Things DEF VisitOK, AboutGrant, Kept
    <2>. QED BY <1>3, <1>9, <2>1 DEF Remembers
  <1>. QED BY <1>1, <1>3, <1>6, <1>7, <1>8, <1>10, <1>11, NoVisitOK, NoVisitStays, Moved

LEMMA UndoKeeps ==
  ASSUME FlowInv, NEW v \in Visits, Undo(v), UNCHANGED about
  PROVE  FlowInv'
  <1>1. PICK r \in Visit : r = visit[v] BY VisitFacts
  <1>2. r.at = "undo" /\ VisitOK(r) BY <1>1, VisitFacts DEF Undo, Here
  <1>3. /\ r.u \in Interactions /\ r.kind # "callback" /\ r.grant \in Grants /\ r.grant # Nil
        /\ r.claim # Nil => r.fresh
    BY <1>2 DEF VisitOK, VisitShape, AnswerShape, Made, Visit
  <1>4. UNCHANGED <<signin, via, challenged, proved, asked, browser, serves>>
    BY DEF Undo, storeVars
  <1>5. Counted BY <1>4, NoMishapCounts, MishapCounts DEF Undo, FlowInv
  <1>6. \/ Replies(v)
        \/ r.claim # Nil /\ Goes(v, "giveback") /\ UNCHANGED cookie
    BY <1>1 DEF Undo
  <1>7. CASE ~r.fresh
    <2>1. UNCHANGED ReadVars BY <1>1, <1>4, <1>7 DEF Undo, Undoes, ReadVars
    <2>2. Kept(r.grant) BY <1>2, <1>3, <1>7 DEF VisitOK, AboutGrant, Kept
    <2>. QED BY <1>1, <1>3, <1>5, <1>6, <1>7, <2>1, <2>2, ReplyKeeps
  <1>8. CASE r.fresh
    <2>. DEFINE g == r.grant
    <2>1. \/ /\ saved' = [saved EXCEPT ![g] = Nil]
             /\ fruit' = [u \in Interactions |-> fruit[u] \ {g}]
             /\ leaked' = leaked \ {g} /\ stale' = stale \ {g}
          \/ leaked' = leaked \cup {g} /\ UNCHANGED <<saved, fruit, stale>>
      BY <1>1, <1>8 DEF Undo, Undoes
    <2>2. /\ saved \in [Grants -> Players \cup {Nil}] /\ fruit \in [Interactions -> SUBSET Grants]
          /\ leaked \subseteq Grants /\ stale \subseteq Grants
      BY DEF FlowInv, Typed, FlowTypeOK
    <2>3. /\ saved' \in [Grants -> Players \cup {Nil}] /\ fruit' \in [Interactions -> SUBSET Grants]
          /\ leaked' \subseteq Grants /\ stale' \subseteq Grants
      BY <1>3, <2>1, <2>2
    <2>4. /\ \A h \in Grants \ {g} : /\ saved'[h] = saved[h]
                                     /\ h \in leaked' <=> h \in leaked
                                     /\ h \in stale' <=> h \in stale
          /\ saved'[g] = Nil \/ (saved'[g] = saved[g] /\ g \in leaked')
          /\ \A u \in Interactions : /\ fruit'[u] \subseteq fruit[u]
                                     /\ fruit'[u] \ leaked' \subseteq (fruit[u] \ leaked) \ {g}
                                     /\ \A h \in fruit[u] \cap leaked : h \in fruit'[u] => h \in leaked'
                                     /\ \A h \in fruit'[u] : h # g \/ saved'[g] = saved[g]
      BY <1>3, <2>1, <2>2
    <2>. HIDE DEF g
    <2>5. ASSUME NEW h \in Grants PROVE /\ saved'[h] # Nil => saved'[h] = saved[h]
                                        /\ saved'[h] # Nil => (Kept(h) => Kept(h)')
                                        /\ saved'[h] # Nil /\ h = g => Kept(h)'
      BY <1>4, <2>4 DEF Kept
    <2>6. SignIns' BY <1>4, SameSignIns DEF FlowInv
    <2>7. AllAsked'
      <3>. SUFFICES ASSUME NEW i \in Interactions PROVE AskedOK(i)' BY DEF AllAsked
      <3>1. AskedOK(i) /\ asked[i] \in Interaction BY AskedFacts
      <3>2. asked[i].grant \in Grants \cup {Nil} /\ asked[i].result.grant \in Grants \cup {Nil}
        BY <3>1 DEF Interaction, Result, Answer
      <3>. QED BY <1>4, <2>5, <3>1, <3>2 DEF AskedOK, Permits
    <2>8. Fruits'
      <3>. SUFFICES ASSUME NEW i \in Interactions PROVE FruitOK(i)' BY DEF Fruits
      <3>1. FruitOK(i) /\ fruit[i] \subseteq Grants BY <2>2 DEF FlowInv, Fruits
      <3>2. \A h \in fruit'[i] : saved'[h] # Nil BY <2>4, <3>1 DEF FruitOK
      <3>3. (\A h, k \in fruit[i] \ leaked : h = k)' BY <2>4, <3>1 DEF FruitOK
      <3>4. (Phase(i) = "bound" => fruit[i] \subseteq leaked)'
        BY <1>4, <2>4, <3>1 DEF FruitOK, Phase
      <3>. QED BY <3>2, <3>3, <3>4 DEF FruitOK
    <2>9. GrantServesItsOwner' BY <1>4, <2>5 DEF GrantServesItsOwner, FlowInv
    <2>10. ASSUME NEW w \in Visits, NEW t \in Visit, w # v, visit[w] = t,
                  t.state # Nil => cookie'[t.state] \in {cookie[t.state], Nil}
           PROVE  Spares(t)
      <3>1. t.grant \in Grants \cup {Nil} /\ t.u \in Interactions \cup {Nil} BY DEF Visit
      <3>2. t.fresh => t.grant # g BY <1>1, <1>8, <2>10 DEF FlowInv, Apart, g
      <3>. QED BY <1>4, <2>4, <2>5, <2>10, <3>1, <3>2 DEF Spares
    <2>11. ASSUME NEW h \in Grants, NEW new PROVE Remembers(h, r.grant, new)
      BY <2>5 DEF Remembers, g
    <2>12. CASE Replies(v)
      <3>1. Does(v, NoVisit) /\ CookiesOf(v) /\ cookie' \in [Transactions -> Interactions \cup {Nil}]
        BY <2>12, ReplyCookies DEF Replies, FlowInv
      <3>2. Typed'
        BY <1>4, <1>5, <2>3, <3>1, NoVisitOK DEF FlowInv, Typed, FlowTypeOK, Counted, Does
      <3>3. ASSUME NEW w \in Visits, NEW t \in Visit, w # v, visit[w] = t PROVE Spares(t)
        <4>1. t.state \in Transactions \cup {Nil} BY DEF Visit
        <4>. QED BY <2>10, <3>1, <3>3, <4>1 DEF CookiesOf
      <3>. QED
        BY <1>1, <2>6, <2>7, <2>8, <2>9, <2>11, <3>1, <3>2, <3>3, NoVisitOK, NoVisitStays, Moved
    <2>13. CASE r.claim # Nil /\ Goes(v, "giveback") /\ UNCHANGED cookie
      <3>1. PICK q \in Visit : q = [r EXCEPT !.at = "giveback"] BY DEF Visit, Places
      <3>2. /\ q.at = "giveback" /\ q.u = r.u /\ q.kind = r.kind /\ q.state = r.state
            /\ q.claim = r.claim /\ q.grant = r.grant /\ q.fresh = r.fresh /\ q.answer = r.answer
        BY <3>1 DEF Visit
      <3>3. Does(v, q) BY <1>1, <2>13, <3>1 DEF Goes
      <3>4. VisitOK(q)'
        <4>1. VisitShape(q)' BY <1>2, <2>13, <3>2 DEF VisitOK, VisitShape, Keeping, Made
        <4>2. AnswerShape(q)' BY <1>2, <3>2 DEF VisitOK, AnswerShape, Keeping, Made
        <4>3. AboutAsked(q)' BY <1>2, <1>4, <3>2 DEF VisitOK, AboutAsked, Exists, Permits
        <4>4. AboutSignIn(q)'
          <5>1. r.claim # Nil /\ Phase(r.u) = "leaving" /\ signin[r.u].holder = r.claim =>
                  fruit[r.u] \ leaked \subseteq {g}
            BY <1>2 DEF VisitOK, AboutSignIn, g
          <5>2. r.claim # Nil /\ Phase(r.u) = "leaving" /\ signin[r.u].holder = r.claim =>
                  fruit'[r.u] \ leaked' \subseteq {}
            BY <1>3, <2>4, <5>1
          <5>. QED BY <1>2, <1>3, <1>4, <3>2, <5>2 DEF VisitOK, AboutSignIn, Phase
        <4>5. AboutGrant(q)' BY <1>2, <1>3, <1>8, <2>5, <3>2 DEF VisitOK, AboutGrant, g
        <4>. QED BY <4>1, <4>2, <4>3, <4>4, <4>5 DEF VisitOK
      <3>5. Typed'
        BY <1>4, <1>5, <2>3, <2>13, <3>3 DEF FlowInv, Typed, FlowTypeOK, Counted, Does
      <3>6. q.fresh => visit[v].fresh /\ q.grant = visit[v].grant BY <1>1, <3>2
      <3>7. ASSUME NEW w \in Visits, NEW t \in Visit, w # v, visit[w] = t PROVE Spares(t)
        BY <2>10, <2>13, <3>7
      <3>. QED
        BY <1>1, <2>6, <2>7, <2>8, <2>9, <2>11, <3>2, <3>3, <3>4, <3>5, <3>6, <3>7, Moved
    <2>. QED BY <1>6, <2>12, <2>13
  <1>. QED BY <1>7, <1>8

\* What a request writes, and what that leaves of the other requests.
LEMMA WritesParts ==
  ASSUME FlowInv, NEW v \in Visits, NEW r \in Visit, r = visit[v], r.at = "write", VisitOK(r), Writes(v),
         UNCHANGED <<signin, via, challenged, proved, browser, saved, serves, leaked>>
  PROVE  /\ asked' \in [Interactions -> Interaction] /\ stale' \subseteq Grants
         /\ fruit' \in [Interactions -> SUBSET Grants]
         /\ SignIns' /\ AllAsked' /\ Fruits' /\ GrantServesItsOwner'
         /\ \A u \in Interactions : Ages(u)
         /\ \A g \in Grants : Kept(g) => Kept(g)'
         /\ r.grant # Nil => Kept(r.grant)'
         /\ r.claim # Nil /\ Phase(r.u) = "leaving" /\ signin[r.u].holder = r.claim
              => fruit'[r.u] \ leaked \subseteq {r.grant}
         /\ \A w \in Visits, t \in Visit :
              /\ w # v /\ visit[w] = t
              /\ t.state # Nil => cookie'[t.state] \in {cookie[t.state], Nil}
              => Spares(t)
  <1>1. /\ r.u \in Interactions /\ r.grant \in Grants \cup {Nil} /\ r.claim \in Claims \cup {Nil}
        /\ r.answer \in Answer /\ r.answer.grant = r.grant
        /\ r.answer.kind \in {"login", "consent", "denied"}
        /\ r.answer.kind = "denied" <=> r.grant = Nil
        /\ r.answer.kind = "login" <=> r.claim # Nil
        /\ r.claim # Nil => r.fresh
    BY DEF VisitOK, VisitShape, AnswerShape, Keeping, Made, Visit
  <1>2. r.answer \in Result
    BY <1>1, Things DEF VisitOK, AnswerShape, Keeping, Result, Answer
  <1>3. /\ asked' = IF Exists(r.u) THEN [asked EXCEPT ![r.u].result = r.answer] ELSE asked
        /\ stale' = stale \cup Dropped(asked, asked')
                          \cup (IF Exists(r.u) \/ r.grant = Nil THEN {} ELSE {r.grant})
        /\ fruit' = IF Phase(r.u) = "leaving" /\ signin[r.u].holder = r.claim
                    THEN [fruit EXCEPT ![r.u] = @ \cup {r.grant}] ELSE fruit
    BY DEF Writes, Holds
  <1>4. PICK a \in Interaction :
                 a = IF Exists(r.u) THEN [asked[r.u] EXCEPT !.result = r.answer] ELSE asked[r.u]
    BY <1>1, <1>2, AskedFacts DEF Interaction
  <1>5. /\ a.prompt = asked[r.u].prompt /\ a.acr = asked[r.u].acr /\ a.account = asked[r.u].account
        /\ a.lost = asked[r.u].lost /\ a.grant = asked[r.u].grant
        /\ a.result = IF Exists(r.u) THEN r.answer ELSE asked[r.u].result
    BY <1>1, <1>4, AskedFacts DEF Interaction
  <1>6. /\ asked'[r.u] = a /\ \A i \in Interactions \ {r.u} : asked'[i] = asked[i]
        /\ asked' \in [Interactions -> Interaction]
    BY <1>1, <1>3, <1>4, AskedFacts
  <1>7. \A i \in Interactions : asked[i].result.grant \in Grants \cup {Nil}
    BY AskedFacts DEF Interaction, Result, Answer
  <1>8. stale' \subseteq Grants
    BY <1>1, <1>3, <1>7 DEF Dropped, FlowInv, Typed, FlowTypeOK
  <1>9. Phase(r.u) = "leaving" /\ signin[r.u].holder = r.claim =>
          /\ r.claim # Nil /\ r.grant \in Grants /\ r.grant # Nil /\ saved[r.grant] # Nil
          /\ fruit[r.u] \subseteq leaked
    <2>1. SignInOK(r.u) BY <1>1 DEF FlowInv, SignIns
    <2>2. Phase(r.u) = "leaving" => signin[r.u].holder # Nil BY <2>1 DEF SignInOK, Phase
    <2>3. r.claim # Nil => r.grant # Nil /\ r.fresh BY <1>1
    <2>. QED BY <1>1, <2>2, <2>3 DEF VisitOK, AboutSignIn, AboutGrant
  <1>10. /\ fruit \in [Interactions -> SUBSET Grants] /\ fruit' \in [Interactions -> SUBSET Grants]
         /\ \A i \in Interactions \ {r.u} : fruit'[i] = fruit[i]
         /\ fruit'[r.u] = IF Phase(r.u) = "leaving" /\ signin[r.u].holder = r.claim
                          THEN fruit[r.u] \cup {r.grant} ELSE fruit[r.u]
    BY <1>1, <1>3, <1>9 DEF FlowInv, Typed
  <1>11. SignIns' BY SameSignIns DEF FlowInv
  <1>12. AllAsked'
    <2>. SUFFICES ASSUME NEW i \in Interactions PROVE AskedOK(i)' BY DEF AllAsked
    <2>1. CASE i # r.u
      <3>1. asked'[i] = asked[i] /\ AskedOK(i) BY <1>6, <2>1, AskedFacts
      <3>. QED BY <3>1 DEF AskedOK, Permits
    <2>2. CASE i = r.u /\ ~Exists(r.u)
      <3>1. asked'[i] = asked[i] /\ AskedOK(i) BY <1>4, <1>6, <2>2, AskedFacts
      <3>. QED BY <3>1 DEF AskedOK, Permits
    <2>3. CASE i = r.u /\ Exists(r.u)
      <3>1. asked'[i] = a /\ AskedOK(i) BY <1>6, <2>3, AskedFacts
      <3>2. a.prompt \notin {"none", "gone"} /\ a.result = r.answer BY <1>5, <2>3 DEF Exists
      <3>3. r.grant # Nil /\ saved[r.grant] # Nil => saved[r.grant] = r.answer.account
        BY DEF VisitOK, AboutGrant
      <3>4. r.answer.kind = "login" => /\ <<r.answer.account, r.answer.method>> \in proved[i]
                                       /\ r.answer.method \in a.acr
        BY <1>1, <1>5, <2>3, Things DEF VisitOK, AboutSignIn, AboutAsked, Permits
      <3>5. r.answer.kind = "consent" => r.answer.account = a.account
        BY <1>1, <1>5, <2>3, Things DEF VisitOK, AboutAsked
      <3>. QED BY <1>1, <1>5, <2>3, <3>1, <3>2, <3>3, <3>4, <3>5 DEF AskedOK, Permits
    <2>. QED BY <2>1, <2>2, <2>3
  <1>13. Fruits'
    <2>. SUFFICES ASSUME NEW i \in Interactions PROVE FruitOK(i)' BY DEF Fruits
    <2>1. FruitOK(i) BY DEF FlowInv, Fruits
    <2>2. CASE fruit'[i] = fruit[i] BY <2>1, <2>2 DEF FruitOK, Phase
    <2>3. CASE i = r.u /\ Phase(r.u) = "leaving" /\ signin[r.u].holder = r.claim
      BY <1>9, <1>10, <2>1, <2>3 DEF FruitOK, Phase
    <2>. QED BY <1>10, <2>2, <2>3
  <1>14. GrantServesItsOwner' BY DEF GrantServesItsOwner, FlowInv
  <1>15. \A u \in Interactions : Ages(u) BY <1>5, <1>6 DEF Ages
  <1>16. ASSUME NEW g \in Grants PROVE Kept(g) => Kept(g)'
    BY <1>3, Things DEF Kept, Dropped
  <1>17. r.grant # Nil => Kept(r.grant)'
    BY <1>1, <1>3, <1>5, <1>6 DEF Kept
  <1>18. r.claim # Nil /\ Phase(r.u) = "leaving" /\ signin[r.u].holder = r.claim
           => fruit'[r.u] \ leaked \subseteq {r.grant}
    BY <1>9, <1>10
  <1>19. ASSUME NEW w \in Visits, NEW t \in Visit, w # v, visit[w] = t,
                t.state # Nil => cookie'[t.state] \in {cookie[t.state], Nil}
         PROVE  Spares(t)
    <2>1. t.grant \in Grants \cup {Nil} /\ t.u \in Interactions \cup {Nil} BY DEF Visit
    <2>2. t.claim # Nil => r.claim # t.claim BY <1>19 DEF FlowInv, Apart
    <2>3. t.u # Nil /\ t.claim # Nil /\ signin[t.u].holder = t.claim => fruit'[t.u] = fruit[t.u]
      BY <1>10, <2>1, <2>2
    <2>. QED BY <1>15, <1>16, <1>19, <2>1, <2>3 DEF Spares, Ages
  <1>. QED
    BY <1>6, <1>8, <1>10, <1>11, <1>12, <1>13, <1>14, <1>15, <1>16, <1>17, <1>18, <1>19

LEMMA SaveAnswerKeeps ==
  ASSUME FlowInv, NEW v \in Visits, SaveAnswer(v), UNCHANGED about
  PROVE  FlowInv'
  <1>1. PICK r \in Visit : r = visit[v] BY VisitFacts
  <1>2. r.at = "write" /\ VisitOK(r) BY <1>1, VisitFacts DEF SaveAnswer, Here
  <1>3. r.u \in Interactions /\ r.kind # "callback" /\ (r.kind = "abort" => r.grant = Nil)
    BY <1>2 DEF VisitOK, VisitShape, AnswerShape, Made, Visit
  <1>4. UNCHANGED <<signin, via, challenged, proved, browser, saved, serves, leaked>>
    BY DEF SaveAnswer, storeVars
  <1>5. Counted BY <1>4, NoMishapCounts, MishapCounts DEF SaveAnswer, FlowInv
  <1>6. CASE UNCHANGED <<asked, stale, fruit>> /\ ~Writes(v)
    <2>1. UNCHANGED ReadVars BY <1>4, <1>6 DEF ReadVars
    <2>2. CASE r.kind = "abort"
      <3>1. Replies(v) BY <1>1, <1>6, <2>2 DEF SaveAnswer
      <3>. QED BY <1>1, <1>3, <1>5, <2>1, <2>2, <3>1, ReplyKeeps
    <2>3. CASE r.kind # "abort"
      <3>1. Goes(v, "undo") /\ UNCHANGED cookie BY <1>1, <1>6, <2>3 DEF SaveAnswer
      <3>2. PICK q \in Visit : q = [r EXCEPT !.at = "undo"] BY DEF Visit, Places
      <3>3. /\ q.at = "undo" /\ q.u = r.u /\ q.kind = r.kind /\ q.state = r.state
            /\ q.claim = r.claim /\ q.grant = r.grant /\ q.fresh = r.fresh /\ q.answer = r.answer
        BY <3>2 DEF Visit
      <3>4. VisitShape(q) BY <1>2, <2>3, <3>3 DEF VisitOK, VisitShape, Keeping, Made
      <3>5. AnswerShape(q) BY <1>2, <2>3, <3>3 DEF VisitOK, AnswerShape, Keeping, Made
      <3>6. AboutAsked(q) BY <1>2, <3>3 DEF VisitOK, AboutAsked
      <3>7. AboutSignIn(q) BY <1>2, <1>3, <3>3 DEF VisitOK, AboutSignIn
      <3>8. AboutGrant(q) BY <1>2, <3>3 DEF VisitOK, AboutGrant
      <3>9. VisitOK([r EXCEPT !.at = "undo"])
        BY <3>2, <3>4, <3>5, <3>6, <3>7, <3>8 DEF VisitOK
      <3>. QED BY <1>1, <1>5, <2>1, <3>1, <3>9, GoesKeeps DEF Places
    <2>. QED BY <2>2, <2>3
  <1>7. CASE Writes(v)
    <2>1. /\ asked' \in [Interactions -> Interaction] /\ stale' \subseteq Grants
          /\ fruit' \in [Interactions -> SUBSET Grants]
          /\ SignIns' /\ AllAsked' /\ Fruits' /\ GrantServesItsOwner'
          /\ \A u \in Interactions : Ages(u)
          /\ \A g \in Grants : Kept(g) => Kept(g)'
          /\ r.grant # Nil => Kept(r.grant)'
          /\ r.claim # Nil /\ Phase(r.u) = "leaving" /\ signin[r.u].holder = r.claim
               => fruit'[r.u] \ leaked \subseteq {r.grant}
          /\ \A w \in Visits, t \in Visit :
               /\ w # v /\ visit[w] = t
               /\ t.state # Nil => cookie'[t.state] \in {cookie[t.state], Nil}
               => Spares(t)
      BY <1>1, <1>2, <1>4, <1>7, WritesParts
    <2>2. ASSUME NEW g \in Grants, NEW new PROVE Remembers(g, r.grant, new)
      BY <1>4, <2>1, Things DEF Remembers
    <2>3. CASE Replies(v)
      <3>1. Does(v, NoVisit) /\ CookiesOf(v) /\ cookie' \in [Transactions -> Interactions \cup {Nil}]
        BY <2>3, ReplyCookies DEF Replies, FlowInv
      <3>2. Typed'
        BY <1>4, <1>5, <2>1, <3>1, NoVisitOK DEF FlowInv, Typed, FlowTypeOK, Counted, Does
      <3>3. ASSUME NEW w \in Visits, NEW t \in Visit, w # v, visit[w] = t PROVE Spares(t)
        <4>1. t.state \in Transactions \cup {Nil} BY DEF Visit
        <4>2. t.state # Nil => cookie'[t.state] \in {cookie[t.state], Nil}
          BY <3>1, <3>3, <4>1 DEF CookiesOf
        <4>. QED BY <2>1, <3>3, <4>2
      <3>. QED BY <1>1, <2>1, <2>2, <3>1, <3>2, <3>3, NoVisitOK, NoVisitStays, Moved
    <2>4. ASSUME NEW place \in {"finish", "undo"}, Goes(v, place), UNCHANGED cookie,
                 place = "finish" => r.claim # Nil, place = "undo" => r.kind # "abort"
          PROVE  FlowInv'
      <3>1. PICK q \in Visit : q = [r EXCEPT !.at = place] BY DEF Visit, Places
      <3>2. /\ q.at = place /\ q.u = r.u /\ q.kind = r.kind /\ q.state = r.state
            /\ q.claim = r.claim /\ q.grant = r.grant /\ q.fresh = r.fresh /\ q.answer = r.answer
        BY <3>1 DEF Visit
      <3>3. Does(v, q) BY <1>1, <2>4, <3>1 DEF Goes
      <3>4. r.kind # "abort" BY <1>2, <2>4 DEF VisitOK, AnswerShape, Keeping
      <3>5. VisitShape(q)' BY <1>2, <2>4, <3>2, <3>4 DEF VisitOK, VisitShape, Keeping, Made
      <3>6. AnswerShape(q)' BY <1>2, <2>4, <3>2, <3>4 DEF VisitOK, AnswerShape, Keeping, Made
      <3>7. AboutAsked(q)'
        <4>1. AboutAsked(r) /\ Ages(r.u) BY <1>2, <1>3, <2>1 DEF VisitOK
        <4>. QED BY <1>2, <3>2, <4>1 DEF AboutAsked, Ages, Exists, Permits
      <3>8. AboutSignIn(q)'
        <4>1. AboutSignIn(r) BY <1>2 DEF VisitOK
        <4>2. signin' = signin /\ leaked' = leaked /\ proved' = proved BY <1>4
        <4>3. (r.claim # Nil /\ Phase(r.u) = "leaving" /\ signin[r.u].holder = r.claim
                 => fruit[r.u] \ leaked \subseteq {r.grant})'
          BY <2>1, <4>2 DEF Phase
        <4>. QED BY <1>3, <2>4, <3>2, <4>1, <4>2, <4>3 DEF AboutSignIn, Phase
      <3>9. AboutGrant(q)'
        <4>1. AboutGrant(r) BY <1>2 DEF VisitOK
        <4>. QED BY <1>4, <2>1, <2>4, <3>2, <4>1 DEF AboutGrant
      <3>10. VisitOK(q)' BY <3>5, <3>6, <3>7, <3>8, <3>9 DEF VisitOK
      <3>11. Typed'
        BY <1>4, <1>5, <2>1, <2>4, <3>3 DEF FlowInv, Typed, FlowTypeOK, Counted, Does
      <3>12. q.fresh => visit[v].fresh /\ q.grant = visit[v].grant BY <1>1, <3>2
      <3>. QED BY <1>1, <2>1, <2>2, <2>4, <3>2, <3>3, <3>10, <3>11, <3>12, Moved
    <2>. QED BY <1>1, <2>3, <2>4 DEF SaveAnswer
  <1>. QED BY <1>6, <1>7 DEF SaveAnswer

--------------------------------------------------------------------------------
(* The invariant, and what follows from it. *)

LEMMA FlowInvInit == ASSUME FlowInit PROVE FlowInv
  <1>1. PICK g0 : saved = [[g \in Grants |-> Nil] EXCEPT ![g0] = browser] /\ serves = saved
    BY DEF FlowInit
  <1>2. /\ about \in {"answers", "transactions"} /\ browser \in Players \cup {Nil}
        /\ via = [u \in Interactions |-> Nil] /\ challenged = {}
        /\ visit = [v \in Visits |-> NoVisit] /\ mishaps = 0 /\ visits \in {0, 1}
        /\ proved = [u \in Interactions |-> {}] /\ fruit = [u \in Interactions |-> {}]
        /\ leaked = {} /\ stale = {} /\ signin = [i \in Interactions |-> Store!Closed]
        /\ cookie \in [Transactions -> Interactions \cup {Nil}]
    BY DEF FlowInit, Store!Init
  <1>3. saved \in [Grants -> Players \cup {Nil}] BY <1>1, <1>2
  <1>4. NoAnswer \in Result BY Things DEF NoAnswer, Result, Answer
  <1>5. /\ asked \in [Interactions -> Interaction]
        /\ \A u \in Interactions : /\ asked[u].grant = Nil /\ asked[u].account = Nil
                                   /\ asked[u].result = NoAnswer /\ asked[u].prompt \in {"none", "login"}
    <2>1. CASE asked = [u \in Interactions |-> NotAsked] BY <1>4, <2>1 DEF NotAsked, Interaction
    <2>2. CASE asked \in [Interactions ->
                 {[NotAsked EXCEPT !.prompt = "login", !.acr = acr] : acr \in Asks}]
      <3>1. ASSUME NEW acr \in Asks, NEW a, a = [NotAsked EXCEPT !.prompt = "login", !.acr = acr]
            PROVE  /\ a \in Interaction /\ a.grant = Nil /\ a.account = Nil
                   /\ a.result = NoAnswer /\ a.prompt = "login"
        BY <1>4, <3>1, FlowAssumption DEF NotAsked, Interaction
      <3>2. \A u \in Interactions : \E acr \in Asks :
              asked[u] = [NotAsked EXCEPT !.prompt = "login", !.acr = acr]
        BY <2>2
      <3>3. ASSUME NEW u \in Interactions
            PROVE  /\ asked[u] \in Interaction /\ asked[u].grant = Nil /\ asked[u].account = Nil
                   /\ asked[u].result = NoAnswer /\ asked[u].prompt = "login"
        <4>1. PICK acr \in Asks : asked[u] = [NotAsked EXCEPT !.prompt = "login", !.acr = acr]
          BY <3>2
        <4>. QED BY <3>1, <4>1
      <3>4. asked = [u \in Interactions |-> asked[u]] BY <2>2
      <3>5. asked \in [Interactions -> Interaction] BY <3>3, <3>4
      <3>. QED BY <3>3, <3>5
    <2>. QED BY <2>1, <2>2 DEF FlowInit
  <1>6. Typed
    <2>1. Store!Closed \in SignInRecord BY DEF Store!Closed, Store!At, SignInRecord
    <2>2. visits \in 0..MaxVisits /\ mishaps \in 0..MaxMishaps BY <1>2, Things
    <2>3. visit \in [Visits -> Visit] BY <1>2, NoVisitOK
    <2>4. via \in [Interactions -> Methods \cup {Nil}] /\ signin \in [Interactions -> SignInRecord]
      BY <1>2, <2>1
    <2>5. /\ proved \in [Interactions -> SUBSET (Players \X Methods)]
          /\ fruit \in [Interactions -> SUBSET Grants]
      BY <1>2
    <2>. QED BY <1>1, <1>2, <1>3, <1>5, <2>2, <2>3, <2>4, <2>5 DEF Typed, FlowTypeOK
  <1>7. SignIns BY <1>2 DEF SignIns, SignInOK, Store!Closed, Store!At
  <1>8. AllAsked BY <1>5, Things DEF AllAsked, AskedOK, NoAnswer
  <1>9. AllVisits BY <1>2, NoVisitOK DEF AllVisits
  <1>10. Apart BY <1>2, NoVisitOK DEF Apart
  <1>11. Fruits BY <1>2 DEF Fruits, FruitOK
  <1>12. NoGrantForgotten /\ GrantServesItsOwner
    BY <1>1 DEF NoGrantForgotten, GrantServesItsOwner
  <1>. QED BY <1>6, <1>7, <1>8, <1>9, <1>10, <1>11, <1>12 DEF FlowInv

LEMMA FlowInvStep == ASSUME FlowInv, FlowNext PROVE FlowInv'
  <1>. UNCHANGED about BY DEF FlowNext
  <1>1. ASSUME NEW u \in Interactions,
               \/ Authorize(u) \/ Resume(u) \/ ExpireInteraction(u) \/ ExpireSignIn(u)
               \/ TakeElsewhere(u) \/ BindElsewhere(u)
        PROVE  FlowInv'
    BY <1>1, AuthorizeKeeps, ResumeKeeps, ExpireInteractionKeeps, ExpireSignInKeeps,
       TakeElsewhereKeeps, BindElsewhereKeeps
  <1>2. ASSUME NEW x \in Transactions, ExpireTransaction(x) PROVE FlowInv'
    BY <1>2, ExpireTransactionKeeps
  <1>3. ASSUME NEW v \in Visits, Signs(v) PROVE FlowInv'
    BY <1>3, StartKeeps, InspectKeeps, StatusKeeps, AllocateKeeps, DiscardKeeps, ResetKeeps DEF Signs
  <1>4. ASSUME NEW v \in Visits, Returns(v) PROVE FlowInv'
    BY <1>4, FindKeeps, ExchangeKeeps, ResolveKeeps, BindKeeps DEF Returns
  <1>5. ASSUME NEW v \in Visits, Completes(v) PROVE FlowInv'
    BY <1>5, ClaimKeeps, DetailsKeeps, SaveGrantKeeps, LoadKeeps, SaveAnswerKeeps, UndoKeeps,
       GiveBackKeeps, FinishKeeps DEF Completes
  <1>6. ASSUME NEW v \in Visits, SwitchAccount(v) \/ Die(v) PROVE FlowInv'
    BY <1>6, SwitchAccountKeeps, DieKeeps
  <1>. QED BY <1>1, <1>2, <1>3, <1>4, <1>5, <1>6 DEF FlowNext

LEMMA FlowInvStutter == ASSUME FlowInv, UNCHANGED flowVars PROVE FlowInv'
  <1>. USE DEF flowVars, requestVars, storeVars
  <1>1. UNCHANGED ReadVars /\ UNCHANGED <<visit, cookie, challenged, visits, mishaps, about>>
    BY DEF ReadVars
  <1>2. Typed' BY DEF FlowInv, Typed, FlowTypeOK
  <1>3. SignIns' /\ AllAsked' /\ Fruits' /\ GrantServesItsOwner'
    BY SameSignIns, SameAsked, SameFruits DEF FlowInv, GrantServesItsOwner
  <1>4. AllVisits' BY <1>1, SameVisit DEF FlowInv, AllVisits
  <1>5. Apart' /\ NoGrantForgotten' BY DEF FlowInv, Apart, NoGrantForgotten
  <1>. QED BY <1>2, <1>3, <1>4, <1>5 DEF FlowInv

\* At every await of every request, and whatever is lost or expires, what is stored
\* agrees with what the requests go by.
THEOREM FlowInvAlways == FlowSpec => []FlowInv
  <1>1. FlowInit => FlowInv BY FlowInvInit
  <1>2. FlowInv /\ [FlowNext]_flowVars => FlowInv' BY FlowInvStep, FlowInvStutter
  <1>. QED BY <1>1, <1>2, PTL DEF FlowSpec

\* The library is answered only with the account that was proved for this interaction,
\* in a permitted way, and a session's grant is its account's (persistVerifiedResult,
\* persistConsent), for any number of interactions and requests.
THEOREM AnswersAlwaysInOrder == FlowSpec => []AnswersInOrder
  <1>1. FlowInv => AnswersInOrder
    BY DEF FlowInv, Typed, AllAsked, AskedOK, AnswersInOrder, AnsweredAsProved
  <1>. QED BY <1>1, FlowInvAlways, PTL

LEMMA OneGrant == ASSUME FlowInv PROVE OneGrantPerProof
  <1>. SUFFICES ASSUME NEW u \in Interactions
                PROVE  Cardinality({g \in fruit[u] \ leaked : saved[g] # Nil}) <= 1
    BY DEF OneGrantPerProof
  <1>1. PICK S : S = {g \in fruit[u] \ leaked : saved[g] # Nil} OBVIOUS
  <1>2. \A g, h \in S : g = h BY <1>1 DEF FlowInv, Fruits, FruitOK
  <1>3. S = {} \/ \E g : S = {g} BY <1>2
  <1>4. Cardinality(S) \in {0, 1} BY <1>3, FS_EmptySet, FS_Singleton
  <1>. QED BY <1>1, <1>4

\* Only a request that has made a grant takes it away.
LEMMA GrantsGo ==
  ASSUME FlowInv, [FlowNext]_flowVars, NEW g \in Grants, saved[g] # Nil, saved'[g] = Nil
  PROVE  \E v \in Visits : visit[v].grant = g /\ visit[v].fresh
  <1>1. saved' # saved OBVIOUS
  <1>2. PICK v \in Visits : SaveGrant(v) \/ Undo(v) \/ SwitchAccount(v) \/ Die(v)
    BY <1>1 DEF FlowNext, flowVars, requestVars, Authorize, Resume, ExpireInteraction, ExpireSignIn,
       TakeElsewhere, BindElsewhere, ExpireTransaction, Signs, Returns, Completes, StartVisit, Inspect,
       Status, Allocate, Discard, Reset, Find, Exchange, Resolve, Bind, Claim, Details, Load, SaveAnswer,
       GiveBack, Finish
  <1>3. PICK r \in Visit : r = visit[v] /\ VisitOK(r) BY VisitFacts
  <1>4. saved \in [Grants -> Players \cup {Nil}] BY DEF FlowInv, Typed, FlowTypeOK
  <1>5. CASE SaveGrant(v)
    <2>1. PICK h \in NewGrants : Saves(v, h) BY <1>1, <1>5 DEF SaveGrant
    <2>2. saved[h] = Nil BY NewIsUnknown
    <2>. QED BY <1>4, <2>1, <2>2 DEF Saves
  <1>6. CASE Undo(v) BY <1>1, <1>4, <1>6 DEF Undo, Undoes
  <1>7. CASE SwitchAccount(v) \/ Die(v) BY <1>1, <1>7 DEF SwitchAccount, Die
  <1>. QED BY <1>2, <1>5, <1>6, <1>7

\* Over any failures, no grant is forgotten, none is destroyed by a request that has not
\* made it, and one proof brings one (persistVerifiedResult, persistConsent).
THEOREM GrantsAlwaysKept == FlowSpec => GrantsAreKept
  <1>1. FlowInv => NoGrantForgotten /\ OneGrantPerProof BY OneGrant DEF FlowInv
  <1>2. FlowInv /\ FlowInv' /\ [FlowNext]_flowVars
          => /\ [NoGrantForgotten']_flowVars /\ [OneGrantPerProof']_flowVars
             /\ [\A g \in Grants : saved[g] # Nil /\ saved'[g] = Nil =>
                   \E v \in Visits : visit[v].grant = g /\ visit[v].fresh]_flowVars
    <2>. SUFFICES ASSUME FlowInv, FlowInv', [FlowNext]_flowVars
                  PROVE  /\ NoGrantForgotten' /\ OneGrantPerProof'
                         /\ \A g \in Grants : saved[g] # Nil /\ saved'[g] = Nil =>
                              \E v \in Visits : visit[v].grant = g /\ visit[v].fresh
      OBVIOUS
    <2>1. NoGrantForgotten' BY DEF FlowInv
    <2>2. OneGrantPerProof' BY <1>1, PTL
    <2>. QED BY <2>1, <2>2, GrantsGo
  <1>. QED BY <1>2, FlowInvAlways, PTL DEF FlowSpec, GrantsAreKept, FailureSparesGrants
=============================================================================
