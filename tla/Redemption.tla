------------------------------- MODULE Redemption -------------------------------
(***************************************************************************)
(* What the verification store promises the rest of the system, without    *)
(* TTLs, code keys, callers or retries: a sign-in is offered under a code  *)
(* no other sign-in is offered under, one claim takes it, and only that    *)
(* claim binds a player to it or offers it again; a bound player is handed *)
(* out under one claim at a time.  Any sign-ins may be closed at any time. *)
(***************************************************************************)
CONSTANTS Interactions, Codes, Players, Claims, None

VARIABLE signin

At(phase, code, holder, player) ==
  [phase |-> phase, code |-> code, holder |-> holder, player |-> player]

Closed == At("closed", None, None, None)

Init == signin = [i \in Interactions |-> Closed]

Unoffered(c) == \A i \in Interactions : signin[i].code # c

Unheld(h) == \A i \in Interactions : signin[i].holder # h

Moves(i, s) == signin' = [signin EXCEPT ![i] = s]

Offer(i, c) == /\ signin[i].phase = "closed"
               /\ Unoffered(c)
               /\ Moves(i, At("offered", c, None, None))

Take(i, h) == /\ signin[i].phase = "offered"
              /\ Unheld(h)
              /\ Moves(i, At("taken", None, h, None))

OfferAgain(i, c) == /\ signin[i].phase = "taken"
                    /\ Unoffered(c)
                    /\ Moves(i, At("offered", c, None, None))

Bind(i, p) == /\ signin[i].phase = "taken"
              /\ Moves(i, At("bound", None, None, p))

Leave(i, h) == /\ signin[i].phase = "bound"
               /\ Unheld(h)
               /\ Moves(i, At("leaving", None, h, signin[i].player))

Stay(i) == /\ signin[i].phase = "leaving"
           /\ Moves(i, At("bound", None, None, signin[i].player))

Close(S) == signin' = [i \in Interactions |-> IF i \in S THEN Closed ELSE signin[i]]

Next == \/ \E i \in Interactions :
             \/ \E c \in Codes : Offer(i, c) \/ OfferAgain(i, c)
             \/ \E h \in Claims : Take(i, h) \/ Leave(i, h)
             \/ \E p \in Players : Bind(i, p)
             \/ Stay(i)
        \/ \E S \in SUBSET Interactions : Close(S)

Spec == Init /\ [][Next]_signin
=============================================================================
