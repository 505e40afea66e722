------------------------------- MODULE GhostProofs -------------------------------
(***************************************************************************)
(* Proofs about the ghost server, for any connections, addresses and caps, *)
(* about the process it lives in, about what a client of any version is    *)
(* sent, and about the addresses that clients join with.                   *)
(*                                                                         *)
(* GhostInv is of each client by itself (ClientOK: a connection that is    *)
(* not there has no trace of a verification, one that has not shaken hands *)
(* has none yet, and why it was told what it was told), and of the server: *)
(* the connections that there are are finitely many and are those counted. *)
(* All but three handlers leave alone what is counted (Quiet).             *)
(*                                                                         *)
(* LifeInv is of the process: the connections the start has made are up    *)
(* until the API is closed, so the API is closed before what it uses, and  *)
(* what the order of closing has passed is closed, or failed to close.     *)
(*                                                                         *)
(* StreamInv is of the stream of packets: each packet is one the version   *)
(* understands, and what has gone before it is there.  An address is read  *)
(* in one step, of which the shape of a name (Shape) is what is left.      *)
(***************************************************************************)
EXTENDS GhostServer, Lifecycle, JoinStream, Hostnames, FiniteSetTheorems, SequenceTheorems, TLAPS

Live(x) == x.socket \in {"open", "closing"}
Verifies(x) == x.kind \in {"verification", "compat"}

\* What is known of one client.
ClientOK(x) ==
  /\ x \in Client
  /\ x.asking <= x.typed
  /\ Live(x) => x.from \in Addresses
  /\ ~ Live(x) => /\ x.kind = "none" /\ x.lookup = "none" /\ x.outcome = "none"
                  /\ x.proto = "handshake" /\ x.kick = None
  /\ x.proto = "handshake" => /\ x.kind = "none" /\ x.lookup = "none" /\ x.outcome = "none"
                              /\ x.asking = 0 /\ x.kick \notin {"success", "unavailable"}
  /\ x.outcome # "none" => Verifies(x)
  /\ x.outcome = "resolved" => x.lookup = "available"
  /\ x.kick = "success" => x.outcome = "resolved" \/ x.bound
  /\ x.kick = "unavailable" =>
       ~ Verifies(x) \/ x.lookup = "unavailable" \/ x.outcome = "unavailable"

\* A handler that leaves alone what is counted, and the reason if there is one.
Quiet(x, y) ==
  /\ ClientOK(y)
  /\ Live(y) <=> Live(x)
  /\ y.from = x.from
  /\ Verifies(y) <=> Verifies(x)
  /\ x.proto = "play" => y.proto = "play"
  /\ x.kick # None => y.kick = x.kick

LEMMA NewIsOK == NewClient \in Client /\ ClientOK(NewClient) /\ ~ Live(NewClient)
  <1>1. NewClient \in Client BY GhostAssumption DEF NewClient, Client
  <1>2. ~ Live(NewClient) BY DEF NewClient, Live
  <1>. QED BY <1>1, <1>2, GhostAssumption DEF ClientOK, NewClient, Verifies, Messages

LEMMA GoneIsOK == Gone \in Client /\ ClientOK(Gone) /\ ~ Live(Gone)
  <1>1. /\ Gone.socket = "ended" /\ Gone.from = None /\ Gone.proto = "handshake"
        /\ Gone.kind = "none" /\ Gone.lookup = "none" /\ Gone.outcome = "none"
        /\ Gone.kick = None /\ Gone.typed = 0 /\ Gone.asking = 0
    BY DEF Gone, NewClient
  <1>2. Gone \in Client BY NewIsOK DEF Gone, Client
  <1>3. ~ Live(Gone) BY <1>1 DEF Live
  <1>. QED BY <1>1, <1>2, <1>3, GhostAssumption DEF ClientOK, Verifies, Messages

\* What disconnect does to a client.
LEMMA DisconnectMoves ==
  ASSUME NEW x \in Client, NEW message \in Messages
  PROVE  LET y == Disconnect(x, message)
         IN /\ y \in Client
            /\ y.from = x.from /\ y.proto = x.proto /\ y.kind = x.kind
            /\ y.lookup = x.lookup /\ y.outcome = x.outcome
            /\ y.typed = x.typed /\ y.asking = x.asking /\ y.bound = x.bound
            /\ y.kick = (IF x.kick = None THEN message ELSE x.kick)
            /\ Live(x) => Live(y)
  <1>1. CASE x.kick # None
    <2>1. Disconnect(x, message) = x BY <1>1 DEF Disconnect
    <2>. QED BY <1>1, <2>1
  <1>2. CASE x.kick = None /\ x.proto \in {"config", "play"}
    <2>. DEFINE y == [x EXCEPT !.kick = message]
    <2>1. Disconnect(x, message) = y BY <1>2 DEF Disconnect
    <2>2. y \in Client BY DEF Client
    <2>3. y.socket = x.socket /\ y.kick = message BY DEF Client
    <2>. QED BY <1>2, <2>1, <2>2, <2>3 DEF Client, Live
  <1>3. CASE x.kick = None /\ x.proto \notin {"config", "play"}
    <2>. DEFINE z == [x EXCEPT !.kick = message]
                y == [z EXCEPT !.socket = "closing"]
    <2>1. Disconnect(x, message) = y BY <1>3 DEF Disconnect, EndWithReason
    <2>2. z \in Client /\ z.kick = message BY DEF Client
    <2>3. y \in Client /\ y.kick = message /\ y.socket = "closing"
      <3>. HIDE DEF z
      <3>. QED BY <2>2 DEF Client
    <2>. QED BY <1>3, <2>1, <2>2, <2>3 DEF Client, Live
  <1>. QED BY <1>1, <1>2, <1>3

\* A live client that is disconnected with a reason that is true.
LEMMA DisconnectIsQuiet ==
  ASSUME NEW x, ClientOK(x), Live(x), NEW message \in Messages,
         message = "success" => x.outcome = "resolved" \/ x.bound,
         message = "unavailable" =>
           ~ Verifies(x) \/ x.lookup = "unavailable" \/ x.outcome = "unavailable",
         x.proto = "handshake" => message \notin {"success", "unavailable"}
  PROVE  Quiet(x, Disconnect(x, message))
  <1>. DEFINE y == Disconnect(x, message)
  <1>1. x \in Client BY DEF ClientOK
  <1>2. /\ y \in Client
        /\ y.from = x.from /\ y.proto = x.proto /\ y.kind = x.kind
        /\ y.lookup = x.lookup /\ y.outcome = x.outcome
        /\ y.typed = x.typed /\ y.asking = x.asking /\ y.bound = x.bound
        /\ y.kick = (IF x.kick = None THEN message ELSE x.kick)
        /\ Live(y)
    BY <1>1, DisconnectMoves
  <1>. HIDE DEF y
  <1>3. Verifies(y) <=> Verifies(x) BY <1>2 DEF Verifies
  <1>4. ClientOK(y) BY <1>2, <1>3 DEF ClientOK
  <1>5. Quiet(x, y) BY <1>2, <1>3, <1>4 DEF Quiet
  <1>. QED BY <1>5 DEF y

LEMMA QuietTwice ==
  ASSUME NEW x, NEW y, NEW z, Quiet(x, z), Quiet(z, y)
  PROVE  Quiet(x, y)
  BY DEF Quiet

--------------------------------------------------------------------------------
(* The handlers of one client.                                             *)

\* What any of them does to its client.
Moved(c, y) == client' = [client EXCEPT ![c] = y]

QuietHandler(c) ==
  \/ \E h \in cap.hosts : JoinElsewhere(c, h[1], h[2]) \/ TooManyPending(c)
  \/ \E answer \in Answers : LookUp(c, answer)
  \/ Login(c)
  \/ \E result \in Results : Settle(c, result)
  \/ Finalize(c) \/ JoinWorld(c) \/ LifetimeEnds(c)
  \/ Chats(c) \/ ChatFails(c) \/ WorldIsReady(c) \/ WorldWaitEnds(c) \/ Fails(c)

\* In the lobby is who is there and in the world.
LobbyOK == \A c \in lobby : Live(client[c]) /\ client[c].proto = "play"

LEMMA HandlersAreQuiet ==
  ASSUME NEW c \in Clients, client \in [Clients -> Client], ClientOK(client[c]),
         c \in lobby => Live(client[c]),
         QuietHandler(c), cap \in Caps
  PROVE  /\ \E y \in Client : Moved(c, y) /\ Quiet(client[c], y)
         /\ UNCHANGED <<limits, lobby, server>>
  <1>. DEFINE x == client[c]
  <1>0. x \in Client /\ MaxTyped \in Nat BY GhostAssumption
  <1>. USE DEF Moved, Update
  <1>1. CASE \E h \in cap.hosts : JoinElsewhere(c, h[1], h[2]) \/ TooManyPending(c)
    <2>1. PICK h \in cap.hosts : JoinElsewhere(c, h[1], h[2]) \/ TooManyPending(c) BY <1>1
    <2>2. CASE TooManyPending(c)
      <3>. DEFINE y == [x EXCEPT !.proto = "stopped", !.socket = "closing"]
      <3>1. /\ Live(x) /\ x.proto = "handshake" /\ Moved(c, y) /\ UNCHANGED <<limits, lobby, server>>
        BY <2>2 DEF TooManyPending, Handshakes, Connected, Live
      <3>2. /\ y \in Client /\ Live(y) /\ y.proto = "stopped"
            /\ y.from = x.from /\ y.kind = x.kind /\ y.lookup = x.lookup /\ y.outcome = x.outcome
            /\ y.typed = x.typed /\ y.asking = x.asking /\ y.bound = x.bound /\ y.kick = x.kick
        BY <1>0 DEF Client, Live
      <3>. HIDE DEF y
      <3>3. Quiet(x, y) BY <3>1, <3>2 DEF Quiet, ClientOK, Verifies
      <3>. QED BY <3>1, <3>2, <3>3
    <2>3. CASE JoinElsewhere(c, h[1], h[2])
      <3>. DEFINE z == [x EXCEPT !.proto = "login"]
      <3>1. /\ Live(x) /\ x.proto = "handshake" /\ h[1] # "code" /\ UNCHANGED <<limits, lobby, server>>
        BY <2>3 DEF JoinElsewhere, Handshakes, Connected, Live
      <3>2. h[1] \in {"code", "lobby", "other", "ping"} /\ h[2] \in BOOLEAN
        BY GhostAssumption
      <3>3. /\ z \in Client /\ Live(z) /\ z.proto = "login"
            /\ z.from = x.from /\ z.kind = x.kind /\ z.lookup = x.lookup /\ z.outcome = x.outcome
            /\ z.typed = x.typed /\ z.asking = x.asking /\ z.bound = x.bound /\ z.kick = x.kick
        BY <1>0, <3>1 DEF Client, Live
      <3>. HIDE DEF z
      <3>4. Quiet(x, z) BY <3>1, <3>3 DEF Quiet, ClientOK, Verifies
      <3>5. /\ ClientOK(z) /\ z.kind = "none" /\ z.outcome = "none" /\ ~ Verifies(z)
        BY <3>1, <3>3, <3>4 DEF Quiet, ClientOK, Verifies
      <3>6. CASE h[1] = "ping"
        <4>. DEFINE y == [z EXCEPT !.proto = "ping"]
        <4>1. Moved(c, y) BY <2>3, <3>6 DEF JoinElsewhere, z
        <4>2. /\ y \in Client /\ Live(y) /\ y.proto = "ping"
              /\ y.from = z.from /\ y.kind = z.kind /\ y.lookup = z.lookup /\ y.outcome = z.outcome
              /\ y.typed = z.typed /\ y.asking = z.asking /\ y.bound = z.bound /\ y.kick = z.kick
          BY <3>3 DEF Client, Live
        <4>. HIDE DEF y
        <4>3. Quiet(z, y) BY <3>3, <3>5, <4>2 DEF Quiet, ClientOK, Verifies
        <4>4. Quiet(x, y) BY <3>4, <4>3, QuietTwice
        <4>. QED BY <3>1, <4>1, <4>2, <4>4
      <3>7. CASE h[1] # "ping" /\ ~ h[2]
        <4>. DEFINE v == [z EXCEPT !.proto = "stopped"]
                    y == Disconnect(v, "unsupported")
        <4>1. Moved(c, y) BY <2>3, <3>7 DEF JoinElsewhere, z
        <4>2. /\ v \in Client /\ Live(v) /\ v.proto = "stopped"
              /\ v.from = z.from /\ v.kind = z.kind /\ v.lookup = z.lookup /\ v.outcome = z.outcome
              /\ v.typed = z.typed /\ v.asking = z.asking /\ v.bound = z.bound /\ v.kick = z.kick
          BY <3>3 DEF Client, Live
        <4>. HIDE DEF v
        <4>3. Quiet(z, v) BY <3>3, <3>5, <4>2 DEF Quiet, ClientOK, Verifies
        <4>4. ClientOK(v) BY <4>3 DEF Quiet
        <4>5. Quiet(v, y) BY <4>2, <4>4, DisconnectIsQuiet DEF Messages
        <4>. HIDE DEF y
        <4>6. Quiet(x, y) BY <3>4, <4>3, <4>5, QuietTwice
        <4>. QED BY <3>1, <4>1, <4>6 DEF Quiet, ClientOK
      <3>8. CASE h[1] = "lobby" /\ h[2]
        <4>. DEFINE y == [z EXCEPT !.kind = "lobby"]
        <4>1. Moved(c, y) BY <2>3, <3>8 DEF JoinElsewhere, z
        <4>2. /\ y \in Client /\ Live(y) /\ y.kind = "lobby"
              /\ y.from = z.from /\ y.proto = z.proto /\ y.lookup = z.lookup /\ y.outcome = z.outcome
              /\ y.typed = z.typed /\ y.asking = z.asking /\ y.bound = z.bound /\ y.kick = z.kick
          BY <3>3 DEF Client, Live
        <4>. HIDE DEF y
        <4>3. Quiet(z, y) BY <3>3, <3>5, <4>2 DEF Quiet, ClientOK, Verifies
        <4>4. Quiet(x, y) BY <3>4, <4>3, QuietTwice
        <4>. QED BY <3>1, <4>1, <4>2, <4>4
      <3>9. CASE h[1] = "other" /\ h[2]
        <4>. DEFINE y == Disconnect(z, "unavailable")
        <4>1. Moved(c, y) BY <2>3, <3>9 DEF JoinElsewhere, z
        <4>2. Quiet(z, y) BY <3>3, <3>5, DisconnectIsQuiet DEF Messages
        <4>. HIDE DEF y
        <4>3. Quiet(x, y) BY <3>4, <4>2, QuietTwice
        <4>. QED BY <3>1, <4>1, <4>3 DEF Quiet, ClientOK
      <3>. QED BY <3>1, <3>2, <3>6, <3>7, <3>8, <3>9
    <2>. QED BY <2>1, <2>2, <2>3
  <1>2. CASE \E answer \in Answers : LookUp(c, answer)
    <2>1. PICK answer \in Answers : LookUp(c, answer) BY <1>2
    <2>. DEFINE z == [x EXCEPT !.lookup = answer]
    <2>2. x.lookup = "asked" /\ UNCHANGED <<limits, lobby, server>> BY <2>1 DEF LookUp
    <2>3. Live(x) /\ x.proto # "handshake" /\ x.outcome # "resolved" BY <2>2 DEF ClientOK
    <2>4. answer \in {"available", "unavailable", "error"} BY DEF Answers
    <2>5. /\ z \in Client /\ Live(z) /\ z.lookup = answer
          /\ z.from = x.from /\ z.kind = x.kind /\ z.proto = x.proto /\ z.outcome = x.outcome
          /\ z.typed = x.typed /\ z.asking = x.asking /\ z.bound = x.bound /\ z.kick = x.kick
      BY <1>0, <2>3, <2>4 DEF Client, Live
    <2>. HIDE DEF z
    <2>6. Quiet(x, z) /\ ClientOK(z) BY <2>2, <2>3, <2>4, <2>5 DEF Quiet, ClientOK, Verifies
    <2>7. CASE LoggedIn(c) \/ answer = "available"
      <3>1. Moved(c, z) BY <2>1, <2>7 DEF LookUp, z
      <3>. QED BY <2>2, <2>5, <2>6, <3>1
    <2>8. CASE ~ LoggedIn(c) /\ answer = "unavailable"
      <3>1. Moved(c, Disconnect(z, "unavailable")) BY <2>1, <2>8 DEF LookUp, z
      <3>2. Quiet(z, Disconnect(z, "unavailable"))
        BY <2>3, <2>5, <2>6, <2>8, DisconnectIsQuiet DEF Messages
      <3>3. Quiet(x, Disconnect(z, "unavailable")) BY <2>6, <3>2, QuietTwice
      <3>. QED BY <2>2, <3>1, <3>3 DEF Quiet, ClientOK
    <2>9. CASE ~ LoggedIn(c) /\ answer = "error"
      <3>1. Moved(c, Disconnect(z, "failure")) BY <2>1, <2>9 DEF LookUp, z
      <3>2. Quiet(z, Disconnect(z, "failure")) BY <2>5, <2>6, DisconnectIsQuiet DEF Messages
      <3>3. Quiet(x, Disconnect(z, "failure")) BY <2>6, <3>2, QuietTwice
      <3>. QED BY <2>2, <3>1, <3>3 DEF Quiet, ClientOK
    <2>. QED BY <2>4, <2>7, <2>8, <2>9
  <1>3. CASE Login(c)
    <2>. DEFINE y == [x EXCEPT !.proto = IF x.kind = "compat" THEN "login" ELSE "config",
                               !.outcome = IF Counted(c) THEN "asked" ELSE "none"]
    <2>1. /\ Live(x) /\ x.proto = "login" /\ x.outcome = "none"
          /\ Moved(c, y) /\ UNCHANGED <<limits, lobby, server>>
      BY <1>3 DEF Login, Connected, Live
    <2>2. /\ y \in Client /\ Live(y) /\ y.proto \in {"login", "config"}
          /\ y.outcome \in {"asked", "none"} /\ (y.outcome = "asked" => Counted(c))
          /\ y.from = x.from /\ y.kind = x.kind /\ y.lookup = x.lookup
          /\ y.typed = x.typed /\ y.asking = x.asking /\ y.bound = x.bound /\ y.kick = x.kick
      BY <1>0, <2>1 DEF Client, Live
    <2>. HIDE DEF y
    <2>3. Quiet(x, y) BY <2>1, <2>2 DEF Quiet, ClientOK, Verifies, Counted
    <2>. QED BY <2>1, <2>2, <2>3
  <1>4. CASE \E result \in Results : Settle(c, result)
    <2>1. PICK result \in Results : Settle(c, result) BY <1>4
    <2>. DEFINE y == [x EXCEPT !.outcome = result]
    <2>2. /\ x.outcome = "asked" /\ x.lookup \notin {"none", "asked"}
          /\ x.lookup # "available" => result = "unavailable"
          /\ Moved(c, y) /\ UNCHANGED <<limits, lobby, server>>
      BY <2>1 DEF Settle
    <2>3. Live(x) /\ x.proto # "handshake" BY <2>2 DEF ClientOK
    <2>4. result \in {"resolved", "unavailable", "failure"} BY DEF Results
    <2>5. /\ y \in Client /\ Live(y) /\ y.outcome = result
          /\ y.from = x.from /\ y.kind = x.kind /\ y.proto = x.proto /\ y.lookup = x.lookup
          /\ y.typed = x.typed /\ y.asking = x.asking /\ y.bound = x.bound /\ y.kick = x.kick
      BY <1>0, <2>3, <2>4 DEF Client, Live, Results
    <2>. HIDE DEF y
    <2>6. Quiet(x, y) BY <2>2, <2>3, <2>4, <2>5 DEF Quiet, ClientOK, Verifies
    <2>. QED BY <2>2, <2>5, <2>6
  <1>5. CASE Finalize(c)
    <2>. DEFINE m == IF x.outcome = "resolved" THEN "success" ELSE x.outcome
    <2>1. /\ x.outcome \in Results /\ Moved(c, Disconnect(x, m)) /\ UNCHANGED <<limits, lobby, server>>
      BY <1>5 DEF Finalize
    <2>2. Live(x) /\ x.proto # "handshake" BY <2>1 DEF ClientOK, Results
    <2>3. /\ m \in Messages /\ (m = "success" => x.outcome = "resolved")
          /\ (m = "unavailable" => x.outcome = "unavailable")
      BY <2>1 DEF Messages, Results
    <2>. HIDE DEF m
    <2>4. Quiet(x, Disconnect(x, m)) BY <2>2, <2>3, DisconnectIsQuiet
    <2>. QED BY <2>1, <2>4 DEF Quiet, ClientOK
  <1>6. CASE JoinWorld(c)
    <2>. DEFINE z == [x EXCEPT !.proto = "play"]
    <2>1. Live(x) /\ x.proto = "config" /\ UNCHANGED <<limits, lobby, server>>
      BY <1>6 DEF JoinWorld, Joins, Connected, Live
    <2>2. /\ z \in Client /\ Live(z) /\ z.proto = "play"
          /\ z.from = x.from /\ z.kind = x.kind /\ z.lookup = x.lookup /\ z.outcome = x.outcome
          /\ z.typed = x.typed /\ z.asking = x.asking /\ z.bound = x.bound /\ z.kick = x.kick
      BY <1>0, <2>1 DEF Client, Live
    <2>. HIDE DEF z
    <2>3. Quiet(x, z) /\ ClientOK(z) BY <2>1, <2>2 DEF Quiet, ClientOK, Verifies
    <2>4. CASE Counted(c)
      <3>1. Moved(c, z) BY <1>6, <2>4 DEF JoinWorld, z
      <3>. QED BY <2>1, <2>2, <2>3, <3>1
    <2>5. CASE ~ Counted(c)
      <3>1. Moved(c, Disconnect(z, "unavailable")) BY <1>6, <2>5 DEF JoinWorld, z
      <3>2. ~ Verifies(z) BY <2>2, <2>5 DEF Counted, Verifies
      <3>3. Quiet(z, Disconnect(z, "unavailable"))
        BY <2>2, <2>3, <3>2, DisconnectIsQuiet DEF Messages
      <3>4. Quiet(x, Disconnect(z, "unavailable")) BY <2>3, <3>3, QuietTwice
      <3>. QED BY <2>1, <3>1, <3>4 DEF Quiet, ClientOK
    <2>. QED BY <2>4, <2>5
  <1>7. CASE LifetimeEnds(c)
    <2>1. Live(x) /\ Moved(c, Disconnect(x, "timeout")) /\ UNCHANGED <<limits, lobby, server>>
      BY <1>7 DEF LifetimeEnds
    <2>2. Quiet(x, Disconnect(x, "timeout")) BY <2>1, DisconnectIsQuiet DEF Messages
    <2>. QED BY <2>1, <2>2 DEF Quiet, ClientOK
  <1>8. CASE Chats(c)
    <2>. DEFINE y == [x EXCEPT !.typed = x.typed + 1, !.asking = x.asking + 1]
    <2>1. /\ Live(x) /\ x.proto = "play" /\ x.typed < MaxTyped
          /\ Moved(c, y) /\ UNCHANGED <<limits, lobby, server>>
      BY <1>8 DEF Chats, Connected, Live
    <2>2. x.typed \in Nat /\ x.asking \in Nat /\ x.asking <= x.typed BY <1>0 DEF Client, ClientOK
    <2>3. x.typed + 1 \in 0..MaxTyped /\ x.asking + 1 \in 0..MaxTyped BY <1>0, <2>1, <2>2
    <2>4. /\ y \in Client /\ Live(y) /\ y.typed = x.typed + 1 /\ y.asking = x.asking + 1
          /\ y.from = x.from /\ y.kind = x.kind /\ y.lookup = x.lookup /\ y.outcome = x.outcome
          /\ y.proto = x.proto /\ y.bound = x.bound /\ y.kick = x.kick
      BY <1>0, <2>1, <2>3 DEF Client, Live
    <2>. HIDE DEF y
    <2>5. Quiet(x, y) BY <2>1, <2>2, <2>4 DEF Quiet, ClientOK, Verifies
    <2>. QED BY <2>1, <2>4, <2>5
  <1>9. CASE ChatFails(c)
    <2>. DEFINE y == [x EXCEPT !.asking = x.asking - 1]
    <2>1. x.asking > 0 /\ Moved(c, y) /\ UNCHANGED <<limits, lobby, server>> BY <1>9 DEF ChatFails
    <2>2. /\ Live(x) /\ x.typed \in Nat /\ x.asking \in 0..MaxTyped /\ x.asking <= x.typed
      BY <1>0, <2>1 DEF Client, ClientOK
    <2>3. x.asking - 1 \in 0..MaxTyped BY <1>0, <2>1, <2>2
    <2>4. /\ y \in Client /\ Live(y) /\ y.typed = x.typed /\ y.asking = x.asking - 1
          /\ y.from = x.from /\ y.kind = x.kind /\ y.lookup = x.lookup /\ y.outcome = x.outcome
          /\ y.proto = x.proto /\ y.bound = x.bound /\ y.kick = x.kick
      BY <1>0, <2>2, <2>3 DEF Client, Live
    <2>. HIDE DEF y
    <2>5. Quiet(x, y) BY <2>1, <2>2, <2>4 DEF Quiet, ClientOK, Verifies
    <2>. QED BY <2>1, <2>4, <2>5
  <1>10. CASE WorldIsReady(c) \/ WorldWaitEnds(c)
    <2>. DEFINE y == EndWithReason(x)
    <2>1. /\ x.socket = "open" /\ Moved(c, y) /\ UNCHANGED <<limits, lobby, server>>
      BY <1>10 DEF WorldIsReady, WorldWaitEnds, Waits
    <2>2. Live(x) BY <2>1 DEF Live
    <2>3. /\ y \in Client /\ Live(y) /\ y.typed = x.typed /\ y.asking = x.asking
          /\ y.from = x.from /\ y.kind = x.kind /\ y.lookup = x.lookup /\ y.outcome = x.outcome
          /\ y.proto = x.proto /\ y.bound = x.bound /\ y.kick = x.kick
      BY <1>0 DEF Client, Live, EndWithReason
    <2>. HIDE DEF y
    <2>4. Quiet(x, y) BY <2>2, <2>3 DEF Quiet, ClientOK, Verifies
    <2>. QED BY <2>1, <2>3, <2>4
  <1>11. CASE Fails(c)
    <2>1. Live(x) /\ Moved(c, Disconnect(x, "failure")) /\ UNCHANGED <<limits, lobby, server>>
      BY <1>11 DEF Fails, Connected, Live
    <2>2. Quiet(x, Disconnect(x, "failure")) BY <2>1, DisconnectIsQuiet DEF Messages
    <2>. QED BY <2>1, <2>2 DEF Quiet, ClientOK
  <1>. QED
    BY <1>1, <1>2, <1>3, <1>4, <1>5, <1>6, <1>7, <1>8, <1>9, <1>10, <1>11, Zenon
    DEF QuietHandler

--------------------------------------------------------------------------------
(* The connections that are counted.                                       *)

Around == {c \in Clients : Live(client[c])}
From(a) == {c \in Clients : Live(client[c]) /\ client[c].from = a}
Verifying(a) == {c \in Clients : Live(client[c]) /\ client[c].from = a /\ Verifies(client[c])}

CountsOK ==
  /\ IsFiniteSet(Around)
  /\ active = Cardinality(Around) /\ active <= cap.connections
  /\ \A a \in Addresses :
       /\ byAddress[a] = Cardinality(From(a)) /\ byAddress[a] <= cap.perAddress
       /\ pendingBy[a] = Cardinality(Verifying(a)) /\ pendingBy[a] <= cap.pending

LimitsTyped ==
  /\ cap \in Caps /\ active \in Nat
  /\ byAddress \in [Addresses -> Nat] /\ pendingBy \in [Addresses -> Nat]

LEMMA CountsAreThose == CountsOK => CountsMatch
  <1>. DEFINE open(a) == {c \in Clients : Connected(c) /\ client[c].from = a}
  <1>1. {c \in Clients : Connected(c)} = Around BY DEF Around, Live, Connected
  <1>2. \A a \in Addresses : open(a) = From(a) BY DEF From, Live, Connected
  <1>3. \A a \in Addresses : {c \in open(a) : Counted(c)} = Verifying(a)
    BY DEF Verifying, Live, Verifies, Connected, Counted
  <1>. QED BY <1>1, <1>2, <1>3 DEF CountsOK, CountsMatch

LEMMA CapsAreNumbers ==
  ASSUME cap \in Caps
  PROVE  /\ cap.connections \in Nat /\ cap.perAddress \in Nat
         /\ cap.pending \in Nat /\ cap.seats \in Nat
  BY GhostAssumption

LEMMA FiniteParts ==
  ASSUME IsFiniteSet(Around), NEW a
  PROVE  IsFiniteSet(From(a)) /\ IsFiniteSet(Verifying(a))
  <1>1. From(a) \subseteq Around /\ Verifying(a) \subseteq Around
    BY DEF Around, From, Verifying
  <1>. QED BY <1>1, FS_Subset

\* One client moves, and the others stay as they are.
LEMMA OneMoves ==
  ASSUME NEW c \in Clients, client \in [Clients -> Client],
         \A d \in Clients : ClientOK(client[d]), NEW y, ClientOK(y), Moved(c, y)
  PROVE  /\ client' \in [Clients -> Client]
         /\ \A d \in Clients : ClientOK(client'[d])
         /\ client'[c] = y
         /\ \A d \in Clients \ {c} : client'[d] = client[d]
  <1>1. y \in Client BY DEF ClientOK
  <1>2. client'[c] = y /\ \A d \in Clients \ {c} : client'[d] = client[d] BY DEF Moved
  <1>3. client' \in [Clients -> Client] BY <1>1 DEF Moved
  <1>. QED BY <1>2, <1>3

\* Who is there, from where and what for stays as it is.
LEMMA SameCounts ==
  ASSUME CountsOK, LimitsTyped, UNCHANGED limits,
         \A d \in Clients : /\ Live(client'[d]) <=> Live(client[d])
                            /\ client'[d].from = client[d].from
                            /\ Verifies(client'[d]) <=> Verifies(client[d])
  PROVE  CountsOK' /\ LimitsTyped'
  <1>1. Around' = Around BY DEF Around
  <1>2. \A a : From(a)' = From(a) BY DEF From
  <1>3. \A a : Verifying(a)' = Verifying(a) BY DEF Verifying
  <1>4. cap' = cap /\ active' = active /\ byAddress' = byAddress /\ pendingBy' = pendingBy
    BY DEF limits
  <1>5. CountsOK' BY <1>1, <1>2, <1>3, <1>4 DEF CountsOK
  <1>. QED BY <1>4, <1>5 DEF LimitsTyped

LEMMA AdmitCounts ==
  ASSUME NEW c \in Clients, NEW a \in Addresses, client \in [Clients -> Client],
         CountsOK, LimitsTyped, Admit(c, a), ClientOK(client[c])
  PROVE  CountsOK' /\ LimitsTyped'
  <1>. DEFINE x == client[c]
              y == [x EXCEPT !.socket = "open", !.from = a]
  <1>1. /\ x.socket = "new" /\ ~ Full(a) /\ Moved(c, y) /\ cap' = cap
        /\ active' = active + 1 /\ byAddress' = [byAddress EXCEPT ![a] = byAddress[a] + 1]
        /\ pendingBy' = pendingBy
    BY DEF Admit, Arrives, Update, Moved
  <1>2. ~ Live(x) /\ ~ Verifies(x) BY <1>1 DEF Live, Verifies, ClientOK
  <1>3. Live(y) /\ y.from = a /\ y.kind = x.kind BY DEF Client, Live, ClientOK
  <1>4. ~ Verifies(y) BY <1>2, <1>3 DEF Verifies
  <1>. HIDE DEF y
  <1>5. client'[c] = y /\ \A d \in Clients \ {c} : client'[d] = client[d] BY <1>1 DEF Moved
  <1>6. Around' = Around \cup {c} /\ c \notin Around BY <1>2, <1>3, <1>5 DEF Around
  <1>7. From(a)' = From(a) \cup {c} /\ c \notin From(a) BY <1>2, <1>3, <1>5 DEF From
  <1>8. \A b \in Addresses \ {a} : From(b)' = From(b) BY <1>2, <1>3, <1>5 DEF From
  <1>9. \A b \in Addresses : Verifying(b)' = Verifying(b)
    BY <1>2, <1>4, <1>5, <1>7, <1>8 DEF Verifying
  <1>10. /\ IsFiniteSet(Around') /\ Cardinality(Around') = Cardinality(Around) + 1
    BY <1>6, FS_AddElement DEF CountsOK
  <1>11. Cardinality(From(a)') = Cardinality(From(a)) + 1
    BY <1>7, FiniteParts, FS_AddElement DEF CountsOK
  <1>12. active + 1 <= cap.connections /\ byAddress[a] + 1 <= cap.perAddress
    BY <1>1, CapsAreNumbers DEF Full, LimitsTyped
  <1>13. LimitsTyped' BY <1>1 DEF LimitsTyped
  <1>14. \A b \in Addresses :
           /\ byAddress'[b] = Cardinality(From(b)') /\ byAddress'[b] <= cap.perAddress
           /\ pendingBy'[b] = Cardinality(Verifying(b)') /\ pendingBy'[b] <= cap.pending
    BY <1>1, <1>8, <1>9, <1>11, <1>12 DEF CountsOK, LimitsTyped
  <1>15. CountsOK' BY <1>1, <1>10, <1>12, <1>14 DEF CountsOK
  <1>. QED BY <1>13, <1>15

LEMMA EndsCounts ==
  ASSUME NEW c \in Clients, client \in [Clients -> Client],
         CountsOK, LimitsTyped, Ends(c), ClientOK(client[c])
  PROVE  CountsOK' /\ LimitsTyped'
  <1>. DEFINE x == client[c]
  <1>0. PICK a \in Addresses : a = x.from
    BY DEF Ends, Connected, Live, ClientOK
  <1>1. /\ Live(x) /\ Moved(c, Gone) /\ cap' = cap
        /\ active' = active - 1 /\ byAddress' = [byAddress EXCEPT ![a] = byAddress[a] - 1]
        /\ pendingBy' = IF Counted(c) THEN [pendingBy EXCEPT ![a] = pendingBy[a] - 1] ELSE pendingBy
    BY <1>0 DEF Ends, Connected, Update, Moved, Live
  <1>3. Counted(c) <=> Verifies(x) BY DEF Counted, Verifies
  <1>4. client'[c] = Gone /\ \A d \in Clients \ {c} : client'[d] = client[d] BY <1>1 DEF Moved
  <1>5. ~ Live(Gone) BY GoneIsOK
  <1>6. Around' = Around \ {c} /\ c \in Around BY <1>1, <1>4, <1>5 DEF Around
  <1>7. From(a)' = From(a) \ {c} /\ c \in From(a) BY <1>0, <1>1, <1>4, <1>5 DEF From
  <1>8. \A b \in Addresses \ {a} : From(b)' = From(b) /\ c \notin From(b)
    BY <1>0, <1>1, <1>4, <1>5 DEF From
  <1>9. Verifying(a)' = Verifying(a) \ {c} /\ (c \in Verifying(a) <=> Verifies(x))
    BY <1>0, <1>1, <1>4, <1>5 DEF Verifying
  <1>10. \A b \in Addresses \ {a} : Verifying(b)' = Verifying(b)
    BY <1>0, <1>1, <1>4, <1>5 DEF Verifying
  <1>11. IsFiniteSet(Around') /\ Cardinality(Around') = Cardinality(Around) - 1
    BY <1>6, FS_RemoveElement DEF CountsOK
  <1>12. Cardinality(From(a)') = Cardinality(From(a)) - 1
    BY <1>7, FiniteParts, FS_RemoveElement DEF CountsOK
  <1>13. Cardinality(Verifying(a)') = IF Verifies(x) THEN Cardinality(Verifying(a)) - 1
                                      ELSE Cardinality(Verifying(a))
    <2>1. CASE Verifies(x) BY <1>9, <2>1, FiniteParts, FS_RemoveElement DEF CountsOK
    <2>2. CASE ~ Verifies(x)
      <3>1. Verifying(a)' = Verifying(a) BY <1>9, <2>2
      <3>. QED BY <2>2, <3>1
    <2>. QED BY <2>1, <2>2
  <1>14. /\ active' \in Nat /\ active' = Cardinality(Around')
         /\ active' <= cap.connections
    <2>1. Cardinality(Around') \in Nat BY <1>11, FS_CardinalityType
    <2>. QED BY <1>1, <1>11, <2>1, CapsAreNumbers DEF CountsOK, LimitsTyped
  <1>15. /\ byAddress[a] - 1 \in Nat /\ byAddress[a] - 1 = Cardinality(From(a)')
         /\ byAddress[a] - 1 <= cap.perAddress
    <2>1. Cardinality(From(a)') \in Nat BY <1>7, FiniteParts, FS_RemoveElement, FS_CardinalityType DEF CountsOK
    <2>. QED BY <1>12, <2>1, CapsAreNumbers DEF CountsOK, LimitsTyped
  <1>16. /\ pendingBy'[a] \in Nat /\ pendingBy'[a] = Cardinality(Verifying(a)')
         /\ pendingBy'[a] <= cap.pending
    <2>1. Cardinality(Verifying(a)') \in Nat
      BY <1>9, FiniteParts, FS_RemoveElement, FS_CardinalityType, FS_Subset DEF CountsOK
    <2>2. pendingBy'[a] = IF Verifies(x) THEN pendingBy[a] - 1 ELSE pendingBy[a]
      BY <1>1, <1>3 DEF LimitsTyped
    <2>. QED BY <1>13, <2>1, <2>2, CapsAreNumbers DEF CountsOK, LimitsTyped
  <1>. HIDE DEF x
  <1>17. byAddress' \in [Addresses -> Nat] /\ byAddress'[a] = byAddress[a] - 1
         /\ \A b \in Addresses \ {a} : byAddress'[b] = byAddress[b]
    BY <1>1, <1>15 DEF LimitsTyped
  <1>18. /\ \A b \in Addresses \ {a} : pendingBy'[b] = pendingBy[b]
         /\ pendingBy' \in [Addresses -> Nat]
    <2>1. CASE Counted(c)
      <3>1. pendingBy' = [pendingBy EXCEPT ![a] = pendingBy[a] - 1] BY <1>1, <2>1
      <3>2. pendingBy[a] - 1 \in Nat BY <1>16, <3>1 DEF LimitsTyped
      <3>. QED BY <3>1, <3>2 DEF LimitsTyped
    <2>2. CASE ~ Counted(c) BY <1>1, <2>2 DEF LimitsTyped
    <2>. QED BY <2>1, <2>2
  <1>19. LimitsTyped' BY <1>1, <1>14, <1>17, <1>18 DEF LimitsTyped
  <1>20. \A b \in Addresses :
           /\ byAddress'[b] = Cardinality(From(b)') /\ byAddress'[b] <= cap.perAddress
           /\ pendingBy'[b] = Cardinality(Verifying(b)') /\ pendingBy'[b] <= cap.pending
    <2>. TAKE b \in Addresses
    <2>1. CASE b = a BY <1>15, <1>16, <1>17, <2>1
    <2>2. CASE b # a
      <3>1. From(b)' = From(b) /\ Verifying(b)' = Verifying(b) BY <1>8, <1>10, <2>2
      <3>2. byAddress'[b] = byAddress[b] /\ pendingBy'[b] = pendingBy[b] BY <1>17, <1>18, <2>2
      <3>. QED BY <3>1, <3>2 DEF CountsOK
    <2>. QED BY <2>1, <2>2
  <1>21. CountsOK' BY <1>1, <1>11, <1>14, <1>20 DEF CountsOK
  <1>. QED BY <1>19, <1>21

LEMMA JoinCounts ==
  ASSUME NEW c \in Clients, NEW known \in BOOLEAN, client \in [Clients -> Client],
         CountsOK, LimitsTyped, JoinWithCode(c, known), ClientOK(client[c])
  PROVE  /\ CountsOK' /\ LimitsTyped'
         /\ \E y : /\ Moved(c, y) /\ ClientOK(y) /\ y.kick = client[c].kick
                   /\ Live(y)
         /\ client[c].proto = "handshake"
  <1>. DEFINE x == client[c]
              y == [x EXCEPT !.proto = "login", !.lookup = "asked",
                             !.kind = IF known THEN "verification" ELSE "compat"]
  <1>0. PICK a \in Addresses : a = x.from
    BY DEF JoinWithCode, Handshakes, Connected, Live, ClientOK
  <1>1. /\ Live(x) /\ x.proto = "handshake" /\ Moved(c, y) /\ cap' = cap
        /\ active' = active /\ byAddress' = byAddress
        /\ pendingBy[a] < cap.pending
        /\ pendingBy' = [pendingBy EXCEPT ![a] = pendingBy[a] + 1]
    BY <1>0 DEF JoinWithCode, Handshakes, Connected, Update, Moved, Live
  <1>2. x \in Client /\ ~ Verifies(x) BY <1>1 DEF ClientOK, Verifies
  <1>3. /\ y \in Client /\ Live(y) /\ y.proto = "login" /\ y.lookup = "asked"
        /\ y.kind \in {"verification", "compat"}
        /\ y.from = x.from /\ y.outcome = x.outcome
        /\ y.typed = x.typed /\ y.asking = x.asking /\ y.bound = x.bound /\ y.kick = x.kick
    BY <1>1, <1>2 DEF Client, Live
  <1>. HIDE DEF y
  <1>4. Verifies(y) /\ ClientOK(y) BY <1>1, <1>3 DEF Verifies, ClientOK
  <1>5. client'[c] = y /\ \A d \in Clients \ {c} : client'[d] = client[d] BY <1>1 DEF Moved
  <1>6. Around' = Around BY <1>1, <1>3, <1>5 DEF Around
  <1>7. \A b : From(b)' = From(b) BY <1>1, <1>3, <1>5 DEF From
  <1>8. c \in From(a) /\ \A b \in Addresses \ {a} : c \notin From(b) BY <1>0, <1>1 DEF From
  <1>9. Verifying(a)' = Verifying(a) \cup {c} /\ c \notin Verifying(a)
    BY <1>0, <1>1, <1>2, <1>3, <1>4, <1>5 DEF Verifying
  <1>10. \A b \in Addresses \ {a} : Verifying(b)' = Verifying(b)
    BY <1>0, <1>1, <1>3, <1>5 DEF Verifying
  <1>11. Cardinality(Verifying(a)') = Cardinality(Verifying(a)) + 1
    BY <1>9, FiniteParts, FS_AddElement DEF CountsOK
  <1>. HIDE DEF x
  <1>12. LimitsTyped' BY <1>1, <1>2 DEF LimitsTyped
  <1>13. \A b \in Addresses :
           /\ byAddress'[b] = Cardinality(From(b)') /\ byAddress'[b] <= cap.perAddress
           /\ pendingBy'[b] = Cardinality(Verifying(b)') /\ pendingBy'[b] <= cap.pending
    <2>. TAKE b \in Addresses
    <2>1. byAddress'[b] = Cardinality(From(b)') /\ byAddress'[b] <= cap.perAddress
      BY <1>1, <1>7 DEF CountsOK
    <2>2. CASE b = a
      <3>1. pendingBy'[b] = pendingBy[b] + 1 /\ pendingBy[b] \in Nat BY <1>1, <2>2 DEF LimitsTyped
      <3>2. pendingBy'[b] = Cardinality(Verifying(b)') BY <1>11, <2>2, <3>1 DEF CountsOK
      <3>3. pendingBy'[b] <= cap.pending BY <1>1, <2>2, <3>1, CapsAreNumbers DEF LimitsTyped
      <3>. QED BY <1>1, <2>1, <3>2, <3>3
    <2>3. CASE b # a
      <3>1. pendingBy'[b] = pendingBy[b] BY <1>1, <2>3 DEF LimitsTyped
      <3>2. Verifying(b)' = Verifying(b) BY <1>10, <2>3
      <3>. QED BY <2>1, <3>1, <3>2 DEF CountsOK
    <2>. QED BY <2>2, <2>3
  <1>14. CountsOK' BY <1>1, <1>6, <1>13 DEF CountsOK
  <1>. QED BY <1>1, <1>3, <1>4, <1>12, <1>14 DEF x

--------------------------------------------------------------------------------
(* The invariant.                                                          *)

ClientsOK == client \in [Clients -> Client] /\ \A d \in Clients : ClientOK(client[d])

LobbyFits ==
  lobby \subseteq Clients /\ LobbyOK /\ Cardinality(lobby) <= cap.seats

GhostInv ==
  /\ ClientsOK /\ LimitsTyped /\ CountsOK /\ LobbyFits
  /\ server \in {"up", "closing", "closed", "down"}

TellsOnce ==
  \A c \in Clients :
    client[c].kick # None => client'[c].kick = client[c].kick \/ client'[c] = Gone

LEMMA GhostInvInit == GhostInit => GhostInv
  <1>. SUFFICES ASSUME GhostInit PROVE GhostInv OBVIOUS
  <1>1. \A c \in Clients : client[c] = NewClient BY DEF GhostInit
  <1>2. ClientsOK BY <1>1, NewIsOK DEF ClientsOK, GhostInit
  <1>3. cap \in Caps /\ active = 0 /\ lobby = {} /\ server = "up" BY DEF GhostInit
  <1>4. \A a \in Addresses : byAddress[a] = 0 /\ pendingBy[a] = 0 BY DEF GhostInit
  <1>5. LimitsTyped BY <1>3 DEF LimitsTyped, GhostInit
  <1>6. /\ Around = {} /\ \A a \in Addresses : From(a) = {} /\ Verifying(a) = {}
    BY <1>1, NewIsOK DEF Around, From, Verifying
  <1>7. IsFiniteSet({}) /\ Cardinality({}) = 0 BY FS_EmptySet
  <1>8. CountsOK
    <2>1. 0 <= cap.connections /\ 0 <= cap.perAddress /\ 0 <= cap.pending BY <1>3, CapsAreNumbers
    <2>2. IsFiniteSet(Around) /\ active = Cardinality(Around) BY <1>3, <1>6, <1>7
    <2>3. \A a \in Addresses : Cardinality(From(a)) = 0 /\ Cardinality(Verifying(a)) = 0 BY <1>6, <1>7
    <2>. QED BY <1>3, <1>4, <2>1, <2>2, <2>3 DEF CountsOK
  <1>9. LobbyFits BY <1>3, <1>7, CapsAreNumbers DEF LobbyFits, LobbyOK
  <1>. QED BY <1>2, <1>3, <1>5, <1>8, <1>9 DEF GhostInv

LEMMA FiniteLobby == LobbyFits /\ CountsOK => IsFiniteSet(lobby)
  <1>. SUFFICES ASSUME LobbyFits, CountsOK PROVE IsFiniteSet(lobby) OBVIOUS
  <1>1. lobby \subseteq Around BY DEF LobbyFits, LobbyOK, Around
  <1>. QED BY <1>1, FS_Subset DEF CountsOK

\* A handler that is quiet about one client, and what it does to the lobby.
LEMMA QuietStep ==
  ASSUME GhostInv, NEW c \in Clients, NEW y, Moved(c, y), Quiet(client[c], y),
         UNCHANGED limits,
         \A d \in lobby' : d \in lobby \/ (d = c /\ Live(y) /\ y.proto = "play"),
         Cardinality(lobby') <= cap.seats, server' = server
  PROVE  GhostInv' /\ TellsOnce
  <1>. USE DEF GhostInv
  <1>1. ClientOK(y) BY DEF Quiet
  <1>2. /\ client' \in [Clients -> Client] /\ \A d \in Clients : ClientOK(client'[d])
        /\ client'[c] = y /\ \A d \in Clients \ {c} : client'[d] = client[d]
    BY <1>1, OneMoves DEF ClientsOK
  <1>3. \A d \in Clients : /\ Live(client'[d]) <=> Live(client[d])
                           /\ client'[d].from = client[d].from
                           /\ Verifies(client'[d]) <=> Verifies(client[d])
    BY <1>2 DEF Quiet
  <1>4. CountsOK' /\ LimitsTyped' BY <1>3, SameCounts
  <1>5. LobbyFits'
    <2>1. \A d \in lobby' : d \in Clients BY DEF LobbyFits
    <2>2. ASSUME NEW d \in lobby' PROVE Live(client'[d]) /\ client'[d].proto = "play"
      <3>1. CASE d = c /\ Live(y) /\ y.proto = "play" BY <1>2, <3>1
      <3>2. CASE d \in lobby
        <4>1. Live(client[d]) /\ client[d].proto = "play" BY <3>2 DEF LobbyFits, LobbyOK
        <4>2. CASE d = c BY <1>2, <4>1, <4>2 DEF Quiet
        <4>3. CASE d # c BY <1>2, <2>1, <4>1, <4>3
        <4>. QED BY <4>2, <4>3
      <3>. QED BY <2>2, <3>1, <3>2
    <2>3. cap' = cap BY DEF limits
    <2>. QED BY <2>1, <2>2, <2>3 DEF LobbyFits, LobbyOK
  <1>6. TellsOnce BY <1>2 DEF TellsOnce, Quiet
  <1>. QED BY <1>2, <1>4, <1>5, <1>6 DEF ClientsOK

LEMMA HandleStep ==
  ASSUME GhostInv, NEW c \in Clients, Handle(c)
  PROVE  GhostInv' /\ TellsOnce
  <1>. DEFINE x == client[c]
  <1>0. /\ x \in Client /\ ClientOK(x) /\ client \in [Clients -> Client]
        /\ \A d \in Clients : ClientOK(client[d])
        /\ CountsOK /\ LimitsTyped /\ cap \in Caps /\ cap.seats \in Nat
        /\ lobby \subseteq Clients /\ LobbyOK /\ Cardinality(lobby) <= cap.seats
        /\ IsFiniteSet(lobby) /\ Cardinality(lobby) \in Nat
    BY FiniteLobby, FS_CardinalityType, CapsAreNumbers DEF GhostInv, ClientsOK, LimitsTyped, LobbyFits
  <1>1. CASE QuietHandler(c)
    <2>1. c \in lobby => Live(x) BY <1>0 DEF LobbyOK
    <2>2. /\ \E y \in Client : Moved(c, y) /\ Quiet(x, y)
          /\ UNCHANGED <<limits, lobby, server>>
      BY <1>0, <1>1, <2>1, HandlersAreQuiet
    <2>3. PICK y \in Client : Moved(c, y) /\ Quiet(x, y) BY <2>2
    <2>. QED BY <1>0, <2>2, <2>3, QuietStep
  <1>2. CASE Refuse(c)
    <2>. DEFINE y == [x EXCEPT !.socket = "refused"]
    <2>1. Moved(c, y) /\ x.socket = "new" /\ UNCHANGED <<limits, lobby, server>>
      BY <1>2 DEF Refuse, Arrives, Update, Moved
    <2>2. /\ y \in Client /\ y.socket = "refused" /\ y.proto = x.proto
          /\ y.from = x.from /\ y.kind = x.kind /\ y.lookup = x.lookup /\ y.outcome = x.outcome
          /\ y.typed = x.typed /\ y.asking = x.asking /\ y.bound = x.bound /\ y.kick = x.kick
      BY <1>0 DEF Client
    <2>. HIDE DEF y
    <2>3. ~ Live(x) /\ ~ Live(y) BY <2>1, <2>2 DEF Live
    <2>4. Quiet(x, y) BY <1>0, <2>2, <2>3 DEF Quiet, ClientOK, Verifies
    <2>. HIDE DEF x
    <2>. QED BY <1>0, <2>1, <2>4, QuietStep DEF x
  <1>3. CASE EnterLobby(c)
    <2>. DEFINE z == [x EXCEPT !.proto = "play"]
    <2>1. /\ Live(x) /\ x.proto = "config" /\ x.kind = "lobby"
          /\ UNCHANGED limits /\ server' = server
      BY <1>3 DEF EnterLobby, Joins, Connected, Live
    <2>2. /\ z \in Client /\ Live(z) /\ z.proto = "play"
          /\ z.from = x.from /\ z.kind = x.kind /\ z.lookup = x.lookup /\ z.outcome = x.outcome
          /\ z.typed = x.typed /\ z.asking = x.asking /\ z.bound = x.bound /\ z.kick = x.kick
      BY <1>0, <2>1 DEF Client, Live
    <2>. HIDE DEF z
    <2>3. Quiet(x, z) /\ ClientOK(z) BY <1>0, <2>1, <2>2 DEF Quiet, ClientOK, Verifies
    <2>4. CASE Cardinality(lobby) < cap.seats
      <3>1. lobby' = lobby \cup {c} /\ Moved(c, z)
        BY <1>3, <2>4 DEF EnterLobby, Update, Moved, z
      <3>2. Cardinality(lobby') <= Cardinality(lobby) + 1
        <4>1. \/ Cardinality(lobby \cup {c}) = Cardinality(lobby)
              \/ Cardinality(lobby \cup {c}) = Cardinality(lobby) + 1
          BY <1>0, FS_AddElement
        <4>. QED BY <1>0, <3>1, <4>1
      <3>3. IsFiniteSet(lobby') BY <1>0, <3>1, FS_AddElement
      <3>4. Cardinality(lobby') \in Nat BY <3>3, FS_CardinalityType
      <3>5. Cardinality(lobby') <= cap.seats BY <1>0, <2>4, <3>2, <3>4
      <3>. QED BY <2>1, <2>2, <2>3, <3>1, <3>5, QuietStep
    <2>5. CASE ~ (Cardinality(lobby) < cap.seats)
      <3>. DEFINE y == Disconnect(z, "full")
      <3>1. lobby' = lobby /\ Moved(c, y)
        BY <1>3, <2>5 DEF EnterLobby, Update, Moved, z
      <3>2. Quiet(z, y) BY <2>2, <2>3, DisconnectIsQuiet DEF Messages
      <3>. HIDE DEF y
      <3>3. Quiet(x, y) BY <2>3, <3>2, QuietTwice
      <3>. QED BY <1>0, <2>1, <3>1, <3>3, QuietStep
    <2>. QED BY <2>4, <2>5
  <1>4. CASE ChatResolves(c)
    <2>. DEFINE z == [x EXCEPT !.asking = x.asking - 1, !.bound = TRUE]
                y == Disconnect(z, "success")
    <2>1. /\ x.asking > 0 /\ lobby' = lobby \ {c} /\ Moved(c, y)
          /\ UNCHANGED limits /\ server' = server
      BY <1>4 DEF ChatResolves, Update, Moved
    <2>2. /\ Live(x) /\ x.proto # "handshake"
          /\ x.typed \in Nat /\ x.asking \in 0..MaxTyped /\ x.asking <= x.typed
      BY <1>0, <2>1 DEF ClientOK, Client
    <2>3. x.asking - 1 \in 0..MaxTyped BY <2>1, <2>2, GhostAssumption
    <2>4. /\ z \in Client /\ Live(z) /\ z.asking = x.asking - 1 /\ z.bound = TRUE
          /\ z.proto = x.proto /\ z.from = x.from /\ z.kind = x.kind /\ z.lookup = x.lookup
          /\ z.outcome = x.outcome /\ z.typed = x.typed /\ z.kick = x.kick
      BY <1>0, <2>2, <2>3 DEF Client, Live
    <2>. HIDE DEF z
    <2>5. Quiet(x, z) /\ ClientOK(z) BY <1>0, <2>2, <2>4 DEF Quiet, ClientOK, Verifies
    <2>6. Quiet(z, y) BY <2>2, <2>4, <2>5, DisconnectIsQuiet DEF Messages
    <2>. HIDE DEF y
    <2>7. Quiet(x, y) BY <2>5, <2>6, QuietTwice
    <2>8. Cardinality(lobby') <= cap.seats
      <3>1. Cardinality(lobby \ {c}) <= Cardinality(lobby) /\ Cardinality(lobby \ {c}) \in Nat
        BY <1>0, FS_Subset, FS_CardinalityType
      <3>. QED BY <1>0, <2>1, <3>1
    <2>. QED BY <1>0, <2>1, <2>7, <2>8, QuietStep
  <1>5. CASE \E a \in Addresses : Admit(c, a)
    <2>1. PICK a \in Addresses : Admit(c, a) BY <1>5
    <2>. DEFINE y == [x EXCEPT !.socket = "open", !.from = a]
    <2>2. Moved(c, y) /\ x.socket = "new" /\ UNCHANGED <<cap, lobby, server>>
      BY <2>1 DEF Admit, Arrives, Update, Moved
    <2>3. ~ Live(x) /\ x.proto = "handshake" /\ x.kick = None BY <1>0, <2>2 DEF Live, ClientOK
    <2>4. /\ y \in Client /\ Live(y) /\ y.from = a /\ y.proto = x.proto
          /\ y.kind = x.kind /\ y.lookup = x.lookup /\ y.outcome = x.outcome
          /\ y.typed = x.typed /\ y.asking = x.asking /\ y.bound = x.bound /\ y.kick = x.kick
      BY <1>0 DEF Client, Live
    <2>. HIDE DEF y
    <2>5. ClientOK(y) BY <1>0, <2>3, <2>4 DEF ClientOK, Verifies
    <2>6. /\ client' \in [Clients -> Client] /\ \A d \in Clients : ClientOK(client'[d])
          /\ client'[c] = y /\ \A d \in Clients \ {c} : client'[d] = client[d]
      BY <1>0, <2>2, <2>5, OneMoves
    <2>7. CountsOK' /\ LimitsTyped' BY <1>0, <2>1, AdmitCounts
    <2>8. TellsOnce BY <2>3, <2>4, <2>6 DEF TellsOnce
    <2>9. LobbyFits'
      <3>1. c \notin lobby BY <1>0, <2>3 DEF LobbyOK
      <3>2. LobbyOK' BY <1>0, <2>2, <2>6, <3>1 DEF LobbyOK
      <3>. QED BY <1>0, <2>2, <3>2 DEF LobbyFits
    <2>. QED BY <2>2, <2>6, <2>7, <2>8, <2>9 DEF GhostInv, ClientsOK
  <1>6. CASE \E known \in BOOLEAN : JoinWithCode(c, known)
    <2>1. PICK known \in BOOLEAN : JoinWithCode(c, known) BY <1>6
    <2>2. /\ CountsOK' /\ LimitsTyped' /\ x.proto = "handshake"
          /\ \E y : Moved(c, y) /\ ClientOK(y) /\ y.kick = x.kick /\ Live(y)
      BY <1>0, <2>1, JoinCounts
    <2>3. PICK y : Moved(c, y) /\ ClientOK(y) /\ y.kick = x.kick /\ Live(y) BY <2>2
    <2>4. /\ client' \in [Clients -> Client] /\ \A d \in Clients : ClientOK(client'[d])
          /\ client'[c] = y /\ \A d \in Clients \ {c} : client'[d] = client[d]
      BY <1>0, <2>3, OneMoves
    <2>5. UNCHANGED <<cap, lobby, server>> BY <2>1 DEF JoinWithCode
    <2>6. TellsOnce BY <2>3, <2>4 DEF TellsOnce
    <2>7. LobbyFits'
      <3>1. c \notin lobby BY <1>0, <2>2 DEF LobbyOK
      <3>2. LobbyOK' BY <1>0, <2>4, <2>5, <3>1 DEF LobbyOK
      <3>. QED BY <1>0, <2>5, <3>2 DEF LobbyFits
    <2>. QED BY <2>2, <2>4, <2>5, <2>6, <2>7 DEF GhostInv, ClientsOK
  <1>7. CASE Ends(c)
    <2>1. Moved(c, Gone) /\ lobby' = lobby \ {c} /\ UNCHANGED <<cap, server>>
      BY <1>7 DEF Ends, Update, Moved
    <2>2. /\ client' \in [Clients -> Client] /\ \A d \in Clients : ClientOK(client'[d])
          /\ client'[c] = Gone /\ \A d \in Clients \ {c} : client'[d] = client[d]
      BY <1>0, <2>1, GoneIsOK, OneMoves
    <2>3. CountsOK' /\ LimitsTyped' BY <1>0, <1>7, EndsCounts
    <2>4. TellsOnce BY <2>2 DEF TellsOnce
    <2>5. Cardinality(lobby') <= cap.seats
      <3>1. Cardinality(lobby \ {c}) <= Cardinality(lobby) /\ Cardinality(lobby \ {c}) \in Nat
        BY <1>0, FS_Subset, FS_CardinalityType
      <3>. QED BY <1>0, <2>1, <3>1
    <2>6. LobbyFits' BY <1>0, <2>1, <2>2, <2>5 DEF LobbyFits, LobbyOK
    <2>. QED BY <2>1, <2>2, <2>3, <2>4, <2>6 DEF GhostInv, ClientsOK
  <1>8. /\ cap.hosts \subseteq {"code", "lobby", "other", "ping"} \X BOOLEAN
    BY <1>0, GhostAssumption
  <1>9. (\E h \in cap.hosts : h[1] = "code" /\ (JoinWithCode(c, h[2]) \/ TooManyPending(c))) =>
          \/ \E known \in BOOLEAN : JoinWithCode(c, known)
          \/ \E h \in cap.hosts : JoinElsewhere(c, h[1], h[2]) \/ TooManyPending(c)
    BY <1>8
  <1>. QED
    BY <1>1, <1>2, <1>3, <1>4, <1>5, <1>6, <1>7, <1>9, Zenon DEF Handle, QuietHandler

LEMMA ClosingStep == GhostInv /\ Close => GhostInv' /\ TellsOnce
  <1>. SUFFICES ASSUME GhostInv, Close PROVE GhostInv' /\ TellsOnce OBVIOUS
  <1>0. /\ client \in [Clients -> Client] /\ \A d \in Clients : ClientOK(client[d])
        /\ CountsOK /\ LimitsTyped /\ cap \in Caps
    BY DEF GhostInv, ClientsOK, LimitsTyped
  <1>1. /\ server' = "closing" /\ lobby' = {} /\ UNCHANGED limits
        /\ client' = [c \in Clients |->
             IF Connected(c) THEN Disconnect(client[c], "shutdown") ELSE client[c]]
    BY DEF Close
  <1>2. ASSUME NEW d \in Clients PROVE Quiet(client[d], client'[d])
    <2>1. CASE Live(client[d])
      <3>1. client'[d] = Disconnect(client[d], "shutdown") BY <1>1, <2>1 DEF Connected, Live
      <3>2. Quiet(client[d], Disconnect(client[d], "shutdown"))
        BY <1>0, <2>1, DisconnectIsQuiet DEF Messages
      <3>. QED BY <3>1, <3>2
    <2>2. CASE ~ Live(client[d])
      <3>1. client'[d] = client[d] BY <1>1, <2>2 DEF Connected, Live
      <3>. QED BY <1>0, <3>1 DEF Quiet
    <2>. QED BY <2>1, <2>2
  <1>3. \A d \in Clients : ClientOK(client'[d]) /\ client'[d] \in Client BY <1>2 DEF Quiet, ClientOK
  <1>4. client' \in [Clients -> Client] BY <1>1, <1>3
  <1>5. CountsOK' /\ LimitsTyped' BY <1>0, <1>1, <1>2, SameCounts DEF Quiet
  <1>6. cap' = cap BY <1>1 DEF limits
  <1>7. LobbyFits' BY <1>0, <1>1, <1>6, FS_EmptySet, CapsAreNumbers DEF LobbyFits, LobbyOK
  <1>8. TellsOnce BY <1>2 DEF TellsOnce, Quiet
  <1>. QED BY <1>1, <1>3, <1>4, <1>5, <1>7, <1>8 DEF GhostInv, ClientsOK

LEMMA StopStep == GhostInv /\ StopListening => GhostInv' /\ TellsOnce
  <1>. SUFFICES ASSUME GhostInv, StopListening PROVE GhostInv' /\ TellsOnce OBVIOUS
  <1>0. /\ client \in [Clients -> Client] /\ \A d \in Clients : ClientOK(client[d])
        /\ CountsOK /\ LimitsTyped /\ LobbyFits
    BY DEF GhostInv, ClientsOK
  <1>1. /\ server' = "closed" /\ lobby' = lobby /\ UNCHANGED limits
        /\ client' = [c \in Clients |->
             IF Connected(c) THEN [client[c] EXCEPT !.socket = "closing"] ELSE client[c]]
    BY DEF StopListening
  <1>2. ASSUME NEW d \in Clients PROVE Quiet(client[d], client'[d])
    <2>1. CASE Live(client[d])
      <3>. DEFINE x == client[d]
                  y == [x EXCEPT !.socket = "closing"]
      <3>1. client'[d] = y BY <1>1, <2>1 DEF Connected, Live
      <3>2. /\ y \in Client /\ Live(y) /\ y.proto = x.proto
            /\ y.from = x.from /\ y.kind = x.kind /\ y.lookup = x.lookup /\ y.outcome = x.outcome
            /\ y.typed = x.typed /\ y.asking = x.asking /\ y.bound = x.bound /\ y.kick = x.kick
        BY <1>0 DEF Client, Live
      <3>. HIDE DEF y
      <3>3. Quiet(x, y) BY <1>0, <2>1, <3>2 DEF Quiet, ClientOK, Verifies
      <3>. QED BY <3>1, <3>3
    <2>2. CASE ~ Live(client[d])
      <3>1. client'[d] = client[d] BY <1>1, <2>2 DEF Connected, Live
      <3>. QED BY <1>0, <3>1 DEF Quiet
    <2>. QED BY <2>1, <2>2
  <1>3. \A d \in Clients : ClientOK(client'[d]) /\ client'[d] \in Client BY <1>2 DEF Quiet, ClientOK
  <1>4. client' \in [Clients -> Client] BY <1>1, <1>3
  <1>5. CountsOK' /\ LimitsTyped' BY <1>0, <1>1, <1>2, SameCounts DEF Quiet
  <1>6. cap' = cap BY <1>1 DEF limits
  <1>7. LobbyFits' BY <1>0, <1>1, <1>2, <1>6 DEF LobbyFits, LobbyOK, Quiet
  <1>8. TellsOnce BY <1>2 DEF TellsOnce, Quiet
  <1>. QED BY <1>1, <1>3, <1>4, <1>5, <1>7, <1>8 DEF GhostInv, ClientsOK

LEMMA GhostInvStep == GhostInv /\ [GhostNext]_gvars => GhostInv' /\ TellsOnce
  <1>. SUFFICES ASSUME GhostInv, [GhostNext]_gvars PROVE GhostInv' /\ TellsOnce OBVIOUS
  <1>1. CASE \E c \in Clients : Handle(c) BY <1>1, HandleStep
  <1>2. CASE Close BY <1>2, ClosingStep
  <1>3. CASE StopListening BY <1>3, StopStep
  <1>4. CASE AllClosed \/ UNCHANGED gvars
    <2>1. UNCHANGED <<client, limits, lobby>> /\ server' \in {"up", "closing", "closed", "down"}
      BY <1>4 DEF AllClosed, gvars, GhostInv
    <2>2. UNCHANGED <<cap, active, byAddress, pendingBy>> BY <2>1 DEF limits
    <2>3. CountsOK' /\ LimitsTyped' BY <2>1, SameCounts DEF GhostInv
    <2>4. ClientsOK' BY <2>1 DEF ClientsOK, GhostInv
    <2>5. LobbyFits' BY <2>1, <2>2 DEF LobbyFits, LobbyOK, GhostInv
    <2>6. TellsOnce BY <2>1 DEF TellsOnce
    <2>. QED BY <2>1, <2>3, <2>4, <2>5, <2>6 DEF GhostInv
  <1>. QED BY <1>1, <1>2, <1>3, <1>4, Zenon DEF GhostNext

\* What is known of each client and of those that are counted
\* (ghost-server.ts: the handlers of a connection).
THEOREM GhostInvariant == GhostSpec => []GhostInv
  BY GhostInvInit, GhostInvStep, PTL DEF GhostSpec

\* However connections come, fail, end and are closed, the counters are of the
\* connections that there are, no limit is passed, and only players who are there
\* have a seat in the lobby (ghost-server.ts: the counters and the handlers
\* of "end"; lobby.ts).
THEOREM GhostAlwaysInOrder == GhostSpec => []GhostInOrder
  <1>1. GhostInv => GhostInOrder
    BY CountsAreThose
    DEF GhostInv, GhostInOrder, GhostTypeOK, ClientsOK, LimitsTyped, LobbyFits, LobbyOK,
        LobbyIsOfTheLiving, Live, Connected
  <1>. QED BY <1>1, GhostInvariant, PTL

LEMMA KnowsTheTruth == GhostInv => ToldTheTruth
  BY DEF GhostInv, ClientsOK, ClientOK, ToldTheTruth

\* In whichever order the lookup, the login, the world and the resolution come,
\* a player is told one reason, and a true one (ghost-server.ts:
\* finalizeVerification; disconnect.ts).
THEOREM PlayersAlwaysTold == GhostSpec => PlayersAreTold
  <1>1. GhostInv /\ [GhostNext]_gvars =>
          [\A c \in Clients :
             client[c].kick # None => client'[c].kick = client[c].kick \/ client'[c] = Gone]_gvars
    BY GhostInvStep DEF TellsOnce
  <1>. QED BY <1>1, KnowsTheTruth, GhostInvariant, PTL DEF GhostSpec, PlayersAreTold, ToldOnce

--------------------------------------------------------------------------------
(* The process.                                                            *)

\* What comes after a step of an order in which no step comes twice.
LEMMA FollowsAt ==
  ASSUME NEW order, NEW n \in DOMAIN order,
         \A i, j \in DOMAIN order : order[i] = order[j] => i = j
  PROVE  Follows(order, order[n]) = order[1 + n]
  <1>1. (CHOOSE i \in DOMAIN order : order[i] = order[n]) = n OBVIOUS
  <1>. QED BY <1>1 DEF Follows

StepsUp == {"ghost", "owner", "client", "register", "listen", "up"}

LEMMA StartsOfMain ==
  LET o == StartOrder["main"]
  IN /\ Steps(o) = {"connect"} \cup StepsUp
     /\ Follows(o, "connect") = "ghost" /\ Follows(o, "ghost") = "owner"
     /\ Follows(o, "owner") = "client" /\ Follows(o, "client") = "register"
     /\ Follows(o, "register") = "listen" /\ Follows(o, "listen") = "up"
  <1>. DEFINE o == <<"connect", "ghost", "owner", "client", "register", "listen", "up">>
  <1>1. StartOrder["main"] = o BY DEF StartOrder
  <1>2. DOMAIN o = 1..7 OBVIOUS
  <1>3. /\ o[1] = "connect" /\ o[2] = "ghost" /\ o[3] = "owner" /\ o[4] = "client"
        /\ o[5] = "register" /\ o[6] = "listen" /\ o[7] = "up"
    OBVIOUS
  <1>. HIDE DEF o
  <1>4. \A i, j \in DOMAIN o : o[i] = o[j] => i = j BY <1>2, <1>3
  <1>5. \A n \in 1..6 : Follows(o, o[n]) = o[1 + n] BY <1>2, <1>4, FollowsAt
  <1>6. Steps(o) = {"connect"} \cup StepsUp BY <1>2, <1>3 DEF Steps, StepsUp
  <1>. QED BY <1>1, <1>3, <1>5, <1>6

LEMMA StartsOfApi ==
  LET o == StartOrder["api"]
  IN /\ Steps(o) = ({"connect"} \cup StepsUp) \ {"ghost"}
     /\ Follows(o, "connect") = "owner"
     /\ Follows(o, "owner") = "client" /\ Follows(o, "client") = "register"
     /\ Follows(o, "register") = "listen" /\ Follows(o, "listen") = "up"
  <1>. DEFINE o == <<"connect", "owner", "client", "register", "listen", "up">>
  <1>1. StartOrder["api"] = o BY DEF StartOrder
  <1>2. DOMAIN o = 1..6 OBVIOUS
  <1>3. /\ o[1] = "connect" /\ o[2] = "owner" /\ o[3] = "client"
        /\ o[4] = "register" /\ o[5] = "listen" /\ o[6] = "up"
    OBVIOUS
  <1>. HIDE DEF o
  <1>4. \A i, j \in DOMAIN o : o[i] = o[j] => i = j BY <1>2, <1>3
  <1>5. \A n \in 1..5 : Follows(o, o[n]) = o[1 + n] BY <1>2, <1>4, FollowsAt
  <1>6. Steps(o) = ({"connect"} \cup StepsUp) \ {"ghost"} BY <1>2, <1>3 DEF Steps, StepsUp
  <1>. QED BY <1>1, <1>3, <1>5, <1>6

LEMMA StartsOfMinecraft ==
  LET o == StartOrder["minecraft"]
  IN /\ Steps(o) = {"connect", "ghost", "up"}
     /\ Follows(o, "connect") = "ghost" /\ Follows(o, "ghost") = "up"
  <1>. DEFINE o == <<"connect", "ghost", "up">>
  <1>1. StartOrder["minecraft"] = o BY DEF StartOrder
  <1>2. DOMAIN o = 1..3 OBVIOUS
  <1>3. o[1] = "connect" /\ o[2] = "ghost" /\ o[3] = "up" OBVIOUS
  <1>. HIDE DEF o
  <1>4. \A i, j \in DOMAIN o : o[i] = o[j] => i = j BY <1>2, <1>3
  <1>5. \A n \in 1..2 : Follows(o, o[n]) = o[1 + n] BY <1>2, <1>4, FollowsAt
  <1>6. Steps(o) = {"connect", "ghost", "up"} BY <1>2, <1>3 DEF Steps
  <1>. QED BY <1>1, <1>3, <1>5, <1>6

LEMMA ClosesInOrder ==
  /\ Head(CloseOrder) = "api"
  /\ Follows(CloseOrder, "api") = "minecraft" /\ Follows(CloseOrder, "minecraft") = "redis"
  /\ Follows(CloseOrder, "redis") = "cache" /\ Follows(CloseOrder, "cache") = "database"
  /\ Follows(CloseOrder, "database") = "over"
  <1>. DEFINE o == <<"api", "minecraft", "redis", "cache", "database", "over">>
  <1>1. CloseOrder = o BY DEF CloseOrder
  <1>2. DOMAIN o = 1..6 OBVIOUS
  <1>3. /\ o[1] = "api" /\ o[2] = "minecraft" /\ o[3] = "redis" /\ o[4] = "cache"
        /\ o[5] = "database" /\ o[6] = "over" /\ Head(o) = "api"
    OBVIOUS
  <1>. HIDE DEF o
  <1>4. \A i, j \in DOMAIN o : o[i] = o[j] => i = j BY <1>2, <1>3
  <1>5. \A n \in 1..5 : Follows(o, o[n]) = o[1 + n] BY <1>2, <1>4, FollowsAt
  <1>. QED BY <1>1, <1>3, <1>5

Programs == {"main", "api", "minecraft"}

LEMMA StepsOfPrograms ==
  ASSUME program \in Programs
  PROVE  /\ Steps(StartOrder[program]) \subseteq {"connect"} \cup StepsUp
         /\ {"connect", "up"} \subseteq Steps(StartOrder[program])
         /\ "ghost" \in Steps(StartOrder[program]) <=> "minecraft" \in Runs(program)
         /\ "register" \in Steps(StartOrder[program]) => "api" \in Runs(program)
         /\ "listen" \in Steps(StartOrder[program]) => "api" \in Runs(program)
  BY StartsOfMain, StartsOfApi, StartsOfMinecraft DEF Programs, StepsUp, Runs, Servers

\* A step of the start and the next.
LEMMA StartProceeds ==
  ASSUME program \in Programs, NEW s \in Steps(StartOrder[program]) \ {"up"}
  PROVE  LET t == Follows(StartOrder[program], s)
         IN /\ t \in Steps(StartOrder[program]) /\ t \in StepsUp
            /\ s = "connect" => t # "up"
            /\ s = "register" => t = "listen"
            /\ s = "listen" => t = "up"
  BY StartsOfMain, StartsOfApi, StartsOfMinecraft DEF Programs, StepsUp

States == {"none", "opening", "made", "open", "lost", "closing", "closed", "stuck"}
BeforeApi == {"connect", "ghost", "owner", "client", "register"}
Stages(p) == Steps(StartOrder[p]) \cup Closes \cup {"over", "exited", "killed"}

LifeTyped ==
  /\ program \in Programs /\ stage \in Stages(program)
  /\ state \in [Closes -> States] /\ busy \subseteq Runs(program)
  /\ timer \in BOOLEAN /\ (timer => stage \in StepsUp \cup {"killed"})
  /\ sweep \in {"none", "tokens", "grants"} /\ handlers \subseteq {"SIGINT", "SIGTERM"}
  /\ failed \in BOOLEAN /\ faults \in 0..MaxFaults

StoresUp == \A r \in Opens(program) : state[r] \in {"open", "lost"}

Done(r) == state[r] \in {"none", "closed"} \/ (state[r] = "stuck" /\ failed)

\* What has been closed when a process is at s.
Behind(s) ==
  CASE s = "minecraft" -> {"api"}
    [] s = "redis" -> Servers
    [] s = "cache" -> Servers \cup {"redis"}
    [] s = "database" -> Servers \cup {"redis", "cache"}
    [] s = "over" -> Closes \ {"database"}
    [] OTHER -> {}

\* The connections that the start has made are there until the API is closed, and
\* everything is closed when the order has passed it.
LifeInv ==
  /\ LifeTyped
  /\ \A r \in Servers : state[r] # "none" => r \in Runs(program)
  /\ stage = "connect" => \A r \in Opens(program) : state[r] \in {"opening", "open", "lost"}
  /\ stage \in StepsUp => StoresUp
  /\ state["api"] \in {"made", "open", "closing"} =>
       StoresUp /\ stage \in {"listen", "up", "api", "killed"}
  /\ "api" \in busy => state["api"] \in {"open", "closing", "stuck"} /\ stage \notin BeforeApi
  /\ \A r \in Behind(stage) : Done(r)

LEMMA LifeInvSuffices == LifeInv => ResourcesInOrder
  <1>. SUFFICES ASSUME LifeInv PROVE ResourcesInOrder OBVIOUS
  <1>1. LifecycleTypeOK
    <2>1. timer => stage \in (Starts \ {"connect"}) \cup {"up", "killed"}
      BY DEF LifeInv, LifeTyped, Stages, Starts, StepsUp, Closes, Servers, Stores
    <2>. QED BY <2>1 DEF LifecycleTypeOK, LifeInv, LifeTyped, Stages, States, Programs
  <1>2. ServedWithStores BY DEF LifeInv, ServedWithStores, StoresUp
  <1>3. NothingLeftOpen
    <2>. SUFFICES ASSUME stage = "over", NEW r \in Closes \ {"database"} PROVE Done(r)
      BY DEF NothingLeftOpen, Done
    <2>1. Behind(stage) = Closes \ {"database"} BY DEF Behind
    <2>2. \A q \in Behind(stage) : Done(q) BY DEF LifeInv
    <2>. QED BY <2>1, <2>2
  <1>. QED BY <1>1, <1>2, <1>3 DEF ResourcesInOrder

LEMMA LifeInvInit == LifeInit => LifeInv
  <1>. SUFFICES ASSUME LifeInit PROVE LifeInv OBVIOUS
  <1>1. /\ program \in Programs /\ stage = "connect"
        /\ state = [r \in Closes |-> IF r \in Opens(program) THEN "opening" ELSE "none"]
        /\ busy = {} /\ timer = FALSE /\ sweep = "none" /\ handlers = {}
        /\ failed = FALSE /\ faults = 0
    BY DEF LifeInit, Programs
  <1>2. Opens(program) \subseteq Stores /\ Stores \subseteq Closes /\ Servers \subseteq Closes
        /\ Servers \cap Stores = {}
    BY DEF Opens, Stores, Servers, Closes
  <1>3. LifeTyped
    <2>1. state \in [Closes -> States] BY <1>1 DEF States
    <2>2. stage \in Stages(program) BY <1>1, StepsOfPrograms DEF Stages
    <2>3. /\ timer \in BOOLEAN /\ (timer => stage \in StepsUp \cup {"killed"})
          /\ failed \in BOOLEAN
      BY <1>1, Zenon
    <2>4. faults \in 0..MaxFaults BY <1>1, LifecycleAssumption
    <2>. QED BY <1>1, <2>1, <2>2, <2>3, <2>4, Zenon DEF LifeTyped
  <1>4. ASSUME NEW r \in Servers PROVE state[r] = "none"
    <2>1. r \in Closes /\ r \notin Opens(program) BY <1>2
    <2>. QED BY <1>1, <2>1
  <1>5. \A r \in Opens(program) : state[r] = "opening" BY <1>1, <1>2
  <1>6. stage \notin StepsUp /\ Behind(stage) = {} BY <1>1 DEF StepsUp, Behind
  <1>. QED BY <1>1, <1>3, <1>4, <1>5, <1>6 DEF LifeInv, Servers

LEMMA BecomesMoves ==
  ASSUME state \in [Closes -> States], NEW r \in Closes, NEW s \in States, Becomes(r, s)
  PROVE  /\ state' \in [Closes -> States] /\ state'[r] = s
         /\ \A q \in Closes \ {r} : state'[q] = state[q]
  BY DEF Becomes

\* Beside the start and the end: a step that leaves the stage alone, and what is
\* known of the connections and servers.
LEMMA StageStays ==
  ASSUME LifeInv, program' = program, stage' = stage, state' \in [Closes -> States],
         busy' \subseteq Runs(program), timer' = timer,
         sweep' \in {"none", "tokens", "grants"}, handlers' \subseteq {"SIGINT", "SIGTERM"},
         failed' \in BOOLEAN, faults' \in 0..MaxFaults,
         failed => failed',
         \A r \in Servers : /\ state'[r] # "none" => state[r] # "none"
                            /\ Done(r) => state'[r] = state[r],
         \A r \in {"redis", "cache"} : Done(r) => state'[r] = state[r],
         \A r \in Opens(program) :
           /\ state[r] \in {"open", "lost"} /\ stage # "over" => state'[r] \in {"open", "lost"}
           /\ state[r] = "opening" /\ stage = "connect" => state'[r] \in {"opening", "open", "lost"},
         state'["api"] \in {"made", "open", "closing"} => state["api"] \in {"made", "open", "closing"},
         "api" \in busy' => state'["api"] \in {"open", "closing", "stuck"} /\ stage \notin BeforeApi
  PROVE  LifeInv'
  <1>. USE DEF LifeInv
  <1>1. LifeTyped' BY DEF LifeTyped
  <1>2. StoresUp /\ stage # "over" => StoresUp' BY DEF StoresUp
  <1>3. stage \in StepsUp \cup {"listen", "up", "api", "killed"} => stage # "over" BY DEF StepsUp
  <1>4. \A r \in Behind(stage) : Done(r)'
    <2>1. Behind(stage) \subseteq Servers \cup {"redis", "cache"}
      BY DEF Behind, Servers, Closes, Stores
    <2>. QED BY <2>1 DEF Done
  <1>5. stage = "connect" => \A r \in Opens(program) : state'[r] \in {"opening", "open", "lost"}
    <2>. SUFFICES ASSUME stage = "connect", NEW r \in Opens(program)
                  PROVE  state'[r] \in {"opening", "open", "lost"}
      OBVIOUS
    <2>1. state[r] \in {"opening", "open", "lost"} OBVIOUS
    <2>. QED BY <2>1
  <1>6. \A r \in Servers : state'[r] # "none" => r \in Runs(program') OBVIOUS
  <1>7. stage' \in StepsUp => StoresUp' BY <1>2, <1>3
  <1>8. state'["api"] \in {"made", "open", "closing"} =>
          StoresUp' /\ stage' \in {"listen", "up", "api", "killed"}
    BY <1>2, <1>3
  <1>. QED BY <1>1, <1>4, <1>5, <1>6, <1>7, <1>8

\* A connection that the start has not made yet cannot be one that it has closed.
LEMMA Names ==
  /\ Servers \subseteq Closes /\ Stores \subseteq Closes /\ Servers \cap Stores = {}
  /\ {"redis", "cache"} \subseteq Stores /\ "database" \in Stores
  /\ Opens(program) \subseteq Stores
  BY DEF Servers, Stores, Closes, Opens

\* The sweeper, the requests and the connections beside the start and the end.
LEMMA BesideStep ==
  ASSUME LifeInv, NEW r,
         \/ r \in Stores /\ (LosesConnection(r) \/ Reconnects(r))
         \/ r \in Servers /\ (Serve(r) \/ Served(r))
         \/ SweepBegins \/ SweepStep \/ PoolIdles
  PROVE  LifeInv'
  <1>0. /\ state \in [Closes -> States] /\ busy \subseteq Runs(program) /\ LifeTyped
        /\ \A q \in Servers : state[q] # "none" => q \in Runs(program)
        /\ "api" \in busy => state["api"] \in {"open", "closing", "stuck"} /\ stage \notin BeforeApi
        /\ faults \in 0..MaxFaults /\ MaxFaults \in Nat
    BY LifecycleAssumption DEF LifeInv, LifeTyped
  <1>1. Fault => faults' \in 0..MaxFaults BY <1>0 DEF Fault
  <1>2. CASE r \in Stores /\ LosesConnection(r)
    <2>1. /\ r \in {"redis", "cache"} /\ state[r] = "open" /\ Becomes(r, "lost") /\ Fault
          /\ UNCHANGED <<program, stage, busy, timer, sweep, handlers, failed>>
      BY <1>2 DEF LosesConnection
    <2>2. /\ state' \in [Closes -> States] /\ state'[r] = "lost"
          /\ \A q \in Closes \ {r} : state'[q] = state[q]
      BY <1>0, <1>2, <2>1, Names, BecomesMoves DEF States
    <2>. QED BY <1>0, <1>1, <1>2, <2>1, <2>2, Names, StageStays DEF Done, LifeTyped, Servers
  <1>3. CASE r \in Stores /\ Reconnects(r)
    <2>1. /\ state[r] = "lost" /\ Becomes(r, "open")
          /\ UNCHANGED <<program, stage, busy, timer, sweep, handlers, failed, faults>>
      BY <1>3 DEF Reconnects
    <2>2. /\ state' \in [Closes -> States] /\ state'[r] = "open"
          /\ \A q \in Closes \ {r} : state'[q] = state[q]
      BY <1>0, <1>3, <2>1, Names, BecomesMoves DEF States
    <2>. QED BY <1>0, <1>3, <2>1, <2>2, Names, StageStays DEF Done, LifeTyped, Servers
  <1>4. CASE r \in Servers /\ Serve(r)
    <2>1. /\ state[r] = "open" /\ busy' = busy \cup {r}
          /\ UNCHANGED <<program, stage, state, timer, sweep, handlers, failed, faults>>
      BY <1>4 DEF Serve
    <2>2. busy' \subseteq Runs(program) BY <1>0, <1>4, <2>1
    <2>3. r = "api" => stage \notin BeforeApi BY <2>1 DEF LifeInv, BeforeApi
    <2>4. "api" \in busy' => state'["api"] \in {"open", "closing", "stuck"} /\ stage \notin BeforeApi
      BY <1>0, <2>1, <2>3
    <2>. QED BY <1>0, <2>1, <2>2, <2>4, Names, StageStays DEF Done, LifeTyped
  <1>5. CASE r \in Servers /\ Served(r)
    <2>1. /\ busy' = busy \ {r}
          /\ UNCHANGED <<program, stage, state, timer, sweep, handlers, failed, faults>>
      BY <1>5 DEF Served
    <2>. QED BY <1>0, <2>1, Names, StageStays DEF Done, LifeTyped
  <1>6. CASE SweepBegins
    <2>1. sweep' = "tokens" /\ UNCHANGED <<program, stage, state, busy, timer, handlers, failed, faults>>
      BY <1>6 DEF SweepBegins
    <2>. QED BY <1>0, <2>1, Names, StageStays DEF Done, LifeTyped
  <1>7. CASE SweepStep
    <2>1. UNCHANGED <<program, stage, busy, timer, handlers, failed>> BY <1>7 DEF SweepStep
    <2>2. sweep' \in {"none", "tokens", "grants"} BY <1>7 DEF SweepStep, AfterStatement
    <2>3. faults' \in 0..MaxFaults BY <1>0, <1>1, <1>7 DEF SweepStep
    <2>4. CASE UNCHANGED state
      BY <1>0, <2>1, <2>2, <2>3, <2>4, Names, StageStays DEF Done, LifeTyped
    <2>5. CASE Becomes("database", "open")
      <3>1. /\ state' \in [Closes -> States] /\ state'["database"] = "open"
            /\ \A q \in Closes \ {"database"} : state'[q] = state[q]
        BY <1>0, <2>5, Names, BecomesMoves DEF States
      <3>2. \A q \in Servers \cup {"redis", "cache"} : state'[q] = state[q]
        BY <3>1, Names DEF Servers
      <3>. QED BY <1>0, <2>1, <2>2, <2>3, <3>1, <3>2, Names, StageStays DEF Done, LifeTyped, Servers
    <2>. QED BY <1>7, <2>4, <2>5 DEF SweepStep
  <1>8. CASE PoolIdles
    <2>1. /\ stage = "over" /\ state["database"] = "open" /\ Becomes("database", "closed")
          /\ UNCHANGED <<program, stage, busy, timer, sweep, handlers, failed, faults>>
      BY <1>8 DEF PoolIdles
    <2>2. /\ state' \in [Closes -> States]
          /\ \A q \in Closes \ {"database"} : state'[q] = state[q]
      BY <1>0, <2>1, Names, BecomesMoves DEF States
    <2>3. \A q \in Servers \cup {"redis", "cache"} : state'[q] = state[q]
      BY <2>2, Names DEF Servers
    <2>. QED BY <1>0, <2>1, <2>2, <2>3, Names, StageStays DEF Done, LifeTyped, Servers
  <1>. QED BY <1>2, <1>3, <1>4, <1>5, <1>6, <1>7, <1>8

\* The start.
LEMMA StartMoves ==
  ASSUME LifeInv, NEW r, (r \in Stores /\ (Connects(r) \/ ConnectFails(r))) \/ StartStep
  PROVE  LifeInv'
  <1>0. /\ state \in [Closes -> States] /\ busy \subseteq Runs(program) /\ LifeTyped
        /\ program \in Programs /\ stage \in Stages(program)
        /\ \A q \in Servers : state[q] # "none" => q \in Runs(program)
        /\ "api" \in busy => state["api"] \in {"open", "closing", "stuck"} /\ stage \notin BeforeApi
        /\ state["api"] \in {"made", "open", "closing"} =>
             StoresUp /\ stage \in {"listen", "up", "api", "killed"}
        /\ faults \in 0..MaxFaults /\ MaxFaults \in Nat
    BY LifecycleAssumption DEF LifeInv, LifeTyped
  <1>1. Fault => faults' \in 0..MaxFaults BY <1>0 DEF Fault
  <1>2. CASE r \in Stores /\ Connects(r)
    <2>1. /\ state[r] = "opening" /\ Becomes(r, "open") /\ UNCHANGED <<program, busy, faults>>
      BY <1>2 DEF Connects
    <2>2. /\ state' \in [Closes -> States] /\ state'[r] = "open"
          /\ \A q \in Closes \ {r} : state'[q] = state[q]
      BY <1>0, <1>2, <2>1, Names, BecomesMoves DEF States
    <2>3. \A q \in Servers : state'[q] = state[q] BY <1>2, <2>2, Names
    <2>4. CASE UNCHANGED <<stage, handlers, failed, timer, sweep>>
      <3>1. UNCHANGED stage /\ UNCHANGED timer /\ UNCHANGED sweep /\ UNCHANGED handlers /\ UNCHANGED failed
        BY <2>4
      <3>. QED BY <1>0, <1>2, <2>1, <2>2, <2>3, <3>1, Names, StageStays DEF Done, LifeTyped, Servers
    <2>5. CASE /\ stage = "connect" /\ \A q \in Opens(program) : state'[q] # "opening"
               /\ Proceeds /\ timer' = ("api" \in Runs(program))
               /\ sweep' = IF timer' THEN "tokens" ELSE "none"
      <3>1. stage \in Steps(StartOrder[program]) \ {"up"} BY <1>0, <2>5, StepsOfPrograms
      <3>2. stage' \in Steps(StartOrder[program]) /\ stage' \in StepsUp /\ stage' # "up"
        BY <1>0, <2>5, <3>1, StartProceeds DEF Proceeds
      <3>3. handlers' = {} /\ failed' = failed BY <2>5, <3>2 DEF Proceeds
      <3>4. LifeTyped'
        <4>1. timer' \in BOOLEAN BY <2>5
        <4>2. sweep' \in {"none", "tokens", "grants"} BY <2>5
        <4>3. stage' \in Stages(program') BY <2>1, <3>2 DEF Stages
        <4>. QED BY <1>0, <2>1, <2>2, <3>2, <3>3, <4>1, <4>2, <4>3 DEF LifeTyped
      <3>5. ASSUME NEW q \in Opens(program) PROVE state'[q] \in {"open", "lost"}
        <4>1. state[q] \in {"opening", "open", "lost"} BY <2>5 DEF LifeInv
        <4>2. CASE q = r BY <2>2, <4>2
        <4>3. CASE q # r
          <5>1. state'[q] = state[q] BY <2>2, <4>3, Names
          <5>. QED BY <2>5, <4>1, <5>1
        <4>. QED BY <4>2, <4>3
      <3>6. StoresUp' BY <2>1, <3>5 DEF StoresUp
      <3>7. state'["api"] \notin {"made", "open", "closing"} BY <1>0, <2>3, <2>5 DEF Servers
      <3>8. "api" \notin busy' BY <1>0, <2>1, <2>5 DEF BeforeApi
      <3>9. Behind(stage') = {} /\ stage' # "connect" BY <3>2 DEF Behind, StepsUp
      <3>. QED BY <1>0, <2>1, <2>3, <3>4, <3>6, <3>7, <3>8, <3>9 DEF LifeInv
    <2>. QED BY <1>2, <2>4, <2>5 DEF Connects
  <1>3. CASE r \in Stores /\ ConnectFails(r)
    <2>. DEFINE s == IF r = "database" THEN "closed" ELSE "lost"
    <2>1. /\ state[r] = "opening" /\ Becomes(r, s) /\ Fault /\ UNCHANGED <<program, busy>>
      BY <1>3 DEF ConnectFails
    <2>2. /\ state' \in [Closes -> States] /\ state'[r] = s
          /\ \A q \in Closes \ {r} : state'[q] = state[q]
      BY <1>0, <1>3, <2>1, Names, BecomesMoves DEF States
    <2>3. \A q \in Servers : state'[q] = state[q] BY <1>3, <2>2, Names
    <2>4. CASE stage # "connect" /\ UNCHANGED <<stage, handlers, failed, timer, sweep>>
      <3>1. UNCHANGED stage /\ UNCHANGED timer /\ UNCHANGED sweep /\ UNCHANGED handlers /\ UNCHANGED failed
        BY <2>4
      <3>. QED BY <1>0, <1>1, <1>3, <2>1, <2>2, <2>3, <2>4, <3>1, Names, StageStays DEF Done, LifeTyped, Servers
    <2>5. CASE stage = "connect" /\ StartFails
      <3>1. /\ stage' = "api" /\ timer' = FALSE /\ failed' = TRUE
            /\ sweep' = sweep /\ handlers' = handlers
        BY <2>5, ClosesInOrder DEF StartFails, BeginsToClose
      <3>2. LifeTyped' BY <1>0, <1>1, <2>1, <2>2, <3>1 DEF LifeTyped, Stages, Closes, Servers
      <3>3. state'["api"] \notin {"made", "open", "closing"} BY <1>0, <2>3, <2>5 DEF Servers
      <3>4. "api" \notin busy' BY <1>0, <2>1, <2>5 DEF BeforeApi
      <3>5. Behind(stage') = {} /\ stage' # "connect" /\ stage' \notin StepsUp
        BY <3>1 DEF Behind, StepsUp
      <3>. QED BY <1>0, <2>1, <2>3, <3>2, <3>3, <3>4, <3>5 DEF LifeInv
    <2>. QED BY <1>3, <2>4, <2>5 DEF ConnectFails
  <1>4. CASE StartStep
    <2>1. /\ stage \in Steps(StartOrder[program]) \ {"up"} /\ stage # "connect"
          /\ UNCHANGED <<program, busy>>
      BY <1>4 DEF StartStep, Starts
    <2>2. stage \in StepsUp /\ StoresUp BY <1>0, <2>1, StepsOfPrograms DEF LifeInv
    <2>3. \A q \in Opens(program) : q \in Stores /\ q # "minecraft" /\ q # "api"
      BY Names DEF Stores
    <2>4. CASE state' = Opened /\ Proceeds /\ UNCHANGED <<timer, sweep, faults>>
      <3>1. /\ stage' \in Steps(StartOrder[program]) /\ stage' \in StepsUp
            /\ stage = "register" => stage' = "listen"
            /\ stage = "listen" => stage' = "up"
        BY <1>0, <2>1, <2>4, StartProceeds DEF Proceeds
      <3>2. handlers' \subseteq {"SIGINT", "SIGTERM"} /\ failed' = failed BY <2>4 DEF Proceeds
      <3>3. /\ state' \in [Closes -> States]
            /\ \A q \in Stores : state'[q] = state[q]
            /\ state'["minecraft"] = IF stage = "ghost" THEN "open" ELSE state["minecraft"]
            /\ state'["api"] = IF stage = "register" THEN "made"
                               ELSE IF stage = "listen" THEN "open" ELSE state["api"]
        <4>1. "api" \in Closes /\ "minecraft" \in Closes /\ "api" \notin Stores /\ "minecraft" \notin Stores
          BY DEF Closes, Servers, Stores
        <4>2. CASE stage = "ghost"
          <5>1. state' = [state EXCEPT !["minecraft"] = "open"] BY <2>4, <4>2 DEF Opened
          <5>. QED BY <1>0, <4>1, <4>2, <5>1, Names DEF States
        <4>3. CASE stage = "register"
          <5>1. state' = [state EXCEPT !["api"] = "made"] BY <2>4, <4>3 DEF Opened
          <5>. QED BY <1>0, <4>1, <4>3, <5>1, Names DEF States
        <4>4. CASE stage = "listen"
          <5>1. state' = [state EXCEPT !["api"] = "open"] BY <2>4, <4>4 DEF Opened
          <5>. QED BY <1>0, <4>1, <4>4, <5>1, Names DEF States
        <4>5. CASE stage \notin {"ghost", "register", "listen"}
          <5>1. state' = state BY <2>4, <4>5 DEF Opened
          <5>. QED BY <1>0, <4>5, <5>1
        <4>. QED BY <4>2, <4>3, <4>4, <4>5
      <3>4. LifeTyped'
        <4>1. stage' \in Stages(program') BY <2>1, <3>1 DEF Stages
        <4>2. timer' = timer /\ sweep' = sweep /\ faults' = faults BY <2>4
        <4>. QED BY <1>0, <2>1, <3>1, <3>2, <3>3, <4>1, <4>2 DEF LifeTyped
      <3>5. StoresUp' BY <2>1, <2>2, <2>3, <3>3 DEF StoresUp
      <3>6. \A q \in Servers : state'[q] # "none" => q \in Runs(program')
        <4>1. stage = "ghost" => "minecraft" \in Runs(program) BY <1>0, <2>1, StepsOfPrograms
        <4>2. stage \in {"register", "listen"} => "api" \in Runs(program)
          BY <1>0, <2>1, StepsOfPrograms
        <4>. QED BY <1>0, <2>1, <3>3, <4>1, <4>2 DEF Servers
      <3>7. state'["api"] \in {"made", "open", "closing"} => stage' \in {"listen", "up", "api", "killed"}
        <4>1. CASE stage \in {"register", "listen"} BY <3>1, <4>1
        <4>2. CASE stage \notin {"register", "listen"}
          <5>1. state'["api"] = state["api"] BY <3>3, <4>2
          <5>2. stage \notin {"listen", "api", "killed", "up"} BY <2>1, <2>2, <4>2 DEF StepsUp
          <5>. QED BY <1>0, <5>1, <5>2
        <4>. QED BY <4>1, <4>2
      <3>8. "api" \in busy' => state'["api"] \in {"open", "closing", "stuck"} /\ stage' \notin BeforeApi
        <4>1. "api" \in busy => stage \in {"listen", "up"} BY <1>0, <2>2 DEF BeforeApi, StepsUp
        <4>. QED BY <1>0, <2>1, <3>1, <3>3, <4>1 DEF BeforeApi
      <3>9. Behind(stage') = {} /\ stage' # "connect" BY <3>1 DEF Behind, StepsUp
      <3>. QED BY <3>4, <3>5, <3>6, <3>7, <3>8, <3>9 DEF LifeInv
    <2>5. CASE Fault /\ StartFails /\ UNCHANGED state
      <3>1. /\ stage' = "api" /\ timer' = FALSE /\ failed' = TRUE
            /\ sweep' = sweep /\ handlers' = handlers /\ state' = state
        BY <2>5, ClosesInOrder DEF StartFails, BeginsToClose
      <3>2. LifeTyped' BY <1>0, <1>1, <2>1, <2>5, <3>1 DEF LifeTyped, Stages, Closes, Servers
      <3>3. StoresUp' BY <2>1, <2>2, <3>1 DEF StoresUp
      <3>4. Behind(stage') = {} /\ stage' \notin BeforeApi /\ stage' # "connect" /\ stage' \notin StepsUp
        BY <3>1 DEF Behind, BeforeApi, StepsUp
      <3>. QED BY <1>0, <2>1, <3>1, <3>2, <3>3, <3>4 DEF LifeInv
    <2>. QED BY <1>4, <2>4, <2>5 DEF StartStep
  <1>. QED BY <1>2, <1>3, <1>4

\* The first signal closes what there is, another ends the process as it is.
LEMMA SignalMoves ==
  ASSUME LifeInv, NEW s \in {"SIGINT", "SIGTERM"}, Signal(s)
  PROVE  LifeInv'
  <1>. USE DEF LifeInv
  <1>1. UNCHANGED <<program, state, busy, sweep, failed, faults>> BY DEF Signal
  <1>2. handlers' \subseteq {"SIGINT", "SIGTERM"} BY DEF Signal, LifeTyped
  <1>3. CASE stage' = stage /\ timer' = timer
    BY <1>1, <1>2, <1>3, StageStays DEF LifeTyped, Done
  <1>4. CASE \/ stage' = "killed" /\ timer' = timer
             \/ stage = "up" /\ stage' = "api" /\ timer' = FALSE
    <2>1. LifeTyped'
      <3>1. timer' \in BOOLEAN /\ (timer' => stage' \in StepsUp \cup {"killed"})
        BY <1>4 DEF LifeTyped
      <3>2. stage' \in Stages(program') BY <1>4 DEF Stages, Closes, Servers
      <3>. QED BY <1>1, <1>2, <3>1, <3>2 DEF LifeTyped
    <2>2. /\ Behind(stage') = {} /\ stage' # "connect" /\ stage' \notin StepsUp
          /\ stage' \notin BeforeApi
      BY <1>4 DEF Behind, StepsUp, BeforeApi
    <2>3. state'["api"] \in {"made", "open", "closing"} =>
            StoresUp' /\ stage' \in {"listen", "up", "api", "killed"}
      BY <1>1, <1>4 DEF StoresUp
    <2>. QED BY <1>1, <2>1, <2>2, <2>3
  <1>. QED BY <1>3, <1>4, ClosesInOrder DEF Signal, BeginsToClose

\* The end: one resource after the other.
LEMMA CloseMoves ==
  ASSUME LifeInv, CloseStep
  PROVE  LifeInv'
  <1>0. /\ state \in [Closes -> States] /\ busy \subseteq Runs(program) /\ LifeTyped
        /\ \A q \in Servers : state[q] # "none" => q \in Runs(program)
        /\ "api" \in busy => state["api"] \in {"open", "closing", "stuck"} /\ stage \notin BeforeApi
        /\ state["api"] \in {"made", "open", "closing"} =>
             StoresUp /\ stage \in {"listen", "up", "api", "killed"}
        /\ faults \in 0..MaxFaults /\ MaxFaults \in Nat
        /\ \A q \in Behind(stage) : Done(q)
    BY LifecycleAssumption DEF LifeInv, LifeTyped
  <1>1. Fault => faults' \in 0..MaxFaults BY <1>0 DEF Fault
  <1>2. CASE StopsServing
    <2>1. /\ stage \in Servers /\ state[stage] \in {"made", "open"} /\ Becomes(stage, "closing")
          /\ UNCHANGED <<program, stage, busy, timer, sweep, handlers, failed, faults>>
      BY <1>2 DEF StopsServing
    <2>2. /\ state' \in [Closes -> States] /\ state'[stage] = "closing"
          /\ \A q \in Closes \ {stage} : state'[q] = state[q]
      BY <1>0, <2>1, Names, BecomesMoves DEF States
    <2>3. \A q \in Stores : state'[q] = state[q] BY <2>1, <2>2, Names
    <2>4. "api" \in busy' => state'["api"] \in {"open", "closing", "stuck"} /\ stage \notin BeforeApi
      BY <1>0, <2>1, <2>2 DEF Closes, Servers
    <2>5. state'["api"] \in {"made", "open", "closing"} => state["api"] \in {"made", "open", "closing"}
      BY <2>1, <2>2 DEF Closes, Servers
    <2>6. \A q \in Servers : /\ state'[q] # "none" => state[q] # "none"
                             /\ Done(q) => state'[q] = state[q]
      BY <2>1, <2>2, Names DEF Done
    <2>. QED BY <1>0, <2>1, <2>2, <2>3, <2>4, <2>5, <2>6, Names, StageStays DEF LifeTyped
  <1>3. CASE \/ NothingToClose \/ ServerCloses \/ RedisCloses \/ DatabaseCloses
    <2>1. /\ stage \in Closes /\ Onward /\ UNCHANGED <<program, busy, timer, sweep, handlers>>
      BY <1>3, Names DEF NothingToClose, ServerCloses, RedisCloses, DatabaseCloses
    <2>2. /\ stage = "api" => stage' = "minecraft"
          /\ stage = "minecraft" => stage' = "redis"
          /\ stage = "redis" => stage' = "cache"
          /\ stage = "cache" => stage' = "database"
          /\ stage = "database" => stage' = "over"
      BY <2>1, ClosesInOrder DEF Onward
    <2>3. stage \in {"api", "minecraft", "redis", "cache", "database"}
      BY <2>1 DEF Closes, Servers, Stores
    <2>4. stage' \in {"minecraft", "redis", "cache", "database", "over"} BY <2>2, <2>3
    <2>5. failed' \in BOOLEAN /\ (failed => failed') /\ faults' \in 0..MaxFaults
      <3>1. UNCHANGED <<failed, faults>> \/ (failed' = TRUE /\ Fault)
        BY <1>3 DEF NothingToClose, ServerCloses, RedisCloses, DatabaseCloses
      <3>2. CASE UNCHANGED <<failed, faults>>
        <4>1. failed \in BOOLEAN /\ failed' = failed /\ faults' = faults
          BY <1>0, <3>2, Zenon DEF LifeTyped
        <4>2. failed' \in BOOLEAN /\ (failed => failed') BY <4>1, Zenon
        <4>. QED BY <1>0, <4>1, <4>2
      <3>3. CASE failed' = TRUE /\ Fault
        <4>1. failed' \in BOOLEAN /\ (failed => failed') BY <3>3, Zenon
        <4>. QED BY <1>1, <3>3, <4>1
      <3>. QED BY <3>1, <3>2, <3>3
    <2>6. PICK at \in Closes : at = stage BY <2>1
    <2>7. /\ state' \in [Closes -> States]
          /\ \A q \in Closes \ {at} : state'[q] = state[q]
          /\ at # "database" =>
               (state'[at] \in {"none", "closed"} \/ (state'[at] = "stuck" /\ failed' = TRUE))
          /\ at \in Servers => (state'[at] # "none" => state[at] # "none")
          /\ at = "api" /\ "api" \in busy => state'["api"] \in {"open", "closing", "stuck"}
      <3>1. CASE NothingToClose
        <4>1. state[at] = "none" /\ state' = state BY <2>6, <3>1 DEF NothingToClose
        <4>. QED BY <1>0, <4>1
      <3>2. CASE ServerCloses
        <4>1. at \in Servers /\ state[at] = "closing" BY <2>6, <3>2 DEF ServerCloses
        <4>2. CASE (at = "api" => "api" \notin busy) /\ Becomes(at, "closed")
          <5>1. /\ state' \in [Closes -> States] /\ state'[at] = "closed"
                /\ \A q \in Closes \ {at} : state'[q] = state[q]
            BY <1>0, <4>2, BecomesMoves DEF States
          <5>. QED BY <4>1, <4>2, <5>1
        <4>3. CASE Becomes(at, "stuck") /\ failed' = TRUE
          <5>1. /\ state' \in [Closes -> States] /\ state'[at] = "stuck"
                /\ \A q \in Closes \ {at} : state'[q] = state[q]
            BY <1>0, <4>3, BecomesMoves DEF States
          <5>. QED BY <4>1, <4>3, <5>1
        <4>. QED BY <2>6, <3>2, <4>2, <4>3 DEF ServerCloses
      <3>3. CASE RedisCloses
        <4>1. at \in {"redis", "cache"} /\ Becomes(at, "closed")
          BY <2>6, <3>3 DEF RedisCloses, LeavesRedis
        <4>2. /\ state' \in [Closes -> States] /\ state'[at] = "closed"
              /\ \A q \in Closes \ {at} : state'[q] = state[q]
          BY <1>0, <4>1, BecomesMoves DEF States
        <4>3. at # "api" /\ at \notin Servers BY <4>1 DEF Servers
        <4>. QED BY <4>2, <4>3
      <3>4. CASE DatabaseCloses
        <4>1. at = "database" BY <2>6, <3>4 DEF DatabaseCloses
        <4>2. PICK to \in {"closed", "stuck"} : Becomes(at, to) BY <2>6, <3>4 DEF DatabaseCloses
        <4>3. /\ state' \in [Closes -> States]
              /\ \A q \in Closes \ {at} : state'[q] = state[q]
          BY <1>0, <4>2, BecomesMoves DEF States
        <4>4. at # "api" /\ at \notin Servers BY <4>1 DEF Servers
        <4>. QED BY <4>1, <4>3, <4>4
      <3>. QED BY <1>3, <3>1, <3>2, <3>3, <3>4
    <2>8. LifeTyped'
      <3>1. ~ timer BY <1>0, <2>3 DEF LifeTyped, StepsUp
      <3>2. timer' \in BOOLEAN /\ (timer' => stage' \in StepsUp \cup {"killed"})
        BY <1>0, <2>1, <3>1 DEF LifeTyped
      <3>3. stage' \in Stages(program') BY <2>4 DEF Stages, Closes, Servers, Stores
      <3>. QED BY <1>0, <2>1, <2>5, <2>7, <3>2, <3>3 DEF LifeTyped
    <2>9. \A q \in Closes \ {at} : Done(q) => Done(q)' BY <2>5, <2>7 DEF Done
    <2>10. at # "database" => Done(at)' BY <2>7 DEF Done
    <2>11. \A q \in Behind(stage') : Done(q)'
      <3>1. \A q \in Behind(stage') : q = at \/ q \in Behind(stage) \cap (Closes \ {at})
        BY <2>2, <2>3, <2>6, ClosesInOrder DEF Behind, Closes, Servers, Stores
      <3>2. ASSUME NEW q \in Behind(stage') PROVE Done(q)'
        <4>1. CASE q = at
          <5>1. "database" \notin Behind(stage') BY <2>4 DEF Behind, Closes, Servers
          <5>. QED BY <2>10, <3>2, <4>1, <5>1
        <4>2. CASE q \in Behind(stage) \cap (Closes \ {at})
          <5>1. Done(q) BY <1>0, <4>2
          <5>. QED BY <2>9, <4>2, <5>1
        <4>. QED BY <3>1, <3>2, <4>1, <4>2
      <3>. QED BY <3>2
    <2>12. state'["api"] \notin {"made", "open", "closing"}
      <3>1. CASE at = "api" BY <2>7, <3>1
      <3>2. CASE at # "api"
        <4>1. state'["api"] = state["api"] BY <2>7, <3>2 DEF Closes, Servers
        <4>2. stage \notin {"listen", "up", "api", "killed"} BY <2>3, <2>6, <3>2
        <4>. QED BY <1>0, <4>1, <4>2
      <3>. QED BY <3>1, <3>2
    <2>13. "api" \in busy' => state'["api"] \in {"open", "closing", "stuck"} /\ stage' \notin BeforeApi
      <3>1. stage' \notin BeforeApi BY <2>4 DEF BeforeApi
      <3>2. at # "api" => state'["api"] = state["api"] BY <2>7 DEF Closes, Servers
      <3>. QED BY <1>0, <2>1, <2>7, <3>1, <3>2
    <2>14. \A q \in Servers : state'[q] # "none" => q \in Runs(program')
      BY <1>0, <2>1, <2>7, Names
    <2>15. stage' # "connect" /\ stage' \notin StepsUp BY <2>4 DEF StepsUp
    <2>. QED BY <2>8, <2>11, <2>12, <2>13, <2>14, <2>15 DEF LifeInv
  <1>. QED BY <1>2, <1>3 DEF CloseStep

LEMMA ExitMoves ==
  ASSUME LifeInv, Exits
  PROVE  LifeInv'
  <1>. USE DEF LifeInv
  <1>1. /\ stage = "over" /\ stage' = "exited" /\ busy = {}
        /\ UNCHANGED <<program, state, busy, timer, sweep, handlers, failed, faults>>
    BY DEF Exits
  <1>2. LifeTyped'
    <2>1. stage' \in Stages(program') BY <1>1 DEF Stages
    <2>2. timer' = timer /\ ~ timer /\ timer \in BOOLEAN BY <1>1 DEF LifeTyped, StepsUp
    <2>. QED BY <1>1, <2>1, <2>2 DEF LifeTyped
  <1>3. Behind(stage') = {} /\ stage' # "connect" /\ stage' \notin StepsUp
    BY <1>1 DEF Behind, StepsUp
  <1>4. state'["api"] \notin {"made", "open", "closing"} BY <1>1
  <1>. QED BY <1>1, <1>2, <1>3, <1>4

LEMMA LifeInvStep == LifeInv /\ [LifeNext]_lifeVars => LifeInv'
  <1>. SUFFICES ASSUME LifeInv, [LifeNext]_lifeVars PROVE LifeInv' OBVIOUS
  <1>1. CASE \E r \in Stores : Connects(r) \/ ConnectFails(r) BY <1>1, StartMoves
  <1>2. CASE StartStep BY <1>2, StartMoves
  <1>3. CASE \E r \in Stores : LosesConnection(r) \/ Reconnects(r) BY <1>3, BesideStep
  <1>4. CASE \E r \in Servers : Serve(r) \/ Served(r) BY <1>4, BesideStep
  <1>5. CASE SweepBegins \/ SweepStep \/ PoolIdles BY <1>5, BesideStep
  <1>6. CASE \E s \in {"SIGINT", "SIGTERM"} : Signal(s) BY <1>6, SignalMoves
  <1>7. CASE CloseStep BY <1>7, CloseMoves
  <1>8. CASE Exits BY <1>8, ExitMoves
  <1>9. CASE UNCHANGED lifeVars
    <2>1. UNCHANGED <<program, stage, state, busy, timer, sweep, handlers, failed, faults>>
      BY <1>9 DEF lifeVars
    <2>. QED BY <2>1 DEF LifeInv, LifeTyped, StoresUp, Done
  <1>. QED BY <1>1, <1>2, <1>3, <1>4, <1>5, <1>6, <1>7, <1>8, <1>9, Zenon DEF LifeNext

\* Whatever fails in the start or at the end and whichever signals come, the API
\* serves no request without its connections while the process closes, and at the
\* end everything but what could not be closed is closed (main.ts: startup and
\* closeResources).
THEOREM ResourcesAlwaysInOrder == LifeSpec => []ResourcesInOrder
  BY LifeInvInit, LifeInvStep, LifeInvSuffices, PTL DEF LifeSpec

--------------------------------------------------------------------------------
(* What a client is sent (JoinStream).  First sequences of packets: what    *)
(* the provers are to know of them is here, and Sq, Cat, Long and PosIn are *)
(* what they know it by.                                                    *)

\* A sequence, and the places of the packets of a name in it.
Sq(s) == \E S : s \in Seq(S)
PosIn(s, n) == {i \in DOMAIN s : s[i].name = n}

LEMMA SqShape ==
  ASSUME NEW s, Sq(s)
  PROVE  Len(s) \in Nat /\ DOMAIN s = 1 .. Len(s)
  <1>1. PICK S : s \in Seq(S) BY DEF Sq
  <1>. QED BY <1>1, LenProperties

LEMMA SqConcat ==
  ASSUME NEW s, NEW t, Sq(s), Sq(t)
  PROVE  /\ Sq(s \o t)
         /\ Len(s \o t) = Len(s) + Len(t)
         /\ \A i \in 1 .. Len(s) : (s \o t)[i] = s[i]
         /\ \A i \in 1 .. Len(t), j \in Nat : j = Len(s) + i => (s \o t)[j] = t[i]
         /\ \A i \in 1 .. Len(s) + Len(t) :
              i \in 1 .. Len(s) \/ \E j \in 1 .. Len(t) : i = Len(s) + j
  <1>1. PICK S : s \in Seq(S) BY DEF Sq
  <1>2. PICK T : t \in Seq(T) BY DEF Sq
  <1>3. s \in Seq(S \cup T) BY <1>1, SeqMonotonic
  <1>4. t \in Seq(S \cup T) BY <1>2, SeqMonotonic
  <1>5. /\ s \o t \in Seq(S \cup T)
        /\ Len(s \o t) = Len(s) + Len(t)
        /\ \A i \in 1 .. Len(s) + Len(t) :
             (s \o t)[i] = IF i <= Len(s) THEN s[i] ELSE t[i - Len(s)]
    BY <1>3, <1>4, ConcatProperties
  <1>6. Len(s) \in Nat /\ Len(t) \in Nat BY SqShape
  <1>7. Sq(s \o t) BY <1>5 DEF Sq
  <1>8. ASSUME NEW i \in 1 .. Len(t), NEW j \in Nat, j = Len(s) + i PROVE (s \o t)[j] = t[i]
    <2>1. j \in 1 .. Len(s) + Len(t) /\ ~ (j <= Len(s)) BY <1>6, <1>8
    <2>2. j - Len(s) = i BY <1>6, <1>8
    <2>. QED BY <1>5, <2>1, <2>2
  <1>9. ASSUME NEW i \in 1 .. Len(s) + Len(t), i \notin 1 .. Len(s)
        PROVE  \E j \in 1 .. Len(t) : i = Len(s) + j
    <2>1. i - Len(s) \in 1 .. Len(t) /\ i = Len(s) + (i - Len(s)) BY <1>6, <1>9
    <2>. QED BY <2>1
  <1>10. \A i \in 1 .. Len(s) : (s \o t)[i] = s[i] BY <1>5, <1>6
  <1>. QED BY <1>5, <1>7, <1>8, <1>9, <1>10

LEMMA SqEmpty == Sq(<<>>) /\ Len(<<>>) = 0 /\ DOMAIN <<>> = {}
  <1>1. <<>> \in Seq({}) BY EmptySeq
  <1>. QED BY <1>1, EmptySeq, LenProperties DEF Sq

LEMMA SqOne ==
  ASSUME NEW p
  PROVE  Sq(<<p>>) /\ Len(<<p>>) = 1 /\ DOMAIN <<p>> = {1} /\ <<p>>[1] = p
  <1>1. <<p>> \in Seq({p}) OBVIOUS
  <1>2. Len(<<p>>) = 1 /\ <<p>>[1] = p OBVIOUS
  <1>3. Sq(<<p>>) BY <1>1 DEF Sq
  <1>4. DOMAIN <<p>> = 1 .. 1 BY <1>2, <1>3, SqShape
  <1>5. 1 .. 1 = {1} OBVIOUS
  <1>. QED BY <1>2, <1>3, <1>4, <1>5

LEMMA SqMap ==
  ASSUME NEW n \in Nat, NEW s, NEW S, s \in [1 .. n -> S]
  PROVE  Sq(s) /\ Len(s) = n
  <1>1. s \in Seq(S) BY SeqDef
  <1>2. Sq(s) BY <1>1 DEF Sq
  <1>3. DOMAIN s = 1 .. n OBVIOUS
  <1>4. Len(s) = n BY <1>1, <1>3, LenProperties
  <1>. QED BY <1>2, <1>4

\* Where the packets of a name are in a stream that is continued.
LEMMA AppendPos ==
  ASSUME NEW s, NEW t, Sq(s), Sq(t), NEW n
  PROVE  /\ \A j : j \in PosIn(s \o t, n) <=>
                   j \in PosIn(s, n) \/ \E i \in PosIn(t, n) : j = Len(s) + i
         /\ PosIn(s, n) \subseteq 1 .. Len(s)
         /\ PosIn(t, n) \subseteq 1 .. Len(t)
  <1>1. DOMAIN s = 1 .. Len(s) /\ Len(s) \in Nat /\ DOMAIN t = 1 .. Len(t) /\ Len(t) \in Nat
    BY SqShape
  <1>2. DOMAIN (s \o t) = 1 .. Len(s) + Len(t) BY SqConcat, SqShape
  <1>3. ASSUME NEW i \in PosIn(s \o t, n)
        PROVE  i \in PosIn(s, n) \/ \E j \in PosIn(t, n) : i = Len(s) + j
    <2>1. i \in 1 .. Len(s) + Len(t) /\ (s \o t)[i].name = n BY <1>2, <1>3 DEF PosIn
    <2>2. CASE i \in 1 .. Len(s) BY <1>1, <2>1, <2>2, SqConcat DEF PosIn
    <2>3. CASE i \notin 1 .. Len(s)
      <3>1. PICK j \in 1 .. Len(t) : i = Len(s) + j BY <2>1, <2>3, SqConcat
      <3>2. i \in Nat BY <2>1
      <3>3. (s \o t)[i] = t[j] BY <3>1, <3>2, SqConcat
      <3>4. j \in PosIn(t, n) BY <1>1, <2>1, <3>3 DEF PosIn
      <3>. QED BY <3>1, <3>4
    <2>. QED BY <2>2, <2>3
  <1>4. ASSUME NEW i \in PosIn(s, n) PROVE i \in PosIn(s \o t, n)
    <2>1. i \in 1 .. Len(s) /\ s[i].name = n BY <1>1, <1>4 DEF PosIn
    <2>2. i \in 1 .. Len(s) + Len(t) BY <1>1, <2>1
    <2>3. (s \o t)[i] = s[i] BY <2>1, SqConcat
    <2>. QED BY <1>2, <2>1, <2>2, <2>3 DEF PosIn
  <1>5. ASSUME NEW j, NEW i \in PosIn(t, n), j = Len(s) + i PROVE j \in PosIn(s \o t, n)
    <2>1. i \in 1 .. Len(t) /\ t[i].name = n BY <1>1, <1>5 DEF PosIn
    <2>2. j \in 1 .. Len(s) + Len(t) /\ j \in Nat BY <1>1, <1>5, <2>1
    <2>3. (s \o t)[j] = t[i] BY <1>5, <2>1, <2>2, SqConcat
    <2>. QED BY <1>2, <2>1, <2>2, <2>3 DEF PosIn
  <1>6. PosIn(s, n) \subseteq 1 .. Len(s) /\ PosIn(t, n) \subseteq 1 .. Len(t)
    BY <1>1 DEF PosIn
  <1>. QED BY <1>3, <1>4, <1>5, <1>6

\* The same of sequences whose lengths are known.
Long(s, n) == Sq(s) /\ n \in Nat /\ Len(s) = n

Cat(s, t) == s \o t

LEMMA LongCat ==
  ASSUME NEW s, NEW t, NEW a \in Nat, NEW b \in Nat, Long(s, a), Long(t, b)
  PROVE  /\ \A c \in Nat : c = a + b => Long(Cat(s, t), c)
         /\ \A i \in 1 .. a : Cat(s, t)[i] = s[i]
         /\ \A i \in 1 .. b, j \in Nat : j = a + i => Cat(s, t)[j] = t[i]
         /\ \A n, j : j \in PosIn(Cat(s, t), n) <=>
                      j \in PosIn(s, n) \/ \E i \in PosIn(t, n) : j = a + i
  <1>1. Sq(s) /\ Sq(t) /\ Len(s) = a /\ Len(t) = b BY DEF Long
  <1>2. Sq(s \o t) /\ Len(s \o t) = a + b BY <1>1, SqConcat
  <1>3. \A c \in Nat : c = a + b => Long(Cat(s, t), c) BY <1>1, <1>2 DEF Long, Cat
  <1>4. /\ \A i \in 1 .. a : Cat(s, t)[i] = s[i]
        /\ \A i \in 1 .. b, j \in Nat : j = a + i => Cat(s, t)[j] = t[i]
    BY <1>1, SqConcat DEF Cat
  <1>5. \A n, j : j \in PosIn(Cat(s, t), n) <=>
                   j \in PosIn(s, n) \/ \E i \in PosIn(t, n) : j = a + i
    BY <1>1, AppendPos DEF Cat
  <1>. QED BY <1>3, <1>4, <1>5

\* A stream of packets of some names that a version understands.
Fits(p, v) ==
  /\ "colors" \in DOMAIN p =>
       \A k \in DOMAIN p.colors :
         Len(p.colors[k]) = IF v.protocol >= HEX_COLOR_MIN_PROTOCOL THEN 3 ELSE 1
  /\ p.name = "entity_effect" => p.effect \in v.effects /\ p.duration = LIMBO_DURATION_TICKS
  /\ p.name \in OptionalPackets => p.name \in v.known
  /\ p.name \in {"login", "update_view_distance"} => p.viewDistance = VOID_CHUNK_RADIUS
  /\ p.name = "tags" => p.bound \subseteq v.registries \cup CORE_TAG_REGISTRIES
  /\ p.name = "map_chunk" => /\ v.light => p.light.given \cup p.light.empty = 0 .. 17
                             /\ p.light.given = {}
                             /\ v.heightmaps => p.heightmap = EmptyHeightmap
  /\ p.name \in {"set_title_time", "title_times"} => p.stay = TITLE_STAY
  /\ p.name \in {"set_title_text", "title"} =>
       \/ Len(p.colors) = 1
       \/ p.colors = [i \in 1 .. TitleLetters |->
                       BlendHexColor(WEB_ACCENT_STRONG_COLOR, WEB_ACCENT_COLOR, i - 1, TitleLetters - 1)]

Block(s, N, v) ==
  /\ Sq(s)
  /\ \A i \in DOMAIN s : s[i].name \in N /\ Fits(s[i], v)

LEMMA BlockConcat ==
  ASSUME NEW s, NEW t, NEW N, NEW v, Block(s, N, v), Block(t, N, v)
  PROVE  Block(s \o t, N, v)
  <1>1. Sq(s) /\ Sq(t) BY DEF Block
  <1>2. DOMAIN s = 1 .. Len(s) /\ DOMAIN t = 1 .. Len(t) BY <1>1, SqShape
  <1>3. Sq(s \o t) /\ DOMAIN (s \o t) = 1 .. Len(s) + Len(t) BY <1>1, SqConcat, SqShape
  <1>4. ASSUME NEW i \in 1 .. Len(s) + Len(t)
        PROVE  (s \o t)[i].name \in N /\ Fits((s \o t)[i], v)
    <2>1. CASE i \in 1 .. Len(s) BY <1>1, <1>2, <2>1, SqConcat DEF Block
    <2>2. CASE i \notin 1 .. Len(s)
      <3>1. PICK j \in 1 .. Len(t) : i = Len(s) + j BY <1>1, <2>2, SqConcat
      <3>2. i \in Nat OBVIOUS
      <3>3. (s \o t)[i] = t[j] BY <1>1, <3>1, <3>2, SqConcat
      <3>. QED BY <1>2, <3>3 DEF Block
    <2>. QED BY <2>1, <2>2
  <1>. QED BY <1>3, <1>4 DEF Block

LEMMA BlockOne ==
  ASSUME NEW p, NEW N, NEW v, p.name \in N, Fits(p, v)
  PROVE  Block(<<p>>, N, v)
  BY SqOne DEF Block

LEMMA BlockIf ==
  ASSUME NEW c \in BOOLEAN, NEW s, NEW N, NEW v, c => Block(s, N, v)
  PROVE  Block(If(c, s), N, v)
  <1>1. CASE c BY <1>1 DEF If
  <1>2. CASE ~ c
    <2>1. If(c, s) = <<>> BY <1>2 DEF If
    <2>. QED BY <2>1, SqEmpty DEF Block
  <1>. QED BY <1>1, <1>2

LEMMA BlockMore ==
  ASSUME NEW s, NEW N, NEW M, NEW v, Block(s, N, v), N \subseteq M
  PROVE  Block(s, M, v)
  BY DEF Block

--------------------------------------------------------------------------------
(* The packets in front of a world (joinGamePacket, viewPackets).           *)

FrontNames ==
  {"login", "level_chunks_load_start", "abilities", "update_view_position", "update_view_distance",
   "simulation_distance"}
ChunkNames == {"chunk_batch_start", "map_chunk", "chunk_batch_finished"}
LobbyNames ==
  {"chat", "system_chat", "set_title_time", "set_title_subtitle", "set_title_text", "title_times",
   "title", "declare_commands", "entity_effect"}

\* A packet that has a name and nothing else that is asked about.
LEMMA PlainFits ==
  ASSUME NEW n, NEW v,
         n \in OptionalPackets => n \in v.known,
         n \notin {"entity_effect", "login", "update_view_distance", "tags", "map_chunk",
                   "set_title_time", "title_times", "set_title_text", "title"}
  PROVE  Fits(Packet(n), v)
  BY DEF Fits, Packet

LEMMA LoginFits == Fits(JoinGamePacket, version) /\ JoinGamePacket.name = "login"
  <1>1. JoinGamePacket.name = "login" /\ JoinGamePacket.viewDistance = VOID_CHUNK_RADIUS
        /\ "colors" \notin DOMAIN JoinGamePacket
    BY DEF JoinGamePacket
  <1>. QED BY <1>1 DEF Fits, OptionalPackets

LEMMA PositionFits ==
  ASSUME NEW id, NEW v
  PROVE  Fits(Position(id), v) /\ Position(id).name = "position" /\ Position(id).teleportId = id
  BY DEF Fits, Position, OptionalPackets

LEMMA ViewFits == Block(ViewPackets, FrontNames, version)
  <1>. DEFINE p1 == [name |-> "update_view_position", at |-> <<0, 0>>]
              p2 == [name |-> "update_view_distance", viewDistance |-> VOID_CHUNK_RADIUS]
              p3 == [name |-> "simulation_distance", distance |-> VOID_CHUNK_RADIUS]
  <1>1. Knows("update_view_position") => Block(<<p1>>, FrontNames, version)
    <2>1. p1.name = "update_view_position" /\ "colors" \notin DOMAIN p1 OBVIOUS
    <2>. HIDE DEF p1
    <2>2. Knows("update_view_position") => Fits(p1, version) BY <2>1 DEF Fits, Knows
    <2>. QED BY <2>1, <2>2, BlockOne DEF FrontNames
  <1>2. Knows("update_view_distance") => Block(<<p2>>, FrontNames, version)
    <2>1. p2.name = "update_view_distance" /\ p2.viewDistance = VOID_CHUNK_RADIUS /\ "colors" \notin DOMAIN p2
      OBVIOUS
    <2>. HIDE DEF p2
    <2>2. Knows("update_view_distance") => Fits(p2, version) BY <2>1 DEF Fits, Knows
    <2>. QED BY <2>1, <2>2, BlockOne DEF FrontNames
  <1>3. Knows("simulation_distance") => Block(<<p3>>, FrontNames, version)
    <2>1. p3.name = "simulation_distance" /\ "colors" \notin DOMAIN p3 OBVIOUS
    <2>. HIDE DEF p3
    <2>2. Knows("simulation_distance") => Fits(p3, version) BY <2>1 DEF Fits, Knows
    <2>. QED BY <2>1, <2>2, BlockOne DEF FrontNames
  <1>. HIDE DEF p1, p2, p3
  <1>4. \A n \in {"update_view_position", "update_view_distance", "simulation_distance"} :
          Knows(n) \in BOOLEAN
    BY DEF Knows
  <1>5. /\ Block(If(Knows("update_view_position"), <<p1>>), FrontNames, version)
        /\ Block(If(Knows("update_view_distance"), <<p2>>), FrontNames, version)
        /\ Block(If(Knows("simulation_distance"), <<p3>>), FrontNames, version)
    BY <1>1, <1>2, <1>3, <1>4, BlockIf
  <1>6. ViewPackets = (If(Knows("update_view_position"), <<p1>>) \o If(Knows("update_view_distance"), <<p2>>))
                      \o If(Knows("simulation_distance"), <<p3>>)
    BY DEF ViewPackets, p1, p2, p3
  <1>. QED BY <1>5, <1>6, BlockConcat

LEMMA ChunkFits ==
  ASSUME NEW x, NEW z
  PROVE  /\ Fits(ChunkPacket(x, z), version)
         /\ ChunkPacket(x, z).name = "map_chunk" /\ ChunkPacket(x, z).at = <<x, z>>
  <1>. DEFINE p == ChunkPacket(x, z)
  <1>1. /\ p.name = "map_chunk" /\ p.at = <<x, z>> /\ "colors" \notin DOMAIN p
        /\ p.light = (IF version.light THEN EmptyLight ELSE [given |-> {}, empty |-> {}])
        /\ p.heightmap = (IF version.heightmaps THEN EmptyHeightmap ELSE 0)
    BY DEF ChunkPacket
  <1>2. p.light.given = {} /\ (version.light => p.light.given \cup p.light.empty = 0 .. 17)
    BY <1>1 DEF EmptyLight
  <1>. HIDE DEF p
  <1>3. Fits(p, version) BY <1>1, <1>2 DEF Fits, OptionalPackets
  <1>. QED BY <1>1, <1>3 DEF p

--------------------------------------------------------------------------------
(* The chunks of a world and the batch around them (writeChunks).           *)

\* The chunks of the world, and what they are written between.
Grid == {<<x, z>> : x, z \in -2 .. 2}

LEMMA ChunksAre ==
  /\ Block(Chunks, {"map_chunk"}, version) /\ Len(Chunks) = 25
  /\ \A i \in 1 .. 25 : Chunks[i].at \in Grid
  /\ \A g \in Grid : \E i \in 1 .. 25 : Chunks[i].at = g
  <1>. DEFINE X(i) == ((i - 1) \div 5) - 2
              Z(i) == ((i - 1) % 5) - 2
  <1>1. Chunks = [i \in 1 .. 25 |-> ChunkPacket(X(i), Z(i))]
    BY DEF Chunks, Diameter, VOID_CHUNK_RADIUS
  <1>2. \A i \in 1 .. 25 : X(i) \in -2 .. 2 /\ Z(i) \in -2 .. 2 OBVIOUS
  <1>3. ASSUME NEW x \in -2 .. 2, NEW z \in -2 .. 2
        PROVE  \E i \in 1 .. 25 : X(i) = x /\ Z(i) = z
    <2>. DEFINE i == 5 * (x + 2) + (z + 2) + 1
    <2>1. i \in 1 .. 25 OBVIOUS
    <2>2. (i - 1) \div 5 = x + 2 /\ (i - 1) % 5 = z + 2 OBVIOUS
    <2>. QED BY <2>1, <2>2
  <1>. HIDE DEF X, Z
  <1>4. \A i \in 1 .. 25 : /\ Chunks[i] = ChunkPacket(X(i), Z(i))
                           /\ Chunks[i].at = <<X(i), Z(i)>>
                           /\ Chunks[i].name = "map_chunk" /\ Fits(Chunks[i], version)
    BY <1>1, ChunkFits
  <1>5. Chunks \in [1 .. 25 -> {ChunkPacket(X(i), Z(i)) : i \in 1 .. 25}] BY <1>1
  <1>6. Sq(Chunks) /\ Len(Chunks) = 25 BY <1>5, SqMap
  <1>7. Block(Chunks, {"map_chunk"}, version) BY <1>4, <1>6, SqShape DEF Block
  <1>8. ASSUME NEW i \in 1 .. 25 PROVE Chunks[i].at \in Grid
    <2>1. PICK x \in -2 .. 2, z \in -2 .. 2 : X(i) = x /\ Z(i) = z BY <1>2
    <2>2. Chunks[i].at = <<x, z>> BY <1>4, <2>1
    <2>. QED BY <2>2 DEF Grid
  <1>9. ASSUME NEW g \in Grid PROVE \E i \in 1 .. 25 : Chunks[i].at = g
    <2>1. PICK x \in -2 .. 2, z \in -2 .. 2 : g = <<x, z>> BY DEF Grid
    <2>2. PICK i \in 1 .. 25 : X(i) = x /\ Z(i) = z BY <1>3
    <2>. QED BY <1>4, <2>1, <2>2
  <1>. QED BY <1>6, <1>7, <1>8, <1>9

\* What a world that is written holds: its chunks in one piece, and around them
\* both ends of a batch or neither.
SaysAll(p) == p.batchSize = 25
WholeAt(s, k) ==
  /\ PosIn(s, "map_chunk") = k + 1 .. k + 25
  /\ \A i \in k + 1 .. k + 25 : s[i].at \in Grid
  /\ \A g \in Grid : \E i \in k + 1 .. k + 25 : s[i].at = g
  /\ \/ PosIn(s, "chunk_batch_start") = {} /\ PosIn(s, "chunk_batch_finished") = {}
     \/ /\ PosIn(s, "chunk_batch_start") = {k}
        /\ PosIn(s, "chunk_batch_finished") = {k + 26} /\ SaysAll(s[k + 26])
Whole(s) == \E k \in Nat : WholeAt(s, k)

LEMMA BatchFits ==
  /\ BatchFinished.name = "chunk_batch_finished" /\ BatchFinished.batchSize = 25
  /\ Knows("chunk_batch_finished") => Fits(BatchFinished, version)
  <1>1. /\ BatchFinished.name = "chunk_batch_finished" /\ BatchFinished.batchSize = 25
        /\ "colors" \notin DOMAIN BatchFinished
    BY ChunksAre DEF BatchFinished
  <1>. QED BY <1>1 DEF Fits, Knows

LEMMA WholeChunks == Whole(Chunks)
  <1>1. Sq(Chunks) /\ Len(Chunks) = 25 /\ DOMAIN Chunks = 1 .. 25
        /\ \A i \in DOMAIN Chunks : Chunks[i].name = "map_chunk"
    BY ChunksAre, SqShape DEF Block
  <1>2. PosIn(Chunks, "map_chunk") = 0 + 1 .. 0 + 25 BY <1>1 DEF PosIn
  <1>3. PosIn(Chunks, "chunk_batch_start") = {} /\ PosIn(Chunks, "chunk_batch_finished") = {}
    BY <1>1 DEF PosIn
  <1>4. 0 + 1 .. 0 + 25 = 1 .. 25 OBVIOUS
  <1>5. WholeAt(Chunks, 0) BY <1>2, <1>3, <1>4, ChunksAre DEF WholeAt
  <1>. QED BY <1>5 DEF Whole

LEMMA ChunksHold ==
  /\ Long(Chunks, 25) /\ PosIn(Chunks, "map_chunk") = 1 .. 25
  /\ PosIn(Chunks, "chunk_batch_start") = {} /\ PosIn(Chunks, "chunk_batch_finished") = {}
  <1>1. Sq(Chunks) /\ Len(Chunks) = 25 /\ DOMAIN Chunks = 1 .. 25
        /\ \A i \in DOMAIN Chunks : Chunks[i].name = "map_chunk"
    BY ChunksAre, SqShape DEF Block
  <1>. QED BY <1>1 DEF PosIn, Long

LEMMA OnePos ==
  ASSUME NEW p, NEW n
  PROVE  PosIn(<<p>>, n) = IF p.name = n THEN {1} ELSE {}
  BY SqOne DEF PosIn

LEMMA WholeBatch ==
  ASSUME NEW P, Long(P, 1),
         PosIn(P, "map_chunk") = {}, PosIn(P, "chunk_batch_finished") = {},
         PosIn(P, "chunk_batch_start") = {1},
         NEW Q, Long(Q, 1),
         PosIn(Q, "map_chunk") = {}, PosIn(Q, "chunk_batch_start") = {},
         PosIn(Q, "chunk_batch_finished") = {1}, SaysAll(Q[1])
  PROVE  Whole(Cat(Cat(P, Chunks), Q))
  <1>. DEFINE s == Cat(P, Chunks)
              w == Cat(s, Q)
  <1>1. Long(Chunks, 25) BY ChunksHold
  <1>2. /\ Long(s, 26)
        /\ \A i \in 1 .. 25, j \in Nat : j = 1 + i => s[j] = Chunks[i]
        /\ \A n, j : j \in PosIn(s, n) <=> j \in PosIn(P, n) \/ \E i \in PosIn(Chunks, n) : j = 1 + i
    BY <1>1, LongCat
  <1>. HIDE DEF s
  <1>3. /\ \A j \in 1 .. 26 : w[j] = s[j]
        /\ \A i \in 1 .. 1, j \in Nat : j = 26 + i => w[j] = Q[i]
        /\ \A n, j : j \in PosIn(w, n) <=> j \in PosIn(s, n) \/ \E i \in PosIn(Q, n) : j = 26 + i
    BY <1>2, LongCat
  <1>. HIDE DEF w
  <1>6. /\ PosIn(s, "chunk_batch_start") = {1} /\ PosIn(s, "chunk_batch_finished") = {}
        /\ PosIn(s, "map_chunk") = 1 + 1 .. 1 + 25
    <2>1. \A j : j \in PosIn(s, "map_chunk") <=> \E i \in 1 .. 25 : j = 1 + i BY <1>2, ChunksHold
    <2>2. \A j \in 1 + 1 .. 1 + 25 : j - 1 \in 1 .. 25 /\ j = 1 + (j - 1) OBVIOUS
    <2>. QED BY <1>2, <2>1, <2>2, ChunksHold
  <1>8. /\ PosIn(w, "chunk_batch_start") = {1} /\ PosIn(w, "chunk_batch_finished") = {1 + 26}
        /\ PosIn(w, "map_chunk") = 1 + 1 .. 1 + 25
    BY <1>3, <1>6
  <1>9. SaysAll(w[1 + 26])
    <2>1. 1 \in 1 .. 1 /\ 1 + 26 \in Nat /\ 1 + 26 = 26 + 1 OBVIOUS
    <2>. QED BY <1>3, <2>1
  <1>10. ASSUME NEW j \in 1 + 1 .. 1 + 25 PROVE \E i \in 1 .. 25 : w[j] = Chunks[i]
    <2>1. j - 1 \in 1 .. 25 /\ 1 + (j - 1) = j /\ j \in Nat /\ j \in 1 .. 26 OBVIOUS
    <2>2. w[j] = Chunks[j - 1] BY <1>2, <1>3, <2>1
    <2>. QED BY <2>1, <2>2
  <1>11. \A j \in 1 + 1 .. 1 + 25 : w[j].at \in Grid BY <1>10, ChunksAre
  <1>12. ASSUME NEW g \in Grid PROVE \E j \in 1 + 1 .. 1 + 25 : w[j].at = g
    <2>1. PICK i \in 1 .. 25 : Chunks[i].at = g BY ChunksAre
    <2>2. PICK j \in 1 .. 26 : j = 1 + i OBVIOUS
    <2>3. w[j] = Chunks[i] /\ j \in 1 + 1 .. 1 + 25 BY <1>2, <1>3, <2>2
    <2>. QED BY <2>1, <2>3
  <1>13. WholeAt(w, 1) BY <1>8, <1>9, <1>11, <1>12 DEF WholeAt
  <1>14. Whole(w) BY <1>13 DEF Whole
  <1>. QED BY <1>14 DEF w, s

LEMMA WriteChunksAre ==
  ASSUME version \in Versions
  PROVE  Block(WriteChunks, ChunkNames, version) /\ Whole(WriteChunks)
  <1>. DEFINE start == Packet("chunk_batch_start")
  <1>1. Knows("chunk_batch_start") <=> Knows("chunk_batch_finished") BY BatchAssumption DEF Knows
  <1>2. Block(Chunks, ChunkNames, version) BY ChunksAre, BlockMore DEF ChunkNames
  <1>3. CASE Knows("chunk_batch_start")
    <2>1. WriteChunks = (<<start>> \o Chunks) \o <<BatchFinished>> BY <1>1, <1>3 DEF WriteChunks, If
    <2>2. start.name = "chunk_batch_start" BY DEF Packet
    <2>3. Fits(start, version) BY <1>3, PlainFits DEF Knows
    <2>4. Block(<<start>>, ChunkNames, version) /\ Block(<<BatchFinished>>, ChunkNames, version)
      BY <1>1, <1>3, <2>2, <2>3, BatchFits, BlockOne DEF ChunkNames
    <2>5. Block((<<start>> \o Chunks) \o <<BatchFinished>>, ChunkNames, version)
      BY <1>2, <2>4, BlockConcat
    <2>. DEFINE P == <<start>>
                Q == <<BatchFinished>>
    <2>6. /\ Long(P, 1) /\ Long(Q, 1) /\ SaysAll(Q[1])
          /\ PosIn(P, "map_chunk") = {} /\ PosIn(P, "chunk_batch_finished") = {}
          /\ PosIn(P, "chunk_batch_start") = {1}
          /\ PosIn(Q, "map_chunk") = {} /\ PosIn(Q, "chunk_batch_start") = {}
          /\ PosIn(Q, "chunk_batch_finished") = {1}
      BY <2>2, SqOne, OnePos, BatchFits DEF SaysAll, Long
    <2>7. WriteChunks = (P \o Chunks) \o Q BY <2>1
    <2>. HIDE DEF P, Q
    <2>8. Whole((P \o Chunks) \o Q) BY <2>6, WholeBatch DEF Cat
    <2>. QED BY <2>1, <2>5, <2>7, <2>8
  <1>4. CASE ~ Knows("chunk_batch_start")
    <2>1. WriteChunks = (<<>> \o Chunks) \o <<>> BY <1>1, <1>4 DEF WriteChunks, If
    <2>2. PICK S : Chunks \in Seq(S) BY <1>2 DEF Block, Sq
    <2>3. WriteChunks = Chunks BY <2>1, <2>2, ConcatEmptySeq
    <2>. QED BY <1>2, <2>3, WholeChunks
  <1>. QED BY <1>3, <1>4

--------------------------------------------------------------------------------
(* The lobby: titles, effects, the countdown (createJoinPackets).           *)

\* A colour that a version can show.
Shown(colour) == Len(colour) = IF HexColors THEN 3 ELSE 1

LEMMA PickShown ==
  ASSUME NEW hex, NEW legacy, Len(hex) = 3, Len(legacy) = 1
  PROVE  Shown(PickWebColor(hex, legacy))
  BY DEF Shown, PickWebColor

LEMMA ColoursShown ==
  /\ Shown(PickWebColor(WEB_MUTED_COLOR, <<"gray">>))
  /\ Shown(PickWebColor(WEB_DANGER_COLOR, <<"red">>))
  /\ Shown(PickWebColor(WEB_ACCENT_STRONG_COLOR, <<"green">>))
  /\ Shown(PickWebColor(WEB_ACCENT_COLOR, <<"green">>))
  /\ Shown(PickWebColor(WEB_TEXT_COLOR, <<"white">>))
  <1>1. /\ Len(WEB_MUTED_COLOR) = 3 /\ Len(WEB_DANGER_COLOR) = 3 /\ Len(WEB_ACCENT_STRONG_COLOR) = 3
        /\ Len(WEB_ACCENT_COLOR) = 3 /\ Len(WEB_TEXT_COLOR) = 3
    BY DEF WEB_MUTED_COLOR, WEB_DANGER_COLOR, WEB_ACCENT_STRONG_COLOR, WEB_ACCENT_COLOR, WEB_TEXT_COLOR
  <1>2. Len(<<"gray">>) = 1 /\ Len(<<"red">>) = 1 /\ Len(<<"green">>) = 1 /\ Len(<<"white">>) = 1
    OBVIOUS
  <1>. QED BY <1>1, <1>2, PickShown

Gradient ==
  [i \in 1 .. TitleLetters |->
    BlendHexColor(WEB_ACCENT_STRONG_COLOR, WEB_ACCENT_COLOR, i - 1, TitleLetters - 1)]

LEMMA GradientShown ==
  /\ DOMAIN Gradient = 1 .. 10
  /\ \A k \in 1 .. 10 : Len(Gradient[k]) = 3
  <1>1. DOMAIN Gradient = 1 .. 10 BY DEF Gradient, TitleLetters
  <1>2. ASSUME NEW k \in 1 .. 10 PROVE Len(Gradient[k]) = 3
    <2>1. Gradient[k] = BlendHexColor(WEB_ACCENT_STRONG_COLOR, WEB_ACCENT_COLOR, k - 1, TitleLetters - 1)
      BY DEF Gradient, TitleLetters
    <2>2. PICK S : Gradient[k] \in [1 .. 3 -> S]
      <3>. DEFINE g == BlendHexColor(WEB_ACCENT_STRONG_COLOR, WEB_ACCENT_COLOR, k - 1, TitleLetters - 1)
      <3>1. g = [c \in 1 .. 3 |-> g[c]] BY DEF BlendHexColor
      <3>. HIDE DEF g
      <3>2. g \in [1 .. 3 -> {g[c] : c \in 1 .. 3}] BY <3>1
      <3>3. Gradient[k] = g BY <2>1 DEF g
      <3>. QED BY <3>2, <3>3
    <2>. QED BY <2>2, SqMap
  <1>. QED BY <1>1, <1>2

LEMMA TitleColorsShown ==
  /\ \A k \in DOMAIN TitleColors : Shown(TitleColors[k])
  /\ Len(TitleColors) = 1 \/ TitleColors = Gradient
  <1>1. CASE HexColors
    <2>1. TitleColors = Gradient BY <1>1 DEF TitleColors, Gradient
    <2>. QED BY <1>1, <2>1, GradientShown DEF Shown
  <1>2. CASE ~ HexColors
    <2>. DEFINE green == <<"green">>
    <2>1. TitleColors = <<green>> BY <1>2 DEF TitleColors
    <2>2. Len(green) = 1 OBVIOUS
    <2>. HIDE DEF green
    <2>3. DOMAIN <<green>> = {1} /\ <<green>>[1] = green /\ Len(<<green>>) = 1 BY SqOne
    <2>. QED BY <1>2, <2>1, <2>2, <2>3 DEF Shown
  <1>. QED BY <1>1, <1>2

\* What a packet whose colours a version shows has to fit besides.
LEMMA ColouredFits ==
  ASSUME NEW n, NEW p, p.name = n,
         \A k \in DOMAIN p.colors : Shown(p.colors[k]),
         n \in OptionalPackets => Knows(n),
         n \in {"set_title_text", "title"} => Len(p.colors) = 1 \/ p.colors = Gradient,
         n \notin {"entity_effect", "login", "update_view_distance", "tags", "map_chunk",
                   "set_title_time", "title_times"}
  PROVE  Fits(p, version)
  BY DEF Fits, Shown, HexColors, Knows, Gradient

LEMMA TitledFits ==
  ASSUME NEW n \in {"set_title_text", "title"}, Knows(n)
  PROVE  Titled(n).name = n /\ Fits(Titled(n), version)
  <1>1. Titled(n).name = n /\ Titled(n).colors = TitleColors BY DEF Titled
  <1>. QED BY <1>1, TitleColorsShown, ColouredFits

LEMMA SubtitledFits ==
  ASSUME NEW n \in {"set_title_subtitle", "title"}, n \in OptionalPackets => Knows(n)
  PROVE  Subtitled(n).name = n /\ Fits(Subtitled(n), version)
  <1>. DEFINE c == PickWebColor(WEB_TEXT_COLOR, <<"white">>)
  <1>1. Subtitled(n).name = n /\ Subtitled(n).colors = <<c>> BY DEF Subtitled
  <1>2. Shown(c) BY ColoursShown
  <1>. HIDE DEF c
  <1>3. DOMAIN <<c>> = {1} /\ <<c>>[1] = c /\ Len(<<c>>) = 1 BY SqOne
  <1>. QED BY <1>1, <1>2, <1>3, ColouredFits

LEMMA TimesFit ==
  ASSUME NEW n \in {"set_title_time", "title_times"}, NEW p, p = [name |-> n, stay |-> TITLE_STAY]
  PROVE  p.name = n /\ Fits(p, version)
  <1>1. p.name = n /\ p.stay = TITLE_STAY /\ "colors" \notin DOMAIN p OBVIOUS
  <1>. QED BY <1>1 DEF Fits, OptionalPackets

LEMMA BlockThree ==
  ASSUME NEW p, NEW q, NEW r, NEW N, NEW v, p.name \in N, q.name \in N, r.name \in N,
         Fits(p, v), Fits(q, v), Fits(r, v)
  PROVE  Block(<<p, q, r>>, N, v)
  <1>1. <<p, q, r>> \in Seq({p, q, r}) OBVIOUS
  <1>2. Sq(<<p, q, r>>) BY <1>1 DEF Sq
  <1>3. DOMAIN <<p, q, r>> = {1, 2, 3}
    <2>1. Len(<<p, q, r>>) = 3 OBVIOUS
    <2>2. DOMAIN <<p, q, r>> = 1 .. 3 BY <1>2, <2>1, SqShape
    <2>. QED BY <2>2
  <1>4. <<p, q, r>>[1] = p /\ <<p, q, r>>[2] = q /\ <<p, q, r>>[3] = r OBVIOUS
  <1>. QED BY <1>2, <1>3, <1>4 DEF Block

LEMMA TitlesFit == Block(TitlePackets, LobbyNames, version)
  <1>1. CASE Knows("set_title_text")
    <2>. DEFINE p == [name |-> "set_title_time", stay |-> TITLE_STAY]
                q == Subtitled("set_title_subtitle")
                r == Titled("set_title_text")
    <2>1. TitlePackets = <<p, q, r>> BY <1>1 DEF TitlePackets
    <2>2. p.name = "set_title_time" /\ Fits(p, version) BY TimesFit
    <2>3. q.name = "set_title_subtitle" /\ Fits(q, version) BY SubtitledFits DEF OptionalPackets
    <2>4. r.name = "set_title_text" /\ Fits(r, version) BY <1>1, TitledFits
    <2>. HIDE DEF p, q, r
    <2>5. Block(<<p, q, r>>, LobbyNames, version) BY <2>2, <2>3, <2>4, BlockThree DEF LobbyNames
    <2>. QED BY <2>1, <2>5
  <1>2. CASE ~ Knows("set_title_text") /\ Knows("title")
    <2>. DEFINE p == [name |-> "title_times", stay |-> TITLE_STAY]
                q == Subtitled("title")
                r == Titled("title")
    <2>1. TitlePackets = <<p, q, r>> BY <1>2 DEF TitlePackets
    <2>2. p.name = "title_times" /\ Fits(p, version) BY TimesFit
    <2>3. q.name = "title" /\ Fits(q, version) BY <1>2, SubtitledFits
    <2>4. r.name = "title" /\ Fits(r, version) BY <1>2, TitledFits
    <2>. HIDE DEF p, q, r
    <2>5. Block(<<p, q, r>>, LobbyNames, version) BY <2>2, <2>3, <2>4, BlockThree DEF LobbyNames
    <2>. QED BY <2>1, <2>5
  <1>3. CASE ~ Knows("set_title_text") /\ ~ Knows("title")
    <2>1. TitlePackets = <<>> BY <1>3 DEF TitlePackets
    <2>. QED BY <2>1, SqEmpty DEF Block
  <1>. QED BY <1>1, <1>2, <1>3

LEMMA LimboFits == Block(LimboPackets, LobbyNames, version)
  <1>1. ASSUME NEW e PROVE Block(EffectPacket(e), LobbyNames, version)
    <2>. DEFINE p == [name |-> "entity_effect", effect |-> e, duration |-> LIMBO_DURATION_TICKS]
    <2>1. p.name = "entity_effect" /\ p.effect = e /\ p.duration = LIMBO_DURATION_TICKS
          /\ "colors" \notin DOMAIN p
      OBVIOUS
    <2>2. EffectPacket(e) = If(e \in version.effects, <<p>>) BY DEF EffectPacket
    <2>. HIDE DEF p
    <2>3. e \in version.effects => Fits(p, version) BY <2>1 DEF Fits, OptionalPackets
    <2>4. e \in version.effects => Block(<<p>>, LobbyNames, version)
      BY <2>1, <2>3, BlockOne DEF LobbyNames
    <2>5. (e \in version.effects) \in BOOLEAN OBVIOUS
    <2>. QED BY <2>2, <2>4, <2>5, BlockIf
  <1>2. Block(EffectPacket(LIMBO_EFFECTS[1]) \o EffectPacket(LIMBO_EFFECTS[2]), LobbyNames, version)
    BY <1>1, BlockConcat
  <1>3. Block((EffectPacket(LIMBO_EFFECTS[1]) \o EffectPacket(LIMBO_EFFECTS[2]))
              \o EffectPacket(LIMBO_EFFECTS[3]), LobbyNames, version)
    BY <1>1, <1>2, BlockConcat
  <1>. QED BY <1>3 DEF LimboPackets

LEMMA ComponentFits ==
  ASSUME NEW c, Shown(c)
  PROVE  VoidComponent(c).name \in LobbyNames /\ Fits(VoidComponent(c), version)
  <1>. DEFINE p == VoidComponent(c)
  <1>1. p.name = (IF Knows("system_chat") THEN "system_chat" ELSE "chat") /\ p.colors = <<c>>
    BY DEF VoidComponent
  <1>. HIDE DEF p
  <1>2. DOMAIN <<c>> = {1} /\ <<c>>[1] = c BY SqOne
  <1>3. Fits(p, version)
    <2>1. CASE Knows("system_chat") BY <1>1, <1>2, <2>1, ColouredFits
    <2>2. CASE ~ Knows("system_chat") BY <1>1, <1>2, <2>2, ColouredFits DEF OptionalPackets
    <2>. QED BY <2>1, <2>2
  <1>. QED BY <1>1, <1>3 DEF p, LobbyNames

LEMMA AppendLast ==
  ASSUME NEW S, NEW s \in Seq(S), NEW b \in S
  PROVE  /\ DOMAIN Append(s, b) = 1 .. Len(s) + 1
         /\ \A i \in 1 .. Len(s) : Append(s, b)[i] = s[i]
         /\ \A i \in Nat : i = Len(s) + 1 => Append(s, b)[i] = b
  <1>1. /\ Append(s, b) \in Seq(S) /\ Len(Append(s, b)) = Len(s) + 1
        /\ \A i \in 1 .. Len(s) : Append(s, b)[i] = s[i]
        /\ Append(s, b)[Len(s) + 1] = b
    BY AppendProperties
  <1>2. DOMAIN Append(s, b) = 1 .. Len(Append(s, b)) BY <1>1, LenProperties
  <1>. QED BY <1>1, <1>2

LEMMA AppendOne ==
  ASSUME NEW a, NEW b
  PROVE  /\ DOMAIN Append(<<a>>, b) = {1, 2}
         /\ Append(<<a>>, b)[1] = a /\ Append(<<a>>, b)[2] = b
  <1>1. <<a>> \in Seq({a, b}) /\ Len(<<a>>) = 1 /\ <<a>>[1] = a OBVIOUS
  <1>2. 1 .. 1 + 1 = {1, 2} OBVIOUS
  <1>. QED BY <1>1, <1>2, AppendLast

LEMMA CountdownFits ==
  ASSUME NEW seconds
  PROVE  Countdown(seconds).name \in LobbyNames /\ Fits(Countdown(seconds), version)
  <1>. DEFINE a == PickWebColor(WEB_MUTED_COLOR, <<"gray">>)
              b == CASE seconds <= 5 -> PickWebColor(WEB_DANGER_COLOR, <<"red">>)
                     [] seconds \in 6 .. 10 -> PickWebColor(WEB_ACCENT_STRONG_COLOR, <<"green">>)
                     [] OTHER -> PickWebColor(WEB_ACCENT_COLOR, <<"green">>)
              p == Countdown(seconds)
  <1>1. Shown(a) /\ Shown(b) BY ColoursShown
  <1>2. p = [VoidComponent(a) EXCEPT !.colors = Append(@, b)] BY DEF Countdown
  <1>. HIDE DEF a, b, p
  <1>3. VoidComponent(a) = [name |-> IF Knows("system_chat") THEN "system_chat" ELSE "chat", colors |-> <<a>>]
    BY DEF VoidComponent
  <1>4. p.name = (IF Knows("system_chat") THEN "system_chat" ELSE "chat") /\ p.colors = Append(<<a>>, b)
    BY <1>2, <1>3
  <1>5. DOMAIN p.colors = {1, 2} /\ p.colors[1] = a /\ p.colors[2] = b BY <1>4, AppendOne
  <1>7. \A k \in DOMAIN p.colors : Shown(p.colors[k]) BY <1>1, <1>5
  <1>8. Fits(p, version)
    <2>1. CASE Knows("system_chat") BY <1>4, <1>7, <2>1, ColouredFits
    <2>2. CASE ~ Knows("system_chat") BY <1>4, <1>7, <2>2, ColouredFits DEF OptionalPackets
    <2>. QED BY <2>1, <2>2
  <1>. QED BY <1>4, <1>8 DEF p, LobbyNames

LEMMA EnterFits == Block(Enter, LobbyNames, version)
  <1>. DEFINE a == VoidComponent(PickWebColor(WEB_MUTED_COLOR, <<"gray">>))
              d == If(Knows("declare_commands"), <<Packet("declare_commands")>>)
              e == Countdown(LOBBY_LIFETIME_SECONDS)
  <1>1. Block(<<a>>, LobbyNames, version) BY ColoursShown, ComponentFits, BlockOne
  <1>2. Block(d, LobbyNames, version)
    <2>1. Packet("declare_commands").name = "declare_commands" BY DEF Packet
    <2>2. Knows("declare_commands") => Fits(Packet("declare_commands"), version) BY PlainFits DEF Knows
    <2>3. Knows("declare_commands") => Block(<<Packet("declare_commands")>>, LobbyNames, version)
      BY <2>1, <2>2, BlockOne DEF LobbyNames
    <2>4. Knows("declare_commands") \in BOOLEAN BY DEF Knows
    <2>. QED BY <2>3, <2>4, BlockIf
  <1>3. Block(<<e>>, LobbyNames, version) BY CountdownFits, BlockOne
  <1>4. Enter = (((<<a>> \o TitlePackets) \o d) \o LimboPackets) \o <<e>> BY DEF Enter
  <1>. HIDE DEF a, d, e
  <1>. QED BY <1>1, <1>2, <1>3, <1>4, TitlesFit, LimboFits, BlockConcat

--------------------------------------------------------------------------------
(* A stream that is continued keeps a world whole.                          *)

\* A world is loaded: what is waited for comes before its chunks.
Loads(s) ==
  PosIn(s, "map_chunk") # {} =>
    /\ \A n \in {"level_chunks_load_start", "update_view_position"} :
         \A i \in PosIn(s, n), j \in PosIn(s, "map_chunk") : i < j
    /\ \E i \in PosIn(s, "position") : \A j \in PosIn(s, "map_chunk") : i < j
    /\ Whole(s)

LEMMA PosBound ==
  ASSUME NEW s, NEW a \in Nat, Long(s, a), NEW n
  PROVE  PosIn(s, n) \subseteq 1 .. a
  <1>1. Sq(s) /\ Len(s) = a BY DEF Long
  <1>. QED BY <1>1, SqShape DEF PosIn

LEMMA LongIs ==
  ASSUME NEW s, Sq(s)
  PROVE  Len(s) \in Nat /\ Long(s, Len(s))
  BY SqShape DEF Long

LEMMA CatAssoc ==
  ASSUME NEW s, NEW t, NEW u, Sq(s), Sq(t), Sq(u)
  PROVE  Cat(Cat(s, t), u) = Cat(s, Cat(t, u))
  <1>1. PICK S, T, U : s \in Seq(S) /\ t \in Seq(T) /\ u \in Seq(U) BY DEF Sq
  <1>2. PICK V : V = S \cup T \cup U OBVIOUS
  <1>3. s \in Seq(V) /\ t \in Seq(V) /\ u \in Seq(V) BY <1>1, <1>2, SeqMonotonic
  <1>. QED BY <1>3, ConcatAssociative DEF Cat

LEMMA CatSq ==
  ASSUME NEW s, NEW t, Sq(s), Sq(t)
  PROVE  Sq(Cat(s, t))
  BY SqConcat DEF Cat

\* Chunks that are written after what a client waits for.
LEMMA LoadsStart ==
  ASSUME NEW s, NEW t, Sq(s), Sq(t), Whole(t),
         \A n \in ChunkNames : PosIn(s, n) = {},
         PosIn(s, "position") # {},
         \A n \in {"level_chunks_load_start", "update_view_position"} : PosIn(t, n) = {}
  PROVE  Loads(Cat(s, t))
  <1>. DEFINE w == Cat(s, t)
  <1>1. PICK a \in Nat : Long(s, a) BY LongIs
  <1>2. PICK b \in Nat : Long(t, b) BY LongIs
  <1>3. /\ \A i \in 1 .. b, j \in Nat : j = a + i => w[j] = t[i]
        /\ \A n, j : j \in PosIn(w, n) <=> j \in PosIn(s, n) \/ \E i \in PosIn(t, n) : j = a + i
    BY <1>1, <1>2, LongCat
  <1>. HIDE DEF w
  <1>4. PICK k \in Nat : WholeAt(t, k) BY DEF Whole
  <1>5. PICK m \in Nat : m = a + k OBVIOUS
  <1>6. \A n : PosIn(s, n) \subseteq 1 .. a BY <1>1, PosBound
  <1>7. \A n : PosIn(t, n) \subseteq 1 .. b BY <1>2, PosBound
  <1>8. PosIn(w, "map_chunk") = m + 1 .. m + 25
    <2>1. \A j : j \in PosIn(w, "map_chunk") <=> \E i \in k + 1 .. k + 25 : j = a + i
      BY <1>3, <1>4 DEF WholeAt, ChunkNames
    <2>2. ASSUME NEW j \in m + 1 .. m + 25 PROVE j \in PosIn(w, "map_chunk")
      <3>1. j - a \in k + 1 .. k + 25 /\ j = a + (j - a) BY <1>5
      <3>. QED BY <2>1, <3>1
    <2>3. ASSUME NEW j \in PosIn(w, "map_chunk") PROVE j \in m + 1 .. m + 25
      <3>1. PICK i \in k + 1 .. k + 25 : j = a + i BY <2>1
      <3>. QED BY <1>5, <3>1
    <2>. QED BY <2>2, <2>3
  <1>9. PosIn(t, "map_chunk") = k + 1 .. k + 25 BY <1>4 DEF WholeAt
  <1>10. ASSUME NEW j \in m + 1 .. m + 25
         PROVE  \E i \in k + 1 .. k + 25 : i \in 1 .. b /\ j \in Nat /\ j = a + i /\ w[j] = t[i]
    <2>1. j - a \in k + 1 .. k + 25 /\ j = a + (j - a) /\ j \in Nat BY <1>5
    <2>2. PICK i \in k + 1 .. k + 25 : i = j - a BY <2>1
    <2>3. i \in PosIn(t, "map_chunk") BY <1>9
    <2>4. i \in 1 .. b BY <1>7, <2>3
    <2>5. j = a + i BY <2>1, <2>2
    <2>6. w[j] = t[i] BY <1>3, <2>1, <2>4, <2>5
    <2>. QED BY <2>1, <2>4, <2>5, <2>6
  <1>11. \A j \in m + 1 .. m + 25 : w[j].at \in Grid BY <1>4, <1>10 DEF WholeAt
  <1>12. ASSUME NEW g \in Grid PROVE \E j \in m + 1 .. m + 25 : w[j].at = g
    <2>1. PICK i \in k + 1 .. k + 25 : t[i].at = g BY <1>4 DEF WholeAt
    <2>2. PICK j \in m + 1 .. m + 25 : j = a + i
      <3>1. a + i \in m + 1 .. m + 25 BY <1>5
      <3>. QED BY <3>1
    <2>0. i \in PosIn(t, "map_chunk") BY <1>9
    <2>3. i \in 1 .. b /\ j \in Nat BY <1>7, <2>0, <2>2
    <2>4. w[j] = t[i] BY <1>3, <2>2, <2>3
    <2>. QED BY <2>1, <2>4
  <1>13. \/ PosIn(w, "chunk_batch_start") = {} /\ PosIn(w, "chunk_batch_finished") = {}
         \/ /\ PosIn(w, "chunk_batch_start") = {m}
            /\ PosIn(w, "chunk_batch_finished") = {m + 26} /\ SaysAll(w[m + 26])
    <2>1. CASE PosIn(t, "chunk_batch_start") = {} /\ PosIn(t, "chunk_batch_finished") = {}
      BY <1>3, <2>1 DEF ChunkNames
    <2>2. CASE /\ PosIn(t, "chunk_batch_start") = {k}
               /\ PosIn(t, "chunk_batch_finished") = {k + 26} /\ SaysAll(t[k + 26])
      <3>1. \A j : j \in PosIn(w, "chunk_batch_start") <=> j = a + k
        BY <1>3, <2>2 DEF ChunkNames
      <3>2. \A j : j \in PosIn(w, "chunk_batch_finished") <=> j = a + (k + 26)
        BY <1>3, <2>2 DEF ChunkNames
      <3>3. a + (k + 26) = m + 26 /\ k + 26 \in 1 .. b /\ m + 26 \in Nat
        BY <1>5, <1>7, <2>2
      <3>4. w[m + 26] = t[k + 26] BY <1>3, <3>3
      <3>. QED BY <1>5, <2>2, <3>1, <3>2, <3>3, <3>4
    <2>. QED BY <1>4, <2>1, <2>2 DEF WholeAt
  <1>14. Whole(w)
    <2>1. WholeAt(w, m) BY <1>8, <1>11, <1>12, <1>13 DEF WholeAt
    <2>. QED BY <2>1 DEF Whole
  <1>15. ASSUME NEW n, NEW i \in PosIn(s, n), NEW j \in PosIn(w, "map_chunk") PROVE i < j
    <2>1. i \in 1 .. a BY <1>6
    <2>2. j \in m + 1 .. m + 25 BY <1>8
    <2>. QED BY <1>5, <2>1, <2>2
  <1>16. \A n \in {"level_chunks_load_start", "update_view_position"} : PosIn(w, n) = PosIn(s, n)
    BY <1>3
  <1>17. PosIn(s, "position") \subseteq PosIn(w, "position") BY <1>3
  <1>18. Loads(w) BY <1>14, <1>15, <1>16, <1>17 DEF Loads
  <1>. QED BY <1>18 DEF w

\* What follows and has no part in it leaves a world loaded.
LEMMA LoadsOn ==
  ASSUME NEW s, NEW t, Sq(s), Sq(t), Loads(s),
         \A n \in ChunkNames \cup {"level_chunks_load_start", "update_view_position"} : PosIn(t, n) = {}
  PROVE  Loads(Cat(s, t))
  <1>. DEFINE w == Cat(s, t)
  <1>1. PICK a \in Nat : Long(s, a) BY LongIs
  <1>2. PICK b \in Nat : Long(t, b) BY LongIs
  <1>3. /\ \A i \in 1 .. a : w[i] = s[i]
        /\ \A n, j : j \in PosIn(w, n) <=> j \in PosIn(s, n) \/ \E i \in PosIn(t, n) : j = a + i
    BY <1>1, <1>2, LongCat
  <1>. HIDE DEF w
  <1>4. \A n \in ChunkNames \cup {"level_chunks_load_start", "update_view_position"} :
          PosIn(w, n) = PosIn(s, n)
    BY <1>3
  <1>5. PosIn(s, "position") \subseteq PosIn(w, "position") BY <1>3
  <1>6. \A n : PosIn(s, n) \subseteq 1 .. a BY <1>1, PosBound
  <1>7. ASSUME Whole(s) PROVE Whole(w)
    <2>1. PICK k \in Nat : WholeAt(s, k) BY <1>7 DEF Whole
    <2>2. PosIn(w, "map_chunk") = k + 1 .. k + 25 /\ PosIn(s, "map_chunk") = k + 1 .. k + 25
      BY <1>4, <2>1 DEF WholeAt, ChunkNames
    <2>3. \A i \in k + 1 .. k + 25 : w[i] = s[i] BY <1>3, <1>6, <2>2
    <2>4. \A i \in PosIn(s, "chunk_batch_finished") : w[i] = s[i] BY <1>3, <1>6
    <2>5. \A i \in k + 1 .. k + 25 : w[i].at \in Grid BY <2>1, <2>3 DEF WholeAt
    <2>6. \A g \in Grid : \E i \in k + 1 .. k + 25 : w[i].at = g BY <2>1, <2>3 DEF WholeAt
    <2>7. \/ PosIn(w, "chunk_batch_start") = {} /\ PosIn(w, "chunk_batch_finished") = {}
          \/ /\ PosIn(w, "chunk_batch_start") = {k}
             /\ PosIn(w, "chunk_batch_finished") = {k + 26} /\ SaysAll(w[k + 26])
      <3>1. PosIn(w, "chunk_batch_start") = PosIn(s, "chunk_batch_start")
            /\ PosIn(w, "chunk_batch_finished") = PosIn(s, "chunk_batch_finished")
        BY <1>4 DEF ChunkNames
      <3>2. CASE PosIn(s, "chunk_batch_start") = {} /\ PosIn(s, "chunk_batch_finished") = {}
        BY <3>1, <3>2
      <3>3. CASE /\ PosIn(s, "chunk_batch_start") = {k}
                 /\ PosIn(s, "chunk_batch_finished") = {k + 26} /\ SaysAll(s[k + 26])
        <4>1. w[k + 26] = s[k + 26] BY <2>4, <3>3
        <4>. QED BY <3>1, <3>3, <4>1
      <3>. QED BY <2>1, <3>2, <3>3 DEF WholeAt
    <2>8. WholeAt(w, k) BY <2>2, <2>5, <2>6, <2>7 DEF WholeAt
    <2>. QED BY <2>8 DEF Whole
  <1>8. Loads(w) BY <1>4, <1>5, <1>7 DEF Loads, ChunkNames
  <1>. QED BY <1>8 DEF w

--------------------------------------------------------------------------------
(* Everything that Present sends.                                           *)

ConfigNames == {"success", "registry_data", "tags", "finish_configuration"}
PlayNames == ConfigNames \cup FrontNames \cup {"position"} \cup ChunkNames \cup LobbyNames
AllNames == PlayNames \cup {"kick"}

LEMMA BlockPos ==
  ASSUME NEW s, NEW N, NEW v, Block(s, N, v), NEW n, n \notin N
  PROVE  PosIn(s, n) = {}
  BY DEF Block, PosIn

LEMMA FrontFits ==
  Block(((<<JoinGamePacket>> \o If(Knows("level_chunks_load_start"), <<Packet("level_chunks_load_start")>>))
         \o <<Packet("abilities")>>) \o ViewPackets, FrontNames, version)
  <1>. DEFINE c == Knows("level_chunks_load_start")
              p == Packet("level_chunks_load_start")
              q == Packet("abilities")
  <1>1. p.name = "level_chunks_load_start" /\ q.name = "abilities" BY DEF Packet
  <1>2. c \in BOOLEAN /\ (c => Fits(p, version)) BY PlainFits DEF Knows
  <1>3. Fits(q, version) BY PlainFits DEF OptionalPackets
  <1>. HIDE DEF c, p, q
  <1>4. c => Block(<<p>>, FrontNames, version) BY <1>1, <1>2, BlockOne DEF FrontNames
  <1>5. Block(If(c, <<p>>), FrontNames, version) BY <1>2, <1>4, BlockIf
  <1>6. Block(<<q>>, FrontNames, version) BY <1>1, <1>3, BlockOne DEF FrontNames
  <1>7. Block(<<JoinGamePacket>>, FrontNames, version) BY LoginFits, BlockOne DEF FrontNames
  <1>8. Block(((<<JoinGamePacket>> \o If(c, <<p>>)) \o <<q>>) \o ViewPackets, FrontNames, version)
    BY <1>5, <1>6, <1>7, ViewFits, BlockConcat
  <1>. QED BY <1>8 DEF c, p, q

\* What the world adds to what a client has been configured with.
LEMMA WorldFollows ==
  ASSUME version \in Versions, NEW s, Block(s, ConfigNames, version)
  PROVE  LET w == Cat(s, PresentVoidWorld \o If(purpose = "lobby", Enter))
         IN /\ Block(w, PlayNames, version)
            /\ Loads(w)
            /\ \A n \in ConfigNames : /\ PosIn(w, n) = PosIn(s, n)
                                      /\ \A i \in PosIn(s, n) : w[i] = s[i]
            /\ \E k : PosIn(w, "position") = {k} /\ w[k].teleportId = 1
  <1>. DEFINE F == ((<<JoinGamePacket>>
                     \o If(Knows("level_chunks_load_start"), <<Packet("level_chunks_load_start")>>))
                    \o <<Packet("abilities")>>) \o ViewPackets
              O == <<Position(1)>>
              M == If(purpose = "lobby" /\ version.chunks, WriteChunks)
              E == If(purpose = "lobby", Enter)
  <1>1. Cat(s, PresentVoidWorld \o E) = Cat(s, Cat(Cat(Cat(F, O), M), E))
    BY DEF PresentVoidWorld, Cat
  <1>2. Block(F, FrontNames, version) BY FrontFits
  <1>3. /\ Block(O, {"position"}, version) /\ Long(O, 1) /\ PosIn(O, "position") = {1}
        /\ O[1].teleportId = 1
    BY PositionFits, BlockOne, SqOne, OnePos DEF Long
  <1>4. /\ Block(M, ChunkNames, version) /\ (Whole(M) \/ M = <<>>)
    <2>1. version.chunks \in BOOLEAN BY VersionAssumption
    <2>2. (purpose = "lobby" /\ version.chunks) \in BOOLEAN BY <2>1
    <2>3. Block(WriteChunks, ChunkNames, version) /\ Whole(WriteChunks) BY WriteChunksAre
    <2>4. Block(M, ChunkNames, version) BY <2>2, <2>3, BlockIf
    <2>. QED BY <2>3, <2>4 DEF If
  <1>5. Block(E, LobbyNames, version)
    <2>1. (purpose = "lobby") \in BOOLEAN OBVIOUS
    <2>. QED BY <2>1, EnterFits, BlockIf
  <1>. DEFINE w == Cat(s, PresentVoidWorld \o E)
  <1>6. w = Cat(s, Cat(Cat(Cat(F, O), M), E)) BY <1>1
  <1>. HIDE DEF F, O, M, E, w
  <1>7. Sq(s) /\ Sq(F) /\ Sq(O) /\ Sq(M) /\ Sq(E) BY <1>2, <1>3, <1>4, <1>5 DEF Block
  <1>. DEFINE A == Cat(s, F)
              B == Cat(A, O)
              C == Cat(B, M)
  <1>8. Sq(A) /\ Sq(B) /\ Sq(C) BY <1>7, CatSq
  <1>9. w = Cat(C, E)
    <2>1. Sq(Cat(F, O)) /\ Sq(Cat(Cat(F, O), M)) BY <1>7, CatSq
    <2>2. Cat(s, Cat(Cat(Cat(F, O), M), E)) = Cat(Cat(s, Cat(Cat(F, O), M)), E) BY <1>7, <2>1, CatAssoc
    <2>3. Cat(s, Cat(Cat(F, O), M)) = Cat(Cat(s, Cat(F, O)), M) BY <1>7, <2>1, CatAssoc
    <2>4. Cat(s, Cat(F, O)) = Cat(Cat(s, F), O) BY <1>7, CatAssoc
    <2>. QED BY <1>6, <2>2, <2>3, <2>4
  <1>10. PICK a \in Nat : Long(s, a) BY <1>7, LongIs
  <1>11. PICK f \in Nat : Long(F, f) BY <1>7, LongIs
  <1>12. PICK m \in Nat : Long(M, m) BY <1>7, LongIs
  <1>13. PICK e \in Nat : Long(E, e) BY <1>7, LongIs
  <1>14. PICK x \in Nat : x = a + f OBVIOUS
  <1>15. PICK y \in Nat : y = x + 1 OBVIOUS
  <1>16. PICK z \in Nat : z = y + m OBVIOUS
  <1>17. /\ Long(A, x) /\ \A i \in 1 .. a : A[i] = s[i]
         /\ \A n, j : j \in PosIn(A, n) <=> j \in PosIn(s, n) \/ \E i \in PosIn(F, n) : j = a + i
    BY <1>10, <1>11, <1>14, LongCat
  <1>. HIDE DEF A
  <1>18. /\ Long(B, y) /\ \A i \in 1 .. x : B[i] = A[i]
         /\ \A i \in 1 .. 1, j \in Nat : j = x + i => B[j] = O[i]
         /\ \A n, j : j \in PosIn(B, n) <=> j \in PosIn(A, n) \/ \E i \in PosIn(O, n) : j = x + i
    BY <1>3, <1>15, <1>17, LongCat
  <1>. HIDE DEF B
  <1>19. /\ Long(C, z) /\ \A i \in 1 .. y : C[i] = B[i]
         /\ \A n, j : j \in PosIn(C, n) <=> j \in PosIn(B, n) \/ \E i \in PosIn(M, n) : j = y + i
    BY <1>12, <1>16, <1>18, LongCat
  <1>. HIDE DEF C
  <1>20. /\ \A i \in 1 .. z : w[i] = C[i]
         /\ \A n, j : j \in PosIn(w, n) <=> j \in PosIn(C, n) \/ \E i \in PosIn(E, n) : j = z + i
    BY <1>9, <1>13, <1>19, LongCat
  <1>21. \A n \in ConfigNames :
           PosIn(F, n) = {} /\ PosIn(O, n) = {} /\ PosIn(M, n) = {} /\ PosIn(E, n) = {}
    <2>1. ASSUME NEW n \in ConfigNames
          PROVE  n \notin FrontNames /\ n # "position" /\ n \notin ChunkNames /\ n \notin LobbyNames
      BY DEF ConfigNames, FrontNames, ChunkNames, LobbyNames
    <2>2. ASSUME NEW n \in ConfigNames
          PROVE  PosIn(F, n) = {} /\ PosIn(O, n) = {} /\ PosIn(M, n) = {} /\ PosIn(E, n) = {}
      <3>1. n \notin {"position"} BY <2>1
      <3>. QED BY <1>2, <1>3, <1>4, <1>5, <2>1, <3>1, BlockPos
    <2>. QED BY <2>2
  <1>22. \A n \in ConfigNames : PosIn(w, n) = PosIn(s, n)
    BY <1>17, <1>18, <1>19, <1>20, <1>21
  <1>23. \A i \in 1 .. a : w[i] = s[i]
    <2>1. \A i \in 1 .. a : i \in 1 .. x /\ i \in 1 .. y /\ i \in 1 .. z BY <1>14, <1>15, <1>16
    <2>. QED BY <1>17, <1>18, <1>19, <1>20, <2>1
  <1>24. \A n : PosIn(s, n) \subseteq 1 .. a BY <1>10, PosBound
  <1>25. PosIn(s, "position") = {} /\ PosIn(F, "position") = {} /\ PosIn(M, "position") = {}
         /\ PosIn(E, "position") = {}
    <2>1. "position" \notin ConfigNames /\ "position" \notin FrontNames /\ "position" \notin ChunkNames
          /\ "position" \notin LobbyNames
      BY DEF ConfigNames, FrontNames, ChunkNames, LobbyNames
    <2>. QED BY <1>2, <1>4, <1>5, <2>1, BlockPos
  <1>26. PosIn(B, "position") = {y} /\ PosIn(w, "position") = {y} /\ w[y].teleportId = 1
    <2>1. PosIn(A, "position") = {} BY <1>17, <1>25
    <2>2. \A j : j \in PosIn(B, "position") <=> j = y BY <1>3, <1>15, <1>18, <2>1
    <2>3. \A j : j \in PosIn(w, "position") <=> j = y BY <1>19, <1>20, <1>25, <2>2
    <2>4. B[y] = O[1] BY <1>15, <1>18
    <2>5. y \in 1 .. y /\ y \in 1 .. z BY <1>15, <1>16
    <2>6. w[y] = O[1] BY <1>19, <1>20, <2>4, <2>5
    <2>. QED BY <1>3, <2>2, <2>3, <2>6
  <1>27. Loads(C)
    <2>1. \A n \in ChunkNames : PosIn(B, n) = {}
      <3>1. ASSUME NEW n \in ChunkNames PROVE PosIn(B, n) = {}
        <4>1. n \notin ConfigNames /\ n \notin FrontNames /\ n \notin {"position"}
          BY DEF ConfigNames, FrontNames, ChunkNames
        <4>2. PosIn(s, n) = {} /\ PosIn(F, n) = {} /\ PosIn(O, n) = {} BY <1>2, <1>3, <4>1, BlockPos
        <4>. QED BY <1>17, <1>18, <4>2
      <3>. QED BY <3>1
    <2>2. PosIn(B, "position") # {} BY <1>26
    <2>3. \A n \in {"level_chunks_load_start", "update_view_position"} : PosIn(M, n) = {}
      <3>1. \A n \in {"level_chunks_load_start", "update_view_position"} : n \notin ChunkNames
        BY DEF ChunkNames
      <3>. QED BY <1>4, <3>1, BlockPos
    <2>4. CASE Whole(M)
      <3>1. Loads(Cat(B, M)) BY <1>7, <1>8, <2>1, <2>2, <2>3, <2>4, LoadsStart DEF B
      <3>. QED BY <3>1 DEF C
    <2>5. CASE M = <<>>
      <3>1. PosIn(M, "map_chunk") = {} BY <2>5, SqEmpty DEF PosIn
      <3>2. PosIn(B, "map_chunk") = {} BY <2>1 DEF ChunkNames
      <3>3. PosIn(C, "map_chunk") = {} BY <1>19, <3>1, <3>2
      <3>. QED BY <3>3 DEF Loads
    <2>. QED BY <1>4, <2>4, <2>5
  <1>28. Loads(w)
    <2>1. \A n \in ChunkNames \cup {"level_chunks_load_start", "update_view_position"} : n \notin LobbyNames
      BY DEF ChunkNames, LobbyNames
    <2>2. \A n \in ChunkNames \cup {"level_chunks_load_start", "update_view_position"} : PosIn(E, n) = {}
      BY <1>5, <2>1, BlockPos
    <2>3. Loads(Cat(C, E)) BY <1>7, <1>8, <1>27, <2>2, LoadsOn
    <2>. QED BY <1>9, <2>3
  <1>29. Block(w, PlayNames, version)
    <2>1. /\ Block(s, PlayNames, version) /\ Block(F, PlayNames, version) /\ Block(O, PlayNames, version)
          /\ Block(M, PlayNames, version) /\ Block(E, PlayNames, version)
      BY <1>2, <1>3, <1>4, <1>5, BlockMore DEF PlayNames
    <2>2. Block(A, PlayNames, version) BY <2>1, BlockConcat DEF A, Cat
    <2>3. Block(B, PlayNames, version) BY <2>1, <2>2, BlockConcat DEF B, Cat
    <2>4. Block(C, PlayNames, version) BY <2>1, <2>3, BlockConcat DEF C, Cat
    <2>5. Block(Cat(C, E), PlayNames, version) BY <2>1, <2>4, BlockConcat DEF Cat
    <2>. QED BY <1>9, <2>5
  <1>30. \A n \in ConfigNames : \A i \in PosIn(s, n) : w[i] = s[i] BY <1>23, <1>24
  <1>. QED BY <1>22, <1>26, <1>28, <1>29, <1>30 DEF w, E

--------------------------------------------------------------------------------
(* The registries and the tags of the configuration.                        *)

\* The registries of a stream: each one is sent once.
RegsIn(s, R) ==
  /\ \A i \in PosIn(s, "registry_data") : s[i].registries \subseteq R
  /\ \A r \in R : \E i \in PosIn(s, "registry_data") : r \in s[i].registries
  /\ \A i, j \in PosIn(s, "registry_data") : i # j => s[i].registries \cap s[j].registries = {}

LEMMA RegistriesFinite == IsFiniteSet(Registries)
  <1>1. IsFiniteSet({"item"}) BY FS_Singleton
  <1>2. IsFiniteSet({"item"} \cup {"block"}) BY <1>1, FS_AddElement
  <1>3. IsFiniteSet({"item"} \cup {"block"} \cup {"entity_type"}) BY <1>2, FS_AddElement
  <1>4. IsFiniteSet({"item"} \cup {"block"} \cup {"entity_type"} \cup {"dialog"})
    BY <1>3, FS_AddElement
  <1>. DEFINE A == {"item"} \cup {"block"} \cup {"entity_type"} \cup {"dialog"}
  <1>5. IsFiniteSet(A) BY <1>4
  <1>. HIDE DEF A
  <1>6. IsFiniteSet(A \cup {"enchantment"} \cup {"timeline"} \cup {"damage_type"}) BY <1>5, FS_AddElement
  <1>. DEFINE B == A \cup {"enchantment"} \cup {"timeline"} \cup {"damage_type"}
  <1>7. IsFiniteSet(B) BY <1>6
  <1>. HIDE DEF B
  <1>8. IsFiniteSet(B \cup {"dimension_type"} \cup {"banner_pattern"} \cup {"instrument"} \cup {"biome"})
    BY <1>7, FS_AddElement
  <1>9. Registries = B \cup {"dimension_type"} \cup {"banner_pattern"} \cup {"instrument"} \cup {"biome"}
    BY DEF Registries, A, B
  <1>. QED BY <1>8, <1>9

\* An order of a finite set has each member once.
LEMMA OrderOfIs ==
  ASSUME NEW S, IsFiniteSet(S)
  PROVE  /\ Cardinality(S) \in Nat
         /\ OrderOf(S) \in [1 .. Cardinality(S) -> S]
         /\ \A x \in S : \E i \in 1 .. Cardinality(S) : OrderOf(S)[i] = x
         /\ \A i, j \in 1 .. Cardinality(S) : OrderOf(S)[i] = OrderOf(S)[j] => i = j
  <1>. DEFINE n == Cardinality(S)
              o == OrderOf(S)
  <1>1. n \in Nat /\ ExistsBijection(1 .. n, S) BY FS_CardinalityType
  <1>2. PICK g \in [1 .. n -> S] : \A x \in S : \E i \in 1 .. n : g[i] = x
    BY <1>1 DEF ExistsBijection, Bijection, Surjection
  <1>3. \E s \in [1 .. n -> S] : \A x \in S : \E i \in DOMAIN s : s[i] = x BY <1>2
  <1>4. o \in [1 .. n -> S] /\ \A x \in S : \E i \in DOMAIN o : o[i] = x
    BY <1>3 DEF OrderOf
  <1>. HIDE DEF o
  <1>5. o \in Surjection(1 .. n, S) BY <1>4 DEF Surjection
  <1>6. IsFiniteSet(1 .. n) /\ Cardinality(1 .. n) = n
    <2>1. IsFiniteSet(1 .. n) /\ Cardinality(1 .. n) = IF 1 > n THEN 0 ELSE n - 1 + 1
      BY <1>1, FS_Interval
    <2>. QED BY <1>1, <2>1
  <1>7. o \in Injection(1 .. n, S) BY <1>5, <1>6, FS_SurjSameCardinalityImpliesInj
  <1>8. \A i, j \in 1 .. n : o[i] = o[j] => i = j BY <1>7 DEF Injection, IsInjective
  <1>. QED BY <1>1, <1>4, <1>8 DEF o

LEMMA RegistryFits ==
  ASSUME NEW R, NEW v
  PROVE  /\ RegistryData(R).name = "registry_data" /\ RegistryData(R).registries = R
         /\ Fits(RegistryData(R), v)
  <1>1. RegistryData(R).name = "registry_data" /\ RegistryData(R).registries = R
        /\ "colors" \notin DOMAIN RegistryData(R)
    BY DEF RegistryData
  <1>. QED BY <1>1 DEF Fits, OptionalPackets

LEMMA CodecIs ==
  ASSUME version \in Versions
  PROVE  /\ Block(NegotiatedCodec, {"registry_data"}, version)
         /\ RegsIn(NegotiatedCodec, version.registries)
  <1>1. CASE version.codec = "segmented"
    <2>. DEFINE S == version.registries
                o == OrderOf(S)
                n == Cardinality(S)
                s == NegotiatedCodec
    <2>1. IsFiniteSet(S) BY VersionAssumption, RegistriesFinite, FS_Subset
    <2>2. /\ n \in Nat /\ o \in [1 .. n -> S]
          /\ \A x \in S : \E i \in 1 .. n : o[i] = x
          /\ \A i, j \in 1 .. n : o[i] = o[j] => i = j
      BY <2>1, OrderOfIs
    <2>3. s = [i \in 1 .. n |-> RegistryData({o[i]})] BY <1>1, <2>2 DEF NegotiatedCodec
    <2>. HIDE DEF S, o, n, s
    <2>4. s \in [1 .. n -> {RegistryData({o[i]}) : i \in 1 .. n}] BY <2>3
    <2>5. Sq(s) /\ Len(s) = n BY <2>2, <2>4, SqMap
    <2>6. DOMAIN s = 1 .. n BY <2>4
    <2>7. \A i \in 1 .. n : /\ s[i].name = "registry_data" /\ s[i].registries = {o[i]}
                            /\ Fits(s[i], version)
      BY <2>3, RegistryFits
    <2>8. Block(s, {"registry_data"}, version) BY <2>5, <2>6, <2>7 DEF Block
    <2>9. PosIn(s, "registry_data") = 1 .. n BY <2>6, <2>7 DEF PosIn
    <2>10. RegsIn(s, S) BY <2>2, <2>7, <2>9 DEF RegsIn
    <2>. QED BY <2>8, <2>10 DEF s, S
  <1>2. CASE version.codec # "segmented"
    <2>. DEFINE p == RegistryData(version.registries)
    <2>1. NegotiatedCodec = <<p>> BY <1>2 DEF NegotiatedCodec
    <2>2. p.name = "registry_data" /\ p.registries = version.registries /\ Fits(p, version)
      BY RegistryFits
    <2>. HIDE DEF p
    <2>3. Block(<<p>>, {"registry_data"}, version) BY <2>2, BlockOne
    <2>4. PosIn(<<p>>, "registry_data") = {1} /\ <<p>>[1] = p BY <2>2, OnePos, SqOne
    <2>5. PICK s : s = <<p>> OBVIOUS
    <2>6. PosIn(s, "registry_data") = {1} /\ s[1] = p BY <2>4, <2>5
    <2>7. s[1].registries = version.registries BY <2>2, <2>6
    <2>8. RegsIn(s, version.registries) BY <2>6, <2>7 DEF RegsIn
    <2>. QED BY <2>1, <2>3, <2>5, <2>8
  <1>. QED BY <1>1, <1>2

\* What a client that is through its configuration has been sent.
Configured(s, v) ==
  PosIn(s, "finish_configuration") # {} =>
    /\ RegsIn(s, v.registries)
    /\ \A i \in PosIn(s, "registry_data"), j \in PosIn(s, "tags") : i < j
    /\ \A i \in PosIn(s, "tags"), j \in PosIn(s, "finish_configuration") : i < j
    /\ "tags" \in v.known => \E k : PosIn(s, "tags") = {k}

LEMMA ConfiguredOn ==
  ASSUME NEW s, NEW w, NEW v, Configured(s, v),
         \A n \in ConfigNames : PosIn(w, n) = PosIn(s, n) /\ \A i \in PosIn(s, n) : w[i] = s[i]
  PROVE  Configured(w, v)
  <1>1. /\ PosIn(w, "registry_data") = PosIn(s, "registry_data") /\ PosIn(w, "tags") = PosIn(s, "tags")
        /\ PosIn(w, "finish_configuration") = PosIn(s, "finish_configuration")
        /\ \A i \in PosIn(s, "registry_data") : w[i] = s[i]
    BY DEF ConfigNames
  <1>2. RegsIn(s, v.registries) => RegsIn(w, v.registries) BY <1>1 DEF RegsIn
  <1>. QED BY <1>1, <1>2 DEF Configured

LEMMA TagsFit ==
  ASSUME version \in Versions
  PROVE  TagsPacket.name = "tags" /\ (Knows("tags") => Fits(TagsPacket, version))
  <1>1. /\ TagsPacket.name = "tags" /\ "colors" \notin DOMAIN TagsPacket
        /\ TagsPacket.bound = {r \in TAG_BINDINGS : r \in CORE_TAG_REGISTRIES \/ r \in GetRegistryIds}
    BY DEF TagsPacket
  <1>2. TagsPacket.bound \subseteq version.registries \cup CORE_TAG_REGISTRIES
    BY <1>1 DEF GetRegistryIds
  <1>. QED BY <1>1, <1>2 DEF Fits, Knows

LEMMA FinishIs ==
  ASSUME version \in Versions,
         NEW s, Block(s, {"success", "registry_data"}, version), RegsIn(s, version.registries)
  PROVE  LET w == s \o (If(Knows("tags"), <<TagsPacket>>) \o <<Packet("finish_configuration")>>)
         IN Block(w, ConfigNames, version) /\ Configured(w, version)
  <1>. DEFINE T == If(Knows("tags"), <<TagsPacket>>)
              f == Packet("finish_configuration")
              F == <<f>>
              w == s \o (T \o F)
  <1>1. f.name = "finish_configuration" BY DEF Packet
  <1>2. Fits(f, version) BY PlainFits DEF OptionalPackets
  <1>3. /\ Block(F, {"finish_configuration"}, version) /\ Long(F, 1)
        /\ PosIn(F, "finish_configuration") = {1} /\ PosIn(F, "tags") = {}
        /\ PosIn(F, "registry_data") = {}
    <2>. HIDE DEF f
    <2>. QED BY <1>1, <1>2, BlockOne, SqOne, OnePos DEF Long
  <1>4. Knows("tags") \in BOOLEAN BY DEF Knows
  <1>5. Block(T, {"tags"}, version)
    <2>1. Knows("tags") => Block(<<TagsPacket>>, {"tags"}, version) BY TagsFit, BlockOne
    <2>. QED BY <1>4, <2>1, BlockIf
  <1>6. PosIn(T, "registry_data") = {} /\ PosIn(T, "finish_configuration") = {}
    <2>1. "registry_data" \notin {"tags"} /\ "finish_configuration" \notin {"tags"} OBVIOUS
    <2>. QED BY <1>5, <2>1, BlockPos
  <1>7. Knows("tags") => PosIn(T, "tags") = {1} BY TagsFit, OnePos DEF If
  <1>8. PosIn(s, "tags") = {} /\ PosIn(s, "finish_configuration") = {}
    <2>1. "tags" \notin {"success", "registry_data"} /\ "finish_configuration" \notin {"success", "registry_data"}
      OBVIOUS
    <2>. QED BY <2>1, BlockPos
  <1>9. w = Cat(s, Cat(T, F)) BY DEF Cat
  <1>. HIDE DEF T, F, f, w
  <1>10. Sq(s) /\ Sq(T) /\ Sq(F) BY <1>3, <1>5 DEF Block
  <1>11. PICK a \in Nat : Long(s, a) BY <1>10, LongIs
  <1>12. PICK t \in Nat : Long(T, t) BY <1>10, LongIs
  <1>13. PICK b \in Nat : b = t + 1 OBVIOUS
  <1>. DEFINE G == Cat(T, F)
  <1>14. /\ Long(G, b)
         /\ \A n, j : j \in PosIn(G, n) <=> j \in PosIn(T, n) \/ \E i \in PosIn(F, n) : j = t + i
    BY <1>3, <1>12, <1>13, LongCat
  <1>. HIDE DEF G
  <1>15. w = Cat(s, G) BY <1>9 DEF G
  <1>16. /\ \A i \in 1 .. a : w[i] = s[i]
         /\ \A n, j : j \in PosIn(w, n) <=> j \in PosIn(s, n) \/ \E i \in PosIn(G, n) : j = a + i
    BY <1>11, <1>14, <1>15, LongCat
  <1>17. PosIn(s, "registry_data") \subseteq 1 .. a /\ PosIn(T, "tags") \subseteq 1 .. t
    BY <1>11, <1>12, PosBound
  <1>18. PosIn(w, "registry_data") = PosIn(s, "registry_data")
    BY <1>3, <1>6, <1>14, <1>16
  <1>19. \A j : j \in PosIn(w, "tags") <=> \E i \in PosIn(T, "tags") : j = a + i
    BY <1>3, <1>8, <1>14, <1>16
  <1>20. \A j : j \in PosIn(w, "finish_configuration") <=> j = a + (t + 1)
    BY <1>3, <1>6, <1>8, <1>14, <1>16
  <1>21. RegsIn(w, version.registries)
    <2>1. \A i \in PosIn(s, "registry_data") : w[i] = s[i] BY <1>16, <1>17
    <2>. QED BY <1>18, <2>1 DEF RegsIn
  <1>22. ASSUME NEW i \in PosIn(w, "registry_data"), NEW j \in PosIn(w, "tags") PROVE i < j
    <2>1. PICK k \in 1 .. t : j = a + k BY <1>17, <1>19
    <2>2. i \in 1 .. a BY <1>17, <1>18
    <2>. QED BY <2>1, <2>2
  <1>23. ASSUME NEW i \in PosIn(w, "tags"), NEW j \in PosIn(w, "finish_configuration") PROVE i < j
    <2>1. PICK k \in 1 .. t : i = a + k BY <1>17, <1>19
    <2>2. j = a + (t + 1) BY <1>20
    <2>. QED BY <2>1, <2>2
  <1>24. Knows("tags") => PosIn(w, "tags") = {a + 1} BY <1>7, <1>19
  <1>25. Configured(w, version) BY <1>21, <1>22, <1>23, <1>24 DEF Configured, Knows
  <1>26. Block(w, ConfigNames, version)
    <2>1. Block(s, ConfigNames, version) /\ Block(T, ConfigNames, version) /\ Block(F, ConfigNames, version)
      BY <1>3, <1>5, BlockMore DEF ConfigNames
    <2>2. Block(Cat(T, F), ConfigNames, version) BY <2>1, BlockConcat DEF Cat
    <2>3. Block(Cat(s, Cat(T, F)), ConfigNames, version) BY <2>1, <2>2, BlockConcat DEF Cat
    <2>. QED BY <1>9, <2>3
  <1>. QED BY <1>25, <1>26 DEF w, T, F, f

--------------------------------------------------------------------------------
(* The inductive invariant, and that every action preserves it.             *)

\* The numbers of the teleports of a stream, of which the next has number t.
Numbers(s, t) ==
  \A i \in PosIn(s, "position") :
    /\ s[i].teleportId \in Nat /\ s[i].teleportId < t
    /\ \A j \in PosIn(s, "position") : i < j => s[i].teleportId < s[j].teleportId

ConfiguredSoFar == {"success"} \cup (IF registryCodecWritten THEN {"registry_data"} ELSE {})

\* Every packet is one its version understands (Fits), a world is whole once its
\* chunks are there (Loads), the registries are there before the configuration is
\* finished (Configured), the teleports are numbered; and what has been sent so
\* far in each phase.
StreamInv ==
  /\ version \in Versions \cup {Unsupported}
  /\ teleportId \in Nat
  /\ phase \in {"login", "configuration", "joining", "play", "gone"}
  /\ Block(stream, AllNames, version)
  /\ Configured(stream, version) /\ Loads(stream) /\ Numbers(stream, teleportId)
  /\ phase # "gone" => PosIn(stream, "kick") = {}
  /\ \A i \in PosIn(stream, "kick") : i = Len(stream)
  /\ version = Unsupported =>
       phase \in {"login", "gone"} /\ \A i \in DOMAIN stream : stream[i].name = "kick"
  /\ phase = "login" => stream = <<>> /\ ~ registryCodecWritten /\ ~ tagsSent
  /\ phase \in {"login", "configuration", "joining"} => teleportId = 2
  /\ phase = "configuration" => /\ ~ tagsSent
                                /\ Block(stream, ConfiguredSoFar, version)
                                /\ registryCodecWritten => RegsIn(stream, version.registries)
  /\ phase = "joining" => Block(stream, ConfigNames, version)

LEMMA EmptyIs ==
  ASSUME NEW N, NEW v, NEW t
  PROVE  /\ Block(<<>>, N, v) /\ Configured(<<>>, v) /\ Loads(<<>>) /\ Numbers(<<>>, t)
         /\ \A n : PosIn(<<>>, n) = {}
  <1>1. \A n : PosIn(<<>>, n) = {} BY SqEmpty DEF PosIn
  <1>2. Block(<<>>, N, v) BY SqEmpty DEF Block
  <1>3. Configured(<<>>, v) /\ Loads(<<>>) /\ Numbers(<<>>, t)
    BY <1>1 DEF Configured, Loads, Numbers
  <1>. QED BY <1>1, <1>2, <1>3

LEMMA StreamInvInit == StreamInit => StreamInv
  <1> SUFFICES ASSUME StreamInit PROVE StreamInv OBVIOUS
  <1>1. stream = <<>> /\ phase = "login" /\ teleportId = 2 /\ ~ registryCodecWritten /\ ~ tagsSent
        /\ version \in Versions \cup {Unsupported}
    BY DEF StreamInit
  <1>2. /\ Block(stream, AllNames, version) /\ Configured(stream, version) /\ Loads(stream)
        /\ Numbers(stream, teleportId) /\ PosIn(stream, "kick") = {} /\ DOMAIN stream = {}
    BY <1>1, EmptyIs, SqEmpty
  <1>. QED BY <1>1, <1>2 DEF StreamInv

\* One packet more, of no part in the world or the configuration.
LEMMA OneMore ==
  ASSUME NEW s, NEW p, NEW N, NEW v, Block(s, N, v), Fits(p, v), p.name \in N,
         p.name \in {"position", "kick"}, Configured(s, v), Loads(s)
  PROVE  LET w == Cat(s, <<p>>)
         IN /\ Block(w, N, v) /\ Configured(w, v) /\ Loads(w)
            /\ Len(s) \in Nat /\ Len(w) = Len(s) + 1
            /\ \A n : n # p.name => PosIn(w, n) = PosIn(s, n)
            /\ \A j : j \in PosIn(w, p.name) <=> j \in PosIn(s, p.name) \/ j = Len(s) + 1
            /\ \A n : PosIn(s, n) \subseteq 1 .. Len(s)
            /\ \A i \in 1 .. Len(s) : w[i] = s[i]
            /\ \A j \in Nat : j = Len(s) + 1 => w[j] = p
            /\ \A j \in DOMAIN w : j \in DOMAIN s \/ w[j] = p
  <1>. DEFINE P == <<p>>
              w == Cat(s, P)
              m == p.name
  <1>1. Sq(s) BY DEF Block
  <1>2. Long(P, 1) /\ P[1] = p /\ \A n : PosIn(P, n) = IF m = n THEN {1} ELSE {}
    BY SqOne, OnePos DEF Long
  <1>3. Block(P, N, v) BY BlockOne
  <1>4. m \in {"position", "kick"} OBVIOUS
  <1>5. w = Cat(s, <<p>>) OBVIOUS
  <1>. HIDE DEF P, m
  <1>6. PICK a \in Nat : a = Len(s) /\ Long(s, a) BY <1>1, LongIs
  <1>7. PICK b \in Nat : b = a + 1 OBVIOUS
  <1>8. /\ Long(w, b) /\ \A i \in 1 .. a : w[i] = s[i]
        /\ \A i \in 1 .. 1, j \in Nat : j = a + i => w[j] = P[i]
        /\ \A n, j : j \in PosIn(w, n) <=> j \in PosIn(s, n) \/ \E i \in PosIn(P, n) : j = a + i
    BY <1>2, <1>6, <1>7, LongCat
  <1>9. Block(w, N, v) BY <1>3, BlockConcat DEF Cat
  <1>10. Sq(P) BY <1>3 DEF Block
  <1>11. Loads(w)
    <2>1. \A n \in ChunkNames \cup {"level_chunks_load_start", "update_view_position"} : m # n
      BY <1>4 DEF ChunkNames
    <2>2. \A n \in ChunkNames \cup {"level_chunks_load_start", "update_view_position"} : PosIn(P, n) = {}
      BY <1>2, <2>1
    <2>. QED BY <1>1, <1>10, <2>2, LoadsOn
  <1>. HIDE DEF w
  <1>12. \A n : n # m => PosIn(w, n) = PosIn(s, n) BY <1>2, <1>8
  <1>13. \A j : j \in PosIn(w, m) <=> j \in PosIn(s, m) \/ j = a + 1 BY <1>2, <1>8
  <1>14. \A n : PosIn(s, n) \subseteq 1 .. a BY <1>6, PosBound
  <1>15. Configured(w, v)
    <2>1. \A n \in ConfigNames : n # m BY <1>4 DEF ConfigNames
    <2>. QED BY <1>8, <1>12, <1>14, <2>1, ConfiguredOn
  <1>16. \A j \in Nat : j = a + 1 => w[j] = p BY <1>2, <1>8
  <1>17. Len(w) = a + 1 /\ DOMAIN w = 1 .. a + 1 /\ DOMAIN s = 1 .. a
    BY <1>1, <1>6, <1>7, <1>8, SqShape DEF Long
  <1>18. \A j \in DOMAIN w : j \in DOMAIN s \/ w[j] = p BY <1>16, <1>17
  <1>. QED BY <1>5, <1>6, <1>8, <1>9, <1>11, <1>12, <1>13, <1>14, <1>15, <1>16, <1>17, <1>18 DEF m

LEMMA KickFits ==
  ASSUME NEW tone \in {"success", "error", "neutral"}, NEW detailed \in BOOLEAN
  PROVE  KickReason(tone, detailed).name = "kick" /\ Fits(KickReason(tone, detailed), version)
  <1>. DEFINE a == ToneColor(tone)
              b == PickWebColor(WEB_MUTED_COLOR, <<"gray">>)
              p == KickReason(tone, detailed)
  <1>1. Shown(a) /\ Shown(b) BY ColoursShown DEF ToneColor
  <1>2. p.name = "kick" /\ p.colors = (IF version = Unsupported THEN <<>> ELSE <<a>> \o If(detailed, <<b>>))
    BY DEF KickReason
  <1>. HIDE DEF a, b, p
  <1>3. CASE version = Unsupported
    <2>1. DOMAIN p.colors = {} BY <1>2, <1>3, SqEmpty
    <2>. QED BY <1>2, <2>1, ColouredFits DEF OptionalPackets, p
  <1>4. CASE version # Unsupported
    <2>. DEFINE A == <<a>>
                B == If(detailed, <<b>>)
    <2>1. Sq(A) /\ DOMAIN A = {1} /\ A[1] = a BY SqOne
    <2>2. Sq(B) /\ \A k \in DOMAIN B : B[k] = b
      <3>1. CASE detailed BY <3>1, SqOne DEF If
      <3>2. CASE ~ detailed BY <3>2, SqEmpty DEF If
      <3>. QED BY <3>1, <3>2
    <2>3. p.colors = Cat(A, B) BY <1>2, <1>4 DEF Cat
    <2>. HIDE DEF A, B
    <2>4. PICK l \in Nat : Long(A, l) BY <2>1, LongIs
    <2>5. PICK m \in Nat : Long(B, m) BY <2>2, LongIs
    <2>6. PICK n \in Nat : n = l + m OBVIOUS
    <2>7. /\ Long(Cat(A, B), n) /\ \A i \in 1 .. l : Cat(A, B)[i] = A[i]
          /\ \A i \in 1 .. m, j \in Nat : j = l + i => Cat(A, B)[j] = B[i]
      BY <2>4, <2>5, <2>6, LongCat
    <2>8. DOMAIN Cat(A, B) = 1 .. n /\ DOMAIN A = 1 .. l /\ DOMAIN B = 1 .. m
      BY <2>4, <2>5, <2>7, SqShape DEF Long
    <2>9. ASSUME NEW k \in 1 .. n PROVE Shown(Cat(A, B)[k])
      <3>1. CASE k <= l BY <1>1, <2>1, <2>7, <2>8, <3>1
      <3>2. CASE ~ (k <= l)
        <4>1. PICK i \in 1 .. m : k = l + i
          <5>1. k - l \in 1 .. m /\ k = l + (k - l) BY <2>6, <3>2
          <5>. QED BY <5>1
        <4>2. Cat(A, B)[k] = B[i] BY <2>7, <4>1
        <4>. QED BY <1>1, <2>2, <2>8, <4>2
      <3>. QED BY <3>1, <3>2
    <2>10. \A k \in DOMAIN p.colors : Shown(p.colors[k]) BY <2>3, <2>8, <2>9
    <2>. QED BY <1>2, <2>10, ColouredFits DEF OptionalPackets, p
  <1>. QED BY <1>3, <1>4

LEMMA SucceedStep == StreamInv /\ Succeed => StreamInv'
  <1> SUFFICES ASSUME StreamInv, Succeed PROVE StreamInv' OBVIOUS
  <1>. DEFINE p == Packet("success")
  <1>1. /\ phase = "login" /\ version # Unsupported /\ stream' = stream \o <<p>>
        /\ phase' \in {"joining", "configuration"}
        /\ version' = version /\ registryCodecWritten' = registryCodecWritten /\ tagsSent' = tagsSent
        /\ teleportId' = teleportId
    BY DEF Succeed, Sends
  <1>2. /\ version \in Versions /\ stream = <<>> /\ ~ registryCodecWritten /\ ~ tagsSent /\ teleportId = 2
    BY <1>1 DEF StreamInv
  <1>3. p.name = "success" BY DEF Packet
  <1>4. Fits(p, version) BY PlainFits DEF OptionalPackets
  <1>. HIDE DEF p
  <1>5. stream' = <<p>>
    <2>1. <<>> \o <<p>> = <<p>> OBVIOUS
    <2>. QED BY <1>1, <1>2, <2>1
  <1>6. \A N : "success" \in N => Block(<<p>>, N, version) BY <1>3, <1>4, BlockOne
  <1>7. \A n : n # "success" => PosIn(<<p>>, n) = {} BY <1>3, OnePos
  <1>8. /\ Block(stream', AllNames, version) /\ Block(stream', ConfigNames, version)
        /\ Block(stream', {"success"}, version)
    BY <1>5, <1>6 DEF AllNames, PlayNames, ConfigNames
  <1>9. Configured(stream', version) /\ Loads(stream') /\ Numbers(stream', teleportId)
        /\ PosIn(stream', "kick") = {}
    BY <1>5, <1>7 DEF Configured, Loads, Numbers
  <1>10. ConfiguredSoFar' = {"success"} BY <1>1, <1>2 DEF ConfiguredSoFar
  <1>. QED BY <1>1, <1>2, <1>8, <1>9, <1>10 DEF StreamInv

LEMMA WriteRegistryStep == StreamInv /\ WriteRegistry => StreamInv'
  <1> SUFFICES ASSUME StreamInv, WriteRegistry PROVE StreamInv' OBVIOUS
  <1>1. /\ phase = "configuration" /\ stream' = stream \o If(~ registryCodecWritten, NegotiatedCodec)
        /\ phase' = phase /\ version' = version /\ registryCodecWritten' = TRUE
        /\ tagsSent' = tagsSent /\ teleportId' = teleportId
    BY DEF WriteRegistry, Sends
  <1>2. /\ version \in Versions /\ version # Unsupported /\ ~ tagsSent /\ teleportId = 2
        /\ Block(stream, ConfiguredSoFar, version)
        /\ registryCodecWritten => RegsIn(stream, version.registries)
    BY <1>1 DEF StreamInv
  <1>3. ConfiguredSoFar' = {"success", "registry_data"} BY <1>1 DEF ConfiguredSoFar
  <1>4. Block(stream', {"success", "registry_data"}, version) /\ RegsIn(stream', version.registries)
    <2>1. CASE registryCodecWritten
      <3>1. If(~ registryCodecWritten, NegotiatedCodec) = <<>> BY <2>1 DEF If
      <3>2. PICK S : stream \in Seq(S) BY <1>2 DEF Block, Sq
      <3>3. stream' = stream BY <1>1, <3>1, <3>2, ConcatEmptySeq
      <3>4. ConfiguredSoFar = {"success", "registry_data"} BY <2>1 DEF ConfiguredSoFar
      <3>. QED BY <1>2, <2>1, <3>3, <3>4
    <2>2. CASE ~ registryCodecWritten
      <3>1. stream' = Cat(stream, NegotiatedCodec) BY <1>1, <2>2 DEF If, Cat
      <3>2. Block(stream, {"success"}, version) BY <1>2, <2>2 DEF ConfiguredSoFar
      <3>3. Block(NegotiatedCodec, {"registry_data"}, version) /\ RegsIn(NegotiatedCodec, version.registries)
        BY <1>2, CodecIs
      <3>4. Block(stream, {"success", "registry_data"}, version)
            /\ Block(NegotiatedCodec, {"success", "registry_data"}, version)
        BY <3>2, <3>3, BlockMore
      <3>5. Block(stream', {"success", "registry_data"}, version) BY <3>1, <3>4, BlockConcat DEF Cat
      <3>6. PosIn(stream, "registry_data") = {} BY <3>2, BlockPos
      <3>7. Sq(stream) /\ Sq(NegotiatedCodec) BY <3>2, <3>3 DEF Block
      <3>8. PICK s, c, R : s = stream /\ c = NegotiatedCodec /\ R = version.registries OBVIOUS
      <3>9. PICK a \in Nat : Long(s, a) BY <3>7, <3>8, LongIs
      <3>10. PICK b \in Nat : Long(c, b) BY <3>7, <3>8, LongIs
      <3>11. PICK w : w = stream' OBVIOUS
      <3>12. w = Cat(s, c) /\ PosIn(s, "registry_data") = {} /\ RegsIn(c, R)
        BY <3>1, <3>3, <3>6, <3>8, <3>11
      <3>13. /\ \A i \in 1 .. b, j \in Nat : j = a + i => w[j] = c[i]
             /\ \A j : j \in PosIn(w, "registry_data") <=> \E i \in PosIn(c, "registry_data") : j = a + i
        BY <3>9, <3>10, <3>12, LongCat
      <3>14. PosIn(c, "registry_data") \subseteq 1 .. b BY <3>10, PosBound
      <3>15. ASSUME NEW j \in PosIn(w, "registry_data")
             PROVE  \E i \in PosIn(c, "registry_data") : j = a + i /\ w[j] = c[i]
        <4>1. PICK i \in PosIn(c, "registry_data") : j = a + i BY <3>13
        <4>2. i \in 1 .. b /\ j \in Nat BY <3>14, <4>1
        <4>. QED BY <3>13, <4>1, <4>2
      <3>16. \A j \in PosIn(w, "registry_data") : w[j].registries \subseteq R
        BY <3>12, <3>15 DEF RegsIn
      <3>17. ASSUME NEW r \in R PROVE \E j \in PosIn(w, "registry_data") : r \in w[j].registries
        <4>1. PICK i \in PosIn(c, "registry_data") : r \in c[i].registries BY <3>12 DEF RegsIn
        <4>2. i \in 1 .. b BY <3>14
        <4>3. PICK j \in Nat : j = a + i BY <4>2
        <4>. QED BY <3>13, <4>1, <4>2, <4>3
      <3>18. ASSUME NEW i \in PosIn(w, "registry_data"), NEW j \in PosIn(w, "registry_data"), i # j
             PROVE  w[i].registries \cap w[j].registries = {}
        <4>1. PICK k \in PosIn(c, "registry_data") : i = a + k /\ w[i] = c[k] BY <3>15
        <4>2. PICK l \in PosIn(c, "registry_data") : j = a + l /\ w[j] = c[l] BY <3>15
        <4>3. k # l BY <3>18, <4>1, <4>2
        <4>. QED BY <3>12, <4>1, <4>2, <4>3 DEF RegsIn
      <3>19. RegsIn(w, R) BY <3>16, <3>17, <3>18 DEF RegsIn
      <3>. QED BY <3>5, <3>8, <3>11, <3>19
    <2>. QED BY <2>1, <2>2
  <1>5. \A n : n \notin {"success", "registry_data"} => PosIn(stream', n) = {} BY <1>4, BlockPos
  <1>6. Configured(stream', version) /\ Loads(stream') /\ Numbers(stream', teleportId)
        /\ PosIn(stream', "kick") = {}
    BY <1>5 DEF Configured, Loads, Numbers
  <1>7. Block(stream', AllNames, version) BY <1>4, BlockMore DEF AllNames, PlayNames, ConfigNames
  <1>. QED BY <1>1, <1>2, <1>3, <1>4, <1>6, <1>7 DEF StreamInv

LEMMA FinishStep == StreamInv /\ FinishConfiguration => StreamInv'
  <1> SUFFICES ASSUME StreamInv, FinishConfiguration PROVE StreamInv' OBVIOUS
  <1>1. /\ phase = "configuration" /\ registryCodecWritten
        /\ stream' = stream \o (If(~ tagsSent /\ Knows("tags"), <<TagsPacket>>)
                                \o <<Packet("finish_configuration")>>)
        /\ phase' = "joining" /\ version' = version /\ teleportId' = teleportId
    BY DEF FinishConfiguration, Sends
  <1>2. /\ version \in Versions /\ version # Unsupported /\ ~ tagsSent /\ teleportId = 2
        /\ Block(stream, {"success", "registry_data"}, version)
        /\ RegsIn(stream, version.registries)
    <2>1. ConfiguredSoFar = {"success", "registry_data"} BY <1>1 DEF ConfiguredSoFar
    <2>. QED BY <1>1, <2>1 DEF StreamInv
  <1>3. If(~ tagsSent /\ Knows("tags"), <<TagsPacket>>) = If(Knows("tags"), <<TagsPacket>>)
    BY <1>2 DEF If
  <1>4. Block(stream', ConfigNames, version) /\ Configured(stream', version)
    BY <1>1, <1>2, <1>3, FinishIs
  <1>5. \A n : n \notin ConfigNames => PosIn(stream', n) = {} BY <1>4, BlockPos
  <1>6. Loads(stream') /\ Numbers(stream', teleportId) /\ PosIn(stream', "kick") = {}
    BY <1>5 DEF Loads, Numbers, ConfigNames
  <1>7. Block(stream', AllNames, version) BY <1>4, BlockMore DEF AllNames, PlayNames
  <1>. QED BY <1>1, <1>2, <1>4, <1>6, <1>7 DEF StreamInv

LEMMA PresentStep == StreamInv /\ Present => StreamInv'
  <1> SUFFICES ASSUME StreamInv, Present PROVE StreamInv' OBVIOUS
  <1>1. /\ phase = "joining"
        /\ stream' = stream \o (PresentVoidWorld \o If(purpose = "lobby", Enter))
        /\ phase' = "play" /\ version' = version /\ teleportId' = teleportId
    BY DEF Present, Sends
  <1>2. /\ version \in Versions /\ version # Unsupported /\ teleportId = 2
        /\ Block(stream, ConfigNames, version) /\ Configured(stream, version)
    BY <1>1 DEF StreamInv
  <1>3. /\ Block(stream', PlayNames, version) /\ Loads(stream')
        /\ \A n \in ConfigNames : /\ PosIn(stream', n) = PosIn(stream, n)
                                  /\ \A i \in PosIn(stream, n) : stream'[i] = stream[i]
        /\ \E k : PosIn(stream', "position") = {k} /\ stream'[k].teleportId = 1
    <2>1. stream' = Cat(stream, PresentVoidWorld \o If(purpose = "lobby", Enter)) BY <1>1 DEF Cat
    <2>. QED BY <1>2, <2>1, WorldFollows
  <1>4. Configured(stream', version) BY <1>2, <1>3, ConfiguredOn
  <1>5. Numbers(stream', teleportId)
    <2>1. PICK k : PosIn(stream', "position") = {k} /\ stream'[k].teleportId = 1 BY <1>3
    <2>2. ASSUME NEW i \in PosIn(stream', "position"), NEW j \in PosIn(stream', "position"), i < j
          PROVE  FALSE
      <3>1. i = j BY <2>1
      <3>2. PICK m : m = i OBVIOUS
      <3>3. PosIn(stream', "position") \subseteq 1 .. Len(stream') /\ Len(stream') \in Nat
        BY <1>3, LongIs, PosBound DEF Block
      <3>4. i \in Nat BY <3>3
      <3>. QED BY <2>2, <3>1, <3>4
    <2>. QED BY <1>2, <2>1, <2>2 DEF Numbers
  <1>6. PosIn(stream', "kick") = {}
    <2>1. "kick" \notin PlayNames BY DEF PlayNames, ConfigNames, FrontNames, ChunkNames, LobbyNames
    <2>. QED BY <1>3, <2>1, BlockPos
  <1>7. Block(stream', AllNames, version) BY <1>3, BlockMore DEF AllNames
  <1>. QED BY <1>1, <1>2, <1>3, <1>4, <1>5, <1>6, <1>7 DEF StreamInv

LEMMA CorrectStep == StreamInv /\ CorrectOrientation => StreamInv'
  <1> SUFFICES ASSUME StreamInv, CorrectOrientation PROVE StreamInv' OBVIOUS
  <1>. DEFINE p == Position(teleportId)
              l == Len(stream)
  <1>1. /\ phase = "play" /\ stream' = stream \o <<p>> /\ teleportId' = teleportId + 1
        /\ phase' = phase /\ version' = version
    BY DEF CorrectOrientation, Sends
  <1>2. /\ version \in Versions /\ version # Unsupported /\ teleportId \in Nat
        /\ Block(stream, AllNames, version) /\ Configured(stream, version) /\ Loads(stream)
        /\ Numbers(stream, teleportId) /\ PosIn(stream, "kick") = {}
    BY <1>1 DEF StreamInv
  <1>3. p.name = "position" /\ p.teleportId = teleportId /\ Fits(p, version) BY PositionFits
  <1>. HIDE DEF p
  <1>4. "position" \in AllNames BY DEF AllNames, PlayNames
  <1>5. /\ Block(stream', AllNames, version) /\ Configured(stream', version) /\ Loads(stream')
        /\ l \in Nat
        /\ \A n : n # "position" => PosIn(stream', n) = PosIn(stream, n)
        /\ \A j : j \in PosIn(stream', "position") <=> j \in PosIn(stream, "position") \/ j = l + 1
        /\ \A n : PosIn(stream, n) \subseteq 1 .. l
        /\ \A i \in 1 .. l : stream'[i] = stream[i]
        /\ \A j \in Nat : j = l + 1 => stream'[j] = p
    <2>1. stream' = Cat(stream, <<p>>) BY <1>1 DEF Cat
    <2>. QED BY <1>2, <1>3, <1>4, <2>1, OneMore
  <1>. HIDE DEF l
  <1>6. PosIn(stream', "kick") = {} BY <1>2, <1>5
  <1>7. Numbers(stream', teleportId')
    <2>. DEFINE t == teleportId
    <2>0. PICK k \in Nat : k = l + 1 BY <1>5
    <2>1. stream'[k].teleportId = t BY <1>3, <1>5, <2>0
    <2>2. \A j : j \in PosIn(stream', "position") <=> j \in PosIn(stream, "position") \/ j = k
      BY <1>5, <2>0
    <2>3. \A i \in PosIn(stream, "position") : i \in 1 .. l /\ stream'[i] = stream[i] BY <1>5
    <2>4. ASSUME NEW i \in PosIn(stream', "position")
          PROVE  /\ stream'[i].teleportId \in Nat /\ stream'[i].teleportId < t + 1
                 /\ \A j \in PosIn(stream', "position") :
                      i < j => stream'[i].teleportId < stream'[j].teleportId
      <3>1. CASE i = k
        <4>1. \A j \in PosIn(stream', "position") : ~ (i < j) BY <1>5, <2>0, <2>2, <2>3, <3>1
        <4>. QED BY <1>2, <2>1, <3>1, <4>1
      <3>2. CASE i # k
        <4>1. i \in PosIn(stream, "position") /\ stream'[i] = stream[i] BY <2>2, <2>3, <3>2
        <4>2. /\ stream[i].teleportId \in Nat /\ stream[i].teleportId < t
              /\ \A j \in PosIn(stream, "position") : i < j => stream[i].teleportId < stream[j].teleportId
          BY <1>2, <4>1 DEF Numbers
        <4>3. ASSUME NEW j \in PosIn(stream', "position"), i < j
              PROVE  stream'[i].teleportId < stream'[j].teleportId
          <5>1. CASE j = k BY <2>1, <4>1, <4>2, <5>1
          <5>2. CASE j # k
            <6>1. j \in PosIn(stream, "position") /\ stream'[j] = stream[j] BY <2>2, <2>3, <5>2
            <6>. QED BY <4>1, <4>2, <4>3, <6>1
          <5>. QED BY <5>1, <5>2
        <4>4. t < t + 1 /\ t \in Nat BY <1>2
        <4>5. stream'[i].teleportId < t + 1 BY <4>1, <4>2, <4>4
        <4>. QED BY <4>1, <4>2, <4>3, <4>5
      <3>. QED BY <3>1, <3>2
    <2>5. teleportId' = t + 1 BY <1>1
    <2>. QED BY <2>4, <2>5 DEF Numbers
  <1>. QED BY <1>1, <1>2, <1>5, <1>6, <1>7 DEF StreamInv

LEMMA KickStep == StreamInv /\ Kick => StreamInv'
  <1> SUFFICES ASSUME StreamInv, Kick PROVE StreamInv' OBVIOUS
  <1>1. PICK tone \in {"success", "error", "neutral"}, detailed \in BOOLEAN :
          stream' = stream \o <<KickReason(tone, detailed)>>
    BY DEF Kick, Sends
  <1>. DEFINE p == KickReason(tone, detailed)
              l == Len(stream)
  <1>2. /\ phase \in {"login", "play"} /\ stream' = stream \o <<p>> /\ phase' = "gone"
        /\ version' = version /\ teleportId' = teleportId
    BY <1>1 DEF Kick
  <1>3. /\ version \in Versions \cup {Unsupported} /\ teleportId \in Nat
        /\ Block(stream, AllNames, version) /\ Configured(stream, version) /\ Loads(stream)
        /\ Numbers(stream, teleportId) /\ PosIn(stream, "kick") = {}
        /\ version = Unsupported => \A i \in DOMAIN stream : stream[i].name = "kick"
    BY <1>2 DEF StreamInv
  <1>4. p.name = "kick" /\ Fits(p, version) BY KickFits
  <1>. HIDE DEF p
  <1>5. "kick" \in AllNames BY DEF AllNames
  <1>6. /\ Block(stream', AllNames, version) /\ Configured(stream', version) /\ Loads(stream')
        /\ l \in Nat /\ Len(stream') = l + 1
        /\ \A n : n # "kick" => PosIn(stream', n) = PosIn(stream, n)
        /\ \A j : j \in PosIn(stream', "kick") <=> j \in PosIn(stream, "kick") \/ j = l + 1
        /\ \A n : PosIn(stream, n) \subseteq 1 .. l
        /\ \A i \in 1 .. l : stream'[i] = stream[i]
        /\ \A j \in DOMAIN stream' : j \in DOMAIN stream \/ stream'[j] = p
    <2>1. stream' = Cat(stream, <<p>>) BY <1>2 DEF Cat
    <2>. QED BY <1>3, <1>4, <1>5, <2>1, OneMore
  <1>. HIDE DEF l
  <1>7. PosIn(stream', "position") = PosIn(stream, "position") BY <1>6
  <1>8. Numbers(stream', teleportId)
    <2>1. \A i \in PosIn(stream, "position") : stream'[i] = stream[i] BY <1>6
    <2>. QED BY <1>3, <1>7, <2>1 DEF Numbers
  <1>9. \A i \in PosIn(stream', "kick") : i = Len(stream') BY <1>3, <1>6
  <1>10. version = Unsupported => \A i \in DOMAIN stream' : stream'[i].name = "kick"
    <2>1. Sq(stream) BY <1>3 DEF Block
    <2>2. DOMAIN stream = 1 .. l BY <2>1, SqShape DEF l
    <2>. QED BY <1>3, <1>4, <1>6, <2>2
  <1>. QED BY <1>2, <1>3, <1>6, <1>8, <1>9, <1>10 DEF StreamInv

LEMMA StreamInvStep == StreamInv /\ [StreamNext]_streamVars => StreamInv'
  <1> SUFFICES ASSUME StreamInv, [StreamNext]_streamVars PROVE StreamInv' OBVIOUS
  <1>1. CASE UNCHANGED streamVars
    BY <1>1 DEF StreamInv, streamVars, ConfiguredSoFar
  <1>. QED
    BY <1>1, SucceedStep, WriteRegistryStep, FinishStep, PresentStep, CorrectStep, KickStep
    DEF StreamNext

--------------------------------------------------------------------------------
(* What the invariant implies.                                              *)

LEMMA FitsAll ==
  ASSUME StreamInv, NEW i \in DOMAIN stream
  PROVE  Fits(stream[i], version) /\ stream[i].name \in AllNames
  BY DEF StreamInv, Block

LEMMA PositionsAre ==
  ASSUME NEW n
  PROVE  /\ Positions(n) = PosIn(stream, n)
         /\ All(n) = {stream[i] : i \in PosIn(stream, n)}
         /\ \A p \in All(n) : \E i \in DOMAIN stream : p = stream[i] /\ p.name = n
  BY DEF Positions, All, PosIn

LEMMA FitsNamed ==
  ASSUME StreamInv, NEW n, NEW p \in All(n)
  PROVE  Fits(p, version) /\ p.name = n
  BY FitsAll, PositionsAre

LEMMA ConfiguredHolds == StreamInv => ConfiguredOnce
  <1> SUFFICES ASSUME StreamInv, Positions("finish_configuration") # {} PROVE ConfiguredOnce
    BY DEF ConfiguredOnce
  <1>1. Configured(stream, version) BY DEF StreamInv
  <1>2. /\ RegsIn(stream, version.registries)
        /\ \A i \in PosIn(stream, "registry_data"), j \in PosIn(stream, "tags") : i < j
        /\ \A i \in PosIn(stream, "tags"), j \in PosIn(stream, "finish_configuration") : i < j
        /\ "tags" \in version.known => \E k : PosIn(stream, "tags") = {k}
    BY <1>1, PositionsAre DEF Configured
  <1>. DEFINE R == PosIn(stream, "registry_data")
  <1>3. UNION {p.registries : p \in All("registry_data")} = version.registries
    <2>1. ASSUME NEW p \in All("registry_data") PROVE p.registries \subseteq version.registries
      <3>1. PICK i \in R : p = stream[i] BY PositionsAre
      <3>. QED BY <1>2, <3>1 DEF RegsIn
    <2>2. ASSUME NEW r \in version.registries PROVE \E p \in All("registry_data") : r \in p.registries
      <3>1. PICK i \in R : r \in stream[i].registries BY <1>2 DEF RegsIn
      <3>2. stream[i] \in All("registry_data") BY PositionsAre
      <3>. QED BY <3>1, <3>2
    <2>3. UNION {p.registries : p \in All("registry_data")} \subseteq version.registries BY <2>1
    <2>4. version.registries \subseteq UNION {p.registries : p \in All("registry_data")} BY <2>2
    <2>. QED BY <2>3, <2>4
  <1>4. \A i, j \in Positions("registry_data") :
          i # j => stream[i].registries \cap stream[j].registries = {}
    BY <1>2, PositionsAre DEF RegsIn
  <1>5. Before("registry_data", "tags") /\ Before("tags", "finish_configuration")
    BY <1>2, PositionsAre DEF Before
  <1>6. Knows("tags") => Once("tags")
    <2>1. ASSUME Knows("tags") PROVE Once("tags")
      <3>1. PICK k : PosIn(stream, "tags") = {k} BY <1>2, <2>1 DEF Knows
      <3>2. Cardinality({k}) = 1 BY FS_Singleton
      <3>. QED BY <3>1, <3>2, PositionsAre DEF Once
    <2>. QED BY <2>1
  <1>7. ASSUME NEW p \in All("tags") PROVE p.bound \subseteq version.registries \cup CORE_TAG_REGISTRIES
    BY FitsNamed DEF Fits
  <1>. QED BY <1>3, <1>4, <1>5, <1>6, <1>7 DEF ConfiguredOnce

LEMMA LoadingHolds == StreamInv => LoadingEnds
  <1> SUFFICES ASSUME StreamInv, Streamed PROVE LoadingEnds BY DEF LoadingEnds
  <1>. DEFINE M == PosIn(stream, "map_chunk")
  <1>1. Loads(stream) /\ M # {} BY PositionsAre DEF StreamInv, Streamed
  <1>2. /\ \A n \in {"level_chunks_load_start", "update_view_position"} :
             \A i \in PosIn(stream, n), j \in M : i < j
        /\ \E i \in PosIn(stream, "position") : \A j \in M : i < j
        /\ Whole(stream)
    BY <1>1 DEF Loads
  <1>3. PICK k \in Nat : WholeAt(stream, k) BY <1>2 DEF Whole
  <1>4. /\ M = k + 1 .. k + 25
        /\ \A i \in M : stream[i].at \in Grid
        /\ \A g \in Grid : \E i \in M : stream[i].at = g
    BY <1>3 DEF WholeAt
  <1>5. Cardinality(Positions("map_chunk")) = 25
    <2>1. Cardinality(k + 1 .. k + 25) = IF k + 1 > k + 25 THEN 0 ELSE (k + 25) - (k + 1) + 1
      BY FS_Interval
    <2>2. Cardinality(k + 1 .. k + 25) = 25 BY <2>1
    <2>. QED BY <1>4, <2>2, PositionsAre
  <1>6. Before("level_chunks_load_start", "map_chunk") /\ Before("update_view_position", "map_chunk")
    BY <1>2, PositionsAre DEF Before
  <1>7. \E i \in Positions("position") : \A j \in Positions("map_chunk") : i < j
    BY <1>2, PositionsAre
  <1>8. {q.at : q \in All("map_chunk")} = Grid
    <2>1. ASSUME NEW q \in All("map_chunk") PROVE q.at \in Grid
      <3>1. PICK i \in M : q = stream[i] BY PositionsAre
      <3>. QED BY <1>4, <3>1
    <2>2. ASSUME NEW g \in Grid PROVE \E q \in All("map_chunk") : q.at = g
      <3>1. PICK i \in M : stream[i].at = g BY <1>4
      <3>2. stream[i] \in All("map_chunk") BY PositionsAre
      <3>. QED BY <3>1, <3>2
    <2>3. {q.at : q \in All("map_chunk")} \subseteq Grid BY <2>1
    <2>4. Grid \subseteq {q.at : q \in All("map_chunk")} BY <2>2
    <2>. QED BY <2>3, <2>4
  <1>9. ASSUME NEW p \in All("login") \cup All("update_view_distance")
        PROVE  {q.at : q \in All("map_chunk")} =
                 {<<x, z>> : x, z \in (Spawn.x \div 16 - p.viewDistance) .. (Spawn.x \div 16 + p.viewDistance)}
    <2>1. p.viewDistance = 2
      <3>1. CASE p \in All("login") BY <3>1, FitsNamed DEF Fits, VOID_CHUNK_RADIUS
      <3>2. CASE p \in All("update_view_distance") BY <3>2, FitsNamed DEF Fits, VOID_CHUNK_RADIUS
      <3>. QED BY <3>1, <3>2
    <2>2. Spawn.x = 0 BY DEF Spawn
    <2>3. Spawn.x \div 16 - p.viewDistance = -2 /\ Spawn.x \div 16 + p.viewDistance = 2 BY <2>1, <2>2
    <2>4. \A least, most : least = -2 /\ most = 2 => {<<x, z>> : x, z \in least .. most} = Grid BY DEF Grid
    <2>. QED BY <1>8, <2>3, <2>4
  <1>10. /\ Cardinality(Positions("chunk_batch_start")) = Cardinality(Positions("chunk_batch_finished"))
         /\ Before("chunk_batch_start", "map_chunk") /\ Before("map_chunk", "chunk_batch_finished")
         /\ \A p \in All("chunk_batch_finished") : p.batchSize = Cardinality(Positions("map_chunk"))
    <2>1. CASE PosIn(stream, "chunk_batch_start") = {} /\ PosIn(stream, "chunk_batch_finished") = {}
      BY <2>1, PositionsAre DEF Before
    <2>2. CASE /\ PosIn(stream, "chunk_batch_start") = {k}
               /\ PosIn(stream, "chunk_batch_finished") = {k + 26} /\ SaysAll(stream[k + 26])
      <3>1. PICK l \in Nat : l = k + 26 OBVIOUS
      <3>2. PosIn(stream, "chunk_batch_finished") = {l} /\ SaysAll(stream[l]) BY <2>2, <3>1
      <3>3. Cardinality({k}) = 1 /\ Cardinality({l}) = 1 BY FS_Singleton
      <3>4. Cardinality(Positions("chunk_batch_start")) = Cardinality(Positions("chunk_batch_finished"))
        BY <2>2, <3>2, <3>3, PositionsAre
      <3>5. \A j \in M : k < j /\ j < l BY <1>4, <3>1
      <3>6. Before("chunk_batch_start", "map_chunk") /\ Before("map_chunk", "chunk_batch_finished")
        BY <2>2, <3>2, <3>5, PositionsAre DEF Before
      <3>7. \A p \in All("chunk_batch_finished") : p = stream[l] BY <3>2, PositionsAre
      <3>. QED BY <1>5, <3>2, <3>4, <3>6, <3>7 DEF SaysAll
    <2>. QED BY <1>3, <2>1, <2>2 DEF WholeAt
  <1>. QED BY <1>6, <1>7, <1>9, <1>10 DEF LoadingEnds

LEMMA ChunksHoldAlways == StreamInv => ChunksAreValid
  <1> SUFFICES ASSUME StreamInv PROVE ChunksAreValid OBVIOUS
  <1>. DEFINE Fit(b) == Powers[b] > END_WORLD_HEIGHT /\ Powers[b] <= 2 * END_WORLD_HEIGHT
              bits == CHOOSE b \in 1 .. 16 : Fit(b)
              sections == END_WORLD_HEIGHT \div 16 + 2
  <1>1. Fit(9) /\ \A b \in 1 .. 16 : Fit(b) => b = 9 BY DEF Powers, END_WORLD_HEIGHT
  <1>2. bits = 9
    <2>. HIDE DEF Fit
    <2>1. 9 \in 1 .. 16 OBVIOUS
    <2>. QED BY <1>1, <2>1
  <1>3. sections = 18 BY DEF END_WORLD_HEIGHT
  <1>4. ASSUME NEW p \in All("map_chunk")
        PROVE  /\ version.light => p.light.given \cup p.light.empty = 0 .. 18 - 1
               /\ p.light.given \cap p.light.empty = {}
               /\ version.heightmaps => p.heightmap = (256 + 64 \div 9 - 1) \div (64 \div 9)
    <2>1. p.name = "map_chunk" /\ Fits(p, version) BY FitsNamed
    <2>2. /\ version.light => p.light.given \cup p.light.empty = 0 .. 17
          /\ p.light.given = {}
          /\ version.heightmaps => p.heightmap = EmptyHeightmap
      BY <2>1 DEF Fits
    <2>3. EmptyHeightmap = 37 BY DEF EmptyHeightmap
    <2>4. (256 + 64 \div 9 - 1) \div (64 \div 9) = 37 /\ 18 - 1 = 17 OBVIOUS
    <2>5. p.light.given \cap p.light.empty = {} BY <2>2
    <2>6. version.light => p.light.given \cup p.light.empty = 0 .. 18 - 1 BY <2>2, <2>4
    <2>7. version.heightmaps => p.heightmap = (256 + 64 \div 9 - 1) \div (64 \div 9)
      BY <2>2, <2>3, <2>4
    <2>. QED BY <2>5, <2>6, <2>7
  <1>. HIDE DEF bits, sections
  <1>5. \A p \in All("map_chunk") :
          /\ version.light => p.light.given \cup p.light.empty = 0 .. sections - 1
          /\ p.light.given \cap p.light.empty = {}
          /\ version.heightmaps => p.heightmap = (256 + 64 \div bits - 1) \div (64 \div bits)
    BY <1>2, <1>3, <1>4
  <1>. QED BY <1>5 DEF ChunksAreValid, bits, sections

LEMMA KnownHolds == StreamInv => KnowsWhatItGets
  <1> SUFFICES ASSUME StreamInv, NEW i \in DOMAIN stream
               PROVE  LET p == stream[i] IN
                        /\ "colors" \in DOMAIN p =>
                             \A k \in DOMAIN p.colors : Len(p.colors[k]) = IF HexColors THEN 3 ELSE 1
                        /\ p.name = "entity_effect" => p.effect \in version.effects
                        /\ p.name \in OptionalPackets => Knows(p.name)
    BY DEF KnowsWhatItGets
  <1>. QED BY FitsAll DEF Fits, HexColors, Knows

\* The colours between the first and the last, channel by channel.
LEMMA GradientFalls ==
  /\ Gradient[1] = WEB_ACCENT_STRONG_COLOR /\ Gradient[10] = WEB_ACCENT_COLOR
  /\ \A k \in 1 .. 9, c \in 1 .. 3 : Gradient[k][c] >= Gradient[k + 1][c]
  <1>. DEFINE red(k) == (2 * (182 * 9 + (162 - 182) * (k - 1)) + 9) \div 18
              green(k) == (2 * (232 * 9 + (208 - 232) * (k - 1)) + 9) \div 18
              blue(k) == (2 * (110 * 9 + (96 - 110) * (k - 1)) + 9) \div 18
  <1>1. ASSUME NEW k \in 1 .. 10
        PROVE  /\ Gradient[k] = [c \in 1 .. 3 |-> Gradient[k][c]]
               /\ Gradient[k][1] = red(k) /\ Gradient[k][2] = green(k) /\ Gradient[k][3] = blue(k)
    <2>1. Gradient[k] = [c \in 1 .. 3 |->
             Round(WEB_ACCENT_STRONG_COLOR[c] * 9 + (WEB_ACCENT_COLOR[c] - WEB_ACCENT_STRONG_COLOR[c]) * (k - 1), 9)]
      BY DEF Gradient, BlendHexColor, TitleLetters
    <2>2. /\ WEB_ACCENT_STRONG_COLOR[1] = 182 /\ WEB_ACCENT_STRONG_COLOR[2] = 232
          /\ WEB_ACCENT_STRONG_COLOR[3] = 110
          /\ WEB_ACCENT_COLOR[1] = 162 /\ WEB_ACCENT_COLOR[2] = 208 /\ WEB_ACCENT_COLOR[3] = 96
      BY DEF WEB_ACCENT_STRONG_COLOR, WEB_ACCENT_COLOR
    <2>3. Gradient[k][1] = red(k) BY <2>1, <2>2 DEF Round
    <2>4. Gradient[k][2] = green(k) BY <2>1, <2>2 DEF Round
    <2>5. Gradient[k][3] = blue(k) BY <2>1, <2>2 DEF Round
    <2>6. Gradient[k] = [c \in 1 .. 3 |-> Gradient[k][c]] BY <2>1
    <2>. QED BY <2>3, <2>4, <2>5, <2>6
  <1>2. \A k \in 1 .. 9 : red(k) >= red(k + 1) /\ green(k) >= green(k + 1) /\ blue(k) >= blue(k + 1)
    OBVIOUS
  <1>3. /\ red(1) = 182 /\ green(1) = 232 /\ blue(1) = 110
        /\ red(10) = 162 /\ green(10) = 208 /\ blue(10) = 96
    OBVIOUS
  <1>. HIDE DEF red, green, blue
  <1>4. ASSUME NEW k \in 1 .. 9, NEW c \in 1 .. 3 PROVE Gradient[k][c] >= Gradient[k + 1][c]
    <2>1. PICK m \in 1 .. 10 : m = k + 1 OBVIOUS
    <2>2. red(k) >= red(m) /\ green(k) >= green(m) /\ blue(k) >= blue(m) BY <1>2, <2>1
    <2>3. k \in 1 .. 10 /\ (c = 1 \/ c = 2 \/ c = 3) OBVIOUS
    <2>4. Gradient[k][c] >= Gradient[m][c] BY <1>1, <2>2, <2>3
    <2>. QED BY <2>1, <2>4
  <1>5. Gradient[1] = WEB_ACCENT_STRONG_COLOR
    <2>1. WEB_ACCENT_STRONG_COLOR = [c \in 1 .. 3 |-> WEB_ACCENT_STRONG_COLOR[c]]
          /\ WEB_ACCENT_STRONG_COLOR[1] = 182 /\ WEB_ACCENT_STRONG_COLOR[2] = 232
          /\ WEB_ACCENT_STRONG_COLOR[3] = 110
      BY DEF WEB_ACCENT_STRONG_COLOR
    <2>2. \A c \in 1 .. 3 : Gradient[1][c] = WEB_ACCENT_STRONG_COLOR[c] BY <1>1, <1>3, <2>1
    <2>3. Gradient[1] = [c \in 1 .. 3 |-> Gradient[1][c]] BY <1>1
    <2>. QED BY <2>1, <2>2, <2>3
  <1>6. Gradient[10] = WEB_ACCENT_COLOR
    <2>1. WEB_ACCENT_COLOR = [c \in 1 .. 3 |-> WEB_ACCENT_COLOR[c]]
          /\ WEB_ACCENT_COLOR[1] = 162 /\ WEB_ACCENT_COLOR[2] = 208 /\ WEB_ACCENT_COLOR[3] = 96
      BY DEF WEB_ACCENT_COLOR
    <2>2. \A c \in 1 .. 3 : Gradient[10][c] = WEB_ACCENT_COLOR[c] BY <1>1, <1>3, <2>1
    <2>3. Gradient[10] = [c \in 1 .. 3 |-> Gradient[10][c]] BY <1>1
    <2>. QED BY <2>1, <2>2, <2>3
  <1>. QED BY <1>4, <1>5, <1>6

LEMMA DressingHolds == StreamInv => DressingLasts
  <1> SUFFICES ASSUME StreamInv PROVE DressingLasts OBVIOUS
  <1>1. ASSUME NEW p \in All("set_title_text") \cup All("title"), Len(p.colors) = TitleLetters
        PROVE  /\ p.colors[1] = WEB_ACCENT_STRONG_COLOR /\ p.colors[TitleLetters] = WEB_ACCENT_COLOR
               /\ \A k \in 1 .. TitleLetters - 1, c \in 1 .. 3 : p.colors[k][c] >= p.colors[k + 1][c]
    <2>1. p.name \in {"set_title_text", "title"} /\ Fits(p, version) BY FitsNamed
    <2>2. Len(p.colors) = 1 \/ p.colors = Gradient BY <2>1 DEF Fits, Gradient
    <2>3. TitleLetters = 10 BY DEF TitleLetters
    <2>4. p.colors = Gradient BY <1>1, <2>2, <2>3
    <2>5. TitleLetters - 1 = 9 BY <2>3
    <2>. QED BY <2>3, <2>4, <2>5, GradientFalls
  <1>2. ASSUME NEW p \in All("set_title_time") \cup All("title_times")
        PROVE  p.stay >= 20 * LOBBY_LIFETIME_SECONDS
    <2>1. p.name \in {"set_title_time", "title_times"} /\ Fits(p, version) BY FitsNamed
    <2>2. p.stay = TITLE_STAY BY <2>1 DEF Fits
    <2>. QED BY <2>2 DEF TITLE_STAY, LOBBY_LIFETIME_SECONDS
  <1>3. ASSUME NEW p \in All("entity_effect")
        PROVE  p.duration >= 20 * LOBBY_LIFETIME_SECONDS /\ p.duration < Powers[15]
    <2>1. p.name = "entity_effect" /\ Fits(p, version) BY FitsNamed
    <2>2. p.duration = LIMBO_DURATION_TICKS BY <2>1 DEF Fits
    <2>3. Powers[15] = 32768 BY DEF Powers
    <2>. QED BY <2>2, <2>3 DEF LOBBY_LIFETIME_SECONDS, LIMBO_DURATION_TICKS
  <1>. QED BY <1>1, <1>2, <1>3 DEF DressingLasts

LEMMA NumberedHolds == StreamInv => Numbered
  <1> SUFFICES ASSUME StreamInv PROVE Numbered OBVIOUS
  <1>1. \A i, j \in Positions("position") : i < j => stream[i].teleportId < stream[j].teleportId
    BY PositionsAre DEF StreamInv, Numbers
  <1>2. \A i \in Positions("kick") : i = Len(stream) BY PositionsAre DEF StreamInv
  <1>3. version = Unsupported => \A i \in DOMAIN stream : stream[i].name = "kick" BY DEF StreamInv
  <1>. QED BY <1>1, <1>2, <1>3 DEF Numbered

\* The invariant holds however a client of whichever version is answered.
THEOREM StreamInvariant == StreamSpec => []StreamInv
  BY StreamInvInit, StreamInvStep, PTL DEF StreamSpec

\* A client of any version the server knows is sent its configuration once and
\* before the world, a world with all the chunks around its spawn between both
\* ends of a batch or neither, of the height and light it reads, only packets and
\* effects it understands, and nothing after it was turned away (void-world.ts:
\* createVoidWorld; server.ts: the login and playerJoin handlers).
THEOREM WorldAlwaysWhole == StreamSpec => []WorldIsWhole
  <1>1. StreamInv => WorldIsWhole
    BY ConfiguredHolds, LoadingHolds, ChunksHoldAlways, KnownHolds, DressingHolds, NumberedHolds
    DEF WorldIsWhole
  <1>. QED BY <1>1, StreamInvariant, PTL

--------------------------------------------------------------------------------
(* The addresses that clients join with (Hostnames), which are texts of any  *)
(* length: what is before a mark, a port or a dot, and in which shape a name *)
(* is read.                                                                 *)

\* The first place of some, in a text.
LEMMA FirstOf ==
  ASSUME NEW S, S \subseteq Nat, S # {}
  PROVE  \E m \in S : \A k \in S : m <= k
  <1>. DEFINE Below == OpToRel(<, Nat)
  <1>1. IsWellFoundedOn(Below, Nat) BY NatLessThanWellFounded
  <1>2. PICK m \in S : \A k \in S : ~ (<<k, m>> \in Below)
    <2>. HIDE DEF Below
    <2>. QED BY <1>1, WFMin
  <1>3. ASSUME NEW k \in S PROVE m <= k
    <2>1. ~ (<<k, m>> \in Below) BY <1>2
    <2>2. ~ (k < m) BY <2>1 DEF OpToRel
    <2>. QED BY <2>2
  <1>. QED BY <1>3

LEMMA StartOf ==
  ASSUME NEW s, Sq(s), NEW m \in Nat, m <= Len(s)
  PROVE  /\ Sq(SubSeq(s, 1, m)) /\ Len(SubSeq(s, 1, m)) = m
         /\ \A i \in 1 .. m : SubSeq(s, 1, m)[i] = s[i]
  <1>0. PICK S : s \in Seq(S) BY DEF Sq
  <1>1. \A i \in 1 .. m : s[i] \in S BY <1>0
  <1>2. m - 1 + 1 = m /\ \A i \in 1 .. m : 1 + i - 1 = i OBVIOUS
  <1>3. /\ SubSeq(s, 1, m) \in Seq(S)
        /\ Len(SubSeq(s, 1, m)) = IF 1 <= m THEN m - 1 + 1 ELSE 0
        /\ \A i \in 1 .. m - 1 + 1 : SubSeq(s, 1, m)[i] = s[1 + i - 1]
    BY <1>1, SubSeqProperties
  <1>. QED BY <1>2, <1>3 DEF Sq

LEMMA SameText ==
  ASSUME NEW s, Sq(s), NEW t, Sq(t), Len(s) = Len(t),
         \A i \in 1 .. Len(t) : s[i] = t[i]
  PROVE  s = t
  <1>1. PICK S : s \in Seq(S) BY DEF Sq
  <1>2. PICK T : t \in Seq(T) BY DEF Sq
  <1>3. s \in Seq(S \cup T) /\ t \in Seq(S \cup T) BY <1>1, <1>2, SeqMonotonic
  <1>. QED BY <1>3, SeqEqual

\* What is before the mark, when there is one.
Unmarked(t, mark, m) ==
  /\ m \in Nat /\ m <= Len(t)
  /\ \A i \in 1 .. m : t[i] # mark
  /\ \A j \in Nat : j = m + 1 /\ j <= Len(t) => t[j] = mark

LEMMA UnmarkedExists ==
  ASSUME NEW t, Sq(t), NEW mark
  PROVE  \E m \in Nat : Unmarked(t, mark, m)
  <1>. DEFINE at == {k \in DOMAIN t : t[k] = mark}
  <1>1. DOMAIN t = 1 .. Len(t) /\ Len(t) \in Nat BY SqShape
  <1>2. CASE at = {}
    <2>1. Unmarked(t, mark, Len(t)) BY <1>1, <1>2 DEF Unmarked
    <2>. QED BY <2>1
  <1>3. CASE at # {}
    <2>1. at \subseteq Nat BY <1>1
    <2>2. PICK k \in at : \A j \in at : k <= j BY <1>3, <2>1, FirstOf
    <2>3. k \in 1 .. Len(t) /\ t[k] = mark BY <1>1, <2>2
    <2>4. PICK m \in Nat : m = k - 1 BY <2>3
    <2>5. ASSUME NEW i \in 1 .. m PROVE t[i] # mark BY <1>1, <2>2, <2>3, <2>4
    <2>6. Unmarked(t, mark, m) BY <2>3, <2>4, <2>5 DEF Unmarked
    <2>. QED BY <2>6
  <1>. QED BY <1>2, <1>3

LEMMA UpToMarkIs ==
  ASSUME NEW t, Sq(t), NEW mark, NEW m \in Nat, Unmarked(t, mark, m)
  PROVE  UpToMark(t, mark) = SubSeq(t, 1, m)
  <1>. DEFINE at == {k \in DOMAIN t : t[k] = mark}
              first == CHOOSE k \in at : \A j \in at : k <= j
  <1>1. DOMAIN t = 1 .. Len(t) /\ Len(t) \in Nat BY SqShape
  <1>2. m \in Nat /\ m <= Len(t) /\ \A i \in 1 .. m : t[i] # mark BY DEF Unmarked
  <1>3. PICK n \in Nat : n = m + 1 BY <1>2
  <1>4. n <= Len(t) => t[n] = mark BY <1>3 DEF Unmarked
  <1>5. CASE at = {}
    <2>1. ~ (n <= Len(t)) BY <1>1, <1>3, <1>4, <1>5
    <2>0. PICK l \in Nat : l = Len(t) BY <1>1
    <2>2a. m <= l /\ ~ (n <= l) BY <1>2, <2>0, <2>1
    <2>2b. m = l BY <1>3, <2>2a
    <2>2. m = Len(t) BY <2>0, <2>2b
    <2>3. Sq(SubSeq(t, 1, m)) /\ Len(SubSeq(t, 1, m)) = m
          /\ \A i \in 1 .. m : SubSeq(t, 1, m)[i] = t[i]
      BY <1>2, StartOf
    <2>4. SubSeq(t, 1, m) = t BY <2>2, <2>3, SameText
    <2>. QED BY <1>5, <2>4 DEF UpToMark
  <1>6. CASE at # {}
    <2>1. \A j \in at : n <= j /\ j <= Len(t) BY <1>1, <1>2, <1>3
    <2>2. n \in at BY <1>1, <1>3, <1>4, <1>6, <2>1
    <2>3. \A k \in at : k \in Nat BY <1>1
    <2>. HIDE DEF at
    <2>a. \E k \in at : \A j \in at : k <= j BY <2>1, <2>2
    <2>b. first \in at /\ \A j \in at : first <= j BY <2>a
    <2>. HIDE DEF first
    <2>c. first <= n /\ n <= first /\ first \in Nat BY <2>1, <2>2, <2>3, <2>b
    <2>4. first = n BY <2>c
    <2>5. first - 1 = m BY <1>2, <1>3, <2>4
    <2>6. UpToMark(t, mark) = SubSeq(t, 1, first - 1) BY <1>6 DEF UpToMark, at, first
    <2>. QED BY <2>5, <2>6
  <1>. QED BY <1>5, <1>6

\* A port at the end of a text of m characters and a port.
PortAfter(t, m) ==
  /\ m \in Nat
  /\ \A i \in 1 .. m : t[i] # ":"
  /\ \A j, k \in Nat : j = m + 1 /\ k = m + 2 => t[j] = ":" /\ t[k] = "port" /\ Len(t) = k

NoPort(t) == \A i \in 1 .. Len(t) : t[i] # ":"

LEMMA LastIsPort ==
  ASSUME NEW t, Sq(t), NEW k \in 1 .. Len(t), NEW l \in Nat, l = k + 1
  PROVE  SubSeq(t, l, Len(t)) = <<"port">> <=> Len(t) = l /\ t[l] = "port"
  <1>. DEFINE n == Len(t)
              s == SubSeq(t, l, n)
  <1>1. n \in Nat /\ DOMAIN t = 1 .. n /\ k <= n /\ k >= 1 BY SqShape
  <1>. HIDE DEF n
  <1>0. PICK S : t \in Seq(S) BY DEF Sq
  <1>2. \A i \in l .. n : t[i] \in S BY <1>0, <1>1 DEF n
  <1>3. /\ s \in Seq(S) /\ Len(s) = IF l <= n THEN n - l + 1 ELSE 0
        /\ \A i \in 1 .. n - l + 1 : s[i] = t[l + i - 1]
    BY <1>1, <1>2, SubSeqProperties
  <1>. HIDE DEF s
  <1>4. ASSUME s = <<"port">> PROVE n = l /\ t[l] = "port"
    <2>1. Len(s) = 1 /\ s[1] = "port" BY <1>4, SqOne
    <2>2. PICK e \in Nat : e = Len(s) BY <2>1
    <2>3. e = 1 BY <2>1, <2>2
    <2>4. e = IF l <= n THEN n - l + 1 ELSE 0 BY <1>3, <2>2
    <2>5. n = l BY <1>1, <2>3, <2>4
    <2>6. 1 \in 1 .. n - l + 1 /\ l + 1 - 1 = l BY <2>5
    <2>. QED BY <1>3, <2>1, <2>5, <2>6
  <1>5. ASSUME n = l, t[l] = "port" PROVE s = <<"port">>
    <2>1. 1 \in 1 .. n - l + 1 /\ l + 1 - 1 = l /\ n - l + 1 = 1 BY <1>5
    <2>2. Len(s) = 1 /\ s[1] = "port" BY <1>3, <1>5, <2>1
    <2>4. PICK q : q = <<"port">> OBVIOUS
    <2>5. Sq(q) /\ Len(q) = 1 /\ q[1] = "port" BY <2>4, SqOne
    <2>6. \A i \in 1 .. Len(q) : i = 1 BY <2>5
    <2>7. Sq(s) BY <1>3 DEF Sq
    <2>8. s = q BY <2>2, <2>5, <2>6, <2>7, SameText
    <2>. QED BY <2>4, <2>8
  <1>. QED BY <1>4, <1>5 DEF s, n

LEMMA NoPortIs ==
  ASSUME NEW t, Sq(t), NoPort(t)
  PROVE  WithoutOptionalPort(t) = t
  <1>1. {k \in DOMAIN t : t[k] = ":"} = {} BY DEF NoPort
  <1>. QED BY <1>1 DEF WithoutOptionalPort

LEMMA PortIs ==
  ASSUME NEW t, Sq(t), NEW m \in Nat, PortAfter(t, m)
  PROVE  m <= Len(t) /\ WithoutOptionalPort(t) = SubSeq(t, 1, m)
  <1>. DEFINE colons == {k \in DOMAIN t : t[k] = ":"}
  <1>1. PICK j \in Nat, k \in Nat : j = m + 1 /\ k = m + 2 BY DEF PortAfter
  <1>2. /\ m \in Nat /\ t[j] = ":" /\ t[k] = "port" /\ Len(t) = k /\ \A i \in 1 .. m : t[i] # ":"
    BY <1>1 DEF PortAfter
  <1>3. DOMAIN t = 1 .. k BY <1>2
  <1>4. \A i \in 1 .. k : i \in 1 .. m \/ i = j \/ i = k BY <1>1, <1>2
  <1>5. colons = {j} BY <1>1, <1>2, <1>3, <1>4
  <1>6. k = j + 1 /\ j \in 1 .. Len(t) BY <1>1, <1>2
  <1>7. SubSeq(t, k, Len(t)) = <<"port">> BY <1>2, <1>6, LastIsPort
  <1>8. Unmarked(t, ":", m) BY <1>1, <1>2 DEF Unmarked
  <1>9. UpToMark(t, ":") = SubSeq(t, 1, m) BY <1>8, UpToMarkIs
  <1>. HIDE DEF colons
  <1>10. \E q \in colons : colons = {q} /\ SubSeq(t, q + 1, Len(t)) = <<"port">> BY <1>5, <1>6, <1>7
  <1>11. WithoutOptionalPort(t) = UpToMark(t, ":") BY <1>5, <1>10 DEF WithoutOptionalPort, colons
  <1>. QED BY <1>1, <1>2, <1>9, <1>11

LEMMA PortOrNone ==
  ASSUME NEW t, Sq(t), WithoutOptionalPort(t) # NoName
  PROVE  NoPort(t) \/ \E m \in Nat : PortAfter(t, m)
  <1>. DEFINE colons == {k \in DOMAIN t : t[k] = ":"}
  <1>1. CASE colons = {} BY <1>1 DEF NoPort
  <1>2. CASE colons # {}
    <2>1. PICK q \in colons : colons = {q} /\ SubSeq(t, q + 1, Len(t)) = <<"port">>
      BY <1>2 DEF WithoutOptionalPort
    <2>2. q \in 1 .. Len(t) /\ t[q] = ":" BY <2>1
    <2>3. PICK l \in Nat, m \in Nat : l = q + 1 /\ m = q - 1 BY <2>2
    <2>4. Len(t) = l /\ t[l] = "port" BY <2>1, <2>2, <2>3, LastIsPort
    <2>5. ASSUME NEW i \in 1 .. m PROVE t[i] # ":"
      <3>1. i \in DOMAIN t /\ i # q BY <2>2, <2>3
      <3>. QED BY <2>1, <3>1
    <2>6. \A j, k \in Nat : j = m + 1 /\ k = m + 2 => j = q /\ k = l BY <2>2, <2>3
    <2>7. PortAfter(t, m) BY <2>2, <2>3, <2>4, <2>5, <2>6 DEF PortAfter
    <2>. QED BY <2>7
  <1>. QED BY <1>1, <1>2

LEMMA SqTwo ==
  ASSUME NEW p, NEW q, NEW t, t = <<p, q>>
  PROVE  Sq(t) /\ Len(t) = 2 /\ t[1] = p /\ t[2] = q
  <1>1. <<p, q>> \in Seq({p, q}) OBVIOUS
  <1>2. Len(<<p, q>>) = 2 /\ <<p, q>>[1] = p /\ <<p, q>>[2] = q OBVIOUS
  <1>. QED BY <1>1, <1>2 DEF Sq

LEMMA SqThree ==
  ASSUME NEW p, NEW q, NEW r, NEW t, t = <<p, q, r>>
  PROVE  Sq(t) /\ Len(t) = 3 /\ t[1] = p /\ t[2] = q /\ t[3] = r
  <1>1. <<p, q, r>> \in Seq({p, q, r}) OBVIOUS
  <1>2. Len(<<p, q, r>>) = 3 /\ <<p, q, r>>[1] = p /\ <<p, q, r>>[2] = q /\ <<p, q, r>>[3] = r OBVIOUS
  <1>. QED BY <1>1, <1>2 DEF Sq

\* The trailing dot of a text, if it has one.
LEMMA DotIs ==
  ASSUME NEW t, Sq(t), NEW m \in Nat, Len(t) = m
  PROVE  /\ m = 0 \/ t[m] # "." => WithoutTrailingDot(t) = t
         /\ \A n \in Nat : m = n + 1 /\ t[m] = "." =>
              /\ Sq(WithoutTrailingDot(t)) /\ Len(WithoutTrailingDot(t)) = n
              /\ \A i \in 1 .. n : WithoutTrailingDot(t)[i] = t[i]
  <1>1. t = <<>> => m = 0 BY SqEmpty
  <1>2. ASSUME m = 0 PROVE t = <<>>
    <2>1. \A i \in 1 .. Len(<<>>) : FALSE BY SqEmpty
    <2>. QED BY <1>2, <2>1, SqEmpty, SameText
  <1>3. Last(t) = t[m] BY DEF Last
  <1>4. m = 0 \/ t[m] # "." => WithoutTrailingDot(t) = t BY <1>2, <1>3 DEF WithoutTrailingDot
  <1>5. ASSUME NEW n \in Nat, m = n + 1, t[m] = "."
        PROVE  /\ Sq(WithoutTrailingDot(t)) /\ Len(WithoutTrailingDot(t)) = n
               /\ \A i \in 1 .. n : WithoutTrailingDot(t)[i] = t[i]
    <2>1. m - 1 = n /\ n <= m BY <1>5
    <2>2. Front(t) = SubSeq(t, 1, n) BY <2>1 DEF Front
    <2>3. WithoutTrailingDot(t) = SubSeq(t, 1, n) BY <1>1, <1>3, <1>5, <2>2 DEF WithoutTrailingDot
    <2>. QED BY <2>1, <2>3, StartOf
  <1>. QED BY <1>4, <1>5

LEMMA LowerCaseIs ==
  ASSUME NEW t, Sq(t)
  PROVE  /\ Sq(ToLowerCase(t)) /\ Len(ToLowerCase(t)) = Len(t)
         /\ \A i \in 1 .. Len(t) : ToLowerCase(t)[i] = Lower(t[i])
  <1>1. PICK n \in Nat : n = Len(t) BY SqShape
  <1>2. DOMAIN t = 1 .. n BY <1>1, SqShape
  <1>. DEFINE u == ToLowerCase(t)
              S == {Lower(t[i]) : i \in 1 .. n}
  <1>3. u = [i \in 1 .. n |-> Lower(t[i])] BY <1>2 DEF ToLowerCase
  <1>4. u \in [1 .. n -> S] BY <1>3
  <1>5. Sq(u) /\ Len(u) = n BY <1>4, SqMap
  <1>. QED BY <1>1, <1>3, <1>5

\* The words of names, and none of what separates a name from what follows it.
NameWords == {"code", "base", "tld", "."}
LEMMA LowerIs ==
  ASSUME NEW w
  PROVE  /\ Lower(w) \in NameWords => w \notin {":", "nul", " ", "port", "nothing", "/", "verify"}
         /\ \A c \in {":", "nul", " ", "port", ".", "nothing"} : Lower(w) = c <=> w = c
  BY DEF Lower, NameWords

Name(N) ==
  /\ Sq(N) /\ 1 <= Len(N) /\ \A i \in 1 .. Len(N) : N[i] \in NameWords
  /\ N[Len(N)] # "."

\* An address that is a name, its dot up to place m and a port up to place k.
Shape(h, N, m, k) ==
  /\ k <= Len(h)
  /\ \A i \in 1 .. Len(N) : Lower(h[i]) = N[i]
  /\ m = Len(N) \/ (m = Len(N) + 1 /\ h[m] = ".")
  /\ k = m \/ (k = m + 2 /\ h[k] = "port" /\ \A c \in Nat : c = m + 1 => h[c] = ":")
  /\ \A j \in Nat : j = k + 1 /\ j <= Len(h) => h[j] = "nul"

LEMMA ShapeNames ==
  ASSUME NEW h, Sq(h), NEW N, Name(N), NEW m \in Nat, NEW k \in Nat, Shape(h, N, m, k)
  PROVE  NormalizeHost(h) = N
  <1>1. PICK n \in Nat : n = Len(N) BY SqShape DEF Name
  <1>2. PICK c \in Nat : c = m + 1 OBVIOUS
  <1>3. Sq(N) /\ 1 <= n /\ (\A i \in 1 .. n : N[i] \in NameWords) /\ N[n] # "." BY <1>1 DEF Name
  <1>4. /\ k <= Len(h) /\ \A i \in 1 .. n : Lower(h[i]) = N[i]
        /\ m = n \/ (m = n + 1 /\ h[m] = ".")
        /\ k = m \/ (k = m + 2 /\ h[k] = "port" /\ h[c] = ":")
        /\ \A j \in Nat : j = k + 1 /\ j <= Len(h) => h[j] = "nul"
    BY <1>1, <1>2 DEF Shape
  <1>5. ASSUME NEW i \in 1 .. m PROVE h[i] \notin {":", "nul", " ", "port", "nothing"}
    <2>1. CASE i \in 1 .. n
      <3>1. Lower(h[i]) \in NameWords BY <1>3, <1>4, <2>1
      <3>. QED BY <3>1, LowerIs
    <2>2. CASE i \notin 1 .. n
      <3>1. i = m /\ m # n BY <1>4, <2>2
      <3>2. h[i] = "." BY <1>4, <3>1
      <3>. QED BY <3>2
    <2>. QED BY <2>1, <2>2
  <1>6. ASSUME NEW i \in 1 .. k PROVE h[i] \notin {"nul", " "}
    <2>1. i \in 1 .. m \/ (k = m + 2 /\ (i = c \/ i = k)) BY <1>2, <1>4
    <2>. QED BY <1>4, <1>5, <2>1
  <1>7. Unmarked(h, "nul", k) BY <1>4, <1>6 DEF Unmarked
  <1>8. PICK s : s = UpToMark(h, "nul") OBVIOUS
  <1>9. Sq(s) /\ Len(s) = k /\ \A i \in 1 .. k : s[i] = h[i]
    <2>1. s = SubSeq(h, 1, k) BY <1>7, <1>8, UpToMarkIs
    <2>. QED BY <1>4, <2>1, StartOf
  <1>10. PICK w : w = WithoutOptionalPort(s) OBVIOUS
  <1>11. Sq(w) /\ Len(w) = m /\ \A i \in 1 .. m : w[i] = h[i]
    <2>1. CASE k = m
      <3>1. NoPort(s) BY <1>5, <1>9, <2>1 DEF NoPort
      <3>. QED BY <1>9, <1>10, <2>1, <3>1, NoPortIs
    <2>2. CASE k = m + 2 /\ h[k] = "port" /\ h[c] = ":"
      <3>1. c \in 1 .. k /\ k \in 1 .. k /\ \A i \in 1 .. m : i \in 1 .. k BY <1>2, <2>2
      <3>2. s[c] = ":" /\ s[k] = "port" /\ \A i \in 1 .. m : s[i] = h[i] BY <1>9, <2>2, <3>1
      <3>3. PortAfter(s, m) BY <1>2, <1>5, <1>9, <2>2, <3>2 DEF PortAfter
      <3>4. m <= Len(s) /\ w = SubSeq(s, 1, m) BY <1>9, <1>10, <3>3, PortIs
      <3>. QED BY <1>9, <3>2, <3>4, StartOf
    <2>. QED BY <1>4, <2>1, <2>2
  <1>12. 1 <= m /\ 1 <= k BY <1>3, <1>4
  <1>13. w # NoName
    <2>1. 1 \in 1 .. m BY <1>12
    <2>2. w[1] # "nothing" BY <1>5, <1>11, <2>1
    <2>. QED BY <2>2, SqOne DEF NoName
  <1>14. s # <<>> BY <1>9, <1>12, SqEmpty
  <1>15. " " \notin ToSet(s)
    <2>1. DOMAIN s = 1 .. k BY <1>9, SqShape
    <2>. QED BY <1>6, <1>9, <2>1 DEF ToSet
  <1>16. PICK u : u = WithoutTrailingDot(w) OBVIOUS
  <1>17. Sq(u) /\ Len(u) = n /\ \A i \in 1 .. n : u[i] = h[i]
    <2>1. CASE m = n
      <3>1. n \in 1 .. n BY <1>3
      <3>2. Lower(h[n]) # "." BY <1>3, <1>4, <3>1
      <3>0. h[n] # "." BY <3>2, LowerIs
      <3>3. u = w BY <1>11, <1>16, <2>1, <3>1, <3>0, DotIs
      <3>. QED BY <1>11, <2>1, <3>3
    <2>2. CASE m = n + 1 /\ h[m] = "."
      <3>1. m \in 1 .. m /\ \A i \in 1 .. n : i \in 1 .. m BY <2>2
      <3>2. w[m] = "." BY <1>11, <2>2, <3>1
      <3>3. Sq(u) /\ Len(u) = n /\ \A i \in 1 .. n : u[i] = w[i] BY <1>11, <1>16, <2>2, <3>2, DotIs
      <3>. QED BY <1>11, <3>1, <3>3
    <2>. QED BY <1>4, <2>1, <2>2
  <1>18. u # <<>> BY <1>3, <1>17, SqEmpty
  <1>19. ToLowerCase(u) = N
    <2>1. Sq(ToLowerCase(u)) /\ Len(ToLowerCase(u)) = n
          /\ \A i \in 1 .. n : ToLowerCase(u)[i] = Lower(u[i])
      BY <1>17, LowerCaseIs
    <2>2. \A i \in 1 .. n : ToLowerCase(u)[i] = N[i] BY <1>4, <1>17, <2>1
    <2>. QED BY <1>1, <1>3, <2>1, <2>2, SameText
  <1>. QED BY <1>8, <1>10, <1>13, <1>14, <1>15, <1>16, <1>18, <1>19 DEF NormalizeHost

LEMMA NamesHaveShape ==
  ASSUME NEW h, Sq(h), NEW N, Name(N), NormalizeHost(h) = N
  PROVE  \E m, k \in Nat : Shape(h, N, m, k)
  <1>1. PICK n \in Nat : n = Len(N) BY SqShape DEF Name
  <1>2. Sq(N) /\ 1 <= n /\ (\A i \in 1 .. n : N[i] \in NameWords) /\ N[n] # "." BY <1>1 DEF Name
  <1>3. N # NoName
    <2>1. 1 \in 1 .. n BY <1>2
    <2>2. N[1] # "nothing" BY <1>2, <2>1 DEF NameWords
    <2>. QED BY <2>2, SqOne DEF NoName
  <1>4. PICK s : s = UpToMark(h, "nul") OBVIOUS
  <1>5. PICK w : w = WithoutOptionalPort(s) OBVIOUS
  <1>6. PICK u : u = WithoutTrailingDot(w) OBVIOUS
  <1>7. w # NoName /\ ToLowerCase(u) = N BY <1>3, <1>4, <1>5, <1>6 DEF NormalizeHost
  <1>8. PICK k \in Nat : Unmarked(h, "nul", k) BY UnmarkedExists
  <1>9. k <= Len(h) /\ \A j \in Nat : j = k + 1 /\ j <= Len(h) => h[j] = "nul" BY <1>8 DEF Unmarked
  <1>10. Sq(s) /\ Len(s) = k /\ \A i \in 1 .. k : s[i] = h[i]
    <2>1. s = SubSeq(h, 1, k) BY <1>4, <1>8, UpToMarkIs
    <2>. QED BY <1>9, <2>1, StartOf
  <1>11. PICK m \in Nat :
           /\ Sq(w) /\ Len(w) = m /\ m <= k /\ \A i \in 1 .. m : w[i] = h[i]
           /\ k = m \/ (k = m + 2 /\ h[k] = "port" /\ \A c \in Nat : c = m + 1 => h[c] = ":")
    <2>1. CASE NoPort(s)
      <3>1. w = s BY <1>5, <1>10, <2>1, NoPortIs
      <3>. QED BY <1>10, <3>1
    <2>2. ASSUME NEW m \in Nat, PortAfter(s, m)
          PROVE  /\ Sq(w) /\ Len(w) = m /\ m <= k /\ \A i \in 1 .. m : w[i] = h[i]
                 /\ k = m + 2 /\ h[k] = "port" /\ \A c \in Nat : c = m + 1 => h[c] = ":"
      <3>1. PICK c \in Nat, l \in Nat : c = m + 1 /\ l = m + 2 OBVIOUS
      <3>2. s[c] = ":" /\ s[l] = "port" /\ k = l BY <1>10, <2>2, <3>1 DEF PortAfter
      <3>3. m <= k /\ w = SubSeq(s, 1, m) BY <1>5, <1>10, <2>2, PortIs
      <3>4. Sq(w) /\ Len(w) = m /\ \A i \in 1 .. m : w[i] = s[i] BY <1>10, <3>3, StartOf
      <3>5. c \in 1 .. k /\ k \in 1 .. k /\ \A i \in 1 .. m : i \in 1 .. k BY <3>1, <3>2, <3>3
      <3>6. h[c] = ":" /\ h[k] = "port" BY <1>10, <3>2, <3>5
      <3>7. \A i \in 1 .. m : w[i] = h[i] BY <1>10, <3>4, <3>5
      <3>. QED BY <3>1, <3>2, <3>3, <3>4, <3>6, <3>7
    <2>3. NoPort(s) \/ \E m \in Nat : PortAfter(s, m) BY <1>5, <1>7, <1>10, PortOrNone
    <2>. QED BY <2>1, <2>2, <2>3
  <1>12. PICK l \in Nat :
           /\ Sq(u) /\ Len(u) = l /\ \A i \in 1 .. l : u[i] = h[i]
           /\ m = l \/ (m = l + 1 /\ h[m] = ".")
    <2>1. CASE m = 0 \/ w[m] # "."
      <3>1. u = w BY <1>6, <1>11, <2>1, DotIs
      <3>. QED BY <1>11, <3>1
    <2>2. CASE ~ (m = 0 \/ w[m] # ".")
      <3>1. PICK l \in Nat : m = l + 1 BY <2>2
      <3>2. Sq(u) /\ Len(u) = l /\ \A i \in 1 .. l : u[i] = w[i] BY <1>6, <1>11, <2>2, <3>1, DotIs
      <3>3. m \in 1 .. m /\ \A i \in 1 .. l : i \in 1 .. m BY <3>1
      <3>. QED BY <1>11, <2>2, <3>1, <3>2, <3>3
    <2>. QED BY <2>1, <2>2
  <1>13. Len(N) = Len(u) /\ \A i \in 1 .. Len(u) : N[i] = Lower(u[i]) BY <1>7, <1>12, LowerCaseIs
  <1>14. l = n BY <1>1, <1>12, <1>13
  <1>15. \A i \in 1 .. n : Lower(h[i]) = N[i] BY <1>12, <1>13, <1>14
  <1>16. Shape(h, N, m, k) BY <1>1, <1>9, <1>11, <1>12, <1>14, <1>15 DEF Shape
  <1>. QED BY <1>16

LEMMA PrefixIs ==
  ASSUME NEW s, Sq(s), NEW t, Sq(t)
  PROVE  IsPrefix(s, t) <=> Len(s) <= Len(t) /\ \A i \in 1 .. Len(s) : s[i] = t[i]
  <1>1. PICK n \in Nat, l \in Nat : n = Len(s) /\ l = Len(t) BY SqShape
  <1>2. Sq(SubSeq(s, 1, n)) /\ Len(SubSeq(s, 1, n)) = n /\ \A i \in 1 .. n : SubSeq(s, 1, n)[i] = s[i]
    BY <1>1, StartOf
  <1>3. CASE n <= l
    <2>1. Sq(SubSeq(t, 1, n)) /\ Len(SubSeq(t, 1, n)) = n /\ \A i \in 1 .. n : SubSeq(t, 1, n)[i] = t[i]
      BY <1>1, <1>3, StartOf
    <2>2. (\A i \in 1 .. n : s[i] = t[i]) => SubSeq(s, 1, n) = SubSeq(t, 1, n)
      <3>1. ASSUME \A i \in 1 .. n : s[i] = t[i]
            PROVE  \A i \in 1 .. n : SubSeq(s, 1, n)[i] = SubSeq(t, 1, n)[i]
        BY <1>2, <2>1, <3>1
      <3>. QED BY <1>2, <2>1, <3>1, SameText
    <2>3. SubSeq(s, 1, n) = SubSeq(t, 1, n) => \A i \in 1 .. n : s[i] = t[i] BY <1>2, <2>1
    <2>. QED BY <1>1, <1>3, <2>2, <2>3 DEF IsPrefix
  <1>4. CASE ~ (n <= l) BY <1>1, <1>4 DEF IsPrefix
  <1>. QED BY <1>3, <1>4

\* A name as a client writes it: with a dot up to place m and a port up to place k.
LEMMA DotIsLong == Long(Dot, 1) /\ Dot[1] = "."
  BY SqOne DEF Dot, Long

LEMMA PortIsLong ==
  ASSUME NEW t, t = <<":", "port">>
  PROVE  Long(t, 2) /\ t[1] = ":" /\ t[2] = "port"
  BY SqTwo DEF Long

LEMMA EmptyIsLong == Long(<<>>, 0)
  BY SqEmpty DEF Long

\* A name with its dot up to place m and a port up to place k.
Parts(f, N, n, dot, port, m, k) ==
  /\ Long(f, k) /\ \A i \in 1 .. n : f[i] = N[i]
  /\ \/ dot = <<>> /\ m = n
     \/ dot = Dot /\ m = n + 1 /\ f[m] = "."
  /\ \/ port = <<>> /\ k = m
     \/ /\ port = <<":", "port">> /\ k = m + 2 /\ f[k] = "port"
        /\ \A c \in Nat : c = m + 1 => f[c] = ":"

LEMMA FullName ==
  ASSUME NEW N, NEW dot \in {<<>>, Dot}, NEW port \in {<<>>, <<":", "port">>},
         NEW n \in Nat, Long(N, n)
  PROVE  \E m, k \in Nat : Parts(Cat(Cat(N, dot), port), N, n, dot, port, m, k)
  <1>1. PICK a : a = Cat(N, dot) OBVIOUS
  <1>2. PICK f : f = Cat(a, port) OBVIOUS
  <1>3. n + 0 = n OBVIOUS
  <1>4. PICK m \in Nat : /\ Long(a, m) /\ \A i \in 1 .. n : a[i] = N[i]
                         /\ \/ dot = <<>> /\ m = n
                            \/ dot = Dot /\ m = n + 1 /\ a[m] = "."
    <2>1. CASE dot = <<>>
      <3>1. Long(a, n) /\ \A i \in 1 .. n : a[i] = N[i]
        BY <1>1, <1>3, <2>1, EmptyIsLong, LongCat
      <3>. QED BY <2>1, <3>1
    <2>2. CASE dot = Dot
      <3>1. PICK m \in Nat : m = n + 1 OBVIOUS
      <3>2. Long(a, m) /\ \A i \in 1 .. n : a[i] = N[i] BY <1>1, <2>2, <3>1, DotIsLong, LongCat
      <3>3. \A i \in 1 .. 1, j \in Nat : j = n + i => a[j] = Dot[i] BY <1>1, <2>2, DotIsLong, LongCat
      <3>4. a[m] = Dot[1] BY <3>1, <3>3
      <3>. QED BY <2>2, <3>1, <3>2, <3>4, DotIsLong
    <2>. QED BY <2>1, <2>2
  <1>5. \A i \in 1 .. n : i \in 1 .. m BY <1>4
  <1>6. m + 0 = m OBVIOUS
  <1>7. PICK k \in Nat : /\ Long(f, k) /\ \A i \in 1 .. m : f[i] = a[i]
                         /\ \/ port = <<>> /\ k = m
                            \/ /\ port = <<":", "port">> /\ k = m + 2 /\ f[k] = "port"
                               /\ \A c \in Nat : c = m + 1 => f[c] = ":"
    <2>1. CASE port = <<>>
      <3>1. Long(a, m) /\ Long(port, 0) BY <1>4, <2>1, EmptyIsLong
      <3>2. Long(f, m) /\ \A i \in 1 .. m : f[i] = a[i] BY <1>2, <1>6, <3>1, LongCat
      <3>. QED BY <2>1, <3>2
    <2>2. CASE port = <<":", "port">>
      <3>1. Long(port, 2) /\ port[1] = ":" /\ port[2] = "port" BY <2>2, PortIsLong
      <3>2. PICK c \in Nat, k \in Nat : c = m + 1 /\ k = m + 2 OBVIOUS
      <3>3. Long(a, m) BY <1>4
      <3>4. Long(f, k) /\ \A i \in 1 .. m : f[i] = a[i] BY <1>2, <3>1, <3>2, <3>3, LongCat
      <3>5. \A i \in 1 .. 2, j \in Nat : j = m + i => f[j] = port[i] BY <1>2, <3>1, <3>3, LongCat
      <3>6. f[c] = port[1] /\ f[k] = port[2] BY <3>2, <3>5
      <3>. QED BY <2>2, <3>1, <3>2, <3>4, <3>6
    <2>. QED BY <2>1, <2>2
  <1>8. \A i \in 1 .. n : f[i] = N[i] BY <1>4, <1>5, <1>7
  <1>9. m = n + 1 /\ a[m] = "." => f[m] = "."
    <2>1. ASSUME m = n + 1 PROVE m \in 1 .. m BY <2>1
    <2>. QED BY <1>7, <2>1
  <1>10. Parts(f, N, n, dot, port, m, k) BY <1>4, <1>7, <1>8, <1>9 DEF Parts
  <1>. QED BY <1>1, <1>2, <1>10

LEMMA WrittenHasShape ==
  ASSUME Sq(host), NEW N, Name(N), Written(N)
  PROVE  \E m, k \in Nat : Shape(host, N, m, k)
  <1>1. PICK n \in Nat : n = Len(N) BY SqShape DEF Name
  <1>0. PICK l \in Nat : l = Len(host) BY SqShape
  <1>2. PICK dot \in {<<>>, Dot}, port \in {<<>>, <<":", "port">>} :
          /\ IsPrefix(N \o dot \o port, ToLowerCase(host))
          /\ Len(host) > Len(N \o dot \o port) => host[Len(N \o dot \o port) + 1] = "nul"
    BY DEF Written
  <1>3. PICK f : f = N \o dot \o port OBVIOUS
  <1>a. f = Cat(Cat(N, dot), port) BY <1>3 DEF Cat
  <1>b. Long(N, n) BY <1>1 DEF Name, Long
  <1>c. PICK m \in Nat, k \in Nat : Parts(f, N, n, dot, port, m, k) BY <1>a, <1>b, FullName
  <1>4. /\ Sq(f) /\ Len(f) = k
        /\ \A i \in 1 .. n : f[i] = N[i]
        /\ \/ dot = <<>> /\ m = n
           \/ dot = Dot /\ m = n + 1 /\ f[m] = "."
        /\ \/ port = <<>> /\ k = m
           \/ /\ port = <<":", "port">> /\ k = m + 2 /\ f[k] = "port"
              /\ \A c \in Nat : c = m + 1 => f[c] = ":"
    BY <1>c DEF Parts, Long
  <1>5. IsPrefix(f, ToLowerCase(host)) /\ (l > k => host[k + 1] = "nul") BY <1>0, <1>2, <1>3, <1>4
  <1>6. /\ Sq(ToLowerCase(host)) /\ Len(ToLowerCase(host)) = l
        /\ \A i \in 1 .. l : ToLowerCase(host)[i] = Lower(host[i])
    BY <1>0, LowerCaseIs
  <1>7. k <= l /\ \A i \in 1 .. k : f[i] = ToLowerCase(host)[i] BY <1>4, <1>5, <1>6, PrefixIs
  <1>8. \A i \in 1 .. k : f[i] = Lower(host[i]) BY <1>6, <1>7
  <1>9. n <= m /\ m <= k BY <1>4
  <1>10. \A i \in 1 .. n : Lower(host[i]) = N[i] BY <1>4, <1>8, <1>9
  <1>11. m = n \/ (m = n + 1 /\ host[m] = ".")
    <2>1. ASSUME m = n + 1, f[m] = "." PROVE host[m] = "."
      <3>1. m \in 1 .. k BY <1>9, <2>1
      <3>2. Lower(host[m]) = "." BY <1>8, <2>1, <3>1
      <3>. QED BY <3>2, LowerIs
    <2>. QED BY <1>4, <2>1
  <1>12. k = m \/ (k = m + 2 /\ host[k] = "port" /\ \A c \in Nat : c = m + 1 => host[c] = ":")
    <2>1. ASSUME k = m + 2, f[k] = "port", \A c \in Nat : c = m + 1 => f[c] = ":"
          PROVE  host[k] = "port" /\ \A c \in Nat : c = m + 1 => host[c] = ":"
      <3>1. PICK c \in Nat : c = m + 1 OBVIOUS
      <3>2. c \in 1 .. k /\ k \in 1 .. k BY <2>1, <3>1
      <3>3. Lower(host[c]) = ":" /\ Lower(host[k]) = "port" BY <1>8, <2>1, <3>1, <3>2
      <3>4. host[c] = ":" /\ host[k] = "port" BY <3>3, LowerIs
      <3>. QED BY <3>1, <3>4
    <2>. QED BY <1>4, <2>1
  <1>13. \A j \in Nat : j = k + 1 /\ j <= l => host[j] = "nul" BY <1>5
  <1>14. Shape(host, N, m, k) BY <1>0, <1>1, <1>7, <1>10, <1>11, <1>12, <1>13 DEF Shape
  <1>. QED BY <1>14

LEMMA ShapeIsWritten ==
  ASSUME Sq(host), NEW N, Name(N), NEW m \in Nat, NEW k \in Nat, Shape(host, N, m, k)
  PROVE  Written(N)
  <1>1. PICK n \in Nat : n = Len(N) BY SqShape DEF Name
  <1>0. PICK l \in Nat : l = Len(host) BY SqShape
  <1>. DEFINE dot == IF m = n THEN <<>> ELSE Dot
              port == IF k = m THEN <<>> ELSE <<":", "port">>
  <1>2. dot \in {<<>>, Dot} /\ port \in {<<>>, <<":", "port">>} OBVIOUS
  <1>3. /\ dot = <<>> => m = n
        /\ dot = Dot => m # n
        /\ port = <<>> => k = m
        /\ port = <<":", "port">> => k # m
    <2>1. <<>> # Dot BY SqEmpty, SqOne DEF Dot
    <2>2. <<>> # <<":", "port">>
      <3>1. PICK t : t = <<":", "port">> OBVIOUS
      <3>. QED BY <3>1, SqEmpty, SqTwo
    <2>. QED BY <2>1, <2>2
  <1>4. /\ k <= l
        /\ \A i \in 1 .. n : Lower(host[i]) = N[i]
        /\ m = n \/ (m = n + 1 /\ host[m] = ".")
        /\ k = m \/ (k = m + 2 /\ host[k] = "port" /\ \A c \in Nat : c = m + 1 => host[c] = ":")
        /\ \A j \in Nat : j = k + 1 /\ j <= l => host[j] = "nul"
    BY <1>0, <1>1 DEF Shape
  <1>. HIDE DEF dot, port
  <1>5. PICK f : f = N \o dot \o port OBVIOUS
  <1>a. f = Cat(Cat(N, dot), port) BY <1>5 DEF Cat
  <1>b. Long(N, n) BY <1>1 DEF Name, Long
  <1>c. PICK m1 \in Nat, k1 \in Nat : Parts(f, N, n, dot, port, m1, k1) BY <1>2, <1>a, <1>b, FullName
  <1>6. /\ Sq(f) /\ Len(f) = k1
        /\ \A i \in 1 .. n : f[i] = N[i]
        /\ \/ dot = <<>> /\ m1 = n
           \/ dot = Dot /\ m1 = n + 1 /\ f[m1] = "."
        /\ \/ port = <<>> /\ k1 = m1
           \/ /\ port = <<":", "port">> /\ k1 = m1 + 2 /\ f[k1] = "port"
              /\ \A c \in Nat : c = m1 + 1 => f[c] = ":"
    BY <1>c DEF Parts, Long
  <1>7. m1 = m /\ k1 = k
    <2>1. m1 = m BY <1>3, <1>4, <1>6
    <2>. QED BY <1>3, <1>4, <1>6, <2>1
  <1>8. m # n => m = n + 1 /\ f[m] = "." /\ host[m] = "." BY <1>3, <1>4, <1>6, <1>7
  <1>9. PICK c \in Nat : c = m + 1 OBVIOUS
  <1>10. k # m => /\ k = m + 2 /\ f[k] = "port" /\ host[k] = "port"
                  /\ f[c] = ":" /\ host[c] = ":"
    BY <1>3, <1>4, <1>6, <1>7, <1>9
  <1>11. ASSUME NEW i \in 1 .. k PROVE f[i] = Lower(host[i])
    <2>1. CASE i \in 1 .. n BY <1>4, <1>6, <2>1
    <2>2. CASE i \notin 1 .. n /\ i \in 1 .. m
      <3>1. i = m /\ m # n BY <1>4, <2>2
      <3>. QED BY <1>8, <3>1, LowerIs
    <2>3. CASE i \notin 1 .. m
      <3>1. k # m /\ (i = c \/ i = k) BY <1>4, <1>9, <2>3
      <3>2. f[i] = host[i] /\ host[i] \in {":", "port"} BY <1>10, <3>1
      <3>3. Lower(host[i]) = host[i] BY <3>2, LowerIs
      <3>. QED BY <3>2, <3>3
    <2>. QED BY <2>1, <2>2, <2>3
  <1>12. /\ Sq(ToLowerCase(host)) /\ Len(ToLowerCase(host)) = l
         /\ \A i \in 1 .. l : ToLowerCase(host)[i] = Lower(host[i])
    BY <1>0, LowerCaseIs
  <1>13. \A i \in 1 .. k : f[i] = ToLowerCase(host)[i] BY <1>4, <1>11, <1>12
  <1>14. Len(f) = k BY <1>6, <1>7
  <1>15. IsPrefix(f, ToLowerCase(host)) BY <1>4, <1>6, <1>12, <1>13, <1>14, PrefixIs
  <1>16. Len(host) > Len(f) => host[Len(f) + 1] = "nul"
    <2>1. l > k => host[k + 1] = "nul" BY <1>4
    <2>. QED BY <1>0, <1>14, <2>1
  <1>. QED BY <1>2, <1>5, <1>15, <1>16 DEF Written

LEMMA ReadAsWritten ==
  ASSUME Sq(host), NEW N, Name(N)
  PROVE  NormalizeHost(host) = N <=> Written(N)
  BY ShapeNames, NamesHaveShape, WrittenHasShape, ShapeIsWritten

\* The two names that there are.
LEMMA BaseIsName ==
  /\ Name(BaseDomain) /\ Len(BaseDomain) = 3 /\ BaseDomain[1] = "base"
  <1>1. BaseDomain \in Seq(NameWords) BY DEF BaseDomain, NameWords
  <1>2. Len(BaseDomain) = 3 BY DEF BaseDomain
  <1>3. BaseDomain[1] = "base" /\ BaseDomain[2] = "." /\ BaseDomain[3] = "tld" BY DEF BaseDomain
  <1>4. \A i \in 1 .. 3 : i = 1 \/ i = 2 \/ i = 3 OBVIOUS
  <1>5. \A i \in 1 .. 3 : BaseDomain[i] \in NameWords BY <1>3, <1>4 DEF NameWords
  <1>6. Sq(BaseDomain) BY <1>1 DEF Sq
  <1>. QED BY <1>2, <1>3, <1>5, <1>6 DEF Name

CodeName == <<"code">> \o Dot \o BaseDomain

LEMMA CodeIsName ==
  /\ Name(CodeName) /\ Len(CodeName) = 5 /\ CodeName[1] = "code" /\ CodeName # BaseDomain
  <1>1. PICK a : a = <<"code">> OBVIOUS
  <1>2. Long(a, 1) /\ a[1] = "code" BY <1>1, SqOne DEF Long
  <1>4. PICK b : b = Cat(a, Dot) OBVIOUS
  <1>5. Long(b, 2) /\ b[1] = "code" /\ b[2] = "."
    <2>0. 2 = 1 + 1 OBVIOUS
    <2>1. Long(b, 2) BY <1>2, <1>4, <2>0, DotIsLong, LongCat
    <2>2. \A i \in 1 .. 1 : b[i] = a[i] BY <1>2, <1>4, DotIsLong, LongCat
    <2>3. \A i \in 1 .. 1, j \in Nat : j = 1 + i => b[j] = Dot[i] BY <1>2, <1>4, DotIsLong, LongCat
    <2>4. b[2] = Dot[1] BY <2>3
    <2>. QED BY <1>2, <2>1, <2>2, <2>4, DotIsLong
  <1>6. Long(BaseDomain, 3) /\ \A i \in 1 .. 3 : BaseDomain[i] \in NameWords
    BY BaseIsName DEF Name, Long
  <1>7. BaseDomain[3] # "." BY BaseIsName DEF Name
  <1>8. PICK d : d = Cat(b, BaseDomain) OBVIOUS
  <1>a. 5 = 2 + 3 OBVIOUS
  <1>9. Long(d, 5) BY <1>5, <1>6, <1>8, <1>a, LongCat
  <1>10. \A i \in 1 .. 2 : d[i] = b[i] BY <1>5, <1>6, <1>8, LongCat
  <1>11. \A i \in 1 .. 3, j \in Nat : j = 2 + i => d[j] = BaseDomain[i] BY <1>5, <1>6, <1>8, LongCat
  <1>12. d[1] = "code" /\ d[2] = "." BY <1>5, <1>10
  <1>13. d[5] = BaseDomain[3] BY <1>11
  <1>14. ASSUME NEW i \in 1 .. 5 PROVE d[i] \in NameWords
    <2>1. CASE i \in 1 .. 2
      <3>1. i = 1 \/ i = 2 BY <2>1
      <3>. QED BY <1>12, <3>1 DEF NameWords
    <2>2. CASE i \notin 1 .. 2
      <3>1. PICK j \in 1 .. 3 : i = 2 + j BY <2>2
      <3>. QED BY <1>6, <1>11, <3>1
    <2>. QED BY <2>1, <2>2
  <1>15. d = CodeName BY <1>1, <1>4, <1>8 DEF CodeName, Cat
  <1>b. Sq(d) /\ Len(d) = 5 BY <1>9 DEF Long
  <1>16. Name(d) BY <1>7, <1>13, <1>14, <1>b DEF Name
  <1>17. d # BaseDomain
    <2>1. Len(BaseDomain) # Len(d) BY <1>b, BaseIsName
    <2>. QED BY <2>1
  <1>. QED BY <1>12, <1>15, <1>16, <1>17, <1>b

--------------------------------------------------------------------------------
(* The lines of the chat (ExtractChatCode).                                 *)

\* A part of a text.
HasPart(t, a, q, n) == \A i \in 1 .. n, j \in Nat : j = a + i - 1 => t[j] = q[i]

LEMMA PartIs ==
  ASSUME NEW t, NEW l \in Nat, Long(t, l), NEW q, NEW n \in Nat, Long(q, n), 1 <= n,
         NEW a \in Nat, NEW b \in Nat, 1 <= a, b = a + n - 1, b <= l, HasPart(t, a, q, n)
  PROVE  SubSeq(t, a, b) = q
  <1>0. PICK S : t \in Seq(S) BY DEF Long, Sq
  <1>1. l = Len(t) /\ Sq(t) BY DEF Long
  <1>2. DOMAIN t = 1 .. l BY <1>1, SqShape
  <1>3. \A i \in a .. b : i \in 1 .. l BY <1>1
  <1>4. \A i \in a .. b : t[i] \in S BY <1>0, <1>1, <1>3
  <1>5. PICK s : s = SubSeq(t, a, b) OBVIOUS
  <1>6. /\ s \in Seq(S) /\ Len(s) = (IF a <= b THEN b - a + 1 ELSE 0)
        /\ \A i \in 1 .. b - a + 1 : s[i] = t[a + i - 1]
    BY <1>4, <1>5, SubSeqProperties
  <1>7. a <= b /\ b - a + 1 = n OBVIOUS
  <1>8. Sq(s) /\ Len(s) = n BY <1>6, <1>7 DEF Sq
  <1>9. ASSUME NEW i \in 1 .. n PROVE s[i] = q[i]
    <2>1. PICK j \in Nat : j = a + i - 1 OBVIOUS
    <2>2. s[i] = t[j] BY <1>6, <1>7, <2>1
    <2>. QED BY <2>1, <2>2 DEF HasPart
  <1>10. Sq(q) /\ Len(q) = n BY DEF Long
  <1>. QED BY <1>5, <1>8, <1>9, <1>10, SameText

Blank(s) == \A i \in DOMAIN s : s[i] = " "

Solid(t, a, b) == t[a] # " " /\ t[b] # " "
BlankAround(t, a, b) == \A i \in 1 .. Len(t) : i < a \/ b < i => t[i] = " "
NoBlank(t, n) == \A i \in 1 .. n : t[i] # " "

LEMMA TrimIs ==
  ASSUME NEW t, Sq(t), NEW a \in Nat, NEW b \in Nat, 1 <= a, a <= b, b <= Len(t),
         Solid(t, a, b), BlankAround(t, a, b)
  PROVE  Trim(t) = SubSeq(t, a, b)
  <1>. DEFINE solid == {k \in DOMAIN t : t[k] # " "}
  <1>1. PICK l \in Nat : l = Len(t) BY SqShape
  <1>2. DOMAIN t = 1 .. l BY <1>1, SqShape
  <1>0. a \in 1 .. l /\ b \in 1 .. l BY <1>1
  <1>3. a \in solid /\ b \in solid BY <1>0, <1>2 DEF Solid
  <1>4. \A k \in solid : k \in Nat /\ a <= k /\ k <= b
    <2>1. \A k \in solid : k \in 1 .. l /\ ~ (k < a \/ b < k) BY <1>1, <1>2 DEF BlankAround
    <2>2. \A k \in 1 .. l : ~ (k < a \/ b < k) => k \in Nat /\ a <= k /\ k <= b OBVIOUS
    <2>. QED BY <2>1, <2>2
  <1>. HIDE DEF solid
  <1>5. Min(solid) = a
    <2>1. Min(solid) \in solid /\ \A k \in solid : Min(solid) <= k
      <3>1. \E x \in solid : \A k \in solid : x <= k BY <1>3, <1>4
      <3>. QED BY <3>1, Zenon DEF Min
    <2>2. Min(solid) <= a /\ a <= Min(solid) /\ Min(solid) \in Nat BY <1>3, <1>4, <2>1
    <2>. QED BY <2>2
  <1>6. Max(solid) = b
    <2>1. Max(solid) \in solid /\ \A k \in solid : Max(solid) >= k
      <3>1. \E x \in solid : \A k \in solid : x >= k BY <1>3, <1>4
      <3>. QED BY <3>1, Zenon DEF Max
    <2>2. Max(solid) >= b /\ b >= Max(solid) /\ Max(solid) \in Nat BY <1>3, <1>4, <2>1
    <2>. QED BY <2>2
  <1>7. Trim(t) = SubSeq(t, Min(solid), Max(solid)) BY <1>3 DEF Trim, solid
  <1>. QED BY <1>5, <1>6, <1>7

LEMMA TrimLeaves ==
  ASSUME NEW p, NEW q, NEW r, NEW a \in Nat, NEW n \in Nat, NEW c \in Nat,
         Long(p, a), Long(q, n), Long(r, c), Blank(p), Blank(r),
         1 <= n, Solid(q, 1, n)
  PROVE  Trim(Cat(Cat(p, q), r)) = q
  <1>1. PICK u : u = Cat(p, q) OBVIOUS
  <1>2. PICK t : t = Cat(u, r) OBVIOUS
  <1>3. PICK b \in Nat, l \in Nat, first \in Nat : b = a + n /\ l = b + c /\ first = a + 1 OBVIOUS
  <1>4. /\ Long(u, b) /\ \A i \in 1 .. a : u[i] = p[i]
        /\ \A i \in 1 .. n, j \in Nat : j = a + i => u[j] = q[i]
    BY <1>1, <1>3, LongCat
  <1>5. Long(u, b) BY <1>4
  <1>6. /\ Long(t, l) /\ \A i \in 1 .. b : t[i] = u[i]
        /\ \A i \in 1 .. c, j \in Nat : j = b + i => t[j] = r[i]
    BY <1>2, <1>3, <1>5, LongCat
  <1>7. ASSUME NEW i \in 1 .. n, NEW j \in Nat, j = a + i PROVE t[j] = q[i]
    <2>1. j \in 1 .. b BY <1>3, <1>7
    <2>. QED BY <1>4, <1>6, <1>7, <2>1
  <1>8. t[first] = q[1] /\ t[b] = q[n]
    <2>1. 1 \in 1 .. n /\ n \in 1 .. n OBVIOUS
    <2>. QED BY <1>3, <1>7, <2>1
  <1>9. (\A i \in 1 .. a : p[i] = " ") /\ (\A i \in 1 .. c : r[i] = " ")
    <2>1. DOMAIN p = 1 .. a /\ DOMAIN r = 1 .. c BY SqShape DEF Long
    <2>. QED BY <2>1 DEF Blank
  <1>10. ASSUME NEW i \in 1 .. l, i < first \/ b < i PROVE t[i] = " "
    <2>1. CASE i < first
      <3>1. i \in 1 .. a /\ i \in 1 .. b BY <1>3, <2>1
      <3>. QED BY <1>4, <1>6, <1>9, <3>1
    <2>2. CASE b < i
      <3>1. PICK j \in 1 .. c : i = b + j
        <4>1. i - b \in 1 .. c /\ i = b + (i - b) BY <1>3, <2>2
        <4>. QED BY <4>1
      <3>2. t[i] = r[j] BY <1>6, <3>1
      <3>. QED BY <1>9, <3>2
    <2>. QED BY <1>10, <2>1, <2>2
  <1>11. Sq(t) /\ Len(t) = l BY <1>6 DEF Long
  <1>12. 1 <= first /\ first <= b /\ b <= l /\ b = first + n - 1 BY <1>3
  <1>a. Solid(t, first, b) BY <1>8 DEF Solid
  <1>b. BlankAround(t, first, b) BY <1>10, <1>11 DEF BlankAround
  <1>13. Trim(t) = SubSeq(t, first, b) BY <1>11, <1>12, <1>a, <1>b, TrimIs
  <1>14. \A i \in 1 .. n, j \in Nat : j = first + i - 1 => j = a + i BY <1>3
  <1>15. HasPart(t, first, q, n) BY <1>7, <1>14 DEF HasPart
  <1>16. SubSeq(t, first, b) = q
    <2>1. Long(t, l) BY <1>6
    <2>. QED BY <1>12, <1>15, <2>1, PartIs
  <1>. QED BY <1>1, <1>2, <1>13, <1>16

\* A line of the chat that is /verify and a word, with or without its slash.
IsCommand(line, w, n) ==
  /\ Long(line, n + 2) /\ line[1] = "verify" /\ line[2] = " "
  /\ \A i \in 1 .. n, j \in Nat : j = 2 + i => line[j] = w[i]

LineOf(t, line) == line = IF Head(t) = "/" THEN Tail(t) ELSE t

LEMMA CandidateOf ==
  ASSUME NEW t, NEW line, NEW n \in Nat, NEW w, 1 <= n, Long(w, n), NoBlank(w, n),
         LineOf(t, line), IsCommand(line, w, n)
  PROVE  ChatCandidate(t) = w
  <1>1. PICK l \in Nat : l = n + 2 OBVIOUS
  <1>2. Sq(line) /\ Len(line) = l /\ line[1] = "verify" /\ line[2] = " " BY <1>1 DEF IsCommand, Long
  <1>0. PICK a \in Nat : a = 3 OBVIOUS
  <1>3. HasPart(line, a, w, n)
    <2>1. \A i \in 1 .. n, j \in Nat : j = a + i - 1 => j = 2 + i BY <1>0
    <2>. QED BY <2>1 DEF IsCommand, HasPart
  <1>4. l = a + n - 1 /\ l <= l /\ l >= 3 /\ 1 <= a BY <1>0, <1>1
  <1>5. SubSeq(line, a, l) = w
    <2>1. Long(line, l) BY <1>1 DEF IsCommand
    <2>. QED BY <1>3, <1>4, <2>1, PartIs
  <1>6. " " \notin ToSet(w)
    <2>1. DOMAIN w = 1 .. n BY SqShape DEF Long
    <2>. QED BY <2>1 DEF ToSet, NoBlank
  <1>7. Len(line) >= 3 /\ SubSeq(line, 3, Len(line)) = w BY <1>0, <1>2, <1>4, <1>5
  <1>. QED BY <1>2, <1>6, <1>7 DEF ChatCandidate, LineOf

LEMMA CatNothing ==
  ASSUME NEW s, NEW n \in Nat, Long(s, n)
  PROVE  Cat(<<>>, s) = s
  <1>1. PICK S : s \in Seq(S) BY DEF Long, Sq
  <1>. QED BY <1>1, ConcatEmptySeq DEF Cat

LEMMA TailIs ==
  ASSUME NEW s, NEW n \in Nat, NEW m \in Nat, m = n + 1, Long(s, m)
  PROVE  /\ Head(s) = s[1] /\ Long(Tail(s), n)
         /\ \A i \in 1 .. n, j \in Nat : j = i + 1 => Tail(s)[i] = s[j]
  <1>1. PICK S : s \in Seq(S) BY DEF Long, Sq
  <1>2. Len(s) = m BY DEF Long
  <1>3. s # <<>> BY <1>2, SqEmpty
  <1>4. /\ Tail(s) \in Seq(S) /\ Len(Tail(s)) = Len(s) - 1
        /\ \A i \in 1 .. Len(Tail(s)) : Tail(s)[i] = s[i + 1]
    BY <1>1, <1>3, HeadTailProperties
  <1>5. Head(s) = s[1] BY <1>1, <1>3
  <1>6. PICK u : u = Tail(s) OBVIOUS
  <1>0. Sq(u) BY <1>4, <1>6 DEF Sq
  <1>7. PICK l \in Nat : l = Len(u) BY <1>0, SqShape
  <1>8. l = n BY <1>2, <1>4, <1>6, <1>7
  <1>9. \A i \in 1 .. n, j \in Nat : j = i + 1 => u[i] = s[j] BY <1>4, <1>6, <1>7, <1>8
  <1>10. Long(u, n) BY <1>4, <1>6, <1>7, <1>8 DEF Long, Sq
  <1>. QED BY <1>5, <1>6, <1>9, <1>10

\* The address that a player has joined with: its name, and no blank in it.
LEMMA AddressIs ==
  ASSUME host \in Hosts, NEW N, Name(N), 1 < Len(N), NormalizeHost(host) = N
  PROVE  \E n \in Nat : /\ Long(host, n) /\ 1 < n /\ NoBlank(host, n)
                        /\ host[1] \notin {"/", "verify"}
  <1>1. Sq(host) BY HostsAssumption DEF Sq
  <1>2. PICK m \in Nat, k \in Nat : Shape(host, N, m, k) BY <1>1, NamesHaveShape
  <1>3. PICK n \in Nat : n = Len(host) BY <1>1, SqShape
  <1>4. PICK l \in Nat : l = Len(N) BY SqShape DEF Name
  <1>5. l <= m /\ m <= k /\ k <= n /\ 1 < l BY <1>2, <1>3, <1>4 DEF Shape
  <1>6. \A i \in 1 .. l : Lower(host[i]) \in NameWords BY <1>2, <1>4 DEF Shape, Name
  <1>7. PICK s : s = UpToMark(host, "nul") OBVIOUS
  <1>8. " " \notin ToSet(s)
    <2>1. N # NoName
      <3>1. N[1] \in NameWords BY <1>4, <1>5 DEF Name
      <3>2. N[1] # "nothing" BY <3>1 DEF NameWords
      <3>. QED BY <3>2, SqOne DEF NoName
    <2>. QED BY <1>7, <2>1 DEF NormalizeHost
  <1>9. PICK e \in Nat : Unmarked(host, "nul", e) BY <1>1, UnmarkedExists
  <1>10. e <= n /\ \A j \in Nat : j = e + 1 /\ j <= n => host[j] = "nul" BY <1>3, <1>9 DEF Unmarked
  <1>11. Sq(s) /\ Len(s) = e /\ \A i \in 1 .. e : s[i] = host[i]
    <2>1. s = SubSeq(host, 1, e) BY <1>1, <1>7, <1>9, UpToMarkIs
    <2>. QED BY <1>1, <1>3, <1>10, <2>1, StartOf
  <1>12. ASSUME NEW i \in 1 .. e PROVE host[i] # " "
    <2>1. DOMAIN s = 1 .. e BY <1>11, SqShape
    <2>. QED BY <1>8, <1>11, <2>1 DEF ToSet
  <1>13. ASSUME NEW i \in 1 .. n, i \notin 1 .. e PROVE host[i] # " "
    <2>1. PICK j \in Nat : j = e + 1 OBVIOUS
    <2>2. j \in 1 .. n /\ (i = j \/ j < i) BY <1>13, <2>1
    <2>3. host[j] = "nul" BY <1>10, <2>1, <2>2
    <2>4. i \in DOMAIN host /\ j \in DOMAIN host BY <1>1, <1>3, <2>2, SqShape
    <2>5. CASE i = j BY <2>3, <2>5
    <2>6. CASE j < i BY <2>3, <2>4, <2>6, MarksAssumption
    <2>. QED BY <2>2, <2>5, <2>6
  <1>14. NoBlank(host, n) BY <1>12, <1>13 DEF NoBlank
  <1>15. host[1] \notin {"/", "verify"}
    <2>1. 1 \in 1 .. l BY <1>5
    <2>. QED BY <1>6, <2>1, LowerIs
  <1>16. Long(host, n) BY <1>1, <1>3 DEF Long
  <1>17. 1 < n BY <1>5
  <1>. QED BY <1>14, <1>15, <1>16, <1>17

\* What is around an address in the chat.
Befores == {<<>>, <<" ">>, <<"verify", " ">>, <<"/", "verify", " ">>}
Afters == {<<>>, <<" ">>}

LEMMA BlanksAre ==
  ASSUME NEW s \in {<<>>, <<" ">>}
  PROVE  Blank(s) /\ \E c \in Nat : Long(s, c)
  <1>1. CASE s = <<>> BY <1>1, SqEmpty DEF Blank, Long
  <1>2. CASE s = <<" ">>
    <2>1. Sq(s) /\ Len(s) = 1 /\ DOMAIN s = {1} /\ s[1] = " " BY <1>2, SqOne
    <2>. QED BY <2>1 DEF Blank, Long
  <1>. QED BY <1>1, <1>2

VerifyWords == <<"verify", " ">>
LEMMA VerifyWordsAre == Long(VerifyWords, 2) /\ VerifyWords[1] = "verify" /\ VerifyWords[2] = " "
  BY SqTwo DEF VerifyWords, Long

LEMMA VerifyIs ==
  ASSUME NEW w, NEW n \in Nat, Long(w, n), 1 <= n, NEW line, line = Cat(VerifyWords, w)
  PROVE  /\ IsCommand(line, w, n) /\ \A m \in Nat : m = n + 2 => Long(line, m) /\ line[m] = w[n]
  <1>1. PICK p : p = VerifyWords OBVIOUS
  <1>0. PICK two \in Nat : two = 2 OBVIOUS
  <1>2. Long(p, two) /\ p[1] = "verify" /\ p[two] = " " BY <1>0, <1>1, VerifyWordsAre
  <1>3. PICK m \in Nat : m = two + n OBVIOUS
  <1>b. Long(p, two) BY <1>2
  <1>a. /\ Long(line, m) /\ \A i \in 1 .. two : line[i] = p[i]
        /\ \A i \in 1 .. n, j \in Nat : j = two + i => line[j] = w[i]
    BY <1>1, <1>3, <1>b, LongCat
  <1>c. 1 \in 1 .. two /\ two \in 1 .. two BY <1>0
  <1>d. line[1] = p[1] /\ line[two] = p[two] BY <1>a, <1>c
  <1>5. line[1] = "verify" /\ line[2] = " " BY <1>0, <1>2, <1>d
  <1>4. Long(line, m) /\ \A i \in 1 .. n, j \in Nat : j = 2 + i => line[j] = w[i] BY <1>0, <1>a
  <1>6. n \in 1 .. n /\ n + 2 = m /\ m = 2 + n BY <1>0, <1>3
  <1>7. line[m] = w[n] BY <1>4, <1>6
  <1>8. IsCommand(line, w, n) BY <1>4, <1>5, <1>6 DEF IsCommand
  <1>. QED BY <1>4, <1>6, <1>7, <1>8

\* What is left of a message when it is trimmed, and what is looked at in it.
LEMMA CandidateIs ==
  ASSUME NEW w, NEW n \in Nat, Long(w, n), 1 <= n, NoBlank(w, n), w[1] \notin {"/", "verify"},
         NEW before \in Befores, NEW after \in Afters
  PROVE  LET trimmed == Trim(Cat(Cat(before, w), after))
         IN trimmed # <<>> /\ ChatCandidate(trimmed) = w
  <1>. DEFINE t == Trim(Cat(Cat(before, w), after))
  <1>0. PICK c \in Nat : Long(after, c) /\ Blank(after) BY BlanksAre DEF Afters
  <1>a. Blank(<<>>) /\ Long(<<>>, 0) BY EmptyIsLong, SqEmpty DEF Blank
  <1>b. w[1] # " " /\ w[n] # " "
    <2>1. 1 \in 1 .. n /\ n \in 1 .. n OBVIOUS
    <2>. QED BY <2>1 DEF NoBlank
  <1>1. CASE before \in {<<>>, <<" ">>}
    <2>1. PICK a \in Nat : Long(before, a) /\ Blank(before) BY <1>1, BlanksAre
    <2>2. Solid(w, 1, n) BY <1>b DEF Solid
    <2>3. t = w BY <1>0, <2>1, <2>2, TrimLeaves
    <2>4. w # <<>>
      <3>1. Len(w) = n BY DEF Long
      <3>. QED BY <3>1, SqEmpty
    <2>5. Head(w) = w[1]
      <3>1. PICK l \in Nat : n = l + 1
        <4>1. n - 1 \in Nat /\ n = (n - 1) + 1 OBVIOUS
        <4>. QED BY <4>1
      <3>. QED BY <3>1, TailIs
    <2>6. ChatCandidate(w) = w BY <2>5 DEF ChatCandidate
    <2>. HIDE DEF t
    <2>7. t # <<>> /\ ChatCandidate(t) = w BY <2>3, <2>4, <2>6
    <2>. QED BY <2>7 DEF t
  <1>2. CASE before = <<"verify", " ">>
    <2>1. PICK q : q = Cat(before, w) OBVIOUS
    <2>0. q = Cat(VerifyWords, w) BY <1>2, <2>1 DEF VerifyWords
    <2>2. PICK m \in Nat, l \in Nat : m = n + 2 /\ l = n + 1 OBVIOUS
    <2>3. IsCommand(q, w, n) /\ Long(q, m) /\ q[m] = w[n] BY <2>0, <2>2, VerifyIs
    <2>4. q[1] = "verify" BY <2>3 DEF IsCommand
    <2>5. Solid(q, 1, m) BY <1>b, <2>3, <2>4 DEF Solid
    <2>6. 1 <= m /\ m = l + 1 BY <2>2
    <2>7. Cat(<<>>, q) = q BY <2>3, CatNothing
    <2>8. Trim(Cat(Cat(<<>>, q), after)) = q
      <3>1. Long(q, m) BY <2>3
      <3>. QED BY <1>0, <1>a, <2>5, <2>6, <3>1, TrimLeaves
    <2>9. t = q BY <2>1, <2>7, <2>8
    <2>10. Head(q) = q[1] BY <2>3, <2>6, TailIs
    <2>11. LineOf(q, q) BY <2>4, <2>10 DEF LineOf
    <2>12. ChatCandidate(q) = w BY <2>3, <2>11, CandidateOf
    <2>13. q # <<>>
      <3>1. Len(q) = m BY <2>3 DEF Long
      <3>. QED BY <2>6, <3>1, SqEmpty
    <2>. HIDE DEF t
    <2>14. t # <<>> /\ ChatCandidate(t) = w BY <2>9, <2>12, <2>13
    <2>. QED BY <2>14 DEF t
  <1>3. CASE before = <<"/", "verify", " ">>
    <2>1. PICK p : p = VerifyWords OBVIOUS
    <2>2. PICK s : s = <<"/">> OBVIOUS
    <2>3. before = Cat(s, p)
      <3>1. PICK slashed : slashed = Cat(s, p) OBVIOUS
      <3>2. Long(s, 1) /\ s[1] = "/" BY <2>2, SqOne DEF Long
      <3>3. Long(p, 2) /\ p[1] = "verify" /\ p[2] = " " BY <2>1, VerifyWordsAre
      <3>4. PICK one \in Nat, two \in Nat, three \in Nat : one = 1 /\ two = 2 /\ three = one + two
        OBVIOUS
      <3>a. Long(s, one) /\ Long(p, two) BY <3>2, <3>3, <3>4
      <3>b. three = one + two BY <3>4
      <3>c. /\ Long(slashed, three) /\ \A i \in 1 .. one : slashed[i] = s[i]
            /\ \A i \in 1 .. two, j \in Nat : j = one + i => slashed[j] = p[i]
        BY <3>1, <3>a, <3>b, LongCat
      <3>5. /\ Long(slashed, 3) /\ \A i \in 1 .. 1 : slashed[i] = s[i]
            /\ \A i \in 1 .. 2, j \in Nat : j = 1 + i => slashed[j] = p[i]
        BY <3>4, <3>c
      <3>6. slashed[1] = s[1] /\ slashed[2] = p[1] /\ slashed[3] = p[2] BY <3>5
      <3>7. PICK b : b = before OBVIOUS
      <3>8. Sq(b) /\ Len(b) = 3 /\ b[1] = "/" /\ b[2] = "verify" /\ b[3] = " " BY <1>3, <3>7, SqThree
      <3>9. Sq(slashed) /\ Len(slashed) = 3 BY <3>5 DEF Long
      <3>10. \A i \in 1 .. 3 : i = 1 \/ i = 2 \/ i = 3 OBVIOUS
      <3>11. \A i \in 1 .. 3 : b[i] = slashed[i] BY <3>2, <3>3, <3>6, <3>8, <3>10
      <3>12. b = slashed BY <3>8, <3>9, <3>11, SameText
      <3>. QED BY <3>1, <3>7, <3>12
    <2>4. PICK line : line = Cat(p, w) OBVIOUS
    <2>5. PICK m \in Nat, k \in Nat : m = n + 2 /\ k = m + 1 OBVIOUS
    <2>6. IsCommand(line, w, n) /\ Long(line, m) /\ line[m] = w[n] BY <2>1, <2>4, <2>5, VerifyIs
    <2>7. Long(s, 1) /\ s[1] = "/" BY <2>2, SqOne DEF Long
    <2>8. PICK q : q = Cat(s, line) OBVIOUS
    <2>9. Cat(before, w) = q
      <3>1. Sq(s) /\ Sq(p) /\ Sq(w) BY <2>1, <2>7, VerifyWordsAre DEF Long
      <3>. QED BY <2>3, <2>4, <2>8, <3>1, CatAssoc
    <2>10. Long(line, m) /\ k = 1 + m BY <2>5, <2>6
    <2>11. /\ Long(q, k) /\ \A i \in 1 .. 1 : q[i] = s[i]
           /\ \A i \in 1 .. m, j \in Nat : j = 1 + i => q[j] = line[i]
      BY <2>7, <2>8, <2>10, LongCat
    <2>12. q[1] = "/" BY <2>7, <2>11
    <2>13. q[k] = w[n]
      <3>1. m \in 1 .. m /\ k = 1 + m BY <2>5
      <3>. QED BY <2>6, <2>11, <3>1
    <2>14. Solid(q, 1, k) BY <1>b, <2>12, <2>13 DEF Solid
    <2>15. 1 <= k BY <2>5
    <2>16. Cat(<<>>, q) = q BY <2>11, CatNothing
    <2>17. Trim(Cat(Cat(<<>>, q), after)) = q
      <3>1. Long(q, k) BY <2>11
      <3>. QED BY <1>0, <1>a, <2>14, <2>15, <3>1, TrimLeaves
    <2>18. t = q BY <2>9, <2>16, <2>17
    <2>19. /\ Head(q) = q[1] /\ Long(Tail(q), m)
           /\ \A i \in 1 .. m, j \in Nat : j = i + 1 => Tail(q)[i] = q[j]
      <3>1. Long(q, k) BY <2>11
      <3>. QED BY <2>5, <3>1, TailIs
    <2>20. PICK u : u = Tail(q) OBVIOUS
    <2>21. ASSUME NEW i \in 1 .. m PROVE u[i] = line[i]
      <3>1. PICK j \in Nat : j = i + 1 OBVIOUS
      <3>2. j = 1 + i BY <3>1
      <3>3. q[j] = line[i] BY <2>11, <3>2
      <3>4. Tail(q)[i] = q[j] BY <2>19, <3>1
      <3>. QED BY <2>20, <3>3, <3>4
    <2>22. u = line
      <3>1. Sq(u) /\ Sq(line) /\ Len(u) = m /\ Len(line) = m BY <2>6, <2>19, <2>20 DEF Long
      <3>. QED BY <2>21, <3>1, SameText
    <2>23. LineOf(q, line) BY <2>12, <2>19, <2>20, <2>22 DEF LineOf
    <2>24. ChatCandidate(q) = w BY <2>6, <2>23, CandidateOf
    <2>25. q # <<>>
      <3>1. Len(q) = k BY <2>11 DEF Long
      <3>. QED BY <2>15, <3>1, SqEmpty
    <2>. HIDE DEF t
    <2>26. t # <<>> /\ ChatCandidate(t) = w BY <2>18, <2>24, <2>25
    <2>. QED BY <2>26 DEF t
  <1>. QED BY <1>1, <1>2, <1>3 DEF Befores

LEMMA PastedIsRead ==
  ASSUME host \in Hosts, NEW N, Name(N), 1 < Len(N), NormalizeHost(host) = N,
         NEW before \in Befores, NEW after \in Afters
  PROVE  ExtractChatCode(before \o host \o after) = ExtractVerificationCode(host)
  <1>1. PICK n \in Nat : Long(host, n) /\ 1 < n /\ NoBlank(host, n) /\ host[1] \notin {"/", "verify"}
    BY AddressIs
  <1>2. PICK trimmed : trimmed = Trim(before \o host \o after) OBVIOUS
  <1>3. trimmed = Trim(Cat(Cat(before, host), after)) BY <1>2 DEF Cat
  <1>4. trimmed # <<>> /\ ChatCandidate(trimmed) = host
    <2>1. 1 <= n BY <1>1
    <2>. QED BY <1>1, <1>3, <2>1, CandidateIs
  <1>5. host # <<"code">> /\ host # <<"CODE">>
    <2>1. Len(host) = n BY <1>1 DEF Long
    <2>2. PICK a, b : a = <<"code">> /\ b = <<"CODE">> OBVIOUS
    <2>3. Len(a) = 1 /\ Len(b) = 1 BY <2>2, SqOne
    <2>0. PICK one \in Nat : one = 1 OBVIOUS
    <2>5. Len(host) # one BY <1>1, <2>0, <2>1
    <2>4. host # a /\ host # b BY <2>0, <2>3, <2>5
    <2>. QED BY <2>2, <2>4
  <1>. QED BY <1>2, <1>4, <1>5 DEF ExtractChatCode

LEMMA HostIsRead ==
  ASSUME host \in Hosts
  PROVE  HostsAreRead
  <1>1. Sq(host) BY HostsAssumption DEF Sq
  <1>2. ExtractVerificationCode(host) = "CODE" <=> NormalizeHost(host) = CodeName
    BY DEF ExtractVerificationCode, CodeName
  <1>3. ExtractVerificationCode(host) = "CODE" <=> Written(CodeName)
    BY <1>1, <1>2, CodeIsName, ReadAsWritten
  <1>4. IsLobbyHost(host) <=> Written(BaseDomain)
    BY <1>1, BaseIsName, ReadAsWritten DEF IsLobbyHost
  <1>5. ASSUME ExtractVerificationCode(host) = "CODE", NEW before \in Befores, NEW after \in Afters
        PROVE  ExtractChatCode(before \o host \o after) = "CODE"
    <2>1. 1 < Len(CodeName) BY CodeIsName
    <2>. QED BY <1>2, <1>5, <2>1, CodeIsName, PastedIsRead
  <1>6. ASSUME IsLobbyHost(host)
        PROVE  ExtractChatCode(<<"/", "verify", " ">> \o host \o <<>>) = "none"
    <2>1. NormalizeHost(host) = BaseDomain BY <1>6 DEF IsLobbyHost
    <2>2. ExtractVerificationCode(host) = "none"
      BY <2>1, CodeIsName DEF ExtractVerificationCode, CodeName
    <2>3. 1 < Len(BaseDomain) BY BaseIsName
    <2>4. PICK before \in Befores : before = <<"/", "verify", " ">> BY DEF Befores
    <2>5. PICK after \in Afters : after = <<>> BY DEF Afters
    <2>6. ExtractChatCode(before \o host \o after) = "none"
      BY <2>1, <2>2, <2>3, BaseIsName, PastedIsRead
    <2>. QED BY <2>4, <2>5, <2>6
  <1>. QED BY <1>3, <1>4, <1>5, <1>6 DEF HostsAreRead, CodeName, Befores, Afters

\* However a client writes the address that a player has entered, with a dot, a
\* port or a loader's mark, it is read as the code or the lobby it names and no
\* other address is; and the chat takes such an address for the same code, as it is
\* or after /verify (hostname.ts: normalizeHost, extractVerificationCode;
\* chat-code.ts: extractChatCode).
THEOREM HostsAlwaysRead == HostSpec => []HostsAreRead
  <1>1. HostInit => host \in Hosts BY DEF HostInit
  <1>2. host \in Hosts /\ [HostNext]_host => (host \in Hosts)' BY DEF HostNext
  <1>3. host \in Hosts => HostsAreRead BY HostIsRead
  <1>. QED BY <1>1, <1>2, <1>3, PTL DEF HostSpec
================================================================================
