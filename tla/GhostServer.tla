------------------------------- MODULE GhostServer -------------------------------
(***************************************************************************)
(* The Minecraft server that players join to verify themselves             *)
(* (src/src/mc-server/ghost-server.ts), with the lobby (lobby.ts) and the  *)
(* disconnection of a client in a state in which it can read the reason    *)
(* (disconnect.ts).                                                        *)
(*                                                                         *)
(* The server is one thread; a step is a handler up to its next await.     *)
(* The promises of a client (the lookup of its code, the resolution, the   *)
(* wait for its world, the codes it types) settle in any order; once it    *)
(* has ended they change nothing here, and it is forgotten.  The library,  *)
(* minecraft-protocol, raises the events, and none after "end".  The pace  *)
(* of an address is not counted: a connection may be refused at any time.  *)
(***************************************************************************)
EXTENDS Naturals, FiniteSets

CONSTANTS Clients,        \* connections, each made once
          Addresses, None,
          MaxTyped,       \* bound: the codes a player types in the lobby
          Caps            \* the limits that behaviours are looked at under; bound:
                          \* hosts, <<what is joined, whether the protocol is known>>

\* The reasons that a client is disconnected with.
Messages == {"success", "unavailable", "failure", "timeout", "full", "shutdown", "unsupported"}

ASSUME GhostAssumption ==
  /\ None \notin Addresses \cup Messages
  /\ MaxTyped \in Nat
  /\ Caps \subseteq [connections : Nat, perAddress : Nat, pending : Nat, seats : Nat,
                    hosts : SUBSET ({"code", "lobby", "other", "ping"} \X BOOLEAN)]

VARIABLES cap,        \* MAX_CONNECTIONS, ..._PER_ADDRESS, MAX_PENDING_VERIFICATIONS_PER_ADDRESS
                      \* and LOBBY_MAX_PLAYERS; never changes
          client,     \* each connection
          active,     \* activeConnections
          byAddress,  \* connectionsByAddress; 0 is no entry
          pendingBy,  \* pendingVerificationsByAddress; 0 is no entry
          lobby,      \* the clients with lobby timers
          server      \* "up", "closing" (kicking), "closed" (not listening), "down"

limits == <<cap, active, byAddress, pendingBy>>
gvars == <<client, limits, lobby, server>>

Results == {"resolved", "unavailable", "failure"}

Client ==
  [socket  : {"new", "open", "closing", "ended", "refused"},
   from    : Addresses \cup {None},
   proto   : {"handshake", "ping", "login", "config", "play", "stopped"},
   kind    : {"none", "verification", "compat", "lobby"},
   lookup  : {"none", "asked", "available", "unavailable", "error"},
   outcome : Results \cup {"none", "asked"},
   kick    : Messages \cup {None},  \* the reason of the first disconnect
   typed   : 0..MaxTyped,           \* codes typed
   asking  : 0..MaxTyped,           \* ... and not answered yet
   bound   : BOOLEAN]               \* history: one of them was resolved

NewClient ==
  [socket |-> "new", from |-> None, proto |-> "handshake", kind |-> "none",
   lookup |-> "none", outcome |-> "none", kick |-> None,
   typed |-> 0, asking |-> 0, bound |-> FALSE]

Gone == [NewClient EXCEPT !.socket = "ended"]

GhostTypeOK ==
  /\ cap \in Caps
  /\ client \in [Clients -> Client]
  /\ active \in Nat
  /\ byAddress \in [Addresses -> Nat]
  /\ pendingBy \in [Addresses -> Nat]
  /\ lobby \subseteq Clients
  /\ server \in {"up", "closing", "closed", "down"}

GhostInit ==
  /\ cap \in Caps
  /\ client = [c \in Clients |-> NewClient]
  /\ active = 0
  /\ byAddress = [a \in Addresses |-> 0]
  /\ pendingBy = [a \in Addresses |-> 0]
  /\ lobby = {}
  /\ server = "up"

Connected(c) == client[c].socket \in {"open", "closing"}
LoggedIn(c) == client[c].proto \in {"config", "play"}
Update(c, new) == client' = [client EXCEPT ![c] = new]

-----------------------------------------------------------------------------
(* disconnect.ts                                                           *)

EndWithReason(x) == [x EXCEPT !.socket = "closing"]

\* disconnect, up to its await: in the login state the reason goes out at once.
Disconnect(x, message) ==
  IF x.kick # None THEN x
  ELSE IF x.proto \in {"config", "play"} THEN [x EXCEPT !.kick = message]
  ELSE EndWithReason([x EXCEPT !.kick = message])

\* After the await: until the world is there, or for ten seconds.
Waits(c) == client[c].kick # None /\ client[c].socket = "open"

WorldIsReady(c) ==
  /\ Waits(c) /\ client[c].proto = "play"
  /\ Update(c, EndWithReason(client[c]))
  /\ UNCHANGED <<limits, lobby, server>>

WorldWaitEnds(c) ==
  /\ Waits(c) /\ client[c].proto = "config"
  /\ Update(c, EndWithReason(client[c]))
  /\ UNCHANGED <<limits, lobby, server>>

-----------------------------------------------------------------------------
(* Connections and their limits                                            *)

Full(a) == active >= cap.connections \/ byAddress[a] >= cap.perAddress

Arrives(c) == client[c].socket = "new" /\ server \in {"up", "closing"}

Refuse(c) ==
  /\ Arrives(c)
  /\ Update(c, [client[c] EXCEPT !.socket = "refused"])
  /\ UNCHANGED <<limits, lobby, server>>

Admit(c, a) ==
  /\ Arrives(c) /\ ~ Full(a)
  /\ Update(c, [client[c] EXCEPT !.socket = "open", !.from = a])
  /\ active' = active + 1
  /\ byAddress' = [byAddress EXCEPT ![a] = @ + 1]
  /\ UNCHANGED <<cap, pendingBy, lobby, server>>

\* A verification is counted from its handshake on.
Counted(c) == client[c].kind \in {"verification", "compat"}

\* Mutant: the handshake's count is given back only by a client that was told.
EndsOnceTold(c) ==
  /\ Connected(c)
  /\ LET a == client[c].from
     IN /\ active' = active - 1
        /\ byAddress' = [byAddress EXCEPT ![a] = @ - 1]
        /\ pendingBy' = IF Counted(c) /\ client[c].kick # None
                        THEN [pendingBy EXCEPT ![a] = @ - 1] ELSE pendingBy
  /\ Update(c, Gone)
  /\ lobby' = lobby \ {c}
  /\ UNCHANGED <<cap, server>>

\* "end", whoever closed the socket, with all its listeners.
Ends(c) ==
  /\ Connected(c)
  /\ LET a == client[c].from
     IN /\ active' = active - 1
        /\ byAddress' = [byAddress EXCEPT ![a] = @ - 1]
        /\ pendingBy' = IF Counted(c) THEN [pendingBy EXCEPT ![a] = @ - 1] ELSE pendingBy
  /\ Update(c, Gone)
  /\ lobby' = lobby \ {c}
  /\ UNCHANGED <<cap, server>>

\* errorHandler
Fails(c) ==
  /\ Connected(c)
  /\ Update(c, Disconnect(client[c], "failure"))
  /\ UNCHANGED <<limits, lobby, server>>

-----------------------------------------------------------------------------
(* The handshake, the login and the world                                  *)

Handshakes(c) == Connected(c) /\ client[c].proto = "handshake"

\* A handshake that is not a login's (a ping), and those that name no code.
JoinElsewhere(c, host, known) ==
  /\ Handshakes(c) /\ host # "code"
  /\ LET x == [client[c] EXCEPT !.proto = "login"]
     IN Update(c, CASE host = "ping" -> [x EXCEPT !.proto = "ping"]
                    [] host # "ping" /\ ~ known ->
                         Disconnect([x EXCEPT !.proto = "stopped"], "unsupported")
                    [] host = "lobby" /\ known -> [x EXCEPT !.kind = "lobby"]
                    [] host = "other" /\ known -> Disconnect(x, "unavailable"))
  /\ UNCHANGED <<limits, lobby, server>>

\* The socket is destroyed, which is not a disconnect.
TooManyPending(c) ==
  /\ Handshakes(c) /\ pendingBy[client[c].from] >= cap.pending
  /\ Update(c, [client[c] EXCEPT !.proto = "stopped", !.socket = "closing"])
  /\ UNCHANGED <<limits, lobby, server>>

JoinWithCode(c, known) ==
  /\ Handshakes(c) /\ pendingBy[client[c].from] < cap.pending
  /\ pendingBy' = [pendingBy EXCEPT ![client[c].from] = @ + 1]
  /\ Update(c, [client[c] EXCEPT !.proto = "login", !.lookup = "asked",
                                 !.kind = IF known THEN "verification" ELSE "compat"])
  /\ UNCHANGED <<cap, active, byAddress, lobby, server>>

\* lookupCodeAvailability; only a client that is not logged in is told now.
LookUp(c, answer) ==
  /\ client[c].lookup = "asked"
  /\ LET x == [client[c] EXCEPT !.lookup = answer]
     IN Update(c, CASE LoggedIn(c) \/ answer = "available" -> x
                    [] ~ LoggedIn(c) /\ answer = "unavailable" -> Disconnect(x, "unavailable")
                    [] ~ LoggedIn(c) /\ answer = "error" -> Disconnect(x, "failure"))
  /\ UNCHANGED <<limits, lobby, server>>

\* "login": the player is authenticated.  A compat client is not told so.
Login(c) ==
  /\ Connected(c) /\ client[c].proto = "login" /\ client[c].outcome = "none"
  /\ Update(c, [client[c] EXCEPT !.proto = IF client[c].kind = "compat" THEN "login" ELSE "config",
                                 !.outcome = IF Counted(c) THEN "asked" ELSE "none"])
  /\ UNCHANGED <<limits, lobby, server>>

\* settleVerification, which waits for the lookup and never rejects.
Settle(c, result) ==
  /\ client[c].outcome = "asked" /\ client[c].lookup \notin {"none", "asked"}
  /\ client[c].lookup # "available" => result = "unavailable"
  /\ Update(c, [client[c] EXCEPT !.outcome = result])
  /\ UNCHANGED <<limits, lobby, server>>

\* Mutant: the outcome is not waited for.
FinalizeAnyway(c) ==
  /\ Counted(c) /\ client[c].kick = None
  /\ client[c].proto = "play" \/ client[c].kind = "compat"
  /\ client[c].outcome # "none"
  /\ Update(c, Disconnect(client[c], IF client[c].outcome = "resolved" THEN "success"
                                     ELSE "unavailable"))
  /\ UNCHANGED <<limits, lobby, server>>

\* finalizeVerification, from playerJoin or, for a compat client, from login;
\* for one that is being disconnected it changes nothing.
Finalize(c) ==
  /\ Counted(c) /\ client[c].kick = None
  /\ client[c].proto = "play" \/ client[c].kind = "compat"
  /\ client[c].outcome \in Results
  /\ Update(c, Disconnect(client[c], IF client[c].outcome = "resolved" THEN "success"
                                     ELSE client[c].outcome))
  /\ UNCHANGED <<limits, lobby, server>>

-----------------------------------------------------------------------------
(* playerJoin and the lobby                                                *)

Joins(c) == Connected(c) /\ client[c].proto = "config"

JoinWorld(c) ==
  /\ Joins(c) /\ client[c].kind # "lobby"
  /\ LET x == [client[c] EXCEPT !.proto = "play"]
     IN Update(c, IF Counted(c) THEN x ELSE Disconnect(x, "unavailable"))
  /\ UNCHANGED <<limits, lobby, server>>

EnterLobby(c) ==
  /\ Joins(c) /\ client[c].kind = "lobby"
  /\ LET x == [client[c] EXCEPT !.proto = "play"]
     IN IF Cardinality(lobby) < cap.seats
        THEN lobby' = lobby \cup {c} /\ Update(c, x)
        ELSE UNCHANGED lobby /\ Update(c, Disconnect(x, "full"))
  /\ UNCHANGED <<limits, server>>

LifetimeEnds(c) ==
  /\ c \in lobby
  /\ Update(c, Disconnect(client[c], "timeout"))
  /\ UNCHANGED <<limits, lobby, server>>

\* answerChat: the listeners stay when the client has left the lobby's map.
\* A client that was refused a seat has none.  A message within the cooldown of
\* the one before is dropped.
Chats(c) ==
  /\ Connected(c) /\ client[c].kind = "lobby" /\ client[c].proto = "play"
  /\ client[c].kick # "full"
  /\ client[c].typed < MaxTyped
  /\ Update(c, [client[c] EXCEPT !.typed = @ + 1, !.asking = @ + 1])
  /\ UNCHANGED <<limits, lobby, server>>

\* Mutant: who has left the lobby's map is not disconnected.
ChatResolvesQuietly(c) ==
  /\ client[c].asking > 0
  /\ lobby' = lobby \ {c}
  /\ Update(c, [client[c] EXCEPT !.asking = @ - 1, !.bound = TRUE])
  /\ UNCHANGED <<limits, server>>

\* verifyChatCode; one that was not resolved is answered in the chat.
ChatResolves(c) ==
  /\ client[c].asking > 0
  /\ lobby' = lobby \ {c}
  /\ Update(c, Disconnect([client[c] EXCEPT !.asking = @ - 1, !.bound = TRUE], "success"))
  /\ UNCHANGED <<limits, server>>

ChatFails(c) ==
  /\ client[c].asking > 0
  /\ Update(c, [client[c] EXCEPT !.asking = @ - 1])
  /\ UNCHANGED <<limits, lobby, server>>

-----------------------------------------------------------------------------
(* MinecraftGhostServer.close                                              *)

Close ==
  /\ server = "up"
  /\ server' = "closing"
  /\ lobby' = {}
  /\ client' = [c \in Clients |->
       IF Connected(c) THEN Disconnect(client[c], "shutdown") ELSE client[c]]
  /\ UNCHANGED limits

\* A wait of its own is what close awaits, not the waits of others; then the
\* library ends whoever is still there.
StopListening ==
  /\ server = "closing"
  /\ \A c \in Clients : client[c].kick = "shutdown" => client[c].socket # "open"
  /\ server' = "closed"
  /\ client' = [c \in Clients |->
       IF Connected(c) THEN [client[c] EXCEPT !.socket = "closing"] ELSE client[c]]
  /\ UNCHANGED <<limits, lobby>>

AllClosed ==
  /\ server = "closed"
  /\ \A c \in Clients : ~ Connected(c)
  /\ server' = "down"
  /\ UNCHANGED <<client, limits, lobby>>

-----------------------------------------------------------------------------

Answers == {"available", "unavailable", "error"}

Handle(c) ==
  \/ Refuse(c) \/ \E a \in Addresses : Admit(c, a)
  \/ \E h \in cap.hosts : JoinElsewhere(c, h[1], h[2])
  \/ \E h \in cap.hosts : h[1] = "code" /\ (JoinWithCode(c, h[2]) \/ TooManyPending(c))
  \/ \E answer \in Answers : LookUp(c, answer)
  \/ Login(c)
  \/ \E result \in Results : Settle(c, result)
  \/ Finalize(c)
  \/ JoinWorld(c)
  \/ EnterLobby(c)
  \/ LifetimeEnds(c)
  \/ Chats(c) \/ ChatResolves(c) \/ ChatFails(c)
  \/ WorldIsReady(c) \/ WorldWaitEnds(c)
  \/ Fails(c)
  \/ Ends(c)

GhostNext ==
  \/ \E c \in Clients : Handle(c)
  \/ Close \/ StopListening \/ AllClosed

GhostSpec == GhostInit /\ [][GhostNext]_gvars

\* Promises settle, timers fire, and a socket that was ended closes.
GhostFairness ==
  /\ \A c \in Clients :
       /\ WF_gvars(\E answer \in Answers : LookUp(c, answer))
       /\ WF_gvars(\E result \in Results : Settle(c, result))
       /\ WF_gvars(Finalize(c))
       /\ WF_gvars(LifetimeEnds(c))
       /\ WF_gvars(WorldIsReady(c) \/ WorldWaitEnds(c))
       /\ WF_gvars(ChatResolves(c) \/ ChatFails(c))
       /\ WF_gvars(client[c].socket = "closing" /\ Ends(c))
  /\ WF_gvars(StopListening)
  /\ WF_gvars(AllClosed)

GhostFairSpec == GhostSpec /\ GhostFairness

-----------------------------------------------------------------------------

\* Every counter is the number of the connections it is there for, on every way
\* a connection can go: nothing leaks, and no limit is passed.
CountsMatch ==
  LET open(a) == {c \in Clients : Connected(c) /\ client[c].from = a}
  IN /\ active = Cardinality({c \in Clients : Connected(c)}) /\ active <= cap.connections
     /\ \A a \in Addresses :
          /\ byAddress[a] = Cardinality(open(a)) /\ byAddress[a] <= cap.perAddress
          /\ pendingBy[a] = Cardinality({c \in open(a) : Counted(c)})
          /\ pendingBy[a] <= cap.pending

\* What a player is told is so: success only after a resolution of the player's
\* own join or code, and never "unavailable" when the join was resolved, in
\* whichever order the lookup, the login, the world and the resolution come.
ToldTheTruth ==
  \A c \in Clients :
    /\ client[c].kick = "success" => client[c].outcome = "resolved" \/ client[c].bound
    /\ client[c].kick = "unavailable" => client[c].outcome # "resolved"

\* Lobby timers exist for connected players only, and for no more than there
\* are seats: none outlives its connection or the server.
LobbyIsOfTheLiving ==
  /\ Cardinality(lobby) <= cap.seats
  /\ \A c \in lobby : Connected(c) /\ client[c].proto = "play"

\* A client is told one reason, the first, whatever races it.
ToldOnce ==
  [][\A c \in Clients :
       client[c].kick # None => client'[c].kick = client[c].kick \/ client'[c] = Gone]_gvars

\* A player who is in the world is sent away: by the outcome, by the lobby's
\* lifetime, or because there is no seat.
PlayersAreSentAway ==
  \A c \in Clients : client[c].proto = "play" ~> client[c].socket = "ended"

\* The server stops, whatever its clients do and whoever connects meanwhile.
ShutdownCompletes == server = "closing" ~> server = "down"

\* The server's bookkeeping is that of the connections there are.
GhostInOrder == GhostTypeOK /\ CountsMatch /\ LobbyIsOfTheLiving

\* A player is told the outcome once, and it is the true one.
PlayersAreTold == [][ToldTheTruth']_gvars /\ ToldOnce

\* Whoever has come leaves again, one by one or with the server.
EveryoneIsSentAway == PlayersAreSentAway /\ ShutdownCompletes
=============================================================================
