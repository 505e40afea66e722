------------------------------ MODULE MCGhostServer ------------------------------
(***************************************************************************)
(* The ghost server, the process it lives in (Lifecycle), what one client  *)
(* is sent (JoinStream) and what the address it joins by names (Hostnames, *)
(* whose behaviours are single states); a behaviour is about one, and the  *)
(* others have nothing to do in it, so that their fairness asks for        *)
(* nothing.  Each limit of the ghost server is met under one of the caps.  *)
(* The versions are from each generation that the code tells apart, as the *)
(* tests have them (void-world.test.ts).                                   *)
(***************************************************************************)
EXTENDS GhostServer, Lifecycle, JoinStream, Hostnames, TLC

VARIABLE part

Cap(connections, perAddress, pending, hosts) ==
  [connections |-> connections, perAddress |-> perAddress, pending |-> pending, seats |-> 1,
   hosts |-> hosts]

EveryHost == {"code", "other"} \X BOOLEAN \cup {"lobby", "ping"} \X {TRUE}

MCCaps == {Cap(1, 1, 1, EveryHost),
           Cap(2, 1, 2, {<<"code", TRUE>>, <<"lobby", TRUE>>}),
           Cap(2, 2, 1, {<<"code", FALSE>>, <<"lobby", TRUE>>})}

AnyCap == CHOOSE x \in MCCaps : TRUE

\* A process that has ended.
LifeIsOver ==
  /\ program = "minecraft" /\ stage = "exited"
  /\ state = [r \in Closes |-> IF r \in {"minecraft", "redis", "database"} THEN "closed" ELSE "none"]
  /\ busy = {} /\ timer = FALSE /\ sweep = "none" /\ handlers = {} /\ failed = FALSE /\ faults = 0

Version(protocol, codec, registries, known, effects, chunks, light, heightmaps) ==
  [protocol |-> protocol, codec |-> codec, registries |-> registries, known |-> known,
   effects |-> effects, chunks |-> chunks, light |-> light, heightmaps |-> heightmaps]

OldEffects == {"Slowness", "Blindness"}
ViewKnown == {"update_view_position", "update_view_distance", "declare_commands"}
RecentPackets == ViewKnown \cup {"simulation_distance", "set_title_text"}
BatchPackets == {"chunk_batch_start", "chunk_batch_finished", "tags"}
FirstCodec == {"dimension_type", "damage_type", "biome"}
LastCodec == FirstCodec \cup {"enchantment", "dialog", "timeline"}

MCVersions ==
  {Version(5, "none", {}, {}, OldEffects, FALSE, FALSE, FALSE),
   Version(47, "none", {}, {"title"}, OldEffects, TRUE, FALSE, FALSE),
   Version(754, "none", {}, {"title"} \cup ViewKnown, OldEffects, TRUE, FALSE, FALSE),
   Version(758, "none", {}, RecentPackets, OldEffects, TRUE, TRUE, FALSE),
   Version(764, "whole", FirstCodec, RecentPackets \cup BatchPackets \cup {"system_chat"}, Effects, TRUE, TRUE, FALSE),
   Version(769, "segmented", FirstCodec, RecentPackets \cup BatchPackets \cup {"system_chat"}, Effects, TRUE, TRUE, FALSE),
   Version(775, "segmented", LastCodec, RecentPackets \cup BatchPackets \cup {"system_chat", "level_chunks_load_start"},
           Effects, TRUE, TRUE, TRUE)}

\* Names of up to three labels, and what clients and loaders put after them.
Labels == {<<"code">>, <<"CODE">>, <<"base">>, <<"BASE">>, <<"tld">>, <<>>}
MCNames == Labels \cup {a \o Dot \o b : a, b \in Labels}
             \cup {a \o Dot \o b \o Dot \o c : a, b, c \in Labels}
MCHosts == {n \o d \o p \o m : n \in MCNames, d \in {<<>>, Dot, Dot \o Dot},
              p \in {<<>>, <<":", "port">>, <<":", "port", ".">>, <<":", "zero">>,
                    <<":", "port", ":", "port">>},
              m \in {<<>>, <<"nul", "FML", ":">>}}

GhostRests == GhostInit /\ cap = AnyCap
StreamRests == StreamInit /\ version = Unsupported
HostRests == host = <<>>

MCInit ==
  \/ part = "ghost" /\ GhostInit /\ LifeIsOver /\ StreamRests /\ HostRests
  \/ part = "process" /\ GhostRests /\ LifeInit /\ StreamRests /\ HostRests
  \/ part = "stream" /\ GhostRests /\ LifeIsOver /\ StreamInit /\ HostRests
  \/ part = "names" /\ GhostRests /\ LifeIsOver /\ StreamRests /\ HostInit

MCNext ==
  /\ UNCHANGED part
  /\ \/ part = "ghost" /\ GhostNext /\ UNCHANGED <<lifeVars, streamVars, host>>
     \/ part = "process" /\ LifeNext /\ UNCHANGED <<gvars, streamVars, host>>
     \/ part = "stream" /\ StreamNext /\ UNCHANGED <<gvars, lifeVars, host>>
     \/ part = "names" /\ HostNext /\ UNCHANGED <<gvars, lifeVars, streamVars>>

MCSpec == /\ MCInit /\ [][MCNext]_<<gvars, lifeVars, streamVars, host, part>>
          /\ GhostFairness /\ LifeFairness
=============================================================================
