------------------------------- MODULE JoinStream -------------------------------
(***************************************************************************)
(* What a client is sent from its login to its kick: the packets of the    *)
(* library as the wrappers of its connection pass them on                  *)
(* (compat-login-gate.ts, registry-codec.ts, configuration-tags.ts), the   *)
(* void world (void-world.ts) and what the lobby adds to it (lobby.ts,     *)
(* verify-command.ts), each in the client's own version.  minecraft-data   *)
(* is a constant: what it says of a version.  Of a packet only what could  *)
(* be wrong about it is kept; texts are left out but for their colours.    *)
(***************************************************************************)
EXTENDS Integers, Sequences, FiniteSets

CONSTANTS
  Versions,     \* what minecraft-data knows of the versions that join
  Unsupported,  \* a version it does not know
  MaxLooks      \* bound: how often a player looks around

Codecs == {"none", "whole", "segmented"}
Effects == {"Slowness", "Blindness", "Darkness"}

\* The packets, and one event of game_state_change, that not every version has.
OptionalPackets ==
  {"level_chunks_load_start", "update_view_position", "update_view_distance", "simulation_distance",
   "chunk_batch_start", "chunk_batch_finished", "title", "set_title_text", "system_chat",
   "declare_commands", "tags"}
Registries ==
  {"item", "block", "entity_type", "dialog", "enchantment", "timeline", "damage_type",
   "dimension_type", "banner_pattern", "instrument", "biome"}

ASSUME VersionAssumption ==
  /\ Versions \subseteq
       [protocol : Nat, codec : Codecs, registries : SUBSET Registries,
        known : SUBSET OptionalPackets, effects : SUBSET Effects,
        chunks : BOOLEAN, light : BOOLEAN, heightmaps : BOOLEAN]
  /\ Unsupported \notin Versions
  /\ MaxLooks \in Nat

\* A version of the game has both ends of a batch of chunks, or neither.
ASSUME BatchAssumption ==
  \A v \in Versions : "chunk_batch_start" \in v.known <=> "chunk_batch_finished" \in v.known

VARIABLES
  version,      \* of the client
  purpose,      \* why it has come: "lobby" or "code"
  phase,        \* "login", "configuration", "joining", "play", "gone"
  registryCodecWritten, tagsSent,
  teleportId,   \* of the next correction
  stream        \* the packets that went out, in their order

streamVars == <<version, purpose, phase, registryCodecWritten, tagsSent, teleportId, stream>>

Packet(name) == [name |-> name]
Knows(name) == name \in version.known
If(condition, packets) == IF condition THEN packets ELSE <<>>
Sends(packets) == stream' = stream \o packets

StreamInit ==
  /\ version \in Versions \cup {Unsupported}
  /\ purpose \in {"lobby", "code"}
  /\ version = Unsupported => purpose = "code"
  /\ phase = "login"
  /\ registryCodecWritten = FALSE /\ tagsSent = FALSE
  /\ teleportId = 2
  /\ stream = <<>>

---------------------------------------------------------------------------
\* Login and configuration.

\* The login succeeds; a client that nothing can be encoded for stays in it.
Succeed ==
  /\ phase = "login"
  /\ version # Unsupported
  /\ Sends(<<Packet("success")>>)
  /\ phase' = IF version.codec = "none" THEN "joining" ELSE "configuration"
  /\ UNCHANGED <<version, purpose, registryCodecWritten, tagsSent, teleportId>>

RegistryData(registries) == [name |-> "registry_data", registries |-> registries]

OrderOf(S) == CHOOSE s \in [1 .. Cardinality(S) -> S] : \A x \in S : \E i \in DOMAIN s : s[i] = x

\* What the first registry_data is replaced by.
NegotiatedCodec ==
  IF version.codec = "segmented"
  THEN LET order == OrderOf(version.registries)
       IN [i \in DOMAIN order |-> RegistryData({order[i]})]
  ELSE <<RegistryData(version.registries)>>

\* The library writes one entry of its own registry, of the newest version.
WriteRegistry ==
  /\ phase = "configuration"
  /\ Sends(If(~registryCodecWritten, NegotiatedCodec))
  /\ registryCodecWritten' = TRUE
  /\ UNCHANGED <<version, purpose, phase, tagsSent, teleportId>>

CORE_TAG_REGISTRIES == {"item", "block", "entity_type"}
TAG_BINDINGS ==
  CORE_TAG_REGISTRIES \cup {"dialog", "enchantment", "timeline", "damage_type", "dimension_type",
                            "banner_pattern", "instrument"}

\* The registries whose names a codec lists; those of a whole one are nested.
GetRegistryIds == IF version.codec = "segmented" THEN version.registries ELSE {}

TagsPacket ==
  [name |-> "tags",
   bound |-> {r \in TAG_BINDINGS : r \in CORE_TAG_REGISTRIES \/ r \in GetRegistryIds}]

\* The library has written its registry and finishes.
FinishConfiguration ==
  /\ phase = "configuration" /\ registryCodecWritten
  /\ Sends(If(~tagsSent /\ Knows("tags"), <<TagsPacket>>) \o <<Packet("finish_configuration")>>)
  /\ tagsSent' = TRUE
  /\ phase' = "joining"
  /\ UNCHANGED <<version, purpose, registryCodecWritten, teleportId>>

---------------------------------------------------------------------------
\* The void world.

SPECTATOR_MIN_PROTOCOL == 47
HEX_COLOR_MIN_PROTOCOL == 735
VOID_CHUNK_RADIUS == 2
END_WORLD_HEIGHT == 256
Spawn == [x |-> 0, z |-> 0]     \* in whole blocks

JoinGamePacket ==
  [name |-> "login",
   gameMode |-> IF version.protocol >= SPECTATOR_MIN_PROTOCOL THEN "spectator" ELSE "creative",
   viewDistance |-> VOID_CHUNK_RADIUS]

ViewPackets ==
  If(Knows("update_view_position"), <<[name |-> "update_view_position", at |-> <<0, 0>>]>>)
  \o If(Knows("update_view_distance"),
        <<[name |-> "update_view_distance", viewDistance |-> VOID_CHUNK_RADIUS]>>)
  \o If(Knows("simulation_distance"),
        <<[name |-> "simulation_distance", distance |-> VOID_CHUNK_RADIUS]>>)

Position(id) == [name |-> "position", teleportId |-> id]

\* The sections of a chunk whose light is given, and those that have none.
EmptyLight == [given |-> {}, empty |-> 0 .. 17]
EmptyHeightmap == 37            \* its longs

ChunkPacket(x, z) ==
  [name |-> "map_chunk", at |-> <<x, z>>,
   light |-> IF version.light THEN EmptyLight ELSE [given |-> {}, empty |-> {}],
   heightmap |-> IF version.heightmaps THEN EmptyHeightmap ELSE 0]

Diameter == 2 * VOID_CHUNK_RADIUS + 1
Chunks ==
  [i \in 1 .. Diameter * Diameter |->
    ChunkPacket(((i - 1) \div Diameter) - VOID_CHUNK_RADIUS, ((i - 1) % Diameter) - VOID_CHUNK_RADIUS)]

BatchFinished == [name |-> "chunk_batch_finished", batchSize |-> Len(Chunks)]

\* Mutant: the start of a batch, which has no fields, is looked for by its fields.
WriteChunksByFields == Chunks \o If(Knows("chunk_batch_finished"), <<BatchFinished>>)

WriteChunks ==
  If(Knows("chunk_batch_start"), <<Packet("chunk_batch_start")>>)
  \o Chunks
  \o If(Knows("chunk_batch_finished"), <<BatchFinished>>)

\* A version without chunks, and one that has come with a code, is shown none.
PresentVoidWorld ==
  <<JoinGamePacket>>
  \o If(Knows("level_chunks_load_start"), <<Packet("level_chunks_load_start")>>)
  \o <<Packet("abilities")>> \o ViewPackets \o <<Position(1)>>
  \o If(purpose = "lobby" /\ version.chunks, WriteChunks)

---------------------------------------------------------------------------
\* The lobby.

HexColors == version.protocol >= HEX_COLOR_MIN_PROTOCOL
PickWebColor(hex, legacy) == IF HexColors THEN hex ELSE legacy

\* A colour is its channels, or a name that every version has.
WEB_ACCENT_COLOR == <<162, 208, 96>>
WEB_ACCENT_STRONG_COLOR == <<182, 232, 110>>
WEB_MUTED_COLOR == <<167, 173, 167>>
WEB_TEXT_COLOR == <<233, 236, 233>>
WEB_DANGER_COLOR == <<244, 123, 116>>

\* Math.round(a / b) for a positive b.
Round(a, b) == (2 * a + b) \div (2 * b)

\* The colour of a letter between the first and the last.
BlendHexColor(from, to, index, last) ==
  [c \in 1 .. 3 |-> Round(from[c] * last + (to[c] - from[c]) * index, last)]

TitleLetters == 10
TITLE_STAY == 1200              \* ticks, twenty of which are a second
LIMBO_DURATION_TICKS == 32767
LOBBY_LIFETIME_SECONDS == 40

TitleColors ==
  IF HexColors
  THEN [i \in 1 .. TitleLetters |->
         BlendHexColor(WEB_ACCENT_STRONG_COLOR, WEB_ACCENT_COLOR, i - 1, TitleLetters - 1)]
  ELSE << <<"green">> >>

Titled(name) == [name |-> name, colors |-> TitleColors]
Subtitled(name) == [name |-> name, colors |-> <<PickWebColor(WEB_TEXT_COLOR, <<"white">>)>>]

TitlePackets ==
  CASE Knows("set_title_text") ->
         <<[name |-> "set_title_time", stay |-> TITLE_STAY],
           Subtitled("set_title_subtitle"), Titled("set_title_text")>>
    [] ~Knows("set_title_text") /\ Knows("title") ->
         <<[name |-> "title_times", stay |-> TITLE_STAY], Subtitled("title"), Titled("title")>>
    [] OTHER -> <<>>

LIMBO_EFFECTS == <<"Slowness", "Blindness", "Darkness">>
EffectPacket(effect) ==
  If(effect \in version.effects,
     <<[name |-> "entity_effect", effect |-> effect, duration |-> LIMBO_DURATION_TICKS]>>)
LimboPackets ==
  EffectPacket(LIMBO_EFFECTS[1]) \o EffectPacket(LIMBO_EFFECTS[2]) \o EffectPacket(LIMBO_EFFECTS[3])

VoidComponent(color) ==
  [name |-> IF Knows("system_chat") THEN "system_chat" ELSE "chat", colors |-> <<color>>]

Countdown(seconds) ==
  [VoidComponent(PickWebColor(WEB_MUTED_COLOR, <<"gray">>)) EXCEPT !.colors =
     Append(@, CASE seconds <= 5 -> PickWebColor(WEB_DANGER_COLOR, <<"red">>)
                 [] seconds \in 6 .. 10 -> PickWebColor(WEB_ACCENT_STRONG_COLOR, <<"green">>)
                 [] OTHER -> PickWebColor(WEB_ACCENT_COLOR, <<"green">>))]

Enter ==
  <<VoidComponent(PickWebColor(WEB_MUTED_COLOR, <<"gray">>))>> \o TitlePackets
  \o If(Knows("declare_commands"), <<Packet("declare_commands")>>)
  \o LimboPackets \o <<Countdown(LOBBY_LIFETIME_SECONDS)>>

Present ==
  /\ phase = "joining"
  /\ Sends(PresentVoidWorld \o If(purpose = "lobby", Enter))
  /\ phase' = "play"
  /\ UNCHANGED <<version, purpose, registryCodecWritten, tagsSent, teleportId>>

\* A player of the lobby who looks around is turned back.
CorrectOrientation ==
  /\ phase = "play" /\ purpose = "lobby" /\ teleportId < 2 + MaxLooks
  /\ Sends(<<Position(teleportId)>>)
  /\ teleportId' = teleportId + 1
  /\ UNCHANGED <<version, purpose, phase, registryCodecWritten, tagsSent>>

ToneColor(tone) ==
  CASE tone = "success" -> PickWebColor(WEB_ACCENT_COLOR, <<"green">>)
    [] tone = "error" -> PickWebColor(WEB_DANGER_COLOR, <<"red">>)
    [] tone = "neutral" -> PickWebColor(WEB_TEXT_COLOR, <<"white">>)

\* The heading of a reason, and the lines beneath it if there are any.
KickReason(tone, detailed) ==
  [name |-> "kick", in |-> phase,
   colors |-> IF version = Unsupported THEN <<>>
              ELSE <<ToneColor(tone)>>
                   \o If(detailed, <<PickWebColor(WEB_MUTED_COLOR, <<"gray">>)>>)]

Kick ==
  /\ phase \in {"login", "play"}
  /\ \E tone \in {"success", "error", "neutral"}, detailed \in BOOLEAN :
       Sends(<<KickReason(tone, detailed)>>)
  /\ phase' = "gone"
  /\ UNCHANGED <<version, purpose, registryCodecWritten, tagsSent, teleportId>>

StreamNext ==
  Succeed \/ WriteRegistry \/ FinishConfiguration \/ Present \/ CorrectOrientation \/ Kick

StreamSpec == StreamInit /\ [][StreamNext]_streamVars

---------------------------------------------------------------------------
Positions(name) == {i \in DOMAIN stream : stream[i].name = name}
All(name) == {stream[i] : i \in Positions(name)}
Before(first, second) == \A i \in Positions(first), j \in Positions(second) : i < j
Once(name) == Cardinality(Positions(name)) = 1
Streamed == Positions("map_chunk") # {}

\* registry-codec.ts, configuration-tags.ts: whatever the library repeats, a
\* client is configured with each registry of its own version once, and the tags
\* that are bound are bound between them and the end.
ConfiguredOnce ==
  Positions("finish_configuration") # {} =>
    /\ UNION {p.registries : p \in All("registry_data")} = version.registries
    /\ \A i, j \in Positions("registry_data") :
         i # j => stream[i].registries \cap stream[j].registries = {}
    /\ Before("registry_data", "tags") /\ Before("tags", "finish_configuration")
    /\ Knows("tags") => Once("tags")
    /\ \A p \in All("tags") : p.bound \subseteq version.registries \cup CORE_TAG_REGISTRIES

\* void-world.ts:17-18, 131-133, 583-585: the loading screen of the lobby ends: the
\* client has been told to wait and where it is, and then gets, in a batch that is
\* begun, ended and counted right, every chunk that is in its view.
LoadingEnds ==
  Streamed =>
    /\ Before("level_chunks_load_start", "map_chunk") /\ Before("update_view_position", "map_chunk")
    /\ \E i \in Positions("position") : \A j \in Positions("map_chunk") : i < j
    /\ \A p \in All("login") \cup All("update_view_distance") :
         {q.at : q \in All("map_chunk")} =
           {<<x, z>> : x, z \in (Spawn.x \div 16 - p.viewDistance) .. (Spawn.x \div 16 + p.viewDistance)}
    /\ Cardinality(Positions("chunk_batch_start")) = Cardinality(Positions("chunk_batch_finished"))
    /\ Before("chunk_batch_start", "map_chunk") /\ Before("map_chunk", "chunk_batch_finished")
    /\ \A p \in All("chunk_batch_finished") : p.batchSize = Cardinality(Positions("map_chunk"))

\* Powers[b] is 2 to the power of b.
Powers == <<2, 4, 8, 16, 32, 64, 128, 256, 512, 1024, 2048, 4096, 8192, 16384, 32768, 65536>>

\* void-world.ts:26-34: every section of a chunk, and the one below and above, is
\* in a mask of its light, and its heightmap has a value for each column, in
\* longs that hold whole values.
ChunksAreValid ==
  LET sections == END_WORLD_HEIGHT \div 16 + 2
      bits == CHOOSE b \in 1 .. 16 : Powers[b] > END_WORLD_HEIGHT /\ Powers[b] <= 2 * END_WORLD_HEIGHT
  IN \A p \in All("map_chunk") :
       /\ version.light => p.light.given \cup p.light.empty = 0 .. sections - 1
       /\ p.light.given \cap p.light.empty = {}
       /\ version.heightmaps => p.heightmap = (256 + 64 \div bits - 1) \div (64 \div bits)

\* A client is sent only what its version knows: no colour beyond its names, no
\* effect and no packet of a later one.
KnowsWhatItGets ==
  \A i \in DOMAIN stream :
    LET p == stream[i] IN
    /\ "colors" \in DOMAIN p =>
         \A k \in DOMAIN p.colors : Len(p.colors[k]) = IF HexColors THEN 3 ELSE 1
    /\ p.name = "entity_effect" => p.effect \in version.effects
    /\ p.name \in OptionalPackets => Knows(p.name)

\* The title runs from one of its colours to the other and never back, and it
\* and the effects outlast the lobby; a duration fits into sixteen bits.
DressingLasts ==
  /\ \A p \in All("set_title_text") \cup All("title") :
       Len(p.colors) = TitleLetters =>
         /\ p.colors[1] = WEB_ACCENT_STRONG_COLOR /\ p.colors[TitleLetters] = WEB_ACCENT_COLOR
         /\ \A k \in 1 .. TitleLetters - 1, c \in 1 .. 3 : p.colors[k][c] >= p.colors[k + 1][c]
  /\ \A p \in All("set_title_time") \cup All("title_times") : p.stay >= 20 * LOBBY_LIFETIME_SECONDS
  /\ \A p \in All("entity_effect") :
       p.duration >= 20 * LOBBY_LIFETIME_SECONDS /\ p.duration < Powers[15]

\* No teleport has the number of an earlier one, and nothing follows a kick.
Numbered ==
  /\ \A i, j \in Positions("position") : i < j => stream[i].teleportId < stream[j].teleportId
  /\ \A i \in Positions("kick") : i = Len(stream)
  /\ version = Unsupported => \A i \in DOMAIN stream : stream[i].name = "kick"

\* What a client of any version is sent makes a world that it can show.
WorldIsWhole ==
  ConfiguredOnce /\ LoadingEnds /\ ChunksAreValid /\ KnowsWhatItGets /\ DressingLasts /\ Numbered
=============================================================================
