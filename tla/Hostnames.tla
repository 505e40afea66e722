-------------------------------- MODULE Hostnames --------------------------------
(***************************************************************************)
(* What a joining client's address and a line of the lobby's chat name: a  *)
(* verification code, the lobby or nothing                                 *)
(* (src/src/mc-server/hostname.ts, chat-code.ts).  A text is a sequence of *)
(* words and the characters that separate them; capitals are words of      *)
(* their own.  Limits of length are left out: a text that is too long is   *)
(* none of those that name something.                                      *)
(***************************************************************************)
EXTENDS Naturals, Sequences, SequencesExt

CONSTANT Hosts    \* bound: the addresses looked at

ASSUME HostsAssumption == Hosts \subseteq Seq(STRING)

\* What a loader appends to an address is printable.
ASSUME MarksAssumption ==
  \A h \in Hosts : \A i, j \in DOMAIN h : h[i] = "nul" /\ i < j => h[j] # " "

VARIABLE host

Lower(word) == CASE word = "CODE" -> "code" [] word = "BASE" -> "base" [] word = "TLD" -> "tld"
                 [] OTHER -> word
ToLowerCase(text) == [k \in DOMAIN text |-> Lower(text[k])]

Dot == <<".">>
BaseDomain == <<"base", ".", "tld">>
NoName == <<"nothing">>

UpToMark(text, mark) ==
  LET at == {k \in DOMAIN text : text[k] = mark}
  IN IF at = {} THEN text ELSE SubSeq(text, 1, (CHOOSE k \in at : \A j \in at : k <= j) - 1)

\* "port" is a number that can be one; "zero" cannot.
WithoutOptionalPort(text) ==
  LET colons == {k \in DOMAIN text : text[k] = ":"}
  IN IF colons = {} THEN text
     ELSE IF \E k \in colons : colons = {k} /\ SubSeq(text, k + 1, Len(text)) = <<"port">>
     THEN UpToMark(text, ":") ELSE NoName

WithoutTrailingDot(text) == IF text # <<>> /\ Last(text) = "." THEN Front(text) ELSE text

\* Mutant: the dot is looked for at the end of the address.
NormalizeHostDotFirst(serverHost) ==
  LET segment == UpToMark(serverHost, "nul")
      hostname == WithoutOptionalPort(WithoutTrailingDot(segment))
  IN IF segment = <<>> \/ hostname \in {NoName, <<>>} \/ " " \in ToSet(segment) THEN NoName
     ELSE ToLowerCase(hostname)

\* What comes after a NUL is Forge's; a blank stands for what is not printable.
NormalizeHost(serverHost) ==
  LET segment == UpToMark(serverHost, "nul")
      withoutPort == WithoutOptionalPort(segment)
      hostname == WithoutTrailingDot(withoutPort)
  IN IF \/ segment = <<>> \/ " " \in ToSet(segment) \/ withoutPort = NoName \/ hostname = <<>>
     THEN NoName ELSE ToLowerCase(hostname)

\* A label is a code, and the labels after it are the base domain.
ExtractVerificationCode(serverHost) ==
  IF NormalizeHost(serverHost) = <<"code">> \o Dot \o BaseDomain THEN "CODE" ELSE "none"

IsLobbyHost(serverHost) == NormalizeHost(serverHost) = BaseDomain

Trim(text) ==
  LET solid == {k \in DOMAIN text : text[k] # " "}
  IN IF solid = {} THEN <<>> ELSE SubSeq(text, Min(solid), Max(solid))

\* /verify with one word, which the slash may or may not come with.
ChatCandidate(trimmed) ==
  LET line == IF Head(trimmed) = "/" THEN Tail(trimmed) ELSE trimmed
      word == SubSeq(line, 3, Len(line))
  IN IF Len(line) >= 3 /\ line[1] = "verify" /\ line[2] = " " /\ " " \notin ToSet(word)
     THEN word ELSE trimmed

ExtractChatCode(message) ==
  LET trimmed == Trim(message)
      candidate == IF trimmed = <<>> THEN <<>> ELSE ChatCandidate(trimmed)
  IN IF candidate \in {<<"code">>, <<"CODE">>} THEN "CODE" ELSE ExtractVerificationCode(candidate)

HostInit == host \in Hosts
HostNext == UNCHANGED host
HostSpec == HostInit /\ [][HostNext]_host

-----------------------------------------------------------------------------

\* The ways in which clients write the name that a player has entered: with the
\* dot of a full name, with a port, and with what a loader appends.
Written(name) ==
  \E dot \in {<<>>, Dot}, port \in {<<>>, <<":", "port">>} :
    LET full == name \o dot \o port
    IN /\ IsPrefix(full, ToLowerCase(host))
       /\ Len(host) > Len(full) => host[Len(full) + 1] = "nul"

\* In whatever way a client writes it, an address names the code or the lobby
\* that the player has entered, and never another; and a player who pastes it
\* into the chat, as it is or after /verify, verifies with the same code.
HostsAreRead ==
  LET withCode == <<"code">> \o Dot \o BaseDomain
      chat(before, after) == ExtractChatCode(before \o host \o after)
  IN /\ ExtractVerificationCode(host) = "CODE" <=> Written(withCode)
     /\ IsLobbyHost(host) <=> Written(BaseDomain)
     /\ ExtractVerificationCode(host) = "CODE" =>
          \A before \in {<<>>, <<" ">>, <<"verify", " ">>, <<"/", "verify", " ">>}, after \in {<<>>, <<" ">>} :
            chat(before, after) = "CODE"
     /\ IsLobbyHost(host) => chat(<<"/", "verify", " ">>, <<>>) = "none"
=============================================================================
