------------------------------- MODULE Codec -------------------------------
(***************************************************************************)
(* Protocol v1 at its two ends.  The client builds and decodes with        *)
(* protocol-v1.ts and the schemas of schema/protocol.ts, the server with   *)
(* protocol.cpp, written separately from the same document (ADR-004).  A   *)
(* connection carries one message at a time: what arrives in which order   *)
(* is the matter of RelayClient and Relay.                                 *)
(*                                                                         *)
(* A text is the number of its characters: ascii ones, then wide ones      *)
(* (three bytes, one UTF-16 unit), then paired ones (four bytes, two       *)
(* units); half is a pair that was cut in two.                             *)
(***************************************************************************)
EXTENDS Naturals

CONSTANTS MaxChat,    \* MAX_CHAT_LENGTH and kMaxChatChars
          MaxErrors   \* malformed messages before the server closes

ASSUME CodecAssumption == {MaxChat, MaxErrors} \subseteq Nat \ {0}

VARIABLES open,      \* the connection
          joined,    \* helloDone
          errors,    \* consecutiveErrors
          reported,  \* unknownTypeReported
          message,   \* the client's message on the wire
          answer,    \* the server's message on the wire
          outcome    \* what became of the last message read: by whom, how

codecVars == <<open, joined, errors, reported, message, answer, outcome>>

ProtocolVersion == 1
Catalog == {"hello", "welcome", "player_state", "chat", "leave", "ping", "pong", "error"}
Nothing == [type |-> "none"]
Named == {"", "x"}
Text == [ascii : 0..MaxChat + 1, wide : 0..MaxChat + 1, pairs : 0..MaxChat, half : {FALSE}]
NoText == [ascii |-> 0, wide |-> 0, pairs |-> 0, half |-> FALSE]

CodecInit == /\ open = TRUE /\ joined = FALSE /\ errors = 0 /\ reported = FALSE
             /\ message = Nothing /\ answer = Nothing
             /\ outcome = [by |-> "nobody", as |-> "none"]

-----------------------------------------------------------------------------
(* The client's messages.                                                   *)

Fewer(a, b) == IF a < b THEN a ELSE b

\* text.slice(0, MAX_CHAT_LENGTH) counts UTF-16 units.
Slice(t) ==
  LET a == Fewer(t.ascii, MaxChat)
      w == Fewer(t.wide, MaxChat - a)
      room == MaxChat - a - w
      p == Fewer(t.pairs, room \div 2)
  IN [ascii |-> a, wide |-> w, pairs |-> p, half |-> p < t.pairs /\ room % 2 = 1]
Bytes(t) == t.ascii + 3 * t.wide + 4 * t.pairs

\* makeEnvelope; the payload's fields are members of the record.
Envelope(type, payload) == [v |-> ProtocolVersion, type |-> type, seq |-> "none",
                            json |-> TRUE, payload |-> payload]
Numbered(m) == [m EXCEPT !.seq = "number"]

Put(m) == /\ open /\ message = Nothing /\ answer = Nothing
          /\ message' = m
          /\ UNCHANGED <<open, joined, errors, reported, answer, outcome>>

\* helloPayloadSchema refuses empty names, and then nothing is sent.
SendHello == \E name \in Named, room \in Named, project \in {"none", "", "x"} :
               /\ ~joined /\ name # "" /\ room # ""
               /\ Put(Numbered(Envelope("hello", [playerName |-> name, roomId |-> room,
                                                  projectId |-> project])))

\* NetworkClient.flushPendingState and close do not go through sendMessage.
SendPlayerState == joined /\ Put(Envelope("player_state", [state |-> "object", clientTimeMs |-> "number"]))
SendLeave == joined /\ \E by \in {"client", "transport"} :
               Put(IF by = "client" THEN Envelope("leave", [reason |-> "string"])
                                    ELSE Numbered(Envelope("leave", [reason |-> "string"])))
PutPing == joined /\ Put(Numbered(Envelope("ping", [clientTimeMs |-> "number"])))

\* A string that ends in half a pair is written as an escape no parser takes.
SendChat == \E t \in Text :
              /\ joined /\ Slice(t) # NoText
              /\ Put([Envelope("chat", [text |-> Slice(t)]) EXCEPT !.json = ~Slice(t).half])

\* A client of another version, or one that knows a type that is not in the catalog.
SendForeign == \E v \in {1, 2}, type \in {"ping", "emote"} :
                 /\ v # 1 \/ type = "emote"
                 /\ Put([Envelope(type, [clientTimeMs |-> "number"]) EXCEPT !.v = v])

-----------------------------------------------------------------------------
(* The server reads.                                                        *)

\* Mutant: seq is required.
ParseEnvelopeWithSeq(m) ==
  IF ~m.json THEN "not JSON"
  ELSE IF m.v # ProtocolVersion THEN "version mismatch"
  ELSE IF m.type \notin Catalog THEN "unknown type"
  ELSE IF m.seq # "number" THEN "malformed" ELSE "ok"

ParseEnvelope(m) ==
  IF ~m.json THEN "not JSON"
  ELSE IF m.v # ProtocolVersion THEN "version mismatch"
  ELSE IF m.type \notin Catalog THEN "unknown type"
  ELSE IF m.seq \notin {"none", "number"} THEN "malformed" ELSE "ok"

\* text.size() counts bytes.
ParsePayload(m) ==
  CASE m.type = "hello" -> m.payload.playerName # "" /\ m.payload.roomId # ""
    [] m.type = "player_state" -> m.payload.state = "object"
    [] m.type = "chat" -> Bytes(m.payload.text) <= MaxChat
    [] OTHER -> TRUE

ReadAs(as) == message' = Nothing /\ outcome' = [by |-> "server", as |-> as]
Error(code) == answer' = Envelope("error", [code |-> code])

ReadMalformed ==
  /\ message # Nothing /\ ParseEnvelope(message) \in {"not JSON", "malformed"}
  /\ ReadAs("malformed") /\ Error("malformed_message")
  /\ errors' = errors + 1
  /\ open' = (errors + 1 < MaxErrors)
  /\ UNCHANGED <<joined, reported>>

ReadMismatch ==
  /\ message # Nothing /\ ParseEnvelope(message) = "version mismatch"
  /\ ReadAs("mismatch") /\ Error("protocol_version_mismatch")
  /\ open' = FALSE
  /\ UNCHANGED <<joined, errors, reported>>

ReadUnknown ==
  /\ message # Nothing /\ ParseEnvelope(message) = "unknown type"
  /\ ReadAs("unknown")
  /\ IF reported THEN UNCHANGED answer ELSE Error("unknown_type")
  /\ reported' = TRUE
  /\ UNCHANGED <<open, joined, errors>>

\* A bad hello or leave ends the connection, a bad state or chat is answered.
ReadInvalid ==
  /\ message # Nothing /\ ParseEnvelope(message) = "ok" /\ ~ParsePayload(message)
  /\ ReadAs("invalid") /\ Error("malformed_message")
  /\ open' = (message.type \notin {"hello", "leave"})
  /\ UNCHANGED <<joined, errors, reported>>

\* What the server makes of it comes back to its sender or to another client.
Reply(type) == CASE type = "hello" -> "welcome" [] type = "ping" -> "pong" [] OTHER -> type

ReadGood ==
  /\ message # Nothing /\ ParseEnvelope(message) = "ok" /\ ParsePayload(message)
  /\ ReadAs("taken")
  /\ answer' = Envelope(Reply(message.type), [sessionId |-> "string"])
  /\ joined' = TRUE
  /\ open' = (message.type # "leave")
  /\ UNCHANGED <<errors, reported>>

\* The client reads: decodeMessage, its version gate before the envelope's schema.
Decode(m) == IF ~m.json THEN "malformed"
             ELSE IF m.v # ProtocolVersion THEN "mismatch"
             ELSE IF m.type = "" \/ m.seq \notin {"none", "number"} THEN "malformed" ELSE "taken"

ClientReads == /\ answer # Nothing
               /\ answer' = Nothing
               /\ outcome' = [by |-> "client", as |-> Decode(answer)]
               /\ UNCHANGED <<open, joined, errors, reported, message>>

CodecNext == \/ SendHello \/ SendPlayerState \/ SendLeave \/ PutPing \/ SendChat \/ SendForeign
             \/ ReadMalformed \/ ReadMismatch \/ ReadUnknown \/ ReadInvalid \/ ReadGood \/ ClientReads

CodecSpec == CodecInit /\ [][CodecNext]_codecVars

-----------------------------------------------------------------------------
CodecTypeOK ==
  /\ {open, joined, reported} \subseteq BOOLEAN
  /\ errors \in 0..MaxErrors
  /\ outcome \in [by : {"nobody", "server", "client"},
                  as : {"none", "taken", "malformed", "mismatch", "unknown", "invalid"}]

OwnVersion(m) == m.v = ProtocolVersion /\ m.type \in Catalog

\* Two codecs written apart: whatever the client's functions build the server takes,
\* but for a chat of more bytes than characters allowed; what the server builds the
\* client takes.
ParsersAgree ==
  /\ message # Nothing /\ OwnVersion(message) /\ message.type # "chat"
       => ParseEnvelope(message) = "ok" /\ ParsePayload(message)
  /\ message # Nothing /\ message.type = "chat" /\ Bytes(message.payload.text) <= MaxChat /\ message.json
       => ParseEnvelope(message) = "ok" /\ ParsePayload(message)
  /\ answer # Nothing => Decode(answer) = "taken"

\* ADR-004.md:187 "200 chars max per client": a chat that sendChat has cut to size is
\* not refused for its size.
ChatIsTaken ==
  message # Nothing /\ message.type = "chat" => ParseEnvelope(message) = "ok" /\ ParsePayload(message)

\* What the functions of the client build the parsers of the server take, and the
\* reverse, but for a chat of more bytes than characters are allowed.
UnderstoodByBoth == CodecTypeOK /\ ParsersAgree
=============================================================================
