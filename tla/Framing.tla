------------------------------ MODULE Framing ------------------------------
(***************************************************************************)
(* The byte stream between a page and its server, on one connection after  *)
(* the other.  What the page writes goes out as one WebSocket message per  *)
(* packet.  What comes in is a stream of bytes that WebSocket messages cut *)
(* anywhere: _deframeMessages keeps the beginning of a packet in           *)
(* receiveBuffer until the rest of it is there.                            *)
(*                                                                         *)
(* A connection that ends within a packet leaves that beginning behind:    *)
(* _disconnected does not remove it, and the next connection starts with   *)
(* it.  What the client makes of the bytes of two connections run together *)
(* is not modelled, only that it happens (`leftover').                     *)
(***************************************************************************)
EXTENDS MqttWire

CONSTANTS
    Written,     \* messages the page may write
    Coming,      \* messages the server may send
    Chunk,       \* how many bytes a WebSocket message may bring, besides all
    MaxComing,   \* bound on the messages the server sends on a connection
    MaxSessions  \* bound on the connections

(* The strings of a message. *)
Strings(m) ==
    CASE m.type = "CONNECT" -> connectStrings(m)
      [] m.type = "PUBLISH" -> <<m.destinationName>>
      [] m.type \in {"SUBSCRIBE", "UNSUBSCRIBE"} -> m.topics
      [] OTHER -> <<>>

ASSUME FramingAssumption ==
    /\ \A m \in Written \cup Coming : \A s \in ToSet(Strings(m)) : WellFormed(s)
    /\ Chunk \subseteq Nat \ {0}
    /\ MaxComing \in Nat /\ MaxSessions \in Nat

VARIABLES
    meant,          \* the message the page wrote last (a sequence of at most one)
    written,        \* its bytes
    expected,       \* messages the server has sent on this connection
    stream,         \* bytes that have not arrived
    receiveBuffer,  \* this.receiveBuffer
    handled,        \* messages given to _handleMessage on this connection
    leftover,       \* bytes of an earlier connection are in receiveBuffer
    sessions        \* connections so far

vars == <<meant, written, expected, stream, receiveBuffer, handled, leftover,
          sessions>>

Init ==
    /\ meant = <<>> /\ written = <<>>
    /\ expected = <<>> /\ stream = <<>> /\ receiveBuffer = <<>>
    /\ handled = <<>> /\ leftover = FALSE /\ sessions = 1

(***************************************************************************)
(* socket.send(wireMessage.encode()).  What is written does not depend on  *)
(* what has been written or has come before: one message at a time, before *)
(* anything comes.                                                         *)
(***************************************************************************)
socket_send(m) ==
    /\ expected = <<>> /\ meant = <<>> /\ ~leftover
    /\ meant' = <<m>>
    /\ written' = encode(m)
    /\ UNCHANGED <<expected, stream, receiveBuffer, handled, leftover, sessions>>

(***************************************************************************)
(* The server has read what the page wrote, and sends packets: those of    *)
(* the client's own kinds as the client encodes them, so that what one     *)
(* page publishes is what another receives; the others as MQTT has them.   *)
(***************************************************************************)
ServerEncodes(m) ==
    CASE m.type = "CONNACK" -> <<32, 2, Flag(m.sessionPresent, 1), m.returnCode>>
      [] m.type = "SUBACK" ->
           <<144>> \o encodeMBI(2 + Len(m.returnCode))
                   \o writeUint16(m.messageIdentifier) \o m.returnCode
      [] OTHER -> encode(m)

ServerSends(m) ==
    /\ ~leftover
    /\ Len(expected) < MaxComing
    /\ expected' = Append(expected, m)
    /\ stream' = stream \o ServerEncodes(m)
    /\ meant' = <<>> /\ written' = <<>>
    /\ UNCHANGED <<receiveBuffer, handled, leftover, sessions>>

(***************************************************************************)
(* _deframeMessages: the messages that are complete, and where the rest    *)
(* starts.                                                                 *)
(***************************************************************************)
deframe(bytes) ==
    LET from[pos \in 1..(Len(bytes) + 1)] ==
            LET d == decodeMessage(bytes, pos)
            IN  IF pos > Len(bytes) \/ d.end = pos
                THEN [messages |-> <<>>, offset |-> pos]
                ELSE [from[d.end] EXCEPT !.messages = <<d.message>> \o @]
    IN  from[1]

(* Mutant: the beginning of a packet is dropped with the messages before it. *)
deframeMessages_DropsRest(data) ==
    LET bytes == receiveBuffer \o data
        d     == deframe(bytes)
    IN  /\ handled' = handled \o d.messages
        /\ receiveBuffer' = IF d.messages = <<>> THEN bytes ELSE <<>>

deframeMessages(data) ==
    LET bytes == receiveBuffer \o data
        d     == deframe(bytes)
    IN  /\ handled' = handled \o d.messages
        /\ receiveBuffer' = SubSeq(bytes, d.offset, Len(bytes))

on_socket_message(n) ==
    /\ ~leftover
    /\ n \in 1..Len(stream)
    /\ deframeMessages(SubSeq(stream, 1, n))
    /\ stream' = SubSeq(stream, n + 1, Len(stream))
    /\ UNCHANGED <<meant, written, expected, leftover, sessions>>

(***************************************************************************)
(* The connection ends, what has not arrived is lost, and a new one is     *)
(* made.                                                                   *)
(***************************************************************************)
Reconnect ==
    /\ sessions < MaxSessions /\ ~leftover
    /\ sessions' = sessions + 1
    /\ expected' = <<>> /\ stream' = <<>> /\ handled' = <<>>
    /\ leftover' = (receiveBuffer # <<>>)
    /\ UNCHANGED <<meant, written, receiveBuffer>>

Next ==
    \/ \E m \in Written : socket_send(m)
    \/ \E m \in Coming : ServerSends(m)
    \/ \E n \in Chunk \cup {Len(stream)} : on_socket_message(n)
    \/ Reconnect

Spec == Init /\ [][Next]_vars

-----------------------------------------------------------------------------
(***************************************************************************)
(* However the stream is cut, the client handles exactly the messages the  *)
(* server has sent, unchanged and in order, each as soon as its last byte  *)
(* is there: what is kept back is less than a packet, and with what has    *)
(* not arrived it is the rest of the messages.                             *)
(***************************************************************************)
FramesMessages ==
    ~leftover =>
        /\ handled = SubSeq(expected, 1, Len(handled))
        /\ stream = <<>> => handled = expected /\ receiveBuffer = <<>>
        /\ receiveBuffer \o stream =
             FlattenSeq([i \in 1..(Len(expected) - Len(handled)) |->
                           ServerEncodes(expected[Len(handled) + i])])
        /\ receiveBuffer # <<>> =>
             Len(receiveBuffer) < Len(ServerEncodes(expected[Len(handled) + 1]))

(***************************************************************************)
(* How a server reads a request, after the MQTT 3.1.1 standard: the        *)
(* strings from `start' on, each behind its length and followed by `step'  *)
(* bytes (the QoS asked for with a topic).                                 *)
(***************************************************************************)
ReadStrings(input, start, step) ==
    LET from[pos \in 1..(Len(input) + 1)] ==
            LET after == pos + 2 + readUint16(input, pos) IN
            IF pos + 1 > Len(input) \/ after + step > Len(input) + 1 THEN <<>>
            ELSE <<[text |-> parseUTF8(input, pos + 2, after - pos - 2),
                    qos  |-> IF step = 1 THEN input[after] ELSE 0]>>
                   \o from[after + step]
    IN  from[start]

Texts(strings) == [i \in DOMAIN strings |-> strings[i].text]

ReadConnect(input, at) ==
    LET version == at + 2 + readUint16(input, at)
        flags   == input[version + 1]
        Has(w)  == (flags \div w) % 2 = 1
        s       == Texts(ReadStrings(input, version + 4, 0))
        user    == IF Has(4) THEN 4 ELSE 2
        pass    == user + Flag(Has(128), 1)
    IN  [type |-> "CONNECT",
         mqttVersion |-> input[version],
         clientId |-> s[1],
         willMessage |->
            IF Has(4) THEN <<[destinationName |-> s[2], payload |-> s[3],
                              qos |-> (flags \div 8) % 4, retained |-> Has(32)]>>
                      ELSE <<>>,
         userName |-> SubSeq(s, user, IF Has(128) THEN user ELSE 0),
         password |-> SubSeq(s, pass, IF Has(64) THEN pass ELSE 0),
         cleanSession |-> Has(2),
         keepAliveInterval |-> readUint16(input, version + 2)]

ServerReads(input) ==
    LET type == TypeName(input[1] \div 16)
        at   == lengthEnd(input, 1) + 1
        topics == ReadStrings(input, at + 2, Flag(type = "SUBSCRIBE", 1))
    IN  CASE type = "CONNECT" -> ReadConnect(input, at)
          [] type = "SUBSCRIBE" ->
               [type |-> type, messageIdentifier |-> readUint16(input, at),
                topics |-> Texts(topics),
                requestedQos |-> [i \in DOMAIN topics |-> topics[i].qos]]
          [] type = "UNSUBSCRIBE" ->
               [type |-> type, messageIdentifier |-> readUint16(input, at),
                topics |-> Texts(topics)]
          [] OTHER -> [type |-> type]

(***************************************************************************)
(* A server that follows the standard reads in the bytes of a request what *)
(* the page meant, with no byte missing and none left: the length that     *)
(* encode adds up beforehand is the length of what it writes, whatever the *)
(* options and the characters of the names are.                            *)
(***************************************************************************)
ServerUnderstands ==
    meant # <<>> =>
        /\ ServerReads(written) = Head(meant)
        /\ lengthEnd(written, 1)
             + decodeMBI(SubSeq(written, 2, lengthEnd(written, 1))) = Len(written)
=============================================================================
