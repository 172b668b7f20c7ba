------------------------------ MODULE MqttWire ------------------------------
(***************************************************************************)
(* How the MQTT client of the web application turns messages into bytes    *)
(* and bytes into messages (WireMessage.encode, decodeMessage and their    *)
(* helpers in mqttws31.js).  A message is a record whose `type' is the     *)
(* name of its packet; a byte is a number; a string is the sequence of its *)
(* UTF-16 code units, as in JavaScript; what may be missing (userName,     *)
(* password, willMessage) is a sequence of no or one element.              *)
(***************************************************************************)
EXTENDS Integers, Sequences, SequencesExt

MESSAGE_TYPE ==
    [CONNECT |-> 1, CONNACK |-> 2, PUBLISH |-> 3, PUBACK |-> 4, PUBREC |-> 5,
     PUBREL |-> 6, PUBCOMP |-> 7, SUBSCRIBE |-> 8, SUBACK |-> 9,
     UNSUBSCRIBE |-> 10, UNSUBACK |-> 11, PINGREQ |-> 12, PINGRESP |-> 13,
     DISCONNECT |-> 14]

TypeName(n) == CHOOSE t \in DOMAIN MESSAGE_TYPE : MESSAGE_TYPE[t] = n

Acks == {"PUBACK", "PUBREC", "PUBREL", "PUBCOMP", "UNSUBACK"}

MqttProtoIdentifier(version) ==
    IF version = 3 THEN <<0, 6, 77, 81, 73, 115, 100, 112, 3>>
                   ELSE <<0, 4, 77, 81, 84, 84, 4>>

Flag(condition, weight) == IF condition THEN weight ELSE 0

Total(numbers) == FoldLeft(LAMBDA a, n : a + n, 0, numbers)

-----------------------------------------------------------------------------
(***************************************************************************)
(* Numbers: two bytes, high one first (an identifier above 65535 loses its *)
(* upper bits); and the remaining length, seven bits per byte, low ones    *)
(* first, the eighth bit saying that another byte follows.                 *)
(***************************************************************************)
writeUint16(n) == <<(n \div 256) % 256, n % 256>>

readUint16(input, pos) == 256 * input[pos] + input[pos + 1]

Weight == <<1, 128, 16384, 2097152, 268435456>>

encodeMBI(n) ==
    LET numBytes == CHOOSE k \in 1..4 :
                        /\ n < Weight[k + 1] \/ k = 4
                        /\ \A j \in 1..(k - 1) : n >= Weight[j + 1]
    IN  [i \in 1..numBytes |->
            ((n \div Weight[i]) % 128) + Flag(n >= Weight[i + 1], 128)]

(* The value of the bytes of a remaining length. *)
decodeMBI(bytes) == Total([i \in DOMAIN bytes |-> (bytes[i] % 128) * Weight[i]])

-----------------------------------------------------------------------------
(***************************************************************************)
(* Strings.  The length that encode reserves is computed by one function   *)
(* and the bytes are written by another.  Both take whatever follows a     *)
(* lead surrogate for its trail.                                           *)
(***************************************************************************)
IsLead(c)  == c \in 55296..56319
IsTrail(c) == c \in 56320..57343

(* Mutant: a code unit above 127 is taken for two bytes. *)
UTF8Length_TwoBytes(s) ==
    Total([i \in DOMAIN s |-> IF s[i] > 127 THEN 2 ELSE 1])

UTF8Length(s) ==
    LET step(a, c) ==
            IF a.skip THEN [a EXCEPT !.skip = FALSE]
            ELSE [skip |-> IsLead(c),
                  n |-> a.n + (IF IsLead(c) THEN 4
                               ELSE IF c > 2047 THEN 3
                               ELSE IF c > 127 THEN 2 ELSE 1)]
    IN  FoldLeft(step, [skip |-> FALSE, n |-> 0], s).n

(* The bytes of one character. *)
utf8(char) ==
    LET low(shift) == ((char \div shift) % 64) + 128
    IN  IF char <= 127 THEN <<char>>
        ELSE IF char <= 2047 THEN <<((char \div 64) % 32) + 192, low(1)>>
        ELSE IF char <= 65535
        THEN <<((char \div 4096) % 16) + 224, low(64), low(1)>>
        ELSE <<((char \div 262144) % 8) + 240, low(4096), low(64), low(1)>>

stringToUTF8(s) ==
    LET step(a, c) ==
            IF a.lead # 0
            THEN [lead |-> 0,
                  out |-> a.out \o utf8((a.lead - 55296) * 1024
                                        + (c - 56320) + 65536)]
            ELSE IF IsLead(c) THEN [a EXCEPT !.lead = c]
            ELSE [a EXCEPT !.out = @ \o utf8(c)]
    IN  FoldLeft(step, [lead |-> 0, out |-> <<>>], s).out

(***************************************************************************)
(* The code units of `length' bytes from `offset' on, for strings that do  *)
(* not end within a character: parseUTF8 then reads on behind them.  The   *)
(* first byte of a character says how many follow.  The errors it throws   *)
(* for bytes that are no UTF-8 are left out: no such bytes are read here.  *)
(***************************************************************************)
parseUTF8(input, offset, length) ==
    LET units(char) ==
            IF char > 65535
            THEN <<55296 + (char - 65536) \div 1024,
                   56320 + ((char - 65536) % 1024)>>
            ELSE <<char>>
        next(a, left, char) ==
            [left |-> left, char |-> char,
             out |-> IF left = 0 THEN a.out \o units(char) ELSE a.out]
        step(a, b) ==
            IF a.left > 0 THEN next(a, a.left - 1, 64 * a.char + (b - 128))
            ELSE IF b < 128 THEN next(a, 0, b)
            ELSE IF b < 224 THEN next(a, 1, b - 192)
            ELSE IF b < 240 THEN next(a, 2, b - 224)
            ELSE next(a, 3, b - 240)
    IN  FoldLeft(step, [left |-> 0, char |-> 0, out |-> <<>>],
                 SubSeq(input, offset, offset + length - 1)).out

(* A string without unpaired surrogates: what text normally is. *)
WellFormed(s) ==
    \A i \in DOMAIN s :
        /\ IsLead(s[i]) => i < Len(s) /\ IsTrail(s[i + 1])
        /\ IsTrail(s[i]) => i > 1 /\ IsLead(s[i - 1])

(***************************************************************************)
(* The bytes, cut or filled to the room that was reserved for them.        *)
(***************************************************************************)
Fit(bytes, n) == [i \in 1..n |-> IF i <= Len(bytes) THEN bytes[i] ELSE 0]

writeString(s) ==
    writeUint16(UTF8Length(s)) \o Fit(stringToUTF8(s), UTF8Length(s))

writeStrings(strings) == FlattenSeq([i \in DOMAIN strings |-> writeString(strings[i])])

-----------------------------------------------------------------------------
(***************************************************************************)
(* encode: the first byte, the remaining length added up from the parts,   *)
(* and the parts in their order.  The payload of a will is a string.       *)
(***************************************************************************)
HasIdentifier(m) ==
    \/ m.type \in Acks \cup {"SUBSCRIBE", "UNSUBSCRIBE"}
    \/ m.type = "PUBLISH" /\ m.qos > 0

first(m) ==
    16 * MESSAGE_TYPE[m.type]
        + (IF m.type = "PUBLISH"
           THEN Flag(m.duplicate, 8) + 2 * m.qos + Flag(m.retained, 1)
           ELSE Flag(m.type \in {"SUBSCRIBE", "UNSUBSCRIBE", "PUBREL"}, 2))

lengths(strings) ==
    Total([i \in DOMAIN strings |-> UTF8Length(strings[i]) + 2])

(* What CONNECT carries behind its header, in order. *)
connectStrings(m) ==
    <<m.clientId>>
        \o FlattenSeq([i \in DOMAIN m.willMessage |->
               <<m.willMessage[i].destinationName, m.willMessage[i].payload>>])
        \o m.userName \o m.password

remLength(m) ==
    Flag(HasIdentifier(m), 2)
    + CASE m.type = "CONNECT" ->
             Len(MqttProtoIdentifier(m.mqttVersion)) + 3
             + lengths(connectStrings(m))
        [] m.type = "PUBLISH" -> lengths(<<m.destinationName>>) + Len(m.payload)
        [] m.type = "SUBSCRIBE" -> lengths(m.topics) + Len(m.requestedQos)
        [] m.type = "UNSUBSCRIBE" -> lengths(m.topics)
        [] OTHER -> 0

connectFlags(m) ==
    Flag(m.cleanSession, 2)
    + Total([i \in DOMAIN m.willMessage |->
               4 + 8 * m.willMessage[i].qos + Flag(m.willMessage[i].retained, 32)])
    + Flag(m.userName # <<>>, 128) + Flag(m.password # <<>>, 64)

identifier(m) == IF HasIdentifier(m) THEN writeUint16(m.messageIdentifier) ELSE <<>>

body(m) ==
    CASE m.type = "CONNECT" ->
           MqttProtoIdentifier(m.mqttVersion) \o <<connectFlags(m)>>
           \o writeUint16(m.keepAliveInterval) \o writeStrings(connectStrings(m))
      [] m.type = "PUBLISH" ->
           writeString(m.destinationName) \o identifier(m) \o m.payload
      [] m.type = "SUBSCRIBE" ->
           identifier(m) \o FlattenSeq([i \in DOMAIN m.topics |->
                              Append(writeString(m.topics[i]), m.requestedQos[i])])
      [] m.type = "UNSUBSCRIBE" -> identifier(m) \o writeStrings(m.topics)
      [] OTHER -> identifier(m)

encode(m) ==
    <<first(m)>> \o encodeMBI(remLength(m)) \o Fit(body(m), remLength(m))

-----------------------------------------------------------------------------
(***************************************************************************)
(* decodeMessage: the packet that starts at pos and where the next one     *)
(* starts; pos itself if the packet is not there as a whole.  Of a qos 3   *)
(* or a type that no server sends nothing is said.                         *)
(***************************************************************************)
(* The last byte of the remaining length; 0 if it is not there yet. *)
lengthEnd(input, pos) ==
    LET last == {i \in (pos + 1)..Len(input) : input[i] < 128}
    IN  IF last = {} THEN 0 ELSE CHOOSE i \in last : \A j \in last : i <= j

decodePublish(info, input, pos, end) ==
    LET qos   == (info \div 2) % 4
        len   == readUint16(input, pos)
        start == pos + 2 + len
    IN  [type |-> "PUBLISH",
         destinationName |-> parseUTF8(input, pos + 2, len),
         messageIdentifier |-> IF qos > 0 THEN readUint16(input, start) ELSE 0,
         payload |-> SubSeq(input, IF qos > 0 THEN start + 2 ELSE start, end - 1),
         qos |-> qos,
         retained |-> info % 2 = 1,
         duplicate |-> info \div 8 = 1]

decodeBody(type, info, input, pos, end) ==
    CASE type = "CONNACK" ->
           [type |-> type, sessionPresent |-> input[pos] % 2 = 1,
            returnCode |-> input[pos + 1]]
      [] type = "PUBLISH" -> decodePublish(info, input, pos, end)
      [] type \in Acks ->
           [type |-> type, messageIdentifier |-> readUint16(input, pos)]
      [] type = "SUBACK" ->
           [type |-> type, messageIdentifier |-> readUint16(input, pos),
            returnCode |-> SubSeq(input, pos + 2, end - 1)]
      [] OTHER -> [type |-> type]

NoMessage == [type |-> "none"]

decodeMessage(input, pos) ==
    LET last == lengthEnd(input, pos)
        end  == last + 1 + decodeMBI(SubSeq(input, pos + 1, last))
    IN  IF last = 0 \/ end > Len(input) + 1
        THEN [message |-> NoMessage, end |-> pos]
        ELSE [message |-> decodeBody(TypeName(input[pos] \div 16),
                                     input[pos] % 16, input, last + 1, end),
              end |-> end]
=============================================================================
