----------------------------- MODULE MCFraming -----------------------------
(***************************************************************************)
(* Framing for TLC: strings with characters of one to four bytes, at the   *)
(* first and the last code of each length; a SUBSCRIBE and a PUBLISH whose *)
(* remaining length is the last that fits in one byte (127) and the first  *)
(* that needs two (128); CONNECT with and without each of its options.     *)
(***************************************************************************)
EXTENDS Framing

Short  == <<65, 127>>
Wide   == <<128, 2047, 2048, 65535>>
Astral == <<55296, 56320, 97, 56319, 57343>>

WideBytes == 2 + 2 + 3 + 3
Long(bytes) ==
    [i \in 1..(bytes \div 3) |-> 2048] \o [i \in 1..(bytes % 3) |-> 97]

(* Sizes for which the remaining length is n. *)
PayloadFor(n) == n - (2 + WideBytes) - 2   \* name and identifier before it
TopicFor(n)   == n - 2 - 2 - 1             \* identifier, length and QoS

Publish(name, qos, retained, size) ==
    [type |-> "PUBLISH", destinationName |-> name,
     messageIdentifier |-> IF qos > 0 THEN 258 ELSE 0,
     payload |-> [i \in 1..size |-> i % 256], qos |-> qos,
     retained |-> retained, duplicate |-> qos = 2]

Will(name) ==
    [destinationName |-> name, payload |-> Wide, qos |-> 2, retained |-> TRUE]

WrittenMessages ==
    [type : {"CONNECT"}, mqttVersion : {3, 4}, clientId : {<<>>, Short, Astral},
     willMessage : {<<>>, <<Will(Short)>>, <<Will(Astral)>>},
     userName : {<<>>, <<Wide>>}, password : {<<>>, <<Short>>},
     cleanSession : BOOLEAN, keepAliveInterval : {60, 65535}]
    \cup [type : {"SUBSCRIBE"}, messageIdentifier : {1, 65535},
          topics : {<<Short>>, <<Astral>>}, requestedQos : {<<0>>, <<2>>}]
    \cup [type : {"SUBSCRIBE"}, messageIdentifier : {2},
          topics : {<<Astral, Wide>>}, requestedQos : {<<1, 0>>}]
    \cup [type : {"SUBSCRIBE"}, messageIdentifier : {3},
          topics : {<<Long(TopicFor(127))>>, <<Long(TopicFor(128))>>},
          requestedQos : {<<1>>}]
    \cup [type : {"UNSUBSCRIBE"}, messageIdentifier : {256},
          topics : {<<Wide>>, <<Short, Astral>>}]
    \cup [type : {"PINGREQ", "DISCONNECT"}]

ComingMessages ==
    {Publish(Short, 0, TRUE, 0), Publish(Astral, 2, FALSE, 3),
     Publish(Wide, 1, TRUE, PayloadFor(127)),
     Publish(Wide, 1, FALSE, PayloadFor(128))}
    \cup [type : {"CONNACK"}, sessionPresent : {TRUE}, returnCode : {5}]
    \cup [type : {"PUBREL", "PUBACK"}, messageIdentifier : {511}]
    \cup {[type |-> "SUBACK", messageIdentifier |-> 7, returnCode |-> <<1, 128>>],
          [type |-> "PINGRESP"]}
=============================================================================
