----------------------------- MODULE PahoClient -----------------------------
(***************************************************************************)
(* The MQTT client of the web application (ClientImpl, Pinger and Timeout  *)
(* of mqttws31.js) in one page: its connection, its queue, the messages in *)
(* flight in both directions, their copies in localStorage, and its        *)
(* timers.  JavaScript runs one callback at a time: every action is one    *)
(* callback from start to end, except that the packets of one WebSocket    *)
(* message are handled one per step (`frame'), with nothing else of the    *)
(* page in between.                                                        *)
(*                                                                         *)
(* A packet names the message or the request it carries; how it becomes    *)
(* bytes is in MqttWire.  This module is the client's half: the server and *)
(* the network that complete it are in Paho.                               *)
(***************************************************************************)
EXTENDS Integers, Sequences, FiniteSets, SequencesExt

CONSTANTS
    Message,         \* what the page sends, each message once
    Arriving,        \* what the server sends to the page, each message once
    Subscription,    \* calls of subscribe()
    Unsubscription,  \* calls of unsubscribe()
    Timed,           \* the calls of both that are given a timeout
    QoS,             \* quality of service of each message
    Throwing,        \* arriving messages on which onMessageArrived throws
    SubscribeFirst,  \* onSuccess subscribes, as the callback of iHeating does
    CleanSession,    \* connectOptions.cleanSession
    KeepAlive,       \* connectOptions.keepAliveInterval > 0
    MqttVersion,     \* connectOptions.mqttVersion (0: not given)
    Hosts,           \* number of connectOptions.uris (0: not given)
    MaxMessageId,    \* maxMessageIdentifier; on the wire an identifier is
                     \* taken modulo this number (both are 2^16)
    FrameSize        \* bound on the packets of one WebSocket message

Item == Message \cup Subscription \cup Unsubscription
NoItem == "none"

ASSUME ClientAssumption ==
    /\ QoS \in [Message \cup Arriving -> 0..2]
    /\ Throwing \subseteq Arriving
    /\ Timed \subseteq Subscription \cup Unsubscription
    /\ SubscribeFirst \in BOOLEAN /\ CleanSession \in BOOLEAN
    /\ KeepAlive \in BOOLEAN
    /\ MqttVersion \in {0, 3, 4} /\ Hosts \in Nat
    /\ MaxMessageId \in Nat \ {0} /\ FrameSize \in Nat \ {0}
    /\ Message \cap (Subscription \cup Unsubscription) = {}
    /\ Subscription \cap Unsubscription = {}

VARIABLES
    socket,              \* this.socket: "none", "connecting" or "open"
    connected,           \* this.connected
    version,             \* the version of the protocol tried (0: none yet)
    hostIndex,           \* this.hostIndex
    connectTimeout,      \* the timer of the connection attempt is armed
    sendPinger,          \* timer of the pinger that each send resets
    receivePinger,       \* timer of the pinger that each arrival resets
    zombie,              \* timer of a pinger the client no longer refers to
    msg_queue,           \* packets waiting for a connection
    sentMessages,        \* in flight from the client, by identifier
    receivedMessages,    \* QoS 2 messages acknowledged but not yet released
    message_identifier,  \* where the search for a free identifier starts
    sequence,            \* number of the last message stored by this page
    localStorage,        \* what survives the page: [Sent, Received]
    frame,               \* packets of the WebSocket message being handled
    told,                \* last of the connection callbacks since connect()
    calls,               \* connect() calls so far
    sent,                \* messages accepted by send(), in order
    delivered,           \* onMessageDelivered calls per message
    arrived,             \* onMessageArrived calls per message
    requested,           \* subscribe() and unsubscribe() calls
    timers,              \* requests whose timeout is running
    answers,             \* onSuccess and onFailure calls per request
    link,                \* the socket carries data in both directions
    to_server,           \* packets on their way to the server
    to_client            \* packets on their way to the client

connection == <<socket, connected, version, hostIndex, connectTimeout>>
pingers    == <<sendPinger, receivePinger, zombie>>

session    == <<sentMessages, receivedMessages, localStorage>>
numbers    == <<message_identifier, sequence>>
callbacks  == <<delivered, arrived, answers>>
requests   == <<requested, timers>>
page       == <<told, calls, sent, requests>>
network    == <<link, to_server, to_client>>

Packet(type, id, what) == [type |-> type, id |-> id, what |-> what]
DISCONNECT == Packet("DISCONNECT", 0, NoItem)
PINGREQ    == Packet("PINGREQ", 0, NoItem)

(***************************************************************************)
(* Pseudo packet: the rest of the handler threw, and _handleMessage caught *)
(* the exception.                                                          *)
(***************************************************************************)
EXCEPTION == Packet("EXCEPTION", 0, NoItem)

(***************************************************************************)
(* An identifier as the wire carries it, in 16 bits.                       *)
(***************************************************************************)
Wire(id) == id % MaxMessageId

(***************************************************************************)
(* Functions as the client's tables and as localStorage.                   *)
(***************************************************************************)
With(table, key, value) ==
    [k \in DOMAIN table \cup {key} |-> IF k = key THEN value ELSE table[k]]
Without(table, key) == [k \in DOMAIN table \ {key} |-> table[k]]
NoEntries == [k \in {} |-> NoItem]
EmptyStorage == [Sent |-> NoEntries, Received |-> {}]

(***************************************************************************)
(* A Pinger's timer: not running; running with the promise that something  *)
(* happened since it was started (isReset); running since the PINGREQ it   *)
(* sent itself.                                                            *)
(***************************************************************************)
PingerState == {"off", "reset", "waiting"}
reset == IF KeepAlive THEN "reset" ELSE "off"

ClientInit ==
    /\ socket = "none" /\ connected = FALSE
    /\ version = 0 /\ hostIndex = 0 /\ connectTimeout = FALSE
    /\ sendPinger = "off" /\ receivePinger = "off" /\ zombie = "off"
    /\ msg_queue = <<>> /\ frame = <<>>
    /\ sentMessages = NoEntries /\ receivedMessages = {}
    /\ localStorage = EmptyStorage
    /\ message_identifier = 1 /\ sequence = 0
    /\ told = "nothing" /\ calls = 0 /\ sent = <<>> /\ requested = {} /\ timers = {}
    /\ delivered = [m \in Message |-> 0]
    /\ arrived = [m \in Arriving |-> 0]
    /\ answers = [r \in Subscription \cup Unsubscription |->
                    [onSuccess |-> 0, onFailure |-> 0]]

-----------------------------------------------------------------------------
(***************************************************************************)
(* Sending.  _schedule_message and _process_queue: what is scheduled on a  *)
(* connection goes out at once, behind a queue that is empty by then; what *)
(* is scheduled without one waits for the next CONNACK.  A WebSocket whose *)
(* link is dead swallows what it is given.                                 *)
(***************************************************************************)
socket_send(packets) == to_server' = IF link THEN to_server \o packets ELSE to_server

schedule_message(packet) ==
    IF connected
    THEN /\ socket_send(<<packet>>)
         /\ sendPinger' = reset
         /\ UNCHANGED msg_queue
    ELSE /\ msg_queue' = Append(msg_queue, packet)
         /\ UNCHANGED <<to_server, sendPinger>>

TypeOf(item) ==
    IF item \in Message THEN "PUBLISH"
    ELSE IF item \in Subscription THEN "SUBSCRIBE" ELSE "UNSUBSCRIBE"

(***************************************************************************)
(* _requires_ack: the first identifier from message_identifier on that no  *)
(* message in flight has, and where the next search starts.                *)
(***************************************************************************)
TooMany(table) == Cardinality(DOMAIN table) > MaxMessageId

(* Mutant: the search does not look at the messages in flight. *)
FreeId_First(table) == message_identifier

FreeId(table) ==
    CHOOSE id \in message_identifier..(message_identifier + Cardinality(DOMAIN table)) :
        /\ id \notin DOMAIN table
        /\ message_identifier..(id - 1) \subseteq DOMAIN table

requires_ack(table, item) ==
    LET id == FreeId(table)
        seq == IF item \in Message THEN sequence + 1 ELSE 0
        entry == [item |-> item, sequence |-> seq, pubRecReceived |-> FALSE]
    IN  /\ sentMessages' = With(table, id, entry)
        /\ message_identifier' = IF id = MaxMessageId THEN 1 ELSE id
        /\ sequence' = IF item \in Message THEN seq ELSE sequence

(***************************************************************************)
(* store("Sent:") and removeItem: the copy of an entry in localStorage.    *)
(***************************************************************************)
store_sent(id, entry) ==
    [localStorage EXCEPT !.Sent = With(@, id, entry)]
remove_sent(id) == [localStorage EXCEPT !.Sent = Without(@, id)]

-----------------------------------------------------------------------------
(***************************************************************************)
(* _doConnect: a new WebSocket, new pingers and a new timeout.  A pinger   *)
(* of the former connection that is still running is not stopped.          *)
(***************************************************************************)
doConnect(host) ==
    /\ socket' = "connecting"
    /\ connected' = FALSE
    /\ hostIndex' = host
    /\ connectTimeout' = TRUE
    /\ sendPinger' = "off"
    /\ receivePinger' = "off"

(* Mutant: the client goes on believing that it is connected. *)
closed_KeepsConnected(callback) ==
    /\ socket' = "none"
    /\ connected' = connected
    /\ connectTimeout' = FALSE
    /\ sendPinger' = "off"
    /\ receivePinger' = "off"
    /\ told' = callback

closed(callback) ==
    /\ socket' = "none"
    /\ connected' = FALSE
    /\ connectTimeout' = FALSE
    /\ sendPinger' = "off"
    /\ receivePinger' = "off"
    /\ told' = callback

(***************************************************************************)
(* _disconnected, with the values of `connected' and `hostIndex' it finds: *)
(* try the next host; report a connection lost; try the old version of the *)
(* protocol from the first host on; or report the failure.                 *)
(***************************************************************************)
disconnected(was_connected, host) ==
    /\ msg_queue' = <<>>
    /\ link' = FALSE
    /\ to_client' = <<>>
    /\ IF host < Hosts - 1
       THEN doConnect(host + 1) /\ UNCHANGED <<version, told>>
       ELSE IF was_connected
       THEN closed("onConnectionLost") /\ hostIndex' = host /\ UNCHANGED version
       ELSE IF version = 4 /\ MqttVersion = 0
       THEN doConnect(0) /\ version' = 3 /\ UNCHANGED told
       ELSE closed("onFailure") /\ hostIndex' = host /\ UNCHANGED version

(* Mutant: the end of a connection is reported as a failure to connect. *)
give_up_NeverConnected == disconnected(FALSE, hostIndex) /\ UNCHANGED to_server

give_up == disconnected(connected, hostIndex) /\ UNCHANGED to_server

(***************************************************************************)
(* connect() of the page.  Every call brings its own options: the object   *)
(* of the call before is refused by validate, which does not know the      *)
(* entries that connect() has added to it.                                 *)
(***************************************************************************)
Connect ==
    /\ frame = <<>>
    /\ socket = "none" /\ ~connected
    /\ version' = IF MqttVersion = 0 THEN 4 ELSE MqttVersion
    /\ doConnect(0)
    /\ zombie' = IF sendPinger # "off" THEN sendPinger ELSE zombie
    /\ told' = "nothing"
    /\ calls' = calls + 1
    /\ UNCHANGED <<msg_queue, session, numbers, callbacks, sent, requests,
                   frame, network>>

(***************************************************************************)
(* disconnect(): on a connection DISCONNECT is sent and _disconnected run; *)
(* without one the packet is queued.                                       *)
(***************************************************************************)
Disconnect ==
    /\ frame = <<>>
    /\ socket # "none"
    /\ UNCHANGED <<session, numbers, callbacks, calls, sent, requests, frame>>
    /\ \/ /\ connected
          /\ socket_send(<<DISCONNECT>>)
          /\ disconnected(TRUE, hostIndex)
          /\ UNCHANGED zombie
       \/ /\ ~connected
          /\ msg_queue' = Append(msg_queue, DISCONNECT)
          /\ UNCHANGED <<connection, pingers, told, network>>

(***************************************************************************)
(* send(): QoS 0 counts as delivered at once; the others are kept until    *)
(* they are acknowledged.                                                  *)
(***************************************************************************)
Send(m) ==
    /\ frame = <<>>
    /\ connected
    /\ m \notin ToSet(sent)
    /\ sent' = Append(sent, m)
    /\ IF QoS[m] = 0
       THEN /\ delivered' = [delivered EXCEPT ![m] = @ + 1]
            /\ schedule_message(Packet("PUBLISH", 0, m))
            /\ UNCHANGED <<session, numbers>>
       ELSE /\ ~TooMany(sentMessages)
            /\ requires_ack(sentMessages, m)
            /\ LET id == FreeId(sentMessages)
               IN  /\ localStorage' = store_sent(id, sentMessages'[id])
                   /\ schedule_message(Packet("PUBLISH", Wire(id), m))
            /\ UNCHANGED <<delivered, receivedMessages>>
    /\ UNCHANGED <<connection, receivePinger, zombie, arrived, answers, told,
                   calls, requests, frame, link, to_client>>

(***************************************************************************)
(* subscribe() and unsubscribe(), with or without a timeout.               *)
(***************************************************************************)
Ask(r) ==
    /\ frame = <<>>
    /\ connected
    /\ r \notin requested
    /\ ~TooMany(sentMessages)
    /\ requested' = requested \cup {r}
    /\ timers' = timers \cup ({r} \cap Timed)
    /\ requires_ack(sentMessages, r)
    /\ schedule_message(Packet(TypeOf(r), Wire(FreeId(sentMessages)), r))
    /\ UNCHANGED <<connection, receivePinger, zombie, receivedMessages,
                   localStorage, callbacks, told, calls, sent, frame, link,
                   to_client>>

subscribe(s)   == s \in Subscription /\ Ask(s)
unsubscribe(u) == u \in Unsubscription /\ Ask(u)

(***************************************************************************)
(* The timeout of a request: onFailure is run, the request stays in        *)
(* flight.  It is not cancelled when the connection ends.                  *)
(***************************************************************************)
RequestTimeout(r) ==
    /\ frame = <<>>
    /\ r \in timers
    /\ timers' = timers \ {r}
    /\ answers' = [answers EXCEPT ![r].onFailure = @ + 1]
    /\ UNCHANGED <<connection, pingers, msg_queue, session, numbers, delivered,
                   arrived, told, calls, sent, requested, frame, network>>

-----------------------------------------------------------------------------
(***************************************************************************)
(* Callbacks of the WebSocket and of the timers.                           *)
(***************************************************************************)
on_socket_open ==
    /\ frame = <<>>
    /\ socket = "connecting"
    /\ socket' = "open"
    /\ link' = TRUE
    /\ to_server' = Append(to_server, Packet("CONNECT", version, NoItem))
    /\ sendPinger' = reset
    /\ UNCHANGED <<connected, version, hostIndex, connectTimeout,
                   receivePinger, zombie, msg_queue, session, numbers,
                   callbacks, page, frame, to_client>>

(***************************************************************************)
(* onerror and onclose: the connection was refused, or has ended.          *)
(***************************************************************************)
on_socket_close ==
    /\ frame = <<>>
    /\ socket = "connecting" \/ (socket = "open" /\ ~link)
    /\ give_up
    /\ UNCHANGED <<zombie, session, numbers, callbacks, calls, sent, requests,
                   frame>>

ConnectTimeout ==
    /\ frame = <<>>
    /\ connectTimeout
    /\ give_up
    /\ UNCHANGED <<zombie, session, numbers, callbacks, calls, sent, requests,
                   frame>>

(***************************************************************************)
(* doPing: nothing happened since the PINGREQ this pinger sent, so the     *)
(* connection is given up; or PINGREQ is sent.  Without an open socket the *)
(* send throws, and the timer is not started again.                        *)
(***************************************************************************)
ping ==
    /\ IF socket = "open" THEN socket_send(<<PINGREQ>>) ELSE UNCHANGED to_server
    /\ UNCHANGED <<connection, msg_queue, told, link, to_client>>

(* Mutant: isReset is not cleared when the pinger sends PINGREQ. *)
after_ping_StaysReset == IF socket = "open" THEN "reset" ELSE "off"

after_ping == IF socket = "open" THEN "waiting" ELSE "off"

SendPing ==
    /\ frame = <<>>
    /\ \/ sendPinger = "waiting" /\ give_up
       \/ /\ sendPinger = "reset" /\ ping
          /\ sendPinger' = after_ping /\ UNCHANGED receivePinger
    /\ UNCHANGED <<zombie, session, numbers, callbacks, calls, sent, requests,
                   frame>>

ReceivePing ==
    /\ frame = <<>>
    /\ \/ receivePinger = "waiting" /\ give_up
       \/ /\ receivePinger = "reset" /\ ping
          /\ receivePinger' = after_ping /\ UNCHANGED sendPinger
    /\ UNCHANGED <<zombie, session, numbers, callbacks, calls, sent, requests,
                   frame>>

(***************************************************************************)
(* A pinger that no variable of the client refers to any more: nothing     *)
(* resets or cancels it.                                                   *)
(***************************************************************************)
ZombiePing ==
    /\ frame = <<>>
    /\ \/ zombie = "waiting" /\ give_up /\ zombie' = "off"
       \/ /\ zombie = "reset" /\ ping
          /\ zombie' = after_ping /\ UNCHANGED <<sendPinger, receivePinger>>
    /\ UNCHANGED <<session, numbers, callbacks, calls, sent, requests, frame>>

(* Mutant: only the first packet of a WebSocket message is taken up. *)
on_socket_message_FirstOnly ==
    /\ frame = <<>>
    /\ socket = "open"
    /\ \E n \in 1..FrameSize :
          /\ n <= Len(to_client)
          /\ frame' = SubSeq(to_client, 1, 1)
          /\ to_client' = SubSeq(to_client, n + 1, Len(to_client))
    /\ receivePinger' = reset
    /\ UNCHANGED <<connection, sendPinger, zombie, msg_queue, session, numbers,
                   callbacks, page, link, to_server>>

(***************************************************************************)
(* _on_socket_message: the packets of one WebSocket message are taken up.  *)
(***************************************************************************)
on_socket_message ==
    /\ frame = <<>>
    /\ socket = "open"
    /\ \E n \in 1..FrameSize :
          /\ n <= Len(to_client)
          /\ frame' = SubSeq(to_client, 1, n)
          /\ to_client' = SubSeq(to_client, n + 1, Len(to_client))
    /\ receivePinger' = reset
    /\ UNCHANGED <<connection, sendPinger, zombie, msg_queue, session, numbers,
                   callbacks, page, link, to_server>>

-----------------------------------------------------------------------------
(***************************************************************************)
(* _handleMessage, one operator per kind of packet.  `rest' is what is     *)
(* left of the WebSocket message: it is handled even if the packet before  *)
(* it ended the connection.                                                *)
(***************************************************************************)
packet == Head(frame)
rest   == Tail(frame)

(***************************************************************************)
(* CONNACK: a clean session forgets the messages in flight, whatever the   *)
(* return code is.                                                         *)
(***************************************************************************)
kept == IF CleanSession THEN NoEntries ELSE sentMessages

(* Mutant: the copies of the messages in flight stay in localStorage. *)
clean_session_KeepsSent ==
    IF CleanSession
    THEN /\ receivedMessages' = {}
         /\ localStorage' = [localStorage EXCEPT !.Received = @ \ receivedMessages]
    ELSE UNCHANGED <<receivedMessages, localStorage>>

clean_session ==
    IF CleanSession
    THEN /\ receivedMessages' = {}
         /\ localStorage' = [Sent |-> [id \in DOMAIN localStorage.Sent \
                                         DOMAIN sentMessages |->
                                           localStorage.Sent[id]],
                             Received |-> localStorage.Received \ receivedMessages]
    ELSE UNCHANGED <<receivedMessages, localStorage>>

handle_CONNACK_refused ==
    /\ packet.type = "CONNACK" /\ packet.what = "refused"
    /\ sentMessages' = kept
    /\ clean_session
    /\ give_up
    /\ frame' = rest
    /\ UNCHANGED <<zombie, numbers, callbacks, calls, sent, requests>>

(* Mutant: the messages are not sorted before they are sent again. *)
ResendOrders_Unsorted == SetToSeqs(DOMAIN kept)

(* Mutant: nothing is sent again. *)
ResendOrders_None == {<<>>}

(***************************************************************************)
(* What is sent again, in the order of the sequence numbers.  A request    *)
(* has none, and with one in the list the comparison is no order at all.   *)
(***************************************************************************)
ResendOrders ==
    {order \in SetToSeqs(DOMAIN kept) :
        (\A id \in DOMAIN kept : kept[id].item \in Message) =>
            \A i, j \in DOMAIN order :
                i < j => kept[order[i]].sequence <= kept[order[j]].sequence}

(* Mutant: a message the server has acknowledged is published again. *)
resend_Publishes(id) == Packet(TypeOf(kept[id].item), Wire(id), kept[id].item)

resend(id) ==
    Packet(IF kept[id].pubRecReceived THEN "PUBREL" ELSE TypeOf(kept[id].item),
           Wire(id), kept[id].item)

(***************************************************************************)
(* The subscription made by onSuccess: the first that was not made yet.    *)
(***************************************************************************)
first_subscription ==
    IF SubscribeFirst /\ Subscription \ requested # {}
    THEN {CHOOSE s \in Subscription : s \notin requested}
    ELSE {}

onSuccess(greeting) ==
    /\ requested' = requested \cup greeting
    /\ timers' = timers \cup (greeting \cap Timed)
    /\ IF greeting = {} THEN sentMessages' = kept /\ UNCHANGED numbers
       ELSE \E s \in greeting : requires_ack(kept, s)

greetings(greeting) ==
    {Packet("SUBSCRIBE", Wire(FreeId(kept)), s) : s \in greeting}

(***************************************************************************)
(* Return code 0: the client is connected, sends again what is in flight,  *)
(* runs onSuccess and sends what was queued before.                        *)
(***************************************************************************)
handle_CONNACK_accepted ==
    /\ packet.type = "CONNACK" /\ packet.what = "accepted"
    /\ DISCONNECT \notin ToSet(msg_queue)
    /\ clean_session
    /\ socket' = socket /\ connected' = TRUE /\ hostIndex' = Hosts
    /\ connectTimeout' = FALSE
    /\ told' = "onSuccess"
    /\ \E order \in ResendOrders :
          LET out == msg_queue \o [i \in DOMAIN order |-> resend(order[i])]
                       \o SetToSeq(greetings(first_subscription))
          IN  /\ socket_send(out)
              /\ sendPinger' = IF out = <<>> THEN sendPinger ELSE reset
    /\ onSuccess(first_subscription)
    /\ msg_queue' = <<>>
    /\ frame' = rest
    /\ UNCHANGED <<version, receivePinger, zombie, callbacks, calls,
                   sent, link, to_client>>

(***************************************************************************)
(* Return code 0 with a DISCONNECT in the queue: the first packet that is  *)
(* sent runs _disconnected; if another one follows in the queue, sending   *)
(* it without a socket throws.                                             *)
(***************************************************************************)
handle_CONNACK_quits ==
    /\ packet.type = "CONNACK" /\ packet.what = "accepted"
    /\ DISCONNECT \in ToSet(msg_queue)
    /\ clean_session
    /\ socket_send(<<Head(msg_queue)>>)
    /\ disconnected(TRUE, Hosts)
    /\ IF kept = NoEntries
       THEN onSuccess(first_subscription)
       ELSE sentMessages' = kept /\ UNCHANGED <<numbers, requested, timers>>
    /\ frame' = IF Len(msg_queue) = 1 /\ kept = NoEntries /\ first_subscription = {}
                THEN rest ELSE <<EXCEPTION>> \o rest
    /\ UNCHANGED <<zombie, callbacks, calls, sent>>

(***************************************************************************)
(* The catch clause of _handleMessage.                                     *)
(***************************************************************************)
handle_EXCEPTION ==
    /\ packet.type = "EXCEPTION"
    /\ give_up
    /\ frame' = rest
    /\ UNCHANGED <<zombie, session, numbers, callbacks, calls, sent, requests>>

(***************************************************************************)
(* _receivePublish.  onMessageArrived runs at once for QoS 0 and 1; if it  *)
(* throws, the client disconnects.  QoS 2 is stored and acknowledged.      *)
(***************************************************************************)
handle_PUBLISH ==
    LET m == packet.what IN
    /\ packet.type = "PUBLISH"
    /\ IF QoS[m] = 2
       THEN /\ receivedMessages' = receivedMessages \cup {m}
            /\ localStorage' = [localStorage EXCEPT !.Received = @ \cup {m}]
            /\ schedule_message(Packet("PUBREC", packet.id, m))
            /\ UNCHANGED <<connection, receivePinger, told, arrived, link,
                           to_client>>
       ELSE /\ UNCHANGED <<receivedMessages, localStorage>>
            /\ IF m \in Throwing
               THEN /\ disconnected(connected, hostIndex)
                    /\ IF QoS[m] = 1 /\ connected
                       THEN socket_send(<<Packet("PUBACK", packet.id, m)>>)
                       ELSE UNCHANGED to_server
                    /\ UNCHANGED arrived
               ELSE /\ IF QoS[m] = 1
                       THEN schedule_message(Packet("PUBACK", packet.id, m))
                       ELSE UNCHANGED <<to_server, sendPinger, msg_queue>>
                    /\ arrived' = [arrived EXCEPT ![m] = @ + 1]
                    /\ UNCHANGED <<connection, receivePinger, told, link,
                                   to_client>>
    /\ frame' = rest
    /\ UNCHANGED <<zombie, sentMessages, numbers, delivered, answers, calls,
                   sent, requests>>

(***************************************************************************)
(* PUBREL: the stored message is released.  The copy in localStorage goes  *)
(* first, the entry after the callback, the acknowledgement last.          *)
(***************************************************************************)
handle_PUBREL ==
    LET m == packet.what IN
    /\ packet.type = "PUBREL"
    /\ localStorage' = [localStorage EXCEPT !.Received = @ \ {m}]
    /\ IF m \in receivedMessages /\ m \in Throwing
       THEN give_up /\ UNCHANGED <<receivedMessages, arrived>>
       ELSE /\ arrived' = IF m \in receivedMessages
                          THEN [arrived EXCEPT ![m] = @ + 1] ELSE arrived
            /\ receivedMessages' = receivedMessages \ {m}
            /\ schedule_message(Packet("PUBCOMP", packet.id, m))
            /\ UNCHANGED <<connection, receivePinger, told, link, to_client>>
    /\ frame' = rest
    /\ UNCHANGED <<zombie, sentMessages, numbers, delivered, answers, calls,
                   sent, requests>>

(***************************************************************************)
(* PUBACK ends a QoS 1 message, PUBCOMP a QoS 2 message: the entry and its *)
(* copy go, and the page is told.  A PUBACK nobody waits for is ignored; a *)
(* PUBCOMP nobody waits for throws when the page is to be told.  Neither   *)
(* looks whether the entry it ends is a request: then onMessageDelivered   *)
(* is called with no message.                                              *)
(***************************************************************************)
in_flight(id) == id \in DOMAIN sentMessages

(* Mutant: the copy of the message stays in localStorage. *)
forget_KeepsCopy(id) ==
    /\ sentMessages' = Without(sentMessages, id)
    /\ localStorage' = localStorage

forget(id) ==
    /\ sentMessages' = Without(sentMessages, id)
    /\ localStorage' = remove_sent(id)

message_delivered(id) ==
    delivered' = [m \in Message |->
                     delivered[m] + IF m = sentMessages[id].item THEN 1 ELSE 0]

quiet_handler ==
    /\ frame' = rest
    /\ UNCHANGED <<connection, pingers, msg_queue, receivedMessages, numbers,
                   arrived, told, calls, sent, requested, network>>

handle_PUBACK ==
    /\ packet.type = "PUBACK"
    /\ IF in_flight(packet.id)
       THEN forget(packet.id) /\ message_delivered(packet.id)
       ELSE UNCHANGED <<sentMessages, localStorage, delivered>>
    /\ quiet_handler
    /\ UNCHANGED <<timers, answers>>

handle_PUBCOMP ==
    /\ packet.type = "PUBCOMP"
    /\ \/ /\ in_flight(packet.id)
          /\ forget(packet.id) /\ message_delivered(packet.id)
          /\ quiet_handler
       \/ /\ ~in_flight(packet.id)
          /\ localStorage' = remove_sent(packet.id)
          /\ give_up
          /\ frame' = rest
          /\ UNCHANGED <<zombie, sentMessages, receivedMessages, numbers,
                         delivered, arrived, calls, sent, requested>>
    /\ UNCHANGED <<timers, answers>>

(***************************************************************************)
(* PUBREC: the message is marked, stored again, and released.  (For an     *)
(* identifier of a request, which no server uses so, store would throw.)   *)
(***************************************************************************)
handle_PUBREC ==
    LET id == packet.id
        marked == [sentMessages[id] EXCEPT !.pubRecReceived = TRUE]
    IN
    /\ packet.type = "PUBREC"
    /\ IF in_flight(id)
       THEN /\ sentMessages' = [sentMessages EXCEPT ![id] = marked]
            /\ localStorage' = store_sent(id, marked)
            /\ schedule_message(Packet("PUBREL", id, marked.item))
       ELSE UNCHANGED <<sentMessages, localStorage, msg_queue, to_server,
                        sendPinger>>
    /\ frame' = rest
    /\ UNCHANGED <<connection, receivePinger, zombie, receivedMessages,
                   numbers, callbacks, page, link, to_client>>

(* Mutant: the timeout of a request that is answered goes on. *)
handle_request_ack_KeepsTimer ==
    /\ packet.type \in {"SUBACK", "UNSUBACK"}
    /\ IF in_flight(packet.id)
       THEN LET r == sentMessages[packet.id].item IN
            /\ sentMessages' = Without(sentMessages, packet.id)
            /\ timers' = timers
            /\ answers' = IF packet.what = "refused"
                          THEN [answers EXCEPT ![r].onFailure = @ + 1]
                          ELSE [answers EXCEPT ![r].onSuccess = @ + 1]
       ELSE UNCHANGED <<sentMessages, timers, answers>>
    /\ quiet_handler
    /\ UNCHANGED <<localStorage, delivered>>

(***************************************************************************)
(* SUBACK and UNSUBACK: the timer is stopped, the page is told, the entry  *)
(* goes.  Nothing of a request is in localStorage.                         *)
(***************************************************************************)
handle_request_ack ==
    /\ packet.type \in {"SUBACK", "UNSUBACK"}
    /\ IF in_flight(packet.id)
       THEN LET r == sentMessages[packet.id].item IN
            /\ sentMessages' = Without(sentMessages, packet.id)
            /\ timers' = timers \ {r}
            /\ answers' = IF packet.what = "refused"
                          THEN [answers EXCEPT ![r].onFailure = @ + 1]
                          ELSE [answers EXCEPT ![r].onSuccess = @ + 1]
       ELSE UNCHANGED <<sentMessages, timers, answers>>
    /\ quiet_handler
    /\ UNCHANGED <<localStorage, delivered>>

(* Mutant: an answered PINGREQ does not reset the pinger that sent it. *)
handle_PINGRESP_NoReset ==
    /\ packet.type = "PINGRESP"
    /\ frame' = rest
    /\ UNCHANGED <<connection, pingers, msg_queue, session, numbers, callbacks,
                   page, network>>

(***************************************************************************)
(* PINGRESP resets the send pinger; the receive pinger was reset when the  *)
(* WebSocket message arrived.                                              *)
(***************************************************************************)
handle_PINGRESP ==
    /\ packet.type = "PINGRESP"
    /\ sendPinger' = reset
    /\ frame' = rest
    /\ UNCHANGED <<connection, receivePinger, zombie, msg_queue, session,
                   numbers, callbacks, page, network>>

HandleMessage ==
    /\ frame # <<>>
    /\ \/ handle_CONNACK_refused \/ handle_CONNACK_accepted
       \/ handle_CONNACK_quits \/ handle_EXCEPTION
       \/ handle_PUBLISH \/ handle_PUBACK \/ handle_PUBREC \/ handle_PUBREL
       \/ handle_PUBCOMP \/ handle_request_ack \/ handle_PINGRESP

(***************************************************************************)
(* The page is loaded again: ClientImpl is constructed anew and restores   *)
(* what localStorage holds; everything else of the page is gone.           *)
(***************************************************************************)
Reload ==
    /\ frame = <<>>
    /\ sentMessages' = localStorage.Sent
    /\ receivedMessages' = localStorage.Received
    /\ message_identifier' = 1 /\ sequence' = 0
    /\ socket' = "none" /\ connected' = FALSE
    /\ version' = 0 /\ hostIndex' = 0
    /\ connectTimeout' = FALSE
    /\ sendPinger' = "off" /\ receivePinger' = "off" /\ zombie' = "off"
    /\ msg_queue' = <<>>
    /\ told' = "nothing" /\ timers' = {}
    /\ link' = FALSE /\ to_client' = <<>>
    /\ UNCHANGED <<localStorage, callbacks, calls, sent, requested, frame,
                   to_server>>
=============================================================================
