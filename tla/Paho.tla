-------------------------------- MODULE Paho --------------------------------
(***************************************************************************)
(* The MQTT client of the web application with what surrounds it: the page *)
(* that calls it, the network, and an MQTT server that keeps its half of   *)
(* the session.  The server is external code, modelled from what the       *)
(* client expects of it: packets are answered in order, a QoS 2 identifier *)
(* is remembered until it is released, and what was not acknowledged is    *)
(* sent again on the next connection.                                      *)
(*                                                                         *)
(* Things go wrong on purpose: connections break or are refused, connect   *)
(* attempts take too long, the page is loaded again, the page disconnects. *)
(***************************************************************************)
EXTENDS PahoClient

CONSTANTS
    MaxFaults,   \* bound on broken, refused and late connections
    MaxReloads,  \* bound on the reloads of the page
    MaxQuits,    \* bound on disconnect() calls
    EarlyQuit,   \* the page may call disconnect() before it is connected
    MaxCalls     \* bound on connect() calls

ASSUME PahoAssumption ==
    /\ {MaxFaults, MaxReloads, MaxQuits, MaxCalls} \subseteq Nat
    /\ EarlyQuit \in BOOLEAN

VARIABLES
    online,    \* the server serves the connection it accepted last
    incoming,  \* identifiers of QoS 2 messages not yet released by the client
    outgoing,  \* progress of each message for the client
    got,       \* messages the server passed on to its subscribers, in order
    faults, reloads, quits   \* how much of each bound is used

client == <<connection, pingers, msg_queue, session, numbers, callbacks, page,
            frame>>
server == <<online, incoming, outgoing, got>>
bounds == <<faults, reloads, quits>>
vars   == <<client, network, server, bounds>>

Init ==
    /\ ClientInit
    /\ link = FALSE /\ to_server = <<>> /\ to_client = <<>>
    /\ online = FALSE /\ incoming = {} /\ got = <<>>
    /\ outgoing = [m \in Arriving |-> "new"]
    /\ faults = 0 /\ reloads = 0 /\ quits = 0

-----------------------------------------------------------------------------
(***************************************************************************)
(* The client's callbacks and the calls of the page.                       *)
(***************************************************************************)
Fault   == faults < MaxFaults /\ faults' = faults + 1 /\ UNCHANGED <<reloads, quits>>
NoFault == UNCHANGED bounds

(***************************************************************************)
(* A pinger's timer runs for keepAliveInterval: on a connection that works *)
(* whatever was sent before has been answered by then.                     *)
(***************************************************************************)
Answered == link => to_server = <<>> /\ to_client = <<>>

PageConnects    == calls < MaxCalls /\ Connect /\ NoFault
PageSends       == (\E m \in Message : Send(m)) /\ NoFault
PageAsks        == /\ (\E r \in Subscription \cup Unsubscription :
                         subscribe(r) \/ unsubscribe(r))
                   /\ NoFault
PageDisconnects == /\ quits < MaxQuits /\ quits' = quits + 1
                   /\ connected \/ EarlyQuit
                   /\ Disconnect
                   /\ UNCHANGED <<faults, reloads>>
PageReloads     == /\ reloads < MaxReloads /\ reloads' = reloads + 1
                   /\ Reload
                   /\ UNCHANGED <<faults, quits>>
RequestsTimeOut == (\E r \in timers : RequestTimeout(r)) /\ NoFault

Opens    == on_socket_open /\ NoFault
Closes   == /\ on_socket_close
            /\ IF socket = "connecting" THEN Fault ELSE NoFault
TakesTooLong == /\ ConnectTimeout
                /\ IF socket = "open" /\ ~link THEN NoFault ELSE Fault
Pings    == Answered /\ (SendPing \/ ReceivePing \/ ZombiePing) /\ NoFault
Receives == on_socket_message /\ NoFault
Handles  == HandleMessage /\ NoFault

(***************************************************************************)
(* A step of the page, in which the server takes no part.                  *)
(***************************************************************************)
InPage(A) == A /\ UNCHANGED server

ClientNext ==
    InPage(\/ PageConnects \/ PageSends \/ PageAsks \/ PageDisconnects
           \/ PageReloads \/ RequestsTimeOut \/ Opens \/ Closes
           \/ TakesTooLong \/ Pings \/ Receives \/ Handles)

-----------------------------------------------------------------------------
(***************************************************************************)
(* The server takes the packets in order.  Those of a former connection    *)
(* may still be on their way when a new one starts; nothing is answered to *)
(* them any more.                                                          *)
(***************************************************************************)
Arrival == Head(to_server)
IsCONNECT(p) == p.type = "CONNECT"
Reachable == link /\ ~\E i \in 2..Len(to_server) : IsCONNECT(to_server[i])

Reply(packets) ==
    /\ to_server' = Tail(to_server)
    /\ to_client' = IF Reachable THEN to_client \o packets ELSE to_client
    /\ UNCHANGED <<link, client>>

(***************************************************************************)
(* A new connection is accepted, and what the session still owes the       *)
(* client is sent again; or it is refused.                                 *)
(***************************************************************************)
ServerId == 0   \* the server's identifiers: `what' tells its messages apart

Owed(progress) ==
    LET m == SetToSeq({x \in Arriving : progress[x] \in {"pub", "rel"}})
    IN  [i \in DOMAIN m |->
            Packet(IF progress[m[i]] = "pub" THEN "PUBLISH" ELSE "PUBREL",
                   ServerId, m[i])]

ServerConnect ==
    LET session_starts ==
          IF CleanSession
          THEN [m \in Arriving |-> IF outgoing[m] = "new" THEN "new" ELSE "done"]
          ELSE outgoing
    IN
    /\ IsCONNECT(Arrival)
    /\ outgoing' = session_starts
    /\ incoming' = IF CleanSession THEN {} ELSE incoming
    /\ \/ /\ online' = TRUE
          /\ Reply(<<Packet("CONNACK", 0, "accepted")>> \o Owed(session_starts))
          /\ NoFault
       \/ /\ online' = FALSE
          /\ Reply(<<Packet("CONNACK", 0, "refused")>>)
          /\ Fault
    /\ UNCHANGED got

Step(m, from, to) ==
    outgoing' = [outgoing EXCEPT ![m] = IF @ = from THEN to ELSE @]

ServerServes ==
    LET id == Arrival.id
        m == Arrival.what
        new == ~(QoS[m] = 2 /\ id \in incoming)
    IN
    /\ online
    /\ \/ /\ Arrival.type = "PUBLISH"
          /\ got' = IF new THEN Append(got, m) ELSE got
          /\ incoming' = IF QoS[m] = 2 THEN incoming \cup {id} ELSE incoming
          /\ Reply(CASE QoS[m] = 0 -> <<>>
                     [] QoS[m] = 1 -> <<Packet("PUBACK", id, m)>>
                     [] OTHER      -> <<Packet("PUBREC", id, m)>>)
          /\ UNCHANGED outgoing
       \/ /\ Arrival.type = "PUBREL"
          /\ incoming' = incoming \ {id}
          /\ Reply(<<Packet("PUBCOMP", id, m)>>)
          /\ UNCHANGED <<outgoing, got>>
       \/ /\ Arrival.type \in {"PUBACK", "PUBCOMP"}
          /\ Step(m, IF QoS[m] = 1 THEN "pub" ELSE "rel", "done")
          /\ Reply(<<>>)
          /\ UNCHANGED <<incoming, got>>
       \/ /\ Arrival.type = "PUBREC"
          /\ Step(m, "pub", "rel")
          /\ Reply(IF outgoing[m] # "done" THEN <<Packet("PUBREL", ServerId, m)>> ELSE <<>>)
          /\ UNCHANGED <<incoming, got>>
       \/ /\ Arrival.type = "SUBSCRIBE"
          /\ \E verdict \in {"granted", "refused"} :
                Reply(<<Packet("SUBACK", id, verdict)>>)
          /\ UNCHANGED <<incoming, outgoing, got>>
       \/ /\ Arrival.type = "UNSUBSCRIBE"
          /\ Reply(<<Packet("UNSUBACK", id, NoItem)>>)
          /\ UNCHANGED <<incoming, outgoing, got>>
       \/ /\ Arrival.type = "PINGREQ"
          /\ Reply(<<Packet("PINGRESP", 0, NoItem)>>)
          /\ UNCHANGED <<incoming, outgoing, got>>
    /\ UNCHANGED online
    /\ NoFault

(***************************************************************************)
(* DISCONNECT, and packets the server does not serve.                      *)
(***************************************************************************)
ServerIgnores ==
    /\ Arrival.type = "DISCONNECT" \/ (~online /\ ~IsCONNECT(Arrival))
    /\ online' = FALSE
    /\ Reply(<<>>)
    /\ UNCHANGED <<incoming, outgoing, got>>
    /\ NoFault

ServerReceives ==
    to_server # <<>> /\ (ServerConnect \/ ServerServes \/ ServerIgnores)

(***************************************************************************)
(* A new connection replaces the old one, whose packets are dropped.       *)
(***************************************************************************)
ServerDrops ==
    \E i \in 2..Len(to_server) :
        /\ IsCONNECT(to_server[i])
        /\ to_server' = SubSeq(to_server, i, Len(to_server))
        /\ online' = FALSE
        /\ UNCHANGED <<client, link, to_client, incoming, outgoing, got>>
        /\ NoFault

(***************************************************************************)
(* A message for the client: kept for the next connection if the session   *)
(* outlives this one, lost otherwise.                                      *)
(***************************************************************************)
ServerPublishes(m) ==
    LET now == link /\ online /\ ~\E i \in DOMAIN to_server : IsCONNECT(to_server[i])
        keeps == QoS[m] > 0 /\ (now \/ ~CleanSession)
    IN
    /\ outgoing[m] = "new"
    /\ outgoing' = [outgoing EXCEPT ![m] = IF keeps THEN "pub" ELSE "done"]
    /\ to_client' = IF now THEN Append(to_client, Packet("PUBLISH", ServerId, m))
                    ELSE to_client
    /\ UNCHANGED <<client, link, to_server, online, incoming, got>>
    /\ NoFault

(***************************************************************************)
(* The connection breaks: what travels to the client is lost, of what      *)
(* travels to the server a part may still arrive.                          *)
(***************************************************************************)
Break ==
    /\ link
    /\ link' = FALSE
    /\ to_client' = <<>>
    /\ UNCHANGED <<client, to_server, server>>
    /\ Fault

Next ==
    \/ ClientNext
    \/ ServerReceives \/ ServerDrops
    \/ \E m \in Arriving : ServerPublishes(m)
    \/ Break

Spec == Init /\ [][Next]_vars

(***************************************************************************)
(* Fairness: the browser runs the callbacks that are due, timers included; *)
(* the server reads what arrives.  Nobody promises that the browser sees   *)
(* at once that a connection is dead (Closes), so the pingers have to find *)
(* out; and nothing is promised of the page.                               *)
(***************************************************************************)
Fairness ==
    /\ WF_vars(InPage(Handles)) /\ WF_vars(InPage(Receives))
    /\ WF_vars(InPage(Opens)) /\ WF_vars(InPage(TakesTooLong))
    /\ WF_vars(InPage(Pings))
    /\ WF_vars(ServerReceives)

(***************************************************************************)
(* A page that connects again whenever it can.                             *)
(***************************************************************************)
FairSpec == Spec /\ Fairness /\ WF_vars(InPage(PageConnects))

-----------------------------------------------------------------------------
Entry(e) ==
    /\ DOMAIN e = {"item", "sequence", "pubRecReceived"}
    /\ e.item \in Item /\ e.sequence \in Nat /\ e.pubRecReceived \in BOOLEAN

Table(t) == DOMAIN t \subseteq Nat \ {0} /\ \A id \in DOMAIN t : Entry(t[id])

PacketOK(p) == DOMAIN p = {"type", "id", "what"}

(***************************************************************************)
(* Type correctness, and what holds of the client between any two steps of *)
(* a page whose callbacks do not throw: a connected client has an open     *)
(* socket, an empty queue and no timeout.                                  *)
(***************************************************************************)
TypeOK ==
    /\ socket \in {"none", "connecting", "open"}
    /\ {connected, connectTimeout, link, online} \subseteq BOOLEAN
    /\ version \in {0, 3, 4} /\ hostIndex \in 0..Hosts
    /\ {sendPinger, receivePinger, zombie} \subseteq PingerState
    /\ \A q \in {msg_queue, frame, to_server, to_client} :
           \A i \in DOMAIN q : PacketOK(q[i])
    /\ Table(sentMessages) /\ Table(localStorage.Sent)
    /\ receivedMessages \subseteq Arriving
    /\ localStorage.Received \subseteq Arriving
    /\ message_identifier \in Nat \ {0} /\ sequence \in Nat
    /\ told \in {"nothing", "onSuccess", "onFailure", "onConnectionLost"}
    /\ ToSet(sent) \subseteq Message /\ ToSet(got) \subseteq Message
    /\ timers \subseteq requested
    /\ outgoing \in [Arriving -> {"new", "pub", "rel", "done"}]
    /\ connected => socket = "open" /\ msg_queue = <<>> /\ ~connectTimeout

(***************************************************************************)
(* What a reload needs is always in localStorage: exactly the messages in  *)
(* flight, with the stage they have reached, in both directions.           *)
(***************************************************************************)
StorageMirrors ==
    /\ localStorage.Sent =
          [id \in {i \in DOMAIN sentMessages : sentMessages[i].item \in Message} |->
              sentMessages[id]]
    /\ localStorage.Received = receivedMessages

(***************************************************************************)
(* "2 Exactly once" of send(), at most: whatever breaks or is loaded       *)
(* again, nobody gets a QoS 2 message twice, in either direction.          *)
(***************************************************************************)
Count(m) == Cardinality({i \in DOMAIN got : got[i] = m})

AtMostOnce ==
    /\ \A m \in Message : QoS[m] = 2 => Count(m) <= 1
    /\ \A m \in Arriving : QoS[m] = 2 => arrived[m] <= 1

(***************************************************************************)
(* And at least once: a message accepted by send() is either reported      *)
(* delivered, once and not before the server has it, or still kept for the *)
(* next connection; a message the server was told is safe has reached the  *)
(* page or is kept.                                                        *)
(***************************************************************************)
Pending(m) == \E id \in DOMAIN localStorage.Sent : localStorage.Sent[id].item = m

NothingLost ==
    /\ \A m \in ToSet(sent) : QoS[m] > 0 =>
          \/ delivered[m] = 1 /\ m \in ToSet(got) /\ ~Pending(m)
          \/ delivered[m] = 0 /\ Pending(m)
    /\ \A m \in Arriving : QoS[m] = 2 =>
          /\ outgoing[m] = "rel" => (arrived[m] = 1) # (m \in receivedMessages)
          /\ outgoing[m] = "done" => arrived[m] = 1

(***************************************************************************)
(* "Sort sentMessages into the original sent order": until the page is     *)
(* loaded again, no message that is acknowledged reaches the server before *)
(* one that was sent earlier.                                              *)
(***************************************************************************)
InSentOrder ==
    reloads = 0 =>
        \A i, j \in DOMAIN sent :
            (i < j /\ QoS[sent[i]] > 0 /\ QoS[sent[j]] > 0 /\ sent[j] \in ToSet(got))
                => sent[i] \in ToSet(got)

(***************************************************************************)
(* What the code does for a subscribe() or unsubscribe(): a request that   *)
(* was reported does not time out any more; success is reported once; a    *)
(* request without timeout is reported once in all.  With a timeout, an    *)
(* answer that comes later is reported as well.                            *)
(***************************************************************************)
RequestsReported ==
    \A r \in Subscription \cup Unsubscription :
        LET reports == answers[r].onSuccess + answers[r].onFailure
        IN  /\ r \in timers => reports = 0
            /\ answers[r].onSuccess <= 1
            /\ reports <= IF r \in Timed THEN 2 ELSE 1

(***************************************************************************)
(* "Such callbacks are called at most once per method invocation" (the     *)
(* documentation of Client).  The code does not keep that of onFailure: it *)
(* is called for the timeout of a subscribe() and again for a SUBACK that  *)
(* refuses it later.                                                       *)
(***************************************************************************)
AnsweredOnce ==
    \A r \in Subscription \cup Unsubscription :
        answers[r].onSuccess <= 1 /\ answers[r].onFailure <= 1

(***************************************************************************)
(* The pingers the client refers to never give up a connection that works. *)
(* One that a later connect() has replaced while its timer was running     *)
(* does: no PINGRESP resets it.                                            *)
(***************************************************************************)
NoFalseAlarm == [][InPage(Pings) /\ link /\ ~link' =>
                         zombie = "waiting" /\ zombie' = "off"]_vars

(***************************************************************************)
(* The client as its documentation describes it to the page.               *)
(***************************************************************************)
phase == IF connected THEN "connected"
         ELSE IF socket = "none" THEN "closed" ELSE "connecting"

Link == INSTANCE MqttLink
LinkImplemented == Link!LinkSpec

(***************************************************************************)
(* With a keep alive interval, a dead connection is noticed although the   *)
(* browser does not report it.                                             *)
(***************************************************************************)
DeadLinkNoticed == (connected /\ ~link) ~> ~connected

(***************************************************************************)
(* If the page connects again whenever it can, what send() accepted is     *)
(* delivered, and what the server holds for the client arrives.            *)
(***************************************************************************)
AllDelivered ==
    \A m \in Message : (QoS[m] > 0 /\ m \in ToSet(sent)) ~> delivered[m] > 0

AllArrive ==
    \A m \in Arriving : (QoS[m] > 0 /\ outgoing[m] = "pub") ~> arrived[m] > 0
=============================================================================
