----------------------------- MODULE MqttBroker -----------------------------
(***************************************************************************)
(* The MQTT broker and the TCP connection between it and one device, as    *)
(* the firmware and the web application use them (QoS 0, clean sessions,   *)
(* one retained message per topic).  Two topics matter to a device:        *)
(*                                                                         *)
(*   in/<id>   requests, published retained by the controllers and erased  *)
(*             by the device with an empty retained message;               *)
(*   out/<id>  replies of the device.                                      *)
(*                                                                         *)
(* A request is named by its position in `requests', the history of what   *)
(* was published on in/<id>; position 0 stands for the empty message.      *)
(* Packets travel in order, and a connection that ends loses a suffix of   *)
(* what was travelling.                                                    *)
(***************************************************************************)
EXTENDS Naturals, Sequences

CONSTANTS
    Request,      \* what the controllers publish: [dst, cmd, value]
    MaxRequests   \* bound on the number of requests published

ASSUME RequestAssumption ==
    /\ Request \subseteq [dst : STRING, cmd : STRING, value : STRING]
    /\ MaxRequests \in Nat

VARIABLES
    requests,      \* history of the requests published on in/<id>
    retained_in,   \* the retained message of in/<id> (0: none)
    retained_out,  \* the retained reply of out/<id>
    connected,     \* the device's socket is open
    subscribed,    \* the broker forwards in/<id> to that socket
    to_broker,     \* packets travelling from the device to the broker
    to_device      \* packets travelling from the broker to the device

broker_vars == <<requests, retained_in, retained_out, connected, subscribed,
                 to_broker, to_device>>

(***************************************************************************)
(* What a reply says: the command it answers and a state.                  *)
(***************************************************************************)
ReplyCmd == {"", "GET_STATUS", "SET_STATUS", "UPDATE", "GET_INFO"}
ReplyState == {"", "ON", "OFF", "TRANSITION", "OTA"} \cup {r.value : r \in Request}

Uplink == [type : {"SUBSCRIBE", "CLEAR", "REPLY"},
           cmd : ReplyCmd, state : ReplyState, retain : BOOLEAN]

Downlink == [type : {"SUBACK", "PUBLISH"}, req : Nat]

SUBSCRIBE == [type |-> "SUBSCRIBE", cmd |-> "", state |-> "", retain |-> FALSE]
CLEAR     == [type |-> "CLEAR", cmd |-> "", state |-> "", retain |-> TRUE]
REPLY(cmd, state, retain) ==
    [type |-> "REPLY", cmd |-> cmd, state |-> state, retain |-> retain]

SUBACK     == [type |-> "SUBACK", req |-> 0]
PUBLISH(n) == [type |-> "PUBLISH", req |-> n]

NoReply == [cmd |-> "", state |-> ""]

BrokerInit ==
    /\ requests = <<>>
    /\ retained_in = 0
    /\ retained_out = NoReply
    /\ connected = FALSE
    /\ subscribed = FALSE
    /\ to_broker = <<>>
    /\ to_device = <<>>

(***************************************************************************)
(* What the broker sends to the device's subscription, if there is one.    *)
(***************************************************************************)
Forward(n) == IF subscribed THEN Append(to_device, PUBLISH(n)) ELSE to_device

(* Mutant: only SET_STATUS requests are published retained. *)
Publish_SetRetained(r) ==
    /\ Len(requests) < MaxRequests
    /\ requests' = Append(requests, r)
    /\ retained_in' = IF r.cmd = "SET_STATUS" THEN Len(requests) + 1 ELSE retained_in
    /\ to_device' = Forward(Len(requests) + 1)
    /\ UNCHANGED <<retained_out, connected, subscribed, to_broker>>

(***************************************************************************)
(* A controller's retained request reaches the broker.                     *)
(***************************************************************************)
Publish(r) ==
    /\ Len(requests) < MaxRequests
    /\ requests' = Append(requests, r)
    /\ retained_in' = Len(requests) + 1
    /\ to_device' = Forward(Len(requests) + 1)
    /\ UNCHANGED <<retained_out, connected, subscribed, to_broker>>

(***************************************************************************)
(* The broker takes the device's next packet.  MQTT 3.1.1 lets it send the *)
(* retained message before or after the SUBACK.  A SUBSCRIBE of a          *)
(* connection that is gone starts nothing.                                 *)
(***************************************************************************)
WithRetained(s) == IF retained_in = 0 THEN s ELSE Append(s, PUBLISH(retained_in))

AcceptSubscribe ==
    /\ to_broker # <<>> /\ Head(to_broker).type = "SUBSCRIBE"
    /\ to_broker' = Tail(to_broker)
    /\ subscribed' = connected
    /\ \/ ~connected /\ UNCHANGED to_device
       \/ connected /\ to_device' = WithRetained(Append(to_device, SUBACK))
       \/ connected /\ to_device' = Append(WithRetained(to_device), SUBACK)
    /\ UNCHANGED <<requests, retained_in, retained_out, connected>>

AcceptClear ==
    /\ to_broker # <<>> /\ Head(to_broker).type = "CLEAR"
    /\ to_broker' = Tail(to_broker)
    /\ retained_in' = 0
    /\ to_device' = Forward(0)
    /\ UNCHANGED <<requests, retained_out, connected, subscribed>>

AcceptReply ==
    /\ to_broker # <<>> /\ Head(to_broker).type = "REPLY"
    /\ to_broker' = Tail(to_broker)
    /\ retained_out' = IF Head(to_broker).retain
                       THEN [cmd |-> Head(to_broker).cmd,
                             state |-> Head(to_broker).state]
                       ELSE retained_out
    /\ UNCHANGED <<requests, retained_in, connected, subscribed, to_device>>

Broker == AcceptSubscribe \/ AcceptClear \/ AcceptReply

(***************************************************************************)
(* The operations of a socket.  Opening one makes the broker drop the      *)
(* previous session of the same client and what was left of it.  When a    *)
(* device goes away without closing its socket, a prefix of what it sent   *)
(* still arrives; a connection that breaks loses everything.               *)
(***************************************************************************)
Open(packet) ==
    /\ connected' = TRUE
    /\ subscribed' = FALSE
    /\ to_broker' = <<packet>>
    /\ to_device' = <<>>
    /\ UNCHANGED <<requests, retained_in, retained_out>>

Send(packet) ==
    /\ to_broker' = IF connected THEN Append(to_broker, packet) ELSE to_broker
    /\ UNCHANGED <<requests, retained_in, retained_out, connected, subscribed>>

Abandon ==
    /\ connected' = FALSE
    /\ subscribed' = FALSE
    /\ \E sent \in 0 .. Len(to_broker) : to_broker' = SubSeq(to_broker, 1, sent)
    /\ to_device' = <<>>
    /\ UNCHANGED <<requests, retained_in, retained_out>>

Break ==
    /\ connected' = FALSE
    /\ subscribed' = FALSE
    /\ to_broker' = <<>>
    /\ to_device' = <<>>
    /\ UNCHANGED <<requests, retained_in, retained_out>>

BrokerTypeOK ==
    /\ requests \in Seq(Request)
    /\ retained_in \in Nat
    /\ retained_out \in [cmd : ReplyCmd, state : ReplyState]
    /\ connected \in BOOLEAN
    /\ subscribed \in BOOLEAN
    /\ to_broker \in Seq(Uplink)
    /\ to_device \in Seq(Downlink)
=============================================================================
