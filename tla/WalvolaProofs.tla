--------------------------- MODULE WalvolaProofs ---------------------------
(***************************************************************************)
(* Proofs about Walvola.tla, for every set of requests, role, way to       *)
(* sleep, number of polls and bound.                                       *)
(***************************************************************************)
EXTENDS Walvola, SequenceTheorems, TLAPS

USE RequestAssumption, ConfigurationAssumption

(***************************************************************************)
(* Sequences in publication order: what is appended, and what is left when *)
(* the first message is taken.                                             *)
(***************************************************************************)
LEMMA InOrderAppend ==
    ASSUME NEW s \in Seq(Downlink), NEW low \in Nat, NEW high \in Nat,
           NEW top \in Nat, NEW m \in Downlink,
           InOrder(s, low, high), high <= top, low <= top,
           m.req \in {0, top}
    PROVE  InOrder(Append(s, m), low, top)
<1> DEFINE t == Append(s, m)
<1>1. /\ t \in Seq(Downlink)
      /\ DOMAIN t = 1 .. (Len(s) + 1)
      /\ DOMAIN s = 1 .. Len(s)
      /\ Len(s) \in Nat
      /\ \A i \in 1 .. Len(s) : t[i] = s[i]
      /\ t[Len(s) + 1] = m
  BY AppendProperties, LenProperties
<1>2. \A i \in DOMAIN t : t[i].req \in Nat
  <2>1. \A i \in DOMAIN t : t[i] \in Downlink
    BY <1>1, LenProperties
  <2>. QED BY <2>1 DEF Downlink
<1>3. ASSUME NEW i \in DOMAIN t, t[i].req # 0
      PROVE  /\ low <= t[i].req /\ t[i].req <= top
             /\ \A j \in 1 .. i : t[j].req <= t[i].req
  <2>1. CASE i = Len(s) + 1
    <3>1. t[i].req = top
      BY <1>1, <1>3, <2>1
    <3>2. \A j \in 1 .. Len(s) : t[j].req <= top
      BY <1>1, <1>2 DEF InOrder
    <3>. QED BY <1>1, <2>1, <3>1, <3>2
  <2>2. CASE i \in 1 .. Len(s)
    <3>1. \A j \in 1 .. i : t[j] = s[j]
      BY <1>1, <2>2
    <3>. QED BY <1>1, <1>2, <1>3, <2>2, <3>1 DEF InOrder
  <2>. QED BY <1>1, <2>1, <2>2
<1>. HIDE DEF t
<1>. QED BY <1>3 DEF InOrder, t

LEMMA InOrderTail ==
    ASSUME NEW s \in Seq(Downlink), NEW low \in Nat, NEW high \in Nat,
           s # <<>>, InOrder(s, low, high)
    PROVE  /\ InOrder(Tail(s), low, high)
           /\ Head(s).req # 0 => /\ low <= Head(s).req /\ Head(s).req <= high
                                 /\ InOrder(Tail(s), Head(s).req, high)
<1>1. /\ Tail(s) \in Seq(Downlink)
      /\ Len(s) \in Nat \ {0}
      /\ Head(s) = s[1]
      /\ DOMAIN s = 1 .. Len(s)
      /\ DOMAIN Tail(s) = 1 .. (Len(s) - 1)
      /\ \A i \in 1 .. (Len(s) - 1) : Tail(s)[i] = s[i + 1]
  BY HeadTailProperties, LenProperties, EmptySeq
<1>2. \A i \in DOMAIN s : s[i].req \in Nat
  <2>1. \A i \in DOMAIN s : s[i] \in Downlink
    BY <1>1, LenProperties
  <2>. QED BY <2>1 DEF Downlink
<1>3. ASSUME NEW i \in DOMAIN Tail(s), Tail(s)[i].req # 0
      PROVE  /\ low <= Tail(s)[i].req /\ Tail(s)[i].req <= high
             /\ s[1].req <= Tail(s)[i].req
             /\ \A j \in 1 .. i : Tail(s)[j].req <= Tail(s)[i].req
  <2>1. i + 1 \in DOMAIN s /\ Tail(s)[i] = s[i + 1]
    BY <1>1
  <2>2. /\ low <= s[i + 1].req /\ s[i + 1].req <= high
        /\ \A j \in 1 .. (i + 1) : s[j].req <= s[i + 1].req
    BY <2>1, <1>3 DEF InOrder
  <2>3. \A j \in 1 .. i : Tail(s)[j] = s[j + 1] /\ j + 1 \in 1 .. (i + 1)
    BY <1>1
  <2>. QED BY <1>1, <2>1, <2>2, <2>3
<1>4. s[1].req # 0 => low <= s[1].req /\ s[1].req <= high
  BY <1>1 DEF InOrder
<1>. QED BY <1>1, <1>3, <1>4 DEF InOrder

-----------------------------------------------------------------------------
(* The broker *)

LEMMA PacketTypes ==
    /\ SUBSCRIBE \in Uplink /\ CLEAR \in Uplink
    /\ \A cmd \in ReplyCmd, state \in ReplyState, retain \in BOOLEAN :
          REPLY(cmd, state, retain) \in Uplink
    /\ SUBACK \in Downlink /\ SUBACK.req = 0
    /\ \A n \in Nat : PUBLISH(n) \in Downlink /\ PUBLISH(n).req = n
    /\ NoReply \in [cmd : ReplyCmd, state : ReplyState]
<1>1. SUBSCRIBE \in Uplink /\ CLEAR \in Uplink
  BY DEF SUBSCRIBE, CLEAR, Uplink, ReplyCmd, ReplyState
<1>2. \A cmd \in ReplyCmd, state \in ReplyState, retain \in BOOLEAN :
         REPLY(cmd, state, retain) \in Uplink
  BY DEF REPLY, Uplink
<1>3. SUBACK \in Downlink /\ SUBACK.req = 0
  BY DEF SUBACK, Downlink
<1>4. \A n \in Nat : PUBLISH(n) \in Downlink /\ PUBLISH(n).req = n
  BY DEF PUBLISH, Downlink
<1>5. NoReply \in [cmd : ReplyCmd, state : ReplyState]
  BY DEF NoReply, ReplyCmd, ReplyState
<1>. QED BY <1>1, <1>2, <1>3, <1>4, <1>5

LEMMA SendType ==
    ASSUME BrokerTypeOK, NEW packet \in Uplink, Send(packet)
    PROVE  to_broker' \in Seq(Uplink)
BY AppendProperties DEF BrokerTypeOK, Send

LEMMA AbandonType ==
    ASSUME BrokerTypeOK, Abandon
    PROVE  BrokerTypeOK'
<1>1. PICK sent \in 0 .. Len(to_broker) : to_broker' = SubSeq(to_broker, 1, sent)
  BY DEF Abandon
<1>2. to_broker \in Seq(Uplink) /\ sent <= Len(to_broker)
  BY <1>1, LenProperties DEF BrokerTypeOK
<1>3. \A i \in 1 .. sent : to_broker[i] \in Uplink
  BY <1>2, LenProperties
<1>4. to_broker' \in Seq(Uplink)
  BY <1>1, <1>2, <1>3, LenProperties
<1>. QED BY <1>4, EmptySeq DEF BrokerTypeOK, Abandon

LEMMA PublishType ==
    ASSUME BrokerTypeOK, NEW r \in Request, Publish(r)
    PROVE  BrokerTypeOK'
<1>1. Len(requests) + 1 \in Nat
  BY LenProperties DEF BrokerTypeOK
<1>2. PUBLISH(Len(requests) + 1) \in Downlink
  BY <1>1, PacketTypes
<1>3. requests' \in Seq(Request) /\ to_device' \in Seq(Downlink)
  BY <1>2, AppendProperties DEF BrokerTypeOK, Publish, Forward
<1>. QED BY <1>1, <1>3 DEF BrokerTypeOK, Publish

LEMMA BrokerStepType ==
    ASSUME BrokerTypeOK, Broker
    PROVE  BrokerTypeOK'
<1>1. to_broker # <<>> /\ to_broker' = Tail(to_broker)
  BY DEF Broker, AcceptSubscribe, AcceptClear, AcceptReply
<1>2. Head(to_broker) \in Uplink /\ to_broker' \in Seq(Uplink)
  BY <1>1, HeadTailProperties DEF BrokerTypeOK
<1>3. CASE AcceptSubscribe
  <2>1. \A s \in Seq(Downlink) : /\ WithRetained(s) \in Seq(Downlink)
                                 /\ Append(s, SUBACK) \in Seq(Downlink)
    BY PacketTypes, AppendProperties DEF WithRetained, BrokerTypeOK
  <2>2. to_device' \in Seq(Downlink)
    BY <1>3, <2>1 DEF AcceptSubscribe, BrokerTypeOK
  <2>. QED BY <1>2, <1>3, <2>2 DEF AcceptSubscribe, BrokerTypeOK
<1>4. CASE AcceptClear
  <2>1. Append(to_device, PUBLISH(0)) \in Seq(Downlink)
    BY PacketTypes, AppendProperties DEF BrokerTypeOK
  <2>. QED BY <1>2, <1>4, <2>1 DEF AcceptClear, Forward, BrokerTypeOK
<1>5. CASE AcceptReply
  <2>1. /\ Head(to_broker).cmd \in ReplyCmd
        /\ Head(to_broker).state \in ReplyState
    BY <1>2 DEF Uplink
  <2>. QED BY <1>2, <1>5, <2>1 DEF AcceptReply, BrokerTypeOK
<1>. QED BY <1>3, <1>4, <1>5 DEF Broker

-----------------------------------------------------------------------------
(* Types *)

(***************************************************************************)
(* What the device puts into its replies.                                  *)
(***************************************************************************)
LEMMA ReplyStates ==
    ASSUME TypeOK
    PROVE  /\ Status \in ReplyState /\ walvola_status \in ReplyState
           /\ TRANSITION \in ReplyState
           /\ ForMe(current) => Value \in ReplyState
<1>1. ForMe(current) => requests[current] \in Request
  BY LenProperties DEF ForMe, TypeOK, BrokerTypeOK
<1>2. ForMe(current) => Value \in ReplyState
  BY <1>1 DEF Value, ReplyState
<1>. QED BY <1>2 DEF Status, TypeOK, Position, TRANSITION, WALVOLA_ON,
                     WALVOLA_OFF, ReplyState

LEMMA RamResetType ==
    ASSUME RamReset
    PROVE  /\ polls' \in 0 .. Polls
           /\ caller' \in {"readpkt", "poll"}
           /\ current' \in Nat
           /\ walvola_status' \in Position \cup {TRANSITION}
           /\ relay_status' \in Position
           /\ update_mode' \in BOOLEAN
<1>1. 0 \in 0 .. Polls /\ 0 \in Nat
  OBVIOUS
<1>. QED BY <1>1, Zenon DEF RamReset, Position

(***************************************************************************)
(* mqtt_callback, called from subscribe() and from loop().                 *)
(***************************************************************************)
LEMMA CallbackType ==
    ASSUME TypeOK, NEW n, NEW return \in {"readpkt", "poll"},
           mqtt_callback(n, return), polls' \in 0 .. Polls
    PROVE  TypeOK'
<1>1. to_device' \in Seq(Downlink)
  BY HeadTailProperties DEF mqtt_callback, Receive, TypeOK, BrokerTypeOK
<1>2. CASE ForMe(n)
  <2>1. n \in Nat
    BY <1>2, LenProperties DEF ForMe, TypeOK, BrokerTypeOK
  <2>2. to_broker' \in Seq(Uplink)
    BY <1>2, SendType, PacketTypes DEF mqtt_callback, TypeOK
  <2>. QED BY <1>1, <1>2, <2>1, <2>2
           DEF mqtt_callback, Send, TypeOK, BrokerTypeOK, PCs, Handling, faults
<1>3. CASE ~ForMe(n)
  BY <1>1, <1>3 DEF mqtt_callback, TypeOK, BrokerTypeOK, PCs, faults
<1>. QED BY <1>2, <1>3

(***************************************************************************)
(* Types are preserved.  The invariant ServesCurrent bounds the value a    *)
(* handler sets and echoes.                                                *)
(***************************************************************************)
LEMMA TypeInit == Init => TypeOK
<1>. SUFFICES ASSUME Init PROVE TypeOK
  OBVIOUS
<1>1. BrokerTypeOK
  <2>1. <<>> \in Seq(Request) /\ <<>> \in Seq(Uplink) /\ <<>> \in Seq(Downlink)
    BY EmptySeq
  <2>. QED BY <2>1, PacketTypes DEF Init, BrokerInit, BrokerTypeOK
<1>2. 0 \in 0 .. Polls /\ 0 \in 0 .. MaxPowerFails /\ 0 \in 0 .. MaxBreaks /\ 0 \in Nat
  OBVIOUS
<1>3. eeprom \in {"NOT_SET"} \cup Position /\ actuator \in Position \cup {"MOVING"}
  BY DEF Init, Position
<1>. QED BY <1>1, <1>2, <1>3 DEF Init, TypeOK, PCs, Position

LEMMA SessionType ==
    ASSUME TypeOK, Session
    PROVE  TypeOK'
<1>. USE DEF TypeOK, BrokerTypeOK, broker_vars, ram, world, faults, PCs
<1>1. CASE Setup
  BY <1>1 DEF Setup, Position
<1>2. CASE WifiAlreadyUp
  BY <1>2 DEF WifiAlreadyUp
<1>3. CASE WiFi_init
  BY <1>3 DEF WiFi_init
<1>4. CASE get_web_time
  BY <1>4 DEF get_web_time
<1>5. CASE Connect
  <2>1. to_broker' \in Seq(Uplink) /\ to_device' \in Seq(Downlink)
    <3>1. <<SUBSCRIBE>> \in Seq(Uplink)
      BY PacketTypes
    <3>. QED BY <1>5, <3>1, EmptySeq DEF Connect, Open
  <2>. QED BY <1>5, <2>1 DEF Connect, Open
<1>6. CASE ConnectFails
  BY <1>6 DEF ConnectFails
<1>7. CASE SubscribeDone
  <2>1. to_device' \in Seq(Downlink)
    BY <1>7, HeadTailProperties DEF SubscribeDone, Receive
  <2>. QED BY <1>7, <2>1 DEF SubscribeDone
<1>8. CASE SubscribeFails
  BY <1>8 DEF SubscribeFails
<1>9. CASE SubscribeReads
  BY <1>9, CallbackType DEF SubscribeReads
<1>10. CASE PollReads
  BY <1>10, CallbackType DEF PollReads
<1>11. CASE PollIdle
  BY <1>11 DEF PollIdle
<1>12. CASE PollDone
  BY <1>12 DEF PollDone
<1>13. CASE Report
  <2>1. REPLY("GET_STATUS", Status, TRUE) \in Uplink
    BY PacketTypes, ReplyStates DEF ReplyCmd
  <2>2. to_broker' \in Seq(Uplink)
    BY <1>13, <2>1, SendType DEF Report
  <2>. QED BY <1>13, <2>2 DEF Report, Send
<1>. QED BY <1>1, <1>2, <1>3, <1>4, <1>5, <1>6, <1>7, <1>8, <1>9, <1>10,
            <1>11, <1>12, <1>13 DEF Session

LEMMA CallbackStepType ==
    ASSUME TypeOK, ServesCurrent, Callback
    PROVE  TypeOK'
<1>. USE DEF TypeOK, BrokerTypeOK, broker_vars, ram, world, faults, PCs, Handling
<1>1. ForMe(current)
  BY DEF ServesCurrent, Callback, reply_CMD_GET_STATUS, reply_CMD_GET_INFO,
         reply_CMD_UPDATE, DiscardUnknown, AnnounceTransition, SetNothing,
         SetWalvola, set_irb, Actuate, Store, ConfirmSet
<1>2. /\ REPLY("GET_STATUS", Status, FALSE) \in Uplink
      /\ REPLY("GET_INFO", walvola_status, FALSE) \in Uplink
      /\ REPLY("UPDATE", "OTA", FALSE) \in Uplink
      /\ REPLY("SET_STATUS", TRANSITION, TRUE) \in Uplink
      /\ REPLY("SET_STATUS", Value, TRUE) \in Uplink
  <2>1. "OTA" \in ReplyState
    BY DEF ReplyState
  <2>2. {"GET_STATUS", "GET_INFO", "UPDATE", "SET_STATUS"} \subseteq ReplyCmd
    BY DEF ReplyCmd
  <2>. QED BY <1>1, <2>1, <2>2, PacketTypes, ReplyStates
<1>3. CASE reply_CMD_GET_STATUS
  BY <1>2, <1>3, SendType DEF reply_CMD_GET_STATUS, Send
<1>4. CASE reply_CMD_GET_INFO
  BY <1>2, <1>4, SendType DEF reply_CMD_GET_INFO, Send
<1>5. CASE reply_CMD_UPDATE
  BY <1>2, <1>5, SendType DEF reply_CMD_UPDATE, Send
<1>6. CASE DiscardUnknown
  BY <1>6 DEF DiscardUnknown
<1>7. CASE AnnounceTransition
  BY <1>2, <1>7, SendType DEF AnnounceTransition, Send
<1>8. CASE SetNothing
  BY <1>8 DEF SetNothing
<1>9. CASE SetWalvola
  BY <1>9 DEF SetWalvola
<1>10. CASE set_irb
  BY <1>10 DEF set_irb
<1>11. CASE Actuate
  BY <1>11 DEF Actuate, ServesCurrent
<1>12. CASE Store
  BY <1>12 DEF Store, ServesCurrent
<1>13. CASE ConfirmSet
  BY <1>2, <1>13, SendType DEF ConfirmSet, Send
<1>. QED BY <1>3, <1>4, <1>5, <1>6, <1>7, <1>8, <1>9, <1>10, <1>11, <1>12,
            <1>13 DEF Callback

LEMMA RestType ==
    ASSUME TypeOK, Rest
    PROVE  TypeOK'
<1>. USE DEF TypeOK, broker_vars, ram, world, faults, PCs
<1>1. CASE DeepSleep
  BY <1>1, AbandonType, RamResetType DEF DeepSleep
<1>2. CASE EnterOta
  BY <1>2 DEF EnterOta, BrokerTypeOK
<1>3. CASE Scheduled
  BY <1>3 DEF Scheduled, BrokerTypeOK
<1>4. CASE stop_inet_connectivity
  BY <1>4, AbandonType DEF stop_inet_connectivity
<1>. QED BY <1>1, <1>2, <1>3, <1>4 DEF Rest

LEMMA EnvironmentType ==
    ASSUME TypeOK, Environment
    PROVE  TypeOK'
<1>. USE DEF TypeOK, ram, world, faults, PCs
<1>1. CASE PowerFail
  <2>1. BrokerTypeOK'
    BY <1>1, AbandonType DEF PowerFail
  <2>2. power_fails' \in 0 .. MaxPowerFails
    BY <1>1 DEF PowerFail
  <2>. QED BY <1>1, <2>1, <2>2, RamResetType DEF PowerFail, Position
<1>2. CASE ConnectionBreaks
  <2>1. BrokerTypeOK'
    BY <1>2, EmptySeq DEF ConnectionBreaks, Break, BrokerTypeOK
  <2>. QED BY <1>2, <2>1 DEF ConnectionBreaks
<1>3. CASE OtaUpload
  <2>1. BrokerTypeOK'
    BY <1>3, AbandonType DEF OtaUpload
  <2>. QED BY <1>3, <2>1, RamResetType DEF OtaUpload, Position
<1>4. CASE Controller
  BY <1>4, PublishType DEF Controller
<1>5. CASE BrokerStep
  BY <1>5, BrokerStepType DEF BrokerStep
<1>. QED BY <1>1, <1>2, <1>3, <1>4, <1>5 DEF Environment

LEMMA TypeStep ==
    ASSUME TypeOK, ServesCurrent, [Next]_vars
    PROVE  TypeOK'
<1>1. CASE UNCHANGED vars
  BY <1>1 DEF vars, broker_vars, ram, world, faults, TypeOK, BrokerTypeOK
<1>. QED BY <1>1, SessionType, CallbackStepType, RestType, EnvironmentType
         DEF Next, Device

-----------------------------------------------------------------------------
(* Order *)

(***************************************************************************)
(* Steps that send, or do nothing to the broker, keep the order.           *)
(***************************************************************************)
LEMMA OrderUnchanged ==
    ASSUME NeverBackwards,
           UNCHANGED <<requests, retained_in, accepted>>,
           to_device' = to_device \/ to_device' = <<>>
    PROVE  NeverBackwards'
BY DEF NeverBackwards, InOrder

LEMMA OrderReceive ==
    ASSUME TypeOK, NeverBackwards, NEW type, Receive(type),
           UNCHANGED <<requests, retained_in, accepted>>
    PROVE  NeverBackwards'
<1>1. Len(requests) \in Nat /\ to_device \in Seq(Downlink) /\ accepted \in Nat
  BY LenProperties DEF TypeOK, BrokerTypeOK
<1>2. InOrder(to_device', accepted, Len(requests))
  BY <1>1, InOrderTail DEF Receive, NeverBackwards
<1>. QED BY <1>2 DEF NeverBackwards

LEMMA OrderCallback ==
    ASSUME TypeOK, NeverBackwards, NEW return,
           mqtt_callback(Head(to_device).req, return)
    PROVE  NeverBackwards'
<1> DEFINE n == Head(to_device).req
<1>1. Len(requests) \in Nat /\ to_device \in Seq(Downlink) /\ accepted \in Nat
  BY LenProperties DEF TypeOK, BrokerTypeOK
<1>2. Receive("PUBLISH") /\ UNCHANGED <<requests, retained_in>>
  BY DEF mqtt_callback, Send
<1>3. CASE ForMe(n)
  <2>1. accepted' = n /\ n # 0 /\ n \in Nat
    BY <1>3, LenProperties DEF mqtt_callback, ForMe, TypeOK, BrokerTypeOK
  <2>2. n <= Len(requests) /\ InOrder(to_device', n, Len(requests))
    BY <1>1, <1>2, <2>1, InOrderTail DEF Receive, NeverBackwards
  <2>. QED BY <1>2, <2>1, <2>2 DEF NeverBackwards
<1>4. CASE ~ForMe(n)
  BY <1>2, <1>4, OrderReceive DEF mqtt_callback
<1>. QED BY <1>3, <1>4

LEMMA OrderPublish ==
    ASSUME TypeOK, NeverBackwards, NEW r \in Request, Publish(r),
           UNCHANGED accepted
    PROVE  NeverBackwards'
<1>1. /\ Len(requests) \in Nat /\ to_device \in Seq(Downlink) /\ accepted \in Nat
      /\ Len(requests)' = Len(requests) + 1
  BY LenProperties, AppendProperties DEF TypeOK, BrokerTypeOK, Publish
<1>2. accepted <= Len(requests) + 1
  BY <1>1 DEF NeverBackwards
<1>3. InOrder(to_device, accepted, Len(requests) + 1)
  <2>1. \A i \in DOMAIN to_device : to_device[i] \in Downlink
    BY <1>1, LenProperties
  <2>2. \A i \in DOMAIN to_device : to_device[i].req \in Nat
    BY <2>1 DEF Downlink
  <2>. QED BY <1>1, <2>2 DEF NeverBackwards, InOrder
<1>4. InOrder(Append(to_device, PUBLISH(Len(requests) + 1)), accepted, Len(requests) + 1)
  BY <1>1, <1>2, <1>3, InOrderAppend, PacketTypes
<1>5. InOrder(to_device', accepted, Len(requests) + 1)
  BY <1>3, <1>4 DEF Publish, Forward
<1>. QED BY <1>1, <1>2, <1>5 DEF NeverBackwards, Publish

LEMMA OrderBroker ==
    ASSUME TypeOK, NeverBackwards, Broker, UNCHANGED accepted
    PROVE  NeverBackwards'
<1> DEFINE Ok(s) == s \in Seq(Downlink) /\ InOrder(s, accepted, Len(requests))
<1>1. /\ Len(requests) \in Nat /\ accepted \in Nat /\ accepted <= Len(requests)
      /\ retained_in \in {0, Len(requests)}
      /\ Ok(to_device)
  BY LenProperties DEF TypeOK, BrokerTypeOK, NeverBackwards
<1>2. ASSUME NEW s, Ok(s), NEW m \in Downlink, m.req \in {0, Len(requests)}
      PROVE  Ok(Append(s, m))
  BY <1>1, <1>2, InOrderAppend, AppendProperties
<1>3. CASE AcceptSubscribe
  <2>1. /\ SUBACK \in Downlink /\ SUBACK.req = 0
        /\ PUBLISH(retained_in) \in Downlink /\ PUBLISH(retained_in).req = retained_in
    BY <1>1, PacketTypes
  <2>2. \A s : Ok(s) => Ok(WithRetained(s)) /\ Ok(Append(s, SUBACK))
    BY <1>1, <1>2, <2>1 DEF WithRetained
  <2>3. Ok(to_device')
    <3>. HIDE DEF Ok
    <3>. QED BY <1>1, <1>3, <2>2 DEF AcceptSubscribe
  <2>. QED BY <1>1, <1>3, <2>3 DEF AcceptSubscribe, NeverBackwards
<1>4. CASE AcceptClear
  <2>1. PUBLISH(0) \in Downlink /\ PUBLISH(0).req = 0
    BY PacketTypes
  <2>2. Ok(to_device')
    <3>1. Ok(Append(to_device, PUBLISH(0)))
      BY <1>1, <1>2, <2>1
    <3>. QED BY <1>1, <1>4, <3>1 DEF AcceptClear, Forward
  <2>. QED BY <1>1, <1>4, <2>2 DEF AcceptClear, NeverBackwards
<1>5. CASE AcceptReply
  BY <1>5, OrderUnchanged DEF AcceptReply
<1>. QED BY <1>3, <1>4, <1>5 DEF Broker

LEMMA OrderStep ==
    ASSUME TypeOK, NeverBackwards, [Next]_vars
    PROVE  NeverBackwards'
<1>. USE DEF broker_vars, ram, world, faults, Send, Open, Abandon, Break
<1>1. CASE SubscribeDone
  BY <1>1, OrderReceive DEF SubscribeDone
<1>2. CASE SubscribeReads \/ PollReads
  BY <1>2, OrderCallback DEF SubscribeReads, PollReads
<1>3. CASE Controller
  BY <1>3, OrderPublish DEF Controller
<1>4. CASE BrokerStep
  BY <1>4, OrderBroker DEF BrokerStep
<1>5. CASE \/ Setup \/ WifiAlreadyUp \/ WiFi_init \/ get_web_time \/ Connect
           \/ ConnectFails \/ SubscribeFails \/ PollIdle \/ PollDone \/ Report
  BY <1>5, OrderUnchanged
     DEF Setup, WifiAlreadyUp, WiFi_init, get_web_time, Connect, ConnectFails,
         SubscribeFails, PollIdle, PollDone, Report
<1>6. CASE Callback
  BY <1>6, OrderUnchanged
     DEF Callback, reply_CMD_GET_STATUS, reply_CMD_GET_INFO, reply_CMD_UPDATE,
         DiscardUnknown, AnnounceTransition, SetNothing, SetWalvola, set_irb,
         Actuate, Store, ConfirmSet
<1>7. CASE Rest \/ PowerFail \/ ConnectionBreaks \/ OtaUpload
  BY <1>7, OrderUnchanged
     DEF Rest, DeepSleep, EnterOta, Scheduled, stop_inet_connectivity,
         PowerFail, ConnectionBreaks, OtaUpload
<1>8. CASE UNCHANGED vars
  BY <1>8, OrderUnchanged DEF vars
<1>. QED BY <1>1, <1>2, <1>3, <1>4, <1>5, <1>6, <1>7, <1>8
         DEF Next, Device, Session, Environment

-----------------------------------------------------------------------------
(* Handlers *)

(***************************************************************************)
(* The request being served does not change when another one is published. *)
(***************************************************************************)
LEMMA RequestStable ==
    ASSUME TypeOK, ForMe(current), UNCHANGED current,
           UNCHANGED requests \/ \E r \in Request : requests' = Append(requests, r)
    PROVE  ForMe(current)' /\ Cmd' = Cmd /\ Value' = Value
<1>1. CASE UNCHANGED requests
  BY <1>1 DEF ForMe, Cmd, Value
<1>2. ASSUME NEW r \in Request, requests' = Append(requests, r)
      PROVE  requests'[current] = requests[current] /\ current \in DOMAIN requests'
  <2>1. requests \in Seq(Request) /\ current \in 1 .. Len(requests)
    BY LenProperties DEF TypeOK, BrokerTypeOK, ForMe
  <2>2. /\ requests' \in Seq(Request)
        /\ Len(requests') = Len(requests) + 1
        /\ requests'[current] = requests[current]
    BY <1>2, <2>1, AppendProperties
  <2>3. DOMAIN requests' = 1 .. Len(requests') /\ Len(requests) \in Nat
    BY <2>1, <2>2, LenProperties
  <2>. QED BY <2>1, <2>2, <2>3
<1>. QED BY <1>1, <1>2 DEF ForMe, Cmd, Value

(***************************************************************************)
(* Outside the handlers there is nothing to show.                          *)
(***************************************************************************)
LEMMA NotHandling ==
    ASSUME pc' \notin Handling
    PROVE  ServesCurrent' /\ ConfirmedIsDone'
BY DEF ServesCurrent, ConfirmedIsDone, Handling

(***************************************************************************)
(* Steps of the world around a handler leave it alone.                     *)
(***************************************************************************)
LEMMA HandlerAlone ==
    ASSUME TypeOK, ServesCurrent, ConfirmedIsDone,
           UNCHANGED <<pc, current, accepted, actuator, relay_status,
                       walvola_status, eeprom>>,
           UNCHANGED requests \/ \E r \in Request : requests' = Append(requests, r)
    PROVE  ServesCurrent' /\ ConfirmedIsDone'
<1>1. CASE pc \notin Handling
  BY <1>1, NotHandling
<1>2. CASE pc \in Handling
  <2>1. ForMe(current)
    BY <1>2 DEF ServesCurrent
  <2>2. ForMe(current)' /\ Cmd' = Cmd /\ Value' = Value
    BY <2>1, RequestStable
  <2>. QED BY <2>2 DEF ServesCurrent, ConfirmedIsDone, Status
<1>. QED BY <1>1, <1>2

LEMMA HandlerSession ==
    ASSUME TypeOK, ServesCurrent, Session
    PROVE  ServesCurrent' /\ ConfirmedIsDone'
<1>1. CASE pc' \notin Handling
  BY <1>1, NotHandling
<1>2. CASE pc' \in Handling
  <2>1. SubscribeReads \/ PollReads
    BY <1>2 DEF Session, Setup, WifiAlreadyUp, WiFi_init, get_web_time, Connect,
                ConnectFails, SubscribeDone, SubscribeFails, PollIdle, PollDone,
                Report, Handling, ram, broker_vars
  <2> DEFINE n == Head(to_device).req
  <2>2. /\ pc' = "dispatch" /\ ForMe(n)
        /\ current' = n /\ accepted' = n /\ requests' = requests
    BY <1>2, <2>1 DEF SubscribeReads, PollReads, mqtt_callback, Send, Handling
  <2>. HIDE DEF n
  <2>. QED BY <2>2 DEF ServesCurrent, ConfirmedIsDone, ForMe, Handling
<1>. QED BY <1>1, <1>2

LEMMA HandlerCallback ==
    ASSUME TypeOK, ServesCurrent, ConfirmedIsDone, Callback
    PROVE  ServesCurrent' /\ ConfirmedIsDone'
<1>. USE DEF Handling, broker_vars, ram, world, faults, Send
<1>1. pc \in Handling /\ ForMe(current) /\ current = accepted
  BY DEF ServesCurrent, Callback, reply_CMD_GET_STATUS, reply_CMD_GET_INFO,
         reply_CMD_UPDATE, DiscardUnknown, AnnounceTransition, SetNothing,
         SetWalvola, set_irb, Actuate, Store, ConfirmSet
<1>2. UNCHANGED <<current, accepted, requests>>
  BY DEF Callback, reply_CMD_GET_STATUS, reply_CMD_GET_INFO,
         reply_CMD_UPDATE, DiscardUnknown, AnnounceTransition, SetNothing,
         SetWalvola, set_irb, Actuate, Store, ConfirmSet
<1>3. ForMe(current)' /\ Cmd' = Cmd /\ Value' = Value /\ current' = accepted'
  BY <1>1, <1>2, RequestStable
<1>4. CASE reply_CMD_GET_STATUS \/ reply_CMD_GET_INFO \/ reply_CMD_UPDATE
           \/ DiscardUnknown \/ ConfirmSet
  <2>1. pc' = caller /\ caller \notin Handling
    BY <1>4 DEF TypeOK, reply_CMD_GET_STATUS, reply_CMD_GET_INFO,
                reply_CMD_UPDATE, DiscardUnknown, ConfirmSet
  <2>. QED BY <2>1, NotHandling
<1>5. CASE AnnounceTransition
  BY <1>3, <1>5 DEF AnnounceTransition, ServesCurrent, ConfirmedIsDone
<1>6. CASE SetNothing
  BY <1>3, <1>6 DEF SetNothing, ServesCurrent, ConfirmedIsDone
<1>7. CASE SetWalvola
  BY <1>3, <1>7 DEF SetWalvola, ServesCurrent, ConfirmedIsDone
<1>8. CASE set_irb
  BY <1>3, <1>8 DEF set_irb, ServesCurrent, ConfirmedIsDone
<1>9. CASE Actuate
  BY <1>3, <1>9 DEF Actuate, ServesCurrent, ConfirmedIsDone, Status
<1>10. CASE Store
  BY <1>3, <1>10 DEF Store, ServesCurrent, ConfirmedIsDone, Status
<1>. QED BY <1>4, <1>5, <1>6, <1>7, <1>8, <1>9, <1>10 DEF Callback

LEMMA HandlerStep ==
    ASSUME TypeOK, ServesCurrent, ConfirmedIsDone, [Next]_vars
    PROVE  ServesCurrent' /\ ConfirmedIsDone'
<1>1. CASE Rest \/ PowerFail \/ OtaUpload
  <2>1. pc' \notin Handling
    BY <1>1 DEF Rest, DeepSleep, EnterOta, Scheduled, stop_inet_connectivity,
                PowerFail, OtaUpload, Handling
  <2>. QED BY <2>1, NotHandling
<1>2. CASE ConnectionBreaks
  <2>1. CASE pc' = pc
    BY <1>2, <2>1, HandlerAlone DEF ConnectionBreaks, Break, ram, world
  <2>2. CASE pc' = "readpkt"
    BY <2>2, NotHandling DEF Handling
  <2>. QED BY <1>2, <2>1, <2>2 DEF ConnectionBreaks
<1>3. CASE Controller \/ BrokerStep
  BY <1>3, HandlerAlone
     DEF Controller, Publish, BrokerStep, Broker, AcceptSubscribe, AcceptClear,
         AcceptReply, ram, world
<1>4. CASE UNCHANGED vars
  BY <1>4, HandlerAlone DEF vars, broker_vars, ram, world
<1>. QED BY <1>1, <1>2, <1>3, <1>4, HandlerSession, HandlerCallback
         DEF Next, Device, Environment

-----------------------------------------------------------------------------
(* The stored status *)

LEMMA StoredInit == Init => StoredIsActual
BY DEF Init, StoredIsActual, Status, Position, Moving

(***************************************************************************)
(* Steps that touch neither the status nor the actuator.                   *)
(***************************************************************************)
LEMMA StoredAlone ==
    ASSUME StoredIsActual,
           UNCHANGED <<eeprom, actuator, walvola_status, relay_status,
                       interrupted, power_fails>>,
           pc' = pc \/ (~Moving /\ {pc, pc'} \cap {"asleep"} = {})
    PROVE  StoredIsActual'
<1>1. Status' = Status
  BY DEF Status
<1>2. CASE pc' = pc
  BY <1>1, <1>2, Zenon DEF StoredIsActual, Moving
<1>3. CASE ~Moving /\ pc # "asleep" /\ pc' # "asleep"
  BY <1>1, <1>3, Zenon DEF StoredIsActual
<1>. QED BY <1>2, <1>3

LEMMA StoredStep ==
    ASSUME TypeOK, ServesCurrent, ConfirmedIsDone, StoredIsActual, [Next]_vars
    PROVE  StoredIsActual'
<1>. USE DEF broker_vars, ram, world, faults, StoredIsActual, Status, Moving
<1>1. CASE Setup
  BY <1>1 DEF Setup, TypeOK, Position, WALVOLA_ON, WALVOLA_OFF
<1>2. CASE Session /\ ~Setup
  BY <1>2, StoredAlone
     DEF Session, WifiAlreadyUp, WiFi_init, get_web_time, Connect,
         ConnectFails, SubscribeDone, SubscribeFails, SubscribeReads,
         PollReads, PollIdle, PollDone, Report, mqtt_callback
<1>3. CASE reply_CMD_GET_STATUS \/ reply_CMD_GET_INFO \/ reply_CMD_UPDATE
           \/ DiscardUnknown \/ AnnounceTransition \/ SetNothing \/ ConfirmSet
  BY <1>3, StoredAlone
     DEF TypeOK, reply_CMD_GET_STATUS, reply_CMD_GET_INFO, reply_CMD_UPDATE,
         DiscardUnknown, AnnounceTransition, SetNothing, ConfirmSet
<1>4. CASE Actuate
  BY <1>4 DEF Actuate, ServesCurrent
<1>5. CASE Store
  BY <1>5 DEF Store, ServesCurrent
<1>6. CASE Rest
  BY <1>6 DEF Rest, DeepSleep, EnterOta, Scheduled, stop_inet_connectivity,
              SessionOver
<1>7. CASE PowerFail
  <2>1. power_fails' > 0 /\ pc' = "asleep" /\ eeprom' = eeprom /\ pc # "asleep"
    BY <1>7 DEF PowerFail, TypeOK
  <2>2. CASE Role = "IRB"
    BY <1>7, <2>1, <2>2 DEF PowerFail, RamReset
  <2>3. CASE Role # "IRB"
    BY <1>7, <2>1, <2>3 DEF PowerFail
  <2>. QED BY <2>2, <2>3
<1>8. CASE OtaUpload
  BY <1>8 DEF OtaUpload, RamReset
<1>9. CASE ConnectionBreaks \/ Controller \/ BrokerStep
  BY <1>9, StoredAlone DEF ConnectionBreaks, AmidPacket, Controller, BrokerStep
<1>10. CASE UNCHANGED vars
  BY <1>10, StoredAlone DEF vars
<1>11. CASE SetWalvola \/ set_irb
  <2>1. pc' = "actuate" /\ UNCHANGED <<interrupted, power_fails>>
    BY <1>11 DEF SetWalvola, set_irb
  <2>. QED BY <2>1, Zenon
<1>. QED BY <1>1, <1>2, <1>3, <1>4, <1>5, <1>6, <1>7, <1>8, <1>9, <1>10, <1>11
         DEF Next, Device, Callback, Environment

-----------------------------------------------------------------------------
(* The theorems *)

(***************************************************************************)
(* The inductive invariant holds in every reachable state.                 *)
(***************************************************************************)
THEOREM Invariance == Spec => []IInv
<1>1. Init => IInv
  <2>1. Init => NeverBackwards
    BY EmptySeq DEF Init, BrokerInit, NeverBackwards, InOrder
  <2>2. Init => ServesCurrent /\ ConfirmedIsDone
    BY DEF Init, ServesCurrent, ConfirmedIsDone, Handling
  <2>. QED BY <2>1, <2>2, TypeInit, StoredInit DEF IInv
<1>2. IInv /\ [Next]_vars => IInv'
  BY TypeStep, OrderStep, HandlerStep, StoredStep DEF IInv
<1>. QED BY <1>1, <1>2, PTL DEF Spec

(***************************************************************************)
(* Every variable keeps its type.                                          *)
(***************************************************************************)
THEOREM TypeCorrect == Spec => []TypeOK
<1>1. IInv => TypeOK
  BY DEF IInv
<1>. QED BY <1>1, Invariance, PTL

(***************************************************************************)
(* Requests are never handed over, and so never served, in an order other  *)
(* than that of their publication (mqtt_callback, MQTT_init).              *)
(***************************************************************************)
THEOREM OrderCorrect == Spec => []NeverBackwards
<1>1. IInv => NeverBackwards
  BY DEF IInv
<1>. QED BY <1>1, Invariance, PTL

(***************************************************************************)
(* What reply_CMD_SET_STATUS confirms has been done, reported and stored.  *)
(***************************************************************************)
THEOREM ConfirmationCorrect == Spec => []ConfirmedIsDone
<1>1. IInv => ConfirmedIsDone
  BY DEF IInv
<1>. QED BY <1>1, Invariance, PTL

(***************************************************************************)
(* Unless a power failure interrupted the last movement, the status a      *)
(* device reports and the one it stores are where the actuator is (setup,  *)
(* set_walvola, set_irb).                                                  *)
(***************************************************************************)
THEOREM StatusCorrect == Spec => []StatusIsActual
<1>1. IInv => StatusIsActual
  BY DEF IInv, StoredIsActual, StatusIsActual, Position, WALVOLA_ON, WALVOLA_OFF
<1>. QED BY <1>1, Invariance, PTL

-----------------------------------------------------------------------------
(* Walvola implements Valve *)

LEMMA StutterImplements ==
    ASSUME UNCHANGED <<requests, accepted, actuator>>
    PROVE  [Promise!Next]_Promise!valve_vars
BY DEF Promise!valve_vars

LEMMA CallbackImplements ==
    ASSUME IInv, NEW return, mqtt_callback(Head(to_device).req, return)
    PROVE  [Promise!Next]_Promise!valve_vars
<1> DEFINE n == Head(to_device).req
<1>1. CASE ForMe(n)
  <2>1. /\ accepted' = n /\ n \in DOMAIN requests
        /\ UNCHANGED <<requests, actuator>>
    BY <1>1 DEF mqtt_callback, Send, ForMe
  <2>2. accepted <= n
    <3>1. to_device \in Seq(Downlink) /\ Len(requests) \in Nat /\ accepted \in Nat
      BY LenProperties DEF IInv, TypeOK, BrokerTypeOK
    <3>2. n # 0
      BY <2>1, LenProperties DEF IInv, TypeOK, BrokerTypeOK
    <3>. QED BY <3>1, <3>2, InOrderTail
             DEF IInv, NeverBackwards, mqtt_callback, Receive
  <2>3. accepted \in Nat /\ n \in Nat
    BY <2>1, LenProperties DEF IInv, TypeOK, BrokerTypeOK
  <2>4. Promise!Accept
    BY <2>1, <2>2, <2>3 DEF Promise!Accept
  <2>. QED BY <2>4 DEF Promise!Next
<1>2. CASE ~ForMe(n)
  BY <1>2, StutterImplements DEF mqtt_callback
<1>. QED BY <1>1, <1>2

(***************************************************************************)
(* The actuator moves for the request being served only.                   *)
(***************************************************************************)
LEMMA MoveImplements ==
    ASSUME IInv, SetWalvola \/ Actuate
    PROVE  [Promise!Next]_Promise!valve_vars
<1>1. /\ Value \in Position
      /\ actuator' \in {Value, "MOVING", actuator}
      /\ UNCHANGED <<requests, accepted>>
  BY DEF SetWalvola, Actuate, IInv, ServesCurrent, broker_vars
<1>2. /\ accepted \in DOMAIN requests
      /\ requests[accepted].cmd = "SET_STATUS"
      /\ requests[accepted].value = Value
  BY DEF IInv, ServesCurrent, SetWalvola, Actuate, Handling, ForMe, Cmd, Value
<1>3. Value \in Promise!Asked
  BY <1>2 DEF Promise!Asked
<1>4. CASE actuator' = actuator
  BY <1>1, <1>4, StutterImplements
<1>5. CASE actuator' # actuator
  BY <1>1, <1>3, <1>5
     DEF Promise!Next, Promise!Move, Position, WALVOLA_ON, WALVOLA_OFF
<1>. QED BY <1>4, <1>5

LEMMA PowerImplements ==
    ASSUME PowerFail \/ OtaUpload
    PROVE  [Promise!Next]_Promise!valve_vars
<1>1. UNCHANGED <<requests, accepted>>
  BY DEF PowerFail, OtaUpload, Abandon, world
<1>2. CASE Role = "IRB"
  BY <1>1, <1>2 DEF PowerFail, OtaUpload, Promise!Next, Promise!LosePower, WALVOLA_OFF
<1>3. CASE Role # "IRB"
  BY <1>1, <1>3, StutterImplements DEF PowerFail, OtaUpload
<1>. QED BY <1>2, <1>3

LEMMA StepImplements ==
    ASSUME IInv, [Next]_vars
    PROVE  [Promise!Next]_Promise!valve_vars
<1>. USE DEF broker_vars, ram, world, faults, Send, Open, Abandon, Break
<1>1. CASE SubscribeReads \/ PollReads
  <2>1. PICK return : mqtt_callback(Head(to_device).req, return)
    BY <1>1 DEF SubscribeReads, PollReads
  <2>. QED BY <2>1, CallbackImplements
<1>2. CASE SetWalvola \/ Actuate
  BY <1>2, MoveImplements
<1>3. CASE PowerFail \/ OtaUpload
  BY <1>3, PowerImplements
<1>4. CASE Controller
  <2>1. PICK r \in Request : Publish(r) /\ UNCHANGED <<accepted, actuator>>
    BY <1>4 DEF Controller
  <2>. QED BY <2>1 DEF Publish, Promise!Next, Promise!Ask
<1>5. CASE \/ Setup \/ WifiAlreadyUp \/ WiFi_init \/ get_web_time \/ Connect
           \/ ConnectFails \/ SubscribeDone \/ SubscribeFails \/ PollIdle
           \/ PollDone \/ Report
  BY <1>5, StutterImplements
     DEF Setup, WifiAlreadyUp, WiFi_init, get_web_time, Connect, ConnectFails,
         SubscribeDone, SubscribeFails, PollIdle, PollDone, Report
<1>6. CASE \/ reply_CMD_GET_STATUS \/ reply_CMD_GET_INFO \/ reply_CMD_UPDATE
           \/ DiscardUnknown \/ AnnounceTransition \/ SetNothing \/ set_irb
           \/ Store \/ ConfirmSet
  BY <1>6, StutterImplements
     DEF reply_CMD_GET_STATUS, reply_CMD_GET_INFO, reply_CMD_UPDATE,
         DiscardUnknown, AnnounceTransition, SetNothing, set_irb, Store, ConfirmSet
<1>7. CASE Rest \/ ConnectionBreaks \/ BrokerStep
  BY <1>7, StutterImplements
     DEF Rest, DeepSleep, EnterOta, Scheduled, stop_inet_connectivity,
         ConnectionBreaks, BrokerStep, Broker, AcceptSubscribe, AcceptClear,
         AcceptReply
<1>8. CASE UNCHANGED vars
  BY <1>8, StutterImplements DEF vars
<1>. QED BY <1>1, <1>2, <1>3, <1>4, <1>5, <1>6, <1>7, <1>8
         DEF Next, Device, Session, Callback, Environment

(***************************************************************************)
(* The firmware, over any network and power supply, keeps the promise of   *)
(* Valve: it moves only for the newest request it took up, and takes them  *)
(* up in publication order.                                                *)
(***************************************************************************)
THEOREM Implementation == Spec => ValveImplemented
<1>1. Init => Promise!Init
  BY DEF Init, BrokerInit, Promise!Init, Position, WALVOLA_ON, WALVOLA_OFF
<1>2. IInv /\ [Next]_vars => [Promise!Next]_Promise!valve_vars
  BY StepImplements
<1>. QED BY <1>1, <1>2, Invariance, PTL DEF Spec, ValveImplemented, Promise!Spec
=============================================================================
