------------------------- MODULE WalvolaSessionProofs -------------------------
(***************************************************************************)
(* What a sleeping device and its controllers can rely on, proved for      *)
(* every set of requests, way to sleep, number of polls and bound: what    *)
(* is published while the radio is off is not missed, and the retained     *)
(* reply tells where the actuator is.  Both rest on FlushBeforeSleep: what *)
(* the device sent has arrived before the radio goes off.                  *)
(***************************************************************************)
EXTENDS WalvolaProofs

-----------------------------------------------------------------------------
(* The invariants *)

(***************************************************************************)
(* Without a power failure nothing travels from the end of a session to    *)
(* the next connection.                                                    *)
(***************************************************************************)
NothingTravels ==
    power_fails = 0 =>
        /\ pc \in {"asleep", "start", "time", "connect"} =>
              /\ ~connected /\ ~subscribed
              /\ to_broker = <<>> /\ to_device = <<>>
        /\ pc \in {"awake", "ota"} => to_broker = <<>>

(***************************************************************************)
(* Why no request is missed: only the newest request is handed over, so    *)
(* the erasure that travels is that of the newest one.                     *)
(***************************************************************************)
OnlyNewest ==
    \A i \in DOMAIN to_device : to_device[i].req \in {0, Len(requests)}

ClearIsDue ==
    \A i \in DOMAIN to_broker :
        to_broker[i].type = "CLEAR" => accepted = Len(requests)

NewestKept ==
    requests # <<>> => retained_in = Len(requests) \/ accepted = Len(requests)

RequestsKept == power_fails = 0 => OnlyNewest /\ ClearIsDue /\ NewestKept

(***************************************************************************)
(* Why controllers know: once a request may have been read the connection  *)
(* is there for the report; everywhere else the last retained reply that   *)
(* travels, or the one the broker has, is true.                            *)
(***************************************************************************)
Word(p) == p.type = "REPLY" /\ p.retain

NoWordAfter(s, i) == \A j \in DOMAIN s : j > i => ~Word(s[j])

LastWordTrue ==
    /\ \A i \in DOMAIN to_broker :
          Word(to_broker[i]) /\ NoWordAfter(to_broker, i) =>
              to_broker[i].state = actuator
    /\ NoWordAfter(to_broker, 0) =>
          retained_out = NoReply \/ retained_out.state = actuator

Reading == {"readpkt", "poll"} \cup Handling

ReplyIsTrue ==
    power_fails = 0 /\ breaks = 0 =>
        /\ pc \in {"suback"} \cup Reading => connected
        /\ pc = "report" => connected \/ LastWordTrue
        /\ pc \notin {"report"} \cup Reading => LastWordTrue

-----------------------------------------------------------------------------
(* Nothing travels between sessions *)

LEMMA AbandonEmpty ==
    ASSUME TypeOK, to_broker = <<>>, Abandon
    PROVE  /\ to_broker' = <<>> /\ to_device' = <<>>
           /\ ~connected' /\ ~subscribed'
<1>1. PICK sent \in 0 .. Len(to_broker) : to_broker' = SubSeq(to_broker, 1, sent)
  BY DEF Abandon
<1>2. Len(to_broker) = 0
  BY EmptySeq
<1>3. sent = 0
  BY <1>1, <1>2
<1>4. to_broker' \in Seq(Uplink) /\ Len(to_broker') = 0
  BY <1>1, <1>2, <1>3, SubSeqProperties DEF TypeOK, BrokerTypeOK
<1>. QED BY <1>4, EmptySeq DEF Abandon

(***************************************************************************)
(* Power failures are counted and never forgotten.                         *)
(***************************************************************************)
LEMMA NoPowerFail ==
    ASSUME TypeOK, [Next]_vars, power_fails' = 0
    PROVE  power_fails = 0 /\ ~PowerFail
<1>1. power_fails \in Nat
  BY DEF TypeOK
<1>2. PowerFail \/ power_fails' = power_fails
  BY DEF Next, Device, Session, Callback, Rest, Environment, Setup,
         WifiAlreadyUp, WiFi_init, get_web_time, Connect, ConnectFails,
         SubscribeDone, SubscribeFails, SubscribeReads, PollReads, PollIdle,
         PollDone, Report, mqtt_callback, reply_CMD_GET_STATUS,
         reply_CMD_GET_INFO, reply_CMD_UPDATE, DiscardUnknown,
         AnnounceTransition, SetNothing, SetWalvola, set_irb, Actuate, Store,
         ConfirmSet, DeepSleep, EnterOta, Scheduled, stop_inet_connectivity,
         ConnectionBreaks, OtaUpload, Controller, BrokerStep, faults, vars
<1>3. ~PowerFail
  BY <1>1 DEF PowerFail
<1>. QED BY <1>2, <1>3

LEMMA TravelsStep ==
    ASSUME FlushBeforeSleep, TypeOK, NothingTravels, [Next]_vars
    PROVE  NothingTravels'
<1> SUFFICES ASSUME power_fails' = 0 PROVE NothingTravels'
  BY DEF NothingTravels
<1>0. power_fails = 0 /\ ~PowerFail
  BY NoPowerFail
<1>. USE <1>0 DEF NothingTravels
<1>1. CASE Setup \/ WifiAlreadyUp \/ WiFi_init \/ get_web_time
  BY <1>1 DEF Setup, WifiAlreadyUp, WiFi_init, get_web_time, broker_vars
<1>2. CASE Connect \/ ConnectFails \/ SubscribeDone \/ SubscribeFails
           \/ PollIdle \/ PollDone \/ Report
  BY <1>2 DEF Connect, ConnectFails, SubscribeDone, SubscribeFails, PollIdle,
              PollDone, Report
<1>3. CASE SubscribeReads \/ PollReads
  BY <1>3 DEF SubscribeReads, PollReads, mqtt_callback
<1>4. CASE Callback
  <2>1. pc' \in {"readpkt", "poll"} \cup Handling
    BY <1>4 DEF Callback, reply_CMD_GET_STATUS, reply_CMD_GET_INFO,
           reply_CMD_UPDATE, DiscardUnknown, AnnounceTransition, SetNothing,
           SetWalvola, set_irb, Actuate, Store, ConfirmSet, Handling, TypeOK
  <2>. QED BY <2>1 DEF Handling
<1>5. CASE DeepSleep \/ stop_inet_connectivity \/ OtaUpload
  <2>1. to_broker = <<>> /\ Abandon /\ pc' \in {"asleep", "start"}
    BY <1>5 DEF DeepSleep, SessionOver, stop_inet_connectivity, OtaUpload
  <2>. QED BY <2>1, AbandonEmpty
<1>6. CASE EnterOta \/ Scheduled
  BY <1>6 DEF EnterOta, Scheduled, SessionOver, broker_vars
<1>7. CASE ConnectionBreaks
  BY <1>7 DEF ConnectionBreaks, Break
<1>8. CASE Controller
  BY <1>8 DEF Controller, Publish, Forward
<1>9. CASE BrokerStep
  <2>1. to_broker # <<>> /\ pc' = pc
    BY <1>9 DEF BrokerStep, Broker, AcceptSubscribe, AcceptClear, AcceptReply
  <2>. QED BY <2>1
<1>10. CASE UNCHANGED vars
  BY <1>10 DEF vars, broker_vars, faults
<1>. QED BY <1>1, <1>2, <1>3, <1>4, <1>5, <1>6, <1>7, <1>8, <1>9, <1>10
         DEF Next, Device, Session, Rest, Environment

-----------------------------------------------------------------------------
(* No request is missed *)

(***************************************************************************)
(* The members of a queue after a packet is added or taken.                *)
(***************************************************************************)
LEMMA AppendMembers ==
    ASSUME NEW S, NEW s \in Seq(S), NEW m \in S
    PROVE  \A i \in DOMAIN Append(s, m) :
              Append(s, m)[i] = m \/ \E j \in DOMAIN s : Append(s, m)[i] = s[j]
<1>1. /\ DOMAIN Append(s, m) = 1 .. (Len(s) + 1)
      /\ DOMAIN s = 1 .. Len(s) /\ Len(s) \in Nat
      /\ \A i \in 1 .. Len(s) : Append(s, m)[i] = s[i]
      /\ Append(s, m)[Len(s) + 1] = m
  BY AppendProperties, LenProperties
<1>2. \A i \in 1 .. (Len(s) + 1) : i \in 1 .. Len(s) \/ i = Len(s) + 1
  BY <1>1
<1>. QED BY <1>1, <1>2

LEMMA TailMembers ==
    ASSUME NEW S, NEW s \in Seq(S), s # <<>>
    PROVE  /\ Head(s) = s[1] /\ 1 \in DOMAIN s
           /\ \A i \in DOMAIN Tail(s) : /\ i + 1 \in DOMAIN s
                                       /\ Tail(s)[i] = s[i + 1]
<1>1. /\ Tail(s) \in Seq(S)
      /\ Len(s) \in Nat \ {0} /\ Head(s) = s[1]
      /\ DOMAIN s = 1 .. Len(s)
      /\ DOMAIN Tail(s) = 1 .. (Len(s) - 1)
      /\ \A i \in 1 .. (Len(s) - 1) : Tail(s)[i] = s[i + 1]
  BY HeadTailProperties, LenProperties, EmptySeq
<1>2. \A i \in 1 .. (Len(s) - 1) : i + 1 \in 1 .. Len(s)
  BY <1>1
<1>. QED BY <1>1, <1>2

(***************************************************************************)
(* The callback takes up the newest request and sends its erasure.         *)
(***************************************************************************)
LEMMA KeptCallback ==
    ASSUME TypeOK, OnlyNewest, ClearIsDue, NewestKept, NEW return,
           mqtt_callback(Head(to_device).req, return)
    PROVE  OnlyNewest' /\ ClearIsDue' /\ NewestKept'
<1> DEFINE n == Head(to_device).req
<1>1. /\ to_device # <<>> /\ to_device' = Tail(to_device)
      /\ UNCHANGED <<requests, retained_in>>
  BY DEF mqtt_callback, Receive, Send
<1>2. OnlyNewest'
  BY <1>1, TailMembers DEF OnlyNewest, TypeOK, BrokerTypeOK
<1>3. CASE ForMe(n)
  <2>1. n # 0
    BY <1>3, LenProperties DEF ForMe, TypeOK, BrokerTypeOK
  <2>2. n = Len(requests)
    BY <1>1, <2>1, TailMembers DEF OnlyNewest, TypeOK, BrokerTypeOK
  <2>3. accepted' = Len(requests)'
    BY <1>1, <1>3, <2>2 DEF mqtt_callback
  <2>. QED BY <1>2, <2>3 DEF ClearIsDue, NewestKept
<1>4. CASE ~ForMe(n)
  BY <1>1, <1>2, <1>4 DEF mqtt_callback, ClearIsDue, NewestKept
<1>. QED BY <1>3, <1>4

(***************************************************************************)
(* The broker hands over the retained request, which is the newest, and    *)
(* erases it only when it has been taken up.                               *)
(***************************************************************************)
LEMMA KeptBroker ==
    ASSUME TypeOK, NeverBackwards, OnlyNewest, ClearIsDue, NewestKept,
           Broker, UNCHANGED accepted
    PROVE  OnlyNewest' /\ ClearIsDue' /\ NewestKept'
<1>1. /\ to_broker # <<>> /\ to_broker' = Tail(to_broker)
      /\ UNCHANGED requests
  BY DEF Broker, AcceptSubscribe, AcceptClear, AcceptReply
<1>2. ClearIsDue'
  BY <1>1, TailMembers DEF ClearIsDue, TypeOK, BrokerTypeOK
<1> DEFINE Ok(s) == /\ s \in Seq(Downlink)
                    /\ \A i \in DOMAIN s : s[i].req \in {0, Len(requests)}
<1>3. Ok(to_device) /\ retained_in \in {0, Len(requests)} /\ retained_in \in Nat
  BY DEF OnlyNewest, NeverBackwards, TypeOK, BrokerTypeOK
<1>4. ASSUME NEW s, Ok(s), NEW m \in Downlink, m.req \in {0, Len(requests)}
      PROVE  Ok(Append(s, m))
  BY <1>4, AppendMembers, AppendProperties
<1>5. \A s : Ok(s) => /\ Ok(Append(s, SUBACK)) /\ Ok(WithRetained(s))
                      /\ Ok(Append(s, PUBLISH(0)))
  <2>1. /\ SUBACK \in Downlink /\ SUBACK.req = 0
        /\ PUBLISH(0) \in Downlink /\ PUBLISH(0).req = 0
        /\ PUBLISH(retained_in) \in Downlink
        /\ PUBLISH(retained_in).req = retained_in
    BY <1>3, PacketTypes
  <2>. HIDE DEF Ok
  <2>. QED BY <1>3, <1>4, <2>1 DEF WithRetained
<1>6. Ok(to_device')
  <2>. HIDE DEF Ok
  <2>. QED BY <1>3, <1>5 DEF Broker, AcceptSubscribe, AcceptClear, AcceptReply,
                            Forward
<1>7. OnlyNewest'
  BY <1>1, <1>6 DEF OnlyNewest
<1>8. NewestKept'
  <2>1. CASE AcceptClear
    BY <1>1, <2>1, TailMembers
       DEF AcceptClear, ClearIsDue, NewestKept, TypeOK, BrokerTypeOK
  <2>2. CASE AcceptSubscribe \/ AcceptReply
    BY <2>2 DEF AcceptSubscribe, AcceptReply, NewestKept
  <2>. QED BY <2>1, <2>2 DEF Broker
<1>. QED BY <1>2, <1>7, <1>8

(***************************************************************************)
(* The device sends something else than an erasure.                        *)
(***************************************************************************)
LEMMA KeptSend ==
    ASSUME TypeOK, OnlyNewest, ClearIsDue, NewestKept,
           NEW packet \in Uplink, packet.type # "CLEAR", Send(packet),
           UNCHANGED <<to_device, accepted>>
    PROVE  OnlyNewest' /\ ClearIsDue' /\ NewestKept'
<1>1. ClearIsDue'
  <2>1. CASE connected
    BY <2>1, AppendMembers DEF Send, ClearIsDue, TypeOK, BrokerTypeOK
  <2>2. CASE ~connected
    BY <2>2 DEF Send, ClearIsDue
  <2>. QED BY <2>1, <2>2
<1>. QED BY <1>1 DEF Send, OnlyNewest, NewestKept

LEMMA KeptUnchanged ==
    ASSUME OnlyNewest, ClearIsDue, NewestKept,
           UNCHANGED <<requests, retained_in, accepted>>,
           to_device' = to_device \/ to_device' = <<>>,
           to_broker' = to_broker \/ to_broker' = <<>>
    PROVE  OnlyNewest' /\ ClearIsDue' /\ NewestKept'
BY DEF OnlyNewest, ClearIsDue, NewestKept

(***************************************************************************)
(* What the device sends apart from erasures: retained words that tell its *)
(* status, and others.                                                     *)
(***************************************************************************)
LEMMA Replies ==
    ASSUME TypeOK, ServesCurrent
    PROVE  /\ REPLY("GET_STATUS", Status, TRUE) \in Uplink
           /\ pc \in Handling =>
                 /\ REPLY("GET_STATUS", Status, FALSE) \in Uplink
                 /\ REPLY("GET_INFO", walvola_status, FALSE) \in Uplink
                 /\ REPLY("UPDATE", "OTA", FALSE) \in Uplink
                 /\ REPLY("SET_STATUS", TRANSITION, TRUE) \in Uplink
                 /\ REPLY("SET_STATUS", Value, TRUE) \in Uplink
<1>1. "OTA" \in ReplyState
  BY DEF ReplyState
<1>2. {"GET_STATUS", "GET_INFO", "UPDATE", "SET_STATUS"} \subseteq ReplyCmd
  BY DEF ReplyCmd
<1>3. pc \in Handling => ForMe(current)
  BY DEF ServesCurrent
<1>. QED BY <1>1, <1>2, <1>3, PacketTypes, ReplyStates

LEMMA KeptHandler ==
    ASSUME TypeOK, ServesCurrent, OnlyNewest, ClearIsDue, NewestKept, Callback
    PROVE  OnlyNewest' /\ ClearIsDue' /\ NewestKept'
<1>1. CASE \/ reply_CMD_GET_STATUS \/ reply_CMD_GET_INFO \/ reply_CMD_UPDATE
           \/ AnnounceTransition \/ ConfirmSet
  <2>1. pc \in Handling
    BY <1>1 DEF reply_CMD_GET_STATUS, reply_CMD_GET_INFO, reply_CMD_UPDATE,
                AnnounceTransition, ConfirmSet, Handling
  <2>2. PICK packet \in Uplink : packet.type = "REPLY" /\ Send(packet)
    BY <1>1, <2>1, Replies DEF REPLY, reply_CMD_GET_STATUS, reply_CMD_GET_INFO,
       reply_CMD_UPDATE, AnnounceTransition, ConfirmSet
  <2>3. UNCHANGED <<to_device, accepted>>
    BY <1>1 DEF reply_CMD_GET_STATUS, reply_CMD_GET_INFO, reply_CMD_UPDATE,
                AnnounceTransition, ConfirmSet, world
  <2>. QED BY <2>2, <2>3, KeptSend
<1>2. CASE DiscardUnknown \/ SetNothing \/ SetWalvola \/ set_irb \/ Actuate \/ Store
  BY <1>2, KeptUnchanged DEF DiscardUnknown, SetNothing, SetWalvola, set_irb,
     Actuate, Store, broker_vars, world
<1>. QED BY <1>1, <1>2 DEF Callback

LEMMA KeptStep ==
    ASSUME FlushBeforeSleep, ~AwakePublish, TypeOK, NeverBackwards,
           ServesCurrent, NothingTravels, RequestsKept, [Next]_vars
    PROVE  RequestsKept'
<1> SUFFICES ASSUME power_fails' = 0
             PROVE  OnlyNewest' /\ ClearIsDue' /\ NewestKept'
  BY DEF RequestsKept
<1>0. power_fails = 0 /\ ~PowerFail /\ OnlyNewest /\ ClearIsDue /\ NewestKept
  BY NoPowerFail DEF RequestsKept
<1>1. CASE \/ Setup \/ WifiAlreadyUp \/ WiFi_init \/ get_web_time \/ ConnectFails
           \/ SubscribeFails \/ PollIdle \/ PollDone \/ EnterOta \/ Scheduled
  BY <1>0, <1>1, KeptUnchanged
     DEF Setup, WifiAlreadyUp, WiFi_init, get_web_time, ConnectFails,
         SubscribeFails, PollIdle, PollDone, EnterOta, Scheduled, broker_vars,
         world
<1>2. CASE Connect
  <2>1. /\ to_broker' = <<SUBSCRIBE>> /\ to_device' = <<>>
        /\ UNCHANGED <<requests, retained_in, accepted>>
    BY <1>2 DEF Connect, Open, world
  <2>2. \A i \in DOMAIN <<SUBSCRIBE>> : <<SUBSCRIBE>>[i].type # "CLEAR"
    <3>1. SUBSCRIBE.type # "CLEAR" /\ SUBSCRIBE \in Uplink
      BY PacketTypes DEF SUBSCRIBE
    <3>2. /\ <<SUBSCRIBE>> \in Seq(Uplink) /\ Len(<<SUBSCRIBE>>) = 1
          /\ <<SUBSCRIBE>>[1] = SUBSCRIBE
      BY <3>1
    <3>. QED BY <3>1, <3>2, LenProperties
  <2>. QED BY <1>0, <2>1, <2>2 DEF OnlyNewest, ClearIsDue, NewestKept
<1>3. CASE SubscribeDone
  <2>1. /\ to_device # <<>> /\ to_device' = Tail(to_device)
        /\ UNCHANGED <<requests, retained_in, to_broker, accepted>>
    BY <1>3 DEF SubscribeDone, Receive, world
  <2>. QED BY <1>0, <2>1, TailMembers
           DEF OnlyNewest, ClearIsDue, NewestKept, TypeOK, BrokerTypeOK
<1>4. CASE SubscribeReads \/ PollReads
  BY <1>0, <1>4, KeptCallback DEF SubscribeReads, PollReads
<1>5. CASE Report
  <2>1. REPLY("GET_STATUS", Status, TRUE).type # "CLEAR"
    BY DEF REPLY
  <2>. QED BY <1>0, <1>5, <2>1, Replies, KeptSend DEF Report, world
<1>6. CASE Callback
  BY <1>0, <1>6, KeptHandler
<1>7. CASE DeepSleep \/ stop_inet_connectivity \/ OtaUpload
  <2>1. /\ to_broker = <<>> /\ Abandon
        /\ UNCHANGED <<requests, retained_in, accepted>>
    BY <1>0, <1>7 DEF DeepSleep, SessionOver, stop_inet_connectivity, OtaUpload,
       Abandon, NothingTravels, world
  <2>. QED BY <1>0, <2>1, AbandonEmpty, KeptUnchanged
<1>8. CASE ConnectionBreaks
  BY <1>0, <1>8, KeptUnchanged DEF ConnectionBreaks, Break, world
<1>9. CASE Controller
  <2>1. PICK r \in Request : Publish(r)
    BY <1>9 DEF Controller
  <2>2. to_broker = <<>> /\ to_device = <<>> /\ ~subscribed
    BY <1>0, <1>9 DEF Controller, NothingTravels
  <2>3. /\ to_broker' = <<>> /\ to_device' = <<>>
        /\ retained_in' = Len(requests) + 1
        /\ requests' = Append(requests, r)
    BY <2>1, <2>2 DEF Publish, Forward
  <2>4. Len(requests') = Len(requests) + 1
    BY <2>3, AppendProperties DEF TypeOK, BrokerTypeOK
  <2>. QED BY <2>3, <2>4 DEF OnlyNewest, ClearIsDue, NewestKept
<1>10. CASE BrokerStep
  BY <1>0, <1>10, KeptBroker DEF BrokerStep, world
<1>11. CASE UNCHANGED vars
  BY <1>0, <1>11, KeptUnchanged DEF vars, broker_vars, world
<1>. QED BY <1>0, <1>1, <1>2, <1>3, <1>4, <1>5, <1>6, <1>7, <1>8, <1>9, <1>10,
            <1>11 DEF Next, Device, Session, Rest, Environment

LEMMA TravelsInvariance ==
    ASSUME FlushBeforeSleep
    PROVE  Spec => []NothingTravels
<1>1. Init => NothingTravels
  BY DEF Init, BrokerInit, NothingTravels
<1>2. TypeOK /\ NothingTravels /\ [Next]_vars => NothingTravels'
  BY TravelsStep
<1>. QED BY <1>1, <1>2, TypeCorrect, PTL DEF Spec

(***************************************************************************)
(* Nothing is lost while the radio is off: if controllers publish only     *)
(* then, and no power failure has left an erasure on its way, the newest   *)
(* request waits at the broker or has been taken up (mqtt_callback,        *)
(* MQTT_init, stop_inet_connectivity).                                     *)
(***************************************************************************)
THEOREM NoRequestIsMissed ==
    FlushBeforeSleep /\ ~AwakePublish =>
        (Spec => []NoRequestMissed)
<1> SUFFICES ASSUME FlushBeforeSleep, ~AwakePublish
             PROVE  Spec => []NoRequestMissed
  OBVIOUS
<1>1. Init => RequestsKept
  BY EmptySeq DEF Init, BrokerInit, RequestsKept, OnlyNewest, ClearIsDue, NewestKept
<1>2. IInv /\ NothingTravels /\ RequestsKept /\ [Next]_vars => RequestsKept'
  BY KeptStep DEF IInv
<1>3. RequestsKept => NoRequestMissed
  BY DEF RequestsKept, NewestKept, NoRequestMissed
<1>. QED BY <1>1, <1>2, <1>3, Invariance, TravelsInvariance, PTL DEF Spec

-----------------------------------------------------------------------------
(* Controllers know *)

(***************************************************************************)
(* A relay falls back when a new program restarts the device, and nothing  *)
(* tells: the replies of an infrared or relay board are true only if no    *)
(* controller asks for an update.                                          *)
(***************************************************************************)
RelayStays == Role = "IRB" => \A r \in Request : r.cmd # "UPDATE"

NoRelayUpdate == Role = "IRB" => ~update_mode

LEMMA RelayStep ==
    ASSUME RelayStays, TypeOK, ServesCurrent, NoRelayUpdate, [Next]_vars
    PROVE  NoRelayUpdate'
<1>1. CASE reply_CMD_UPDATE
  <2>1. requests[current] \in Request /\ requests[current].cmd = "UPDATE"
    BY <1>1, LenProperties
       DEF reply_CMD_UPDATE, Cmd, ServesCurrent, ForMe, Handling, TypeOK, BrokerTypeOK
  <2>. QED BY <2>1 DEF RelayStays, NoRelayUpdate
<1>2. CASE update_mode' = update_mode \/ ~update_mode'
  BY <1>2 DEF NoRelayUpdate
<1>3. reply_CMD_UPDATE \/ update_mode' = update_mode \/ ~update_mode'
  BY DEF Next, Device, Session, Callback, Rest, Environment, Setup,
         WifiAlreadyUp, WiFi_init, get_web_time, Connect, ConnectFails,
         SubscribeDone, SubscribeFails, SubscribeReads, PollReads, PollIdle,
         PollDone, Report, mqtt_callback, reply_CMD_GET_STATUS,
         reply_CMD_GET_INFO, DiscardUnknown,
         AnnounceTransition, SetNothing, SetWalvola, set_irb, Actuate, Store,
         ConfirmSet, DeepSleep, EnterOta, Scheduled, stop_inet_connectivity,
         PowerFail, RamReset, ConnectionBreaks, OtaUpload, Controller,
         BrokerStep, ram, vars
<1>. QED BY <1>1, <1>2, <1>3

LEMMA WordUnchanged ==
    ASSUME LastWordTrue, UNCHANGED <<to_broker, retained_out, actuator>>
    PROVE  LastWordTrue'
BY DEF LastWordTrue, NoWordAfter, Word

(***************************************************************************)
(* The broker takes a word, the last or another, or something else.        *)
(***************************************************************************)
LEMMA WordBroker ==
    ASSUME TypeOK, LastWordTrue, Broker, UNCHANGED actuator
    PROVE  LastWordTrue'
<1>1. /\ to_broker \in Seq(Uplink) /\ to_broker # <<>>
      /\ to_broker' = Tail(to_broker)
      /\ Head(to_broker) = to_broker[1] /\ 1 \in DOMAIN to_broker
      /\ retained_out' = IF Word(Head(to_broker))
                         THEN [cmd |-> Head(to_broker).cmd,
                               state |-> Head(to_broker).state]
                         ELSE retained_out
  BY TailMembers
     DEF Broker, AcceptSubscribe, AcceptClear, AcceptReply, Word, TypeOK, BrokerTypeOK
<1>2. /\ DOMAIN to_broker = 1 .. Len(to_broker) /\ Len(to_broker) \in Nat \ {0}
      /\ DOMAIN to_broker' = 1 .. (Len(to_broker) - 1)
      /\ \A i \in 1 .. (Len(to_broker) - 1) : to_broker'[i] = to_broker[i + 1]
  BY <1>1, HeadTailProperties, LenProperties, EmptySeq
<1>3. \A j \in DOMAIN to_broker : j > 1 =>
         j - 1 \in DOMAIN to_broker' /\ to_broker'[j - 1] = to_broker[j]
  BY <1>2
<1>4. ASSUME NEW i \in DOMAIN to_broker', NoWordAfter(to_broker', i)
      PROVE  /\ i + 1 \in DOMAIN to_broker /\ to_broker'[i] = to_broker[i + 1]
             /\ NoWordAfter(to_broker, i + 1)
  <2>1. ASSUME NEW j \in DOMAIN to_broker, j > i + 1
        PROVE  ~Word(to_broker[j])
    <3>0. i \in Nat \ {0} /\ j \in Nat
      BY <1>2
    <3>1. j > 1 /\ j - 1 > i
      BY <2>1, <3>0
    <3>. QED BY <1>3, <1>4, <2>1, <3>1 DEF NoWordAfter
  <2>. QED BY <1>2, <2>1 DEF NoWordAfter
<1>5. ASSUME NoWordAfter(to_broker', 0)
      PROVE  NoWordAfter(to_broker, 1)
  <2>1. ASSUME NEW j \in DOMAIN to_broker, j > 1
        PROVE  ~Word(to_broker[j])
    <3>1. j - 1 > 0
      BY <1>2, <2>1
    <3>. QED BY <1>3, <1>5, <2>1, <3>1 DEF NoWordAfter
  <2>. QED BY <2>1 DEF NoWordAfter
<1>6. ASSUME NEW i \in DOMAIN to_broker',
             Word(to_broker'[i]), NoWordAfter(to_broker', i)
      PROVE  to_broker'[i].state = actuator'
  BY <1>4, <1>6 DEF LastWordTrue
<1>7. ASSUME NoWordAfter(to_broker', 0)
      PROVE  retained_out' = NoReply \/ retained_out'.state = actuator'
  <2>1. CASE Word(to_broker[1])
    BY <1>1, <1>5, <1>7, <2>1 DEF LastWordTrue
  <2>2. CASE ~Word(to_broker[1])
    <3>1. \A j \in DOMAIN to_broker : j = 1 \/ j > 1
      BY <1>2
    <3>2. NoWordAfter(to_broker, 0)
      BY <1>5, <1>7, <2>2, <3>1 DEF NoWordAfter
    <3>. QED BY <1>1, <2>2, <3>2 DEF LastWordTrue
  <2>. QED BY <2>1, <2>2
<1>8. NoWordAfter(to_broker, 0)' <=> NoWordAfter(to_broker', 0)
  BY DEF NoWordAfter, Word
<1>9. \A i : NoWordAfter(to_broker, i)' <=> NoWordAfter(to_broker', i)
  BY DEF NoWordAfter, Word
<1>. QED BY <1>6, <1>7, <1>8, <1>9 DEF LastWordTrue, Word

(***************************************************************************)
(* MQTT_init's report is the last word, and it is true.                    *)
(***************************************************************************)
LEMMA WordReported ==
    ASSUME TypeOK, ServesCurrent, connected, Status = actuator,
           Send(REPLY("GET_STATUS", Status, TRUE)), UNCHANGED actuator
    PROVE  LastWordTrue'
<1> DEFINE word == REPLY("GET_STATUS", Status, TRUE)
           last == Len(to_broker) + 1
<1>1. Word(word) /\ word.state = actuator /\ word \in Uplink
  BY Replies DEF REPLY, Word
<1>2. to_broker' = Append(to_broker, word)
  BY DEF Send
<1>. HIDE DEF word
<1>3. /\ DOMAIN to_broker' = 1 .. last /\ to_broker'[last] = word
      /\ Len(to_broker) \in Nat
  BY <1>1, <1>2, AppendProperties, LenProperties DEF TypeOK, BrokerTypeOK
<1>4. \A i \in DOMAIN to_broker' :
         ~NoWordAfter(to_broker', i) \/ to_broker'[i].state = actuator'
  <2>1. \A i \in 1 .. last : i = last \/ last > i
    BY <1>3
  <2>. QED BY <1>1, <1>3, <2>1 DEF NoWordAfter
<1>5. ~NoWordAfter(to_broker', 0)
  <2>1. last > 0 /\ last \in 1 .. last
    BY <1>3
  <2>. QED BY <1>1, <1>3, <2>1 DEF NoWordAfter
<1>6. \A i : NoWordAfter(to_broker, i)' <=> NoWordAfter(to_broker', i)
  BY DEF NoWordAfter, Word
<1>. QED BY <1>4, <1>5, <1>6 DEF LastWordTrue

LEMMA NoBreak ==
    ASSUME TypeOK, [Next]_vars, breaks' = 0
    PROVE  breaks = 0 /\ ~ConnectionBreaks
<1>1. breaks \in Nat
  BY DEF TypeOK
<1>2. ConnectionBreaks \/ breaks' = breaks
  BY DEF Next, Device, Session, Callback, Rest, Environment, Setup,
         WifiAlreadyUp, WiFi_init, get_web_time, Connect, ConnectFails,
         SubscribeDone, SubscribeFails, SubscribeReads, PollReads, PollIdle,
         PollDone, Report, mqtt_callback, reply_CMD_GET_STATUS,
         reply_CMD_GET_INFO, reply_CMD_UPDATE, DiscardUnknown,
         AnnounceTransition, SetNothing, SetWalvola, set_irb, Actuate, Store,
         ConfirmSet, DeepSleep, EnterOta, Scheduled, stop_inet_connectivity,
         PowerFail, OtaUpload, Controller, BrokerStep, faults, vars
<1>3. ~ConnectionBreaks
  BY <1>1 DEF ConnectionBreaks
<1>. QED BY <1>2, <1>3

LEMMA ReplyStep ==
    ASSUME FlushBeforeSleep, TypeOK, ServesCurrent, StoredIsActual,
           NothingTravels, NoRelayUpdate, ReplyIsTrue, [Next]_vars
    PROVE  ReplyIsTrue'
<1> SUFFICES ASSUME power_fails' = 0, breaks' = 0 PROVE ReplyIsTrue'
  BY DEF ReplyIsTrue
<1>0. power_fails = 0 /\ ~PowerFail /\ breaks = 0 /\ ~ConnectionBreaks
  BY NoPowerFail, NoBreak
<1>. USE <1>0 DEF ReplyIsTrue, Reading, Handling
<1>1. CASE \/ Setup \/ WifiAlreadyUp \/ WiFi_init \/ get_web_time \/ ConnectFails
           \/ SubscribeFails \/ PollIdle \/ PollDone \/ EnterOta \/ Scheduled
  <2>1. UNCHANGED <<to_broker, retained_out, actuator, connected>>
    BY <1>1 DEF Setup, WifiAlreadyUp, WiFi_init, get_web_time, ConnectFails,
       SubscribeFails, PollIdle, PollDone, EnterOta, Scheduled, broker_vars, world
  <2>2. \/ pc \in {"asleep", "start", "time", "connect", "suback", "voltage"} /\ LastWordTrue
        \/ pc = "poll" /\ pc' \in {"poll", "report"}
    BY <1>1 DEF Setup, WifiAlreadyUp, WiFi_init, get_web_time, ConnectFails,
       SubscribeFails, PollIdle, PollDone, EnterOta, Scheduled, SessionOver
  <2>3. pc # "poll" => pc' \in {"start", "time", "connect", "report", "voltage", "awake", "ota"}
    BY <1>1 DEF Setup, WifiAlreadyUp, WiFi_init, get_web_time, ConnectFails,
       SubscribeFails, PollIdle, PollDone, EnterOta, Scheduled, SessionOver
  <2>. QED BY <2>1, <2>2, <2>3, WordUnchanged
<1>2. CASE Connect
  <2>1. /\ connected' /\ pc' = "suback" /\ to_broker' = <<SUBSCRIBE>>
        /\ UNCHANGED <<retained_out, actuator>>
    BY <1>2 DEF Connect, Open, world
  <2>2. retained_out = NoReply \/ retained_out.state = actuator
    BY <1>2, EmptySeq DEF Connect, NothingTravels, LastWordTrue, NoWordAfter
  <2>3. \A i \in DOMAIN <<SUBSCRIBE>> : ~Word(<<SUBSCRIBE>>[i])
    <3>1. ~Word(SUBSCRIBE) /\ SUBSCRIBE \in Uplink
      BY PacketTypes DEF SUBSCRIBE, Word
    <3>2. /\ <<SUBSCRIBE>> \in Seq(Uplink) /\ Len(<<SUBSCRIBE>>) = 1
          /\ <<SUBSCRIBE>>[1] = SUBSCRIBE
      BY <3>1
    <3>. QED BY <3>1, <3>2, LenProperties
  <2>4. LastWordTrue'
    BY <2>1, <2>2, <2>3 DEF LastWordTrue, Word
  <2>. QED BY <2>1, <2>4
<1>3. CASE SubscribeDone \/ SubscribeReads \/ PollReads
  <2>1. /\ pc \in {"suback", "readpkt", "poll"} /\ connected' = connected
        /\ pc' \in {"readpkt", "poll", "dispatch"}
    BY <1>3 DEF SubscribeDone, SubscribeReads, PollReads, mqtt_callback, Send
  <2>. QED BY <2>1
<1>4. CASE Report
  <2>1. pc = "report" /\ pc' = "voltage" /\ UNCHANGED actuator
    BY <1>4 DEF Report, world
  <2>2. CASE connected
    <3>0. ~interrupted /\ ~Moving
      <4>1. ~(power_fails > 0)
        BY <1>0
      <4>. QED BY <2>1, <4>1, Zenon DEF StoredIsActual, Moving
    <3>1. Status = actuator
      BY <2>1, <3>0 DEF StoredIsActual
    <3>2. LastWordTrue'
      BY <1>4, <2>1, <2>2, <3>1, WordReported DEF Report
    <3>. QED BY <2>1, <3>2
  <2>3. CASE ~connected
    <3>1. LastWordTrue'
      BY <1>4, <2>1, <2>3, WordUnchanged DEF Report, Send
    <3>. QED BY <2>1, <3>1
  <2>. QED BY <2>2, <2>3
<1>5. CASE Callback
  <2>1. /\ pc \in Handling /\ connected' = connected
        /\ pc' \in {"readpkt", "poll"} \cup Handling
    BY <1>5 DEF Callback, reply_CMD_GET_STATUS, reply_CMD_GET_INFO,
       reply_CMD_UPDATE, DiscardUnknown, AnnounceTransition, SetNothing,
       SetWalvola, set_irb, Actuate, Store, ConfirmSet, Send, broker_vars, TypeOK
  <2>. QED BY <2>1
<1>6. CASE DeepSleep \/ stop_inet_connectivity \/ OtaUpload
  <2>1. /\ to_broker = <<>> /\ Abandon /\ UNCHANGED retained_out
        /\ pc \in {"voltage", "awake", "ota"} /\ pc' \in {"asleep", "start"}
    BY <1>6 DEF DeepSleep, SessionOver, stop_inet_connectivity, OtaUpload,
       NothingTravels, Abandon
  <2>2. UNCHANGED actuator
    BY <1>6 DEF DeepSleep, stop_inet_connectivity, OtaUpload, world, NoRelayUpdate
  <2>3. UNCHANGED to_broker
    BY <2>1, AbandonEmpty
  <2>4. LastWordTrue'
    BY <2>1, <2>2, <2>3, WordUnchanged
  <2>. QED BY <2>1, <2>4
<1>7. CASE Controller
  BY <1>7, WordUnchanged DEF Controller, Publish, world
<1>8. CASE BrokerStep
  <2>1. pc' = pc /\ connected' = connected /\ Broker /\ UNCHANGED actuator
    BY <1>8 DEF BrokerStep, Broker, AcceptSubscribe, AcceptClear, AcceptReply, world
  <2>. QED BY <2>1, WordBroker
<1>9. CASE UNCHANGED vars
  BY <1>9, WordUnchanged DEF vars, broker_vars, world
<1>. QED BY <1>1, <1>2, <1>3, <1>4, <1>5, <1>6, <1>7, <1>8, <1>9
         DEF Next, Device, Session, Rest, Environment

(***************************************************************************)
(* Without faults the retained reply tells where the actuator is whenever  *)
(* the radio is off and all that was sent has arrived (MQTT_init's final   *)
(* publish, reply_CMD_SET_STATUS), whatever controllers publish meanwhile; *)
(* for a relay, as long as nobody asks for an update.                      *)
(***************************************************************************)
THEOREM ControllersAreTold ==
    FlushBeforeSleep /\ RelayStays => (Spec => []ControllersKnow)
<1> SUFFICES ASSUME FlushBeforeSleep, RelayStays
             PROVE  Spec => []ControllersKnow
  OBVIOUS
<1>1. Init => NoRelayUpdate /\ ReplyIsTrue
  BY EmptySeq DEF Init, BrokerInit, NoRelayUpdate, ReplyIsTrue, Reading,
                  Handling, LastWordTrue, NoWordAfter
<1>2. IInv /\ NothingTravels /\ NoRelayUpdate /\ ReplyIsTrue /\ [Next]_vars =>
         NoRelayUpdate' /\ ReplyIsTrue'
  BY RelayStep, ReplyStep DEF IInv
<1>3. ReplyIsTrue => ControllersKnow
  BY EmptySeq DEF ReplyIsTrue, ControllersKnow, RadioOff, LastWordTrue,
                  NoWordAfter, Reading, Handling
<1>. QED BY <1>1, <1>2, <1>3, Invariance, TravelsInvariance, PTL DEF Spec
=============================================================================
