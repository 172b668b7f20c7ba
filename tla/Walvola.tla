------------------------------ MODULE Walvola ------------------------------
(***************************************************************************)
(* The firmware of one device: the boot sequence, the MQTT session it runs *)
(* each time it wakes up, the callback that serves a request, the storage  *)
(* of the status and the ways to sleep.  One action per step of the code   *)
(* between two points where the network, a controller or a power failure   *)
(* can interfere.                                                          *)
(*                                                                         *)
(* `pc' is the place in the program:                                       *)
(*   asleep    no power, or deep sleep: RAM is lost                        *)
(*   start     setup is over (deep sleep mode) or loop() has the radio off *)
(*             and waits for the next schedule (modem sleep mode)          *)
(*   time      WiFi is up, get_web_time is running                         *)
(*   connect   MQTT_init is about to connect                               *)
(*   suback    subscribe waits for the first byte of an answer             *)
(*   readpkt   the device is blocked in readPacket, which has no timeout:  *)
(*             subscribe has read another packet first, or the connection  *)
(*             broke in the middle of a packet                             *)
(*   poll      the five calls of mqtt_client.loop()                        *)
(*   dispatch, set, actuate, store, final    steps of the MQTT callback    *)
(*   report    MQTT_init is about to publish the status                    *)
(*   voltage   the session is over, the voltage is posted                  *)
(*   awake     modem sleep mode: loop() is about to stop the radio         *)
(*   ota       deep sleep mode: loop() serves the update page              *)
(***************************************************************************)
EXTENDS MqttBroker

CONSTANTS
    Role,             \* WALVOLA_ROLE, WAC_ROLE or IRB_ROLE
    Sleep,            \* WALVOLA_DEEP_SLEEP_MODE or WALVOLA_MODEM_SLEEP_MODE
    Id,               \* WALVOLA_ID
    Polls,            \* calls of mqtt_client.loop() in a session (5 in the code)
    AwakePublish,     \* controllers may publish while the device is awake
    FlushBeforeSleep, \* what was sent arrives before the radio goes off
    MaxPowerFails,    \* bound on power failures
    MaxBreaks         \* bound on broken connections

ASSUME ConfigurationAssumption ==
    /\ Role \in {"WALVOLA", "WAC", "IRB"}
    /\ Sleep \in {"DEEP", "MODEM"}
    /\ Role = "IRB" => Sleep = "MODEM"  \* the ESP8266-01 cannot deep sleep
    /\ Id \in STRING
    /\ Polls \in Nat
    /\ AwakePublish \in BOOLEAN
    /\ FlushBeforeSleep \in BOOLEAN
    /\ MaxPowerFails \in Nat
    /\ MaxBreaks \in Nat

VARIABLES
    pc,
    polls,            \* mqtt_client.loop() calls made in this session
    caller,           \* where the callback returns to: "readpkt" or "poll"
    current,          \* the request the callback serves
    walvola_status,   \* RAM
    relay_status,     \* RAM
    update_mode,      \* RAM
    eeprom,           \* the stored status; "NOT_SET" is any byte above 1
    wifi,             \* WiFi.status() == WL_CONNECTED
    actuator,         \* where the valve, air conditioner or relay really is
    accepted,         \* history: the newest request the callback took up
    interrupted,      \* history: power failed during a movement, and none
                      \* has been completed since
    power_fails, breaks

ram == <<polls, caller, current, walvola_status, relay_status, update_mode>>
world == <<actuator, accepted>>
faults == <<interrupted, power_fails, breaks>>
vars == <<broker_vars, pc, ram, eeprom, wifi, world, faults>>

WALVOLA_ON  == "ON"
WALVOLA_OFF == "OFF"
TRANSITION  == "TRANSITION"
Position    == {WALVOLA_ON, WALVOLA_OFF}

Handling == {"dispatch", "set", "actuate", "store", "final"}

PCs == {"asleep", "start", "time", "connect", "suback", "readpkt", "poll",
        "report", "voltage", "awake", "ota"} \cup Handling

(***************************************************************************)
(* The state a device publishes as its own.                                *)
(***************************************************************************)
Status == IF Role = "IRB" THEN relay_status ELSE walvola_status

(***************************************************************************)
(* Static initialisation of the globals, when power comes back.            *)
(***************************************************************************)
RamReset ==
    /\ polls' = 0
    /\ caller' = "poll"
    /\ current' = 0
    /\ walvola_status' = WALVOLA_ON
    /\ relay_status' = WALVOLA_OFF
    /\ update_mode' = FALSE

Init ==
    /\ BrokerInit
    /\ pc = "asleep"
    /\ polls = 0 /\ caller = "poll" /\ current = 0
    /\ walvola_status = WALVOLA_ON
    /\ relay_status = WALVOLA_OFF
    /\ update_mode = FALSE
    /\ eeprom \in {"NOT_SET"} \cup Position
    /\ wifi = FALSE
    /\ actuator = IF Role = "IRB" THEN WALVOLA_OFF
                  ELSE IF eeprom = "NOT_SET" THEN WALVOLA_ON ELSE eeprom
    /\ accepted = 0
    /\ interrupted = FALSE /\ power_fails = 0 /\ breaks = 0

-----------------------------------------------------------------------------
(* setup() and the start of a session *)

(* Mutant: the stored status is not read back. *)
Setup_IgnoresEeprom ==
    /\ pc = "asleep"
    /\ pc' = "start"
    /\ UNCHANGED <<broker_vars, ram, eeprom, wifi, world, faults>>

Setup ==
    /\ pc = "asleep"
    /\ pc' = "start"
    /\ walvola_status' = IF Role = "IRB" \/ eeprom = "NOT_SET"
                         THEN WALVOLA_ON ELSE eeprom
    /\ eeprom' = IF Role = "IRB" THEN eeprom ELSE walvola_status'
    /\ UNCHANGED <<broker_vars, polls, caller, current, relay_status,
                   update_mode, wifi, world, faults>>

(* The radio has already joined the network by itself: no session is run. *)
WifiAlreadyUp ==
    /\ pc = "start"
    /\ pc' = "voltage"
    /\ wifi' = TRUE
    /\ UNCHANGED <<broker_vars, ram, eeprom, world, faults>>

WiFi_init ==
    /\ pc = "start"
    /\ \/ wifi' = TRUE /\ pc' = "time"
       \/ wifi' = FALSE /\ pc' = "voltage"
    /\ UNCHANGED <<broker_vars, ram, eeprom, world, faults>>

get_web_time ==
    /\ pc = "time"
    /\ pc' = "connect"
    /\ UNCHANGED <<broker_vars, ram, eeprom, wifi, world, faults>>

-----------------------------------------------------------------------------
(* MQTT_init *)

(* connect(), the CONNACK, and the sending of the SUBSCRIBE. *)
Connect ==
    /\ pc = "connect"
    /\ ~connected
    /\ Open(SUBSCRIBE)
    /\ pc' = "suback"
    /\ UNCHANGED <<ram, eeprom, wifi, world, faults>>

ConnectFails ==
    /\ pc = "connect"
    /\ pc' = "report"
    /\ UNCHANGED <<broker_vars, ram, eeprom, wifi, world, faults>>

(* The next packet of the socket, consumed; nothing is sent. *)
Receive(type) ==
    /\ to_device # <<>> /\ Head(to_device).type = type
    /\ to_device' = Tail(to_device)

(* Mutant: nothing is polled after the subscription. *)
SubscribeDone_NoPoll ==
    /\ pc \in {"suback", "readpkt"}
    /\ Receive("SUBACK")
    /\ pc' = "report"
    /\ UNCHANGED <<requests, retained_in, retained_out, connected, subscribed,
                   to_broker, ram, eeprom, wifi, world, faults>>

SubscribeDone ==
    /\ pc \in {"suback", "readpkt"}
    /\ Receive("SUBACK")
    /\ pc' = "poll"
    /\ polls' = 0
    /\ UNCHANGED <<requests, retained_in, retained_out, connected, subscribed,
                   to_broker, caller, current, walvola_status, relay_status,
                   update_mode, eeprom, wifi, world, faults>>

(* Nothing arrived during the keepalive period; the resends time out at    *)
(* once, and MQTT_init returns without publishing the status.              *)
SubscribeFails ==
    /\ pc = "suback"
    /\ pc' = "voltage"
    /\ UNCHANGED <<broker_vars, ram, eeprom, wifi, world, faults>>

(* Only what is addressed to this device, or to all of them, is served; an *)
(* empty or unparsable message has no dst.                                 *)
ForMe(n) ==
    /\ n \in DOMAIN requests
    /\ requests[n].dst \in {Id, "allwalvoles"}

(* Mutant: dst is not looked at. *)
mqtt_callback_AnyDst(n, return) ==
    /\ Receive("PUBLISH")
    /\ IF n \in DOMAIN requests
       THEN /\ pc' = "dispatch"
            /\ current' = n /\ caller' = return /\ accepted' = n
            /\ Send(CLEAR)
       ELSE /\ pc' = return
            /\ UNCHANGED <<requests, retained_in, retained_out, connected,
                           subscribed, to_broker, current, caller, accepted>>
    /\ UNCHANGED <<walvola_status, relay_status, update_mode, eeprom, wifi,
                   actuator, faults>>

(* Mutant: the retained message is erased whoever it is for. *)
mqtt_callback_ClearsAll(n, return) ==
    /\ Receive("PUBLISH")
    /\ Send(CLEAR)
    /\ IF ForMe(n)
       THEN pc' = "dispatch" /\ current' = n /\ caller' = return /\ accepted' = n
       ELSE pc' = return /\ UNCHANGED <<current, caller, accepted>>
    /\ UNCHANGED <<walvola_status, relay_status, update_mode, eeprom, wifi,
                   actuator, faults>>

(* mqtt_callback: erase the retained request, then serve it.               *)
mqtt_callback(n, return) ==
    /\ Receive("PUBLISH")
    /\ IF ForMe(n)
       THEN /\ pc' = "dispatch"
            /\ current' = n
            /\ caller' = return
            /\ accepted' = n
            /\ Send(CLEAR)
       ELSE /\ pc' = return
            /\ UNCHANGED <<requests, retained_in, retained_out, connected,
                           subscribed, to_broker, current, caller, accepted>>
    /\ UNCHANGED <<walvola_status, relay_status, update_mode, eeprom, wifi,
                   actuator, faults>>

(* A message that overtakes the SUBACK is served inside subscribe().       *)
SubscribeReads ==
    /\ pc \in {"suback", "readpkt"}
    /\ mqtt_callback(Head(to_device).req, "readpkt")
    /\ UNCHANGED polls

(* Mutant: one poll too many. *)
PollReads_OffByOne ==
    /\ pc = "poll" /\ polls <= Polls
    /\ polls' = polls + 1
    /\ mqtt_callback(Head(to_device).req, "poll")

PollReads ==
    /\ pc = "poll" /\ polls < Polls
    /\ polls' = polls + 1
    /\ mqtt_callback(Head(to_device).req, "poll")

(* Mutant: an idle poll is not counted. *)
PollIdle_NotCounted ==
    /\ pc = "poll" /\ polls < Polls
    /\ UNCHANGED vars

(* Nothing has arrived yet, or the connection is gone.                     *)
PollIdle ==
    /\ pc = "poll" /\ polls < Polls
    /\ polls' = polls + 1
    /\ UNCHANGED <<broker_vars, pc, caller, current, walvola_status,
                   relay_status, update_mode, eeprom, wifi, world, faults>>

PollDone ==
    /\ pc = "poll" /\ polls = Polls
    /\ pc' = "report"
    /\ UNCHANGED <<broker_vars, ram, eeprom, wifi, world, faults>>

(* Mutant: the report is not retained. *)
Report_NotRetained ==
    /\ pc = "report"
    /\ pc' = "voltage"
    /\ Send(REPLY("GET_STATUS", Status, FALSE))
    /\ UNCHANGED <<to_device, ram, eeprom, wifi, world, faults>>

Report ==
    /\ pc = "report"
    /\ pc' = "voltage"
    /\ Send(REPLY("GET_STATUS", Status, TRUE))
    /\ UNCHANGED <<to_device, ram, eeprom, wifi, world, faults>>

-----------------------------------------------------------------------------
(* mqtt_mex_process: the command handlers *)

Cmd   == requests[current].cmd
Value == requests[current].value

reply_CMD_GET_STATUS ==
    /\ pc = "dispatch" /\ Cmd = "GET_STATUS"
    /\ pc' = caller
    /\ Send(REPLY("GET_STATUS", Status, FALSE))
    /\ UNCHANGED <<to_device, ram, eeprom, wifi, world, faults>>

reply_CMD_GET_INFO ==
    /\ pc = "dispatch" /\ Cmd = "GET_INFO"
    /\ pc' = caller
    /\ Send(REPLY("GET_INFO", walvola_status, FALSE))
    /\ UNCHANGED <<to_device, ram, eeprom, wifi, world, faults>>

reply_CMD_UPDATE ==
    /\ pc = "dispatch" /\ Cmd = "UPDATE"
    /\ pc' = caller
    /\ update_mode' = TRUE
    /\ Send(REPLY("UPDATE", "OTA", FALSE))
    /\ UNCHANGED <<to_device, polls, caller, current, walvola_status,
                   relay_status, eeprom, wifi, world, faults>>

DiscardUnknown ==
    /\ pc = "dispatch"
    /\ Cmd \notin {"GET_STATUS", "SET_STATUS", "UPDATE", "GET_INFO"}
    /\ pc' = caller
    /\ UNCHANGED <<broker_vars, ram, eeprom, wifi, world, faults>>

(* reply_CMD_SET_STATUS: announce, act, confirm.                           *)
AnnounceTransition ==
    /\ pc = "dispatch" /\ Cmd = "SET_STATUS"
    /\ pc' = "set"
    /\ Send(REPLY("SET_STATUS", TRANSITION, TRUE))
    /\ UNCHANGED <<to_device, ram, eeprom, wifi, world, faults>>

(* A value other than ON and OFF changes nothing.                          *)
SetNothing ==
    /\ pc = "set" /\ Value \notin Position
    /\ pc' = "final"
    /\ UNCHANGED <<broker_vars, ram, eeprom, wifi, world, faults>>

(* set_walvola starts the motor (or is about to send the infrared code).   *)
SetWalvola ==
    /\ pc = "set" /\ Value \in Position /\ Role # "IRB"
    /\ pc' = "actuate"
    /\ walvola_status' = TRANSITION
    /\ actuator' = IF Role = "WALVOLA" THEN "MOVING" ELSE actuator
    /\ UNCHANGED <<broker_vars, polls, caller, current, relay_status,
                   update_mode, eeprom, wifi, accepted, faults>>

set_irb ==
    /\ pc = "set" /\ Value \in Position /\ Role = "IRB"
    /\ pc' = "actuate"
    /\ relay_status' = Value
    /\ UNCHANGED <<broker_vars, polls, caller, current, walvola_status,
                   update_mode, eeprom, wifi, world, faults>>

(* Mutant: the motor, the code or the relay level of the other direction. *)
Actuate_Swapped ==
    /\ pc = "actuate"
    /\ pc' = IF Role = "IRB" THEN "final" ELSE "store"
    /\ actuator' \in Position \ {Value}
    /\ UNCHANGED <<broker_vars, ram, eeprom, wifi, accepted, faults>>

Actuate ==
    /\ pc = "actuate"
    /\ pc' = IF Role = "IRB" THEN "final" ELSE "store"
    /\ actuator' = Value
    /\ UNCHANGED <<broker_vars, ram, eeprom, wifi, accepted, faults>>

(* Mutant: the status is not stored. *)
Store_RamOnly ==
    /\ pc = "store"
    /\ pc' = "final"
    /\ walvola_status' = Value
    /\ UNCHANGED <<broker_vars, polls, caller, current, relay_status,
                   update_mode, eeprom, wifi, world, faults>>

Store ==
    /\ pc = "store"
    /\ pc' = "final"
    /\ walvola_status' = Value
    /\ eeprom' = Value
    /\ interrupted' = FALSE
    /\ UNCHANGED <<broker_vars, polls, caller, current, relay_status,
                   update_mode, wifi, world, power_fails, breaks>>

ConfirmSet ==
    /\ pc = "final"
    /\ pc' = caller
    /\ Send(REPLY("SET_STATUS", Value, TRUE))
    /\ UNCHANGED <<to_device, ram, eeprom, wifi, world, faults>>

Callback == \/ reply_CMD_GET_STATUS \/ reply_CMD_GET_INFO \/ reply_CMD_UPDATE
            \/ DiscardUnknown \/ AnnounceTransition \/ SetNothing
            \/ SetWalvola \/ set_irb \/ Actuate \/ Store \/ ConfirmSet

-----------------------------------------------------------------------------
(* After the session *)

SessionOver == pc = "voltage" /\ (FlushBeforeSleep => to_broker = <<>>)

(* ESP.deepSleep: the next thing that runs is setup().  The connection is  *)
(* not closed.                                                             *)
DeepSleep ==
    /\ SessionOver /\ Sleep = "DEEP" /\ ~update_mode
    /\ pc' = "asleep"
    /\ wifi' = FALSE
    /\ RamReset
    /\ Abandon
    /\ UNCHANGED <<eeprom, world, faults>>

EnterOta ==
    /\ SessionOver /\ Sleep = "DEEP" /\ update_mode
    /\ pc' = "ota"
    /\ UNCHANGED <<broker_vars, ram, eeprom, wifi, world, faults>>

Scheduled ==
    /\ SessionOver /\ Sleep = "MODEM"
    /\ pc' = "awake"
    /\ UNCHANGED <<broker_vars, ram, eeprom, wifi, world, faults>>

(* The other branch of loop(): the radio is stopped, update mode or not.   *)
stop_inet_connectivity ==
    /\ pc = "awake"
    /\ pc' = "start"
    /\ wifi' = FALSE
    /\ Abandon
    /\ UNCHANGED <<ram, eeprom, world, faults>>

-----------------------------------------------------------------------------
(* The environment *)

(* Between the start of a movement and the write of its result. *)
Moving == pc \in {"actuate", "store"}

(* The motor stops where it is, the air conditioner has its own power and  *)
(* the relay falls back.                                                   *)
PowerFail ==
    /\ power_fails < MaxPowerFails
    /\ pc # "asleep"
    /\ power_fails' = power_fails + 1
    /\ interrupted' = (interrupted \/ (Moving /\ Role # "IRB"))
    /\ pc' = "asleep"
    /\ wifi' = FALSE
    /\ actuator' = IF Role = "IRB" THEN WALVOLA_OFF ELSE actuator
    /\ RamReset
    /\ Abandon
    /\ UNCHANGED <<eeprom, accepted, breaks>>

(* Packets come out of the stream byte by byte.  A connection that breaks  *)
(* in the middle of one, the CONNACK and the SUBACK included, leaves the   *)
(* device in readByte, which waits for the next byte for ever.             *)
AmidPacket == \/ pc = "suback"
              \/ pc = "poll" /\ polls < Polls /\ to_device # <<>>

ConnectionBreaks ==
    /\ breaks < MaxBreaks
    /\ connected
    /\ breaks' = breaks + 1
    /\ Break
    /\ \/ pc' = pc
       \/ AmidPacket /\ pc' = "readpkt"
    /\ UNCHANGED <<ram, eeprom, wifi, world, interrupted, power_fails>>

(* Mutant: the restart leaves the relay as it was. *)
OtaUpload_KeepsRelay ==
    /\ update_mode /\ pc \in {"ota", "awake"}
    /\ pc' = "asleep"
    /\ wifi' = FALSE
    /\ RamReset
    /\ Abandon
    /\ UNCHANGED <<eeprom, world, faults>>

(* The update page is used: the new program is stored and the device        *)
(* restarts.  In modem sleep mode handleClient runs between a session and   *)
(* the next stop of the radio only.                                         *)
OtaUpload ==
    /\ update_mode /\ pc \in {"ota", "awake"}
    /\ pc' = "asleep"
    /\ wifi' = FALSE
    /\ actuator' = IF Role = "IRB" THEN WALVOLA_OFF ELSE actuator
    /\ RamReset
    /\ Abandon
    /\ UNCHANGED <<eeprom, accepted, faults>>

Controller ==
    /\ AwakePublish \/ pc \in {"asleep", "start"}
    /\ \E r \in Request : Publish(r)
    /\ UNCHANGED <<pc, ram, eeprom, wifi, world, faults>>

BrokerStep ==
    /\ Broker
    /\ UNCHANGED <<pc, ram, eeprom, wifi, world, faults>>

-----------------------------------------------------------------------------
Session == \/ Setup \/ WifiAlreadyUp \/ WiFi_init \/ get_web_time
           \/ Connect \/ ConnectFails
           \/ SubscribeDone \/ SubscribeFails \/ SubscribeReads
           \/ PollReads \/ PollIdle \/ PollDone \/ Report

Rest == DeepSleep \/ EnterOta \/ Scheduled \/ stop_inet_connectivity

Device == Session \/ Callback \/ Rest

Environment == \/ PowerFail \/ ConnectionBreaks \/ OtaUpload
               \/ Controller \/ BrokerStep

Next == Device \/ Environment

Spec == Init /\ [][Next]_vars

(***************************************************************************)
(* The device keeps running while it has power (nobody is obliged to       *)
(* upload a program), and the broker keeps serving.  What can fail         *)
(* without a fault of the device (joining the network, connecting, getting *)
(* the answer and reading it or a request before the session ends) does    *)
(* not fail for ever when it is tried again and again.                     *)
(***************************************************************************)
Fairness ==
    /\ WF_vars(Device)
    /\ WF_vars(BrokerStep)
    /\ SF_vars(WiFi_init /\ wifi')
    /\ SF_vars(Connect)
    /\ SF_vars(BrokerStep /\ pc = "suback")
    /\ SF_vars(SubscribeDone \/ SubscribeReads)
    /\ SF_vars(PollReads)

FairSpec == Spec /\ Fairness
-----------------------------------------------------------------------------
(* Invariants *)

TypeOK ==
    /\ BrokerTypeOK
    /\ pc \in PCs
    /\ polls \in 0 .. Polls
    /\ caller \in {"readpkt", "poll"}
    /\ current \in Nat
    /\ walvola_status \in Position \cup {TRANSITION}
    /\ relay_status \in Position
    /\ update_mode \in BOOLEAN
    /\ eeprom \in Position \cup {"NOT_SET"}
    /\ wifi \in BOOLEAN
    /\ actuator \in Position \cup {"MOVING"}
    /\ accepted \in Nat
    /\ interrupted \in BOOLEAN
    /\ power_fails \in 0 .. MaxPowerFails
    /\ breaks \in 0 .. MaxBreaks

(***************************************************************************)
(* The broker hands requests over in publication order and never hands     *)
(* over one older than the newest the device has served: neither the       *)
(* retained copy nor a message that is still travelling goes back in time. *)
(***************************************************************************)
InOrder(s, low, high) ==
    \A i \in DOMAIN s :
        s[i].req # 0 => /\ low <= s[i].req /\ s[i].req <= high
                        /\ \A j \in 1 .. i : s[j].req <= s[i].req

NeverBackwards ==
    /\ retained_in \in {0, Len(requests)}
    /\ accepted <= Len(requests)
    /\ InOrder(to_device, accepted, Len(requests))

(***************************************************************************)
(* While a command handler runs, `current' is the newest request taken up, *)
(* it is addressed to this device, and the step is one of its command.     *)
(***************************************************************************)
ServesCurrent ==
    /\ pc \in Handling =>
          /\ current = accepted
          /\ ForMe(current)
    /\ pc \in Handling \ {"dispatch"} => Cmd = "SET_STATUS"
    /\ pc \in {"actuate", "store"} => Value \in Position
    /\ pc = "actuate" /\ Role = "IRB" => relay_status = Value
    /\ pc = "store" => Role # "IRB" /\ actuator = Value

(***************************************************************************)
(* When the device confirms ON or OFF, that is where the actuator is, what *)
(* it reports from now on and what it will know after a restart, whatever  *)
(* power failures came before.                                             *)
(***************************************************************************)
ConfirmedIsDone ==
    pc = "final" /\ Value \in Position =>
        /\ actuator = Value
        /\ Status = Value
        /\ Role # "IRB" => eeprom = Value

(***************************************************************************)
(* The status in RAM and the stored one are where the actuator is, except  *)
(* between the start of a movement and the write of its result, and after  *)
(* a power failure that came between the two: then the device reports the  *)
(* state before the movement, and is right again as soon as the next       *)
(* movement is stored.  A restart at any other place loses nothing.        *)
(***************************************************************************)
StatusIsActual ==
    ~interrupted /\ ~Moving =>
        /\ pc # "asleep" => Status = actuator
        /\ eeprom \in Position /\ Role # "IRB" => eeprom = actuator

(***************************************************************************)
(* Why StatusIsActual holds: a stored status is where the actuator is, and *)
(* there is none only before the very first boot.                          *)
(***************************************************************************)
StoredIsActual ==
    /\ interrupted => power_fails > 0
    /\ ~interrupted /\ ~Moving =>
          /\ pc # "asleep" \/ Role = "IRB" => Status = actuator
          /\ Role # "IRB" => \/ eeprom = actuator
                             \/ eeprom = "NOT_SET" /\ pc = "asleep" /\ actuator = WALVOLA_ON

(***************************************************************************)
(* The inductive invariant.                                                *)
(***************************************************************************)
IInv == /\ TypeOK
        /\ NeverBackwards
        /\ ServesCurrent
        /\ ConfirmedIsDone
        /\ StoredIsActual

(***************************************************************************)
(* Nothing is lost while the radio is off: when all that was sent has      *)
(* arrived, the newest request either waits for the next session or has    *)
(* been taken up.  (True only if no request is published while the device  *)
(* is awake, see the run requests_missed; and after a power failure the    *)
(* erasure of the older request may come late.)                            *)
(***************************************************************************)
RadioOff == pc \in {"asleep", "start"}

NoRequestMissed ==
    power_fails = 0 /\ RadioOff /\ to_broker = <<>> /\ requests # <<>> =>
        \/ retained_in = Len(requests)
        \/ accepted = Len(requests)

(***************************************************************************)
(* Without faults the retained reply, which is all a controller sees of a  *)
(* sleeping device, tells where the actuator is: it is neither a           *)
(* TRANSITION, nor the echo of a value that was not ON or OFF, nor the     *)
(* state before the last request.                                          *)
(***************************************************************************)
ControllersKnow ==
    power_fails = 0 /\ breaks = 0 /\ RadioOff /\ to_broker = <<>> =>
        retained_out = NoReply \/ retained_out.state = actuator

-----------------------------------------------------------------------------
(* Refinement *)

(***************************************************************************)
(* The device is an implementation of Valve.                               *)
(***************************************************************************)
Promise == INSTANCE Valve WITH
               RestingState <- IF Role = "IRB" THEN WALVOLA_OFF ELSE "STAYS"

ValveImplemented == Promise!Spec

-----------------------------------------------------------------------------
(* Liveness *)

(***************************************************************************)
(* A connection that breaks while the device waits for the next byte of a  *)
(* packet holds it there until its power fails: readByte asks neither for  *)
(* the connection nor for the time.                                        *)
(***************************************************************************)
Stuck == pc = "readpkt" /\ ~connected

(***************************************************************************)
(* A request for this device is taken up, unless another one replaces it   *)
(* or the device is stuck in readByte.                                     *)
(* (A power failure can leave the erasure of an earlier request on its     *)
(* way, and a request published meanwhile is erased by it.)                *)
(***************************************************************************)
EveryRequestTaken ==
    \A n \in 1 .. MaxRequests :
        n <= Len(requests) /\ ForMe(n) ~>
            accepted >= n \/ n < Len(requests) \/ power_fails > 0 \/ Stuck

(***************************************************************************)
(* A device that is not in update mode goes back to sleep; the endless     *)
(* readByte is the only place where a broken connection can hold it.  (The *)
(* time server is taken to answer or to close the connection: WebTime.tla  *)
(* shows the device that waits for a silent one.)                          *)
(***************************************************************************)
SleepsAgain == ~update_mode ~> pc = "asleep" \/ update_mode \/ Stuck

(***************************************************************************)
(* Controllers never show a device as moving for ever: the retained        *)
(* TRANSITION reply is replaced by a definite state, even when the power   *)
(* or the connection fails in the middle of the movement, unless the       *)
(* device is stuck in readByte, or waits for its update on a connection    *)
(* that broke before the reply.                                            *)
(***************************************************************************)
TransitionEnds ==
    retained_out.state = TRANSITION ~>
        retained_out.state \in Position \/ Stuck \/ update_mode
=============================================================================
