------------------------------ MODULE IHeating ------------------------------
(***************************************************************************)
(* The web application (appHeating.js) with what it talks to: the MQTT     *)
(* client it uses, as MqttLink describes it; the broker, which retains one *)
(* request and one reply per device; and the devices, whose sessions are   *)
(* reduced to what they publish (Walvola has them in detail).              *)
(*                                                                         *)
(* The page lists the devices from their replies.  A reply older than 1050 *)
(* seconds is discarded; instead of clocks, a reply carries whether it is  *)
(* fresh: a retained one may turn old at any moment, and all replies of a  *)
(* session are old if the device got no time, or a wrong one.  What is on  *)
(* its way to the page arrives before it is too old.                       *)
(*                                                                         *)
(* A click publishes one request per click handler, and every GET_STATUS   *)
(* reply adds a handler to each of the two buttons of its device.          *)
(***************************************************************************)
EXTENDS MqttLink, Sequences, FiniteSets, SequencesExt

CONSTANTS
    Device,
    InitialStates, \* what a device's state may be at first (ON and OFF differ
                   \* in name only: one of them is enough)
    MaxHandlers,  \* bound on the handlers of a button that are told apart
    MaxQueue,     \* bound on the packets travelling in one direction
    MaxServed,    \* bound on the requests a device serves in a session
    MaxFaults,    \* bound on power failures, on sessions without the time and
                  \* on requests of other controllers, taken together
    MaxCalls      \* bound on the times the page is loaded

ASSUME IHeatingAssumption ==
    /\ IsFiniteSet(Device) /\ "none" \notin Device
    /\ MaxHandlers \in Nat \ {0} /\ MaxQueue \in Nat /\ MaxCalls \in Nat
    /\ MaxServed \in Nat
    /\ MaxFaults \in Nat
    /\ InitialStates \subseteq {"ON", "OFF"}

VARIABLES
    list,       \* the text of each device's badge ("none": not in the list)
    handlers,   \* click handlers of each device's buttons
    clicked,    \* what the user asked of each device since its last reply
    to_broker,  \* packets from the page to the broker
    to_page,    \* replies from the broker to the page
    subscribed, \* the broker forwards the replies to the page
    request,    \* retained request of each device
    reply,      \* retained reply of each device
    session,    \* step of each device's session
    served,     \* requests each device has served in its session
    job,        \* requests each device has received, the one it serves first
    status,     \* state of each device
    on_time,    \* the device knows the time in this session
    newest,     \* history: last reply of each device the page should see
    fate,       \* history: what became of the last click on each device
    faults      \* how much of MaxFaults is used

page    == <<list, handlers, clicked>>
network == <<to_broker, to_page, subscribed>>
broker  == <<request, reply>>
device  == <<session, served, job, status, on_time>>
history == <<newest, fate>>
vars    == <<link_vars, page, network, broker, device, history, faults>>

SwitchState == {"ON", "OFF"}
Reply(src, cmd, state, fresh) ==
    [src |-> src, cmd |-> cmd, state |-> state, fresh |-> fresh]
NoReply(d) == Reply(d, "none", "none", FALSE)
SUBSCRIBE  == [dst |-> "none", value |-> "SUBSCRIBE", retained |-> FALSE]

(***************************************************************************)
(* The script of a page that is being loaded has run up to init_mqtt: the  *)
(* list is empty.                                                          *)
(***************************************************************************)
empty_walvole_list ==
    /\ list = [d \in Device |-> "none"]
    /\ handlers = [d \in Device |-> 0]
    /\ clicked = [d \in Device |-> "nothing"]

Init ==
    /\ LinkInit
    /\ empty_walvole_list
    /\ to_broker = <<>> /\ to_page = <<>> /\ subscribed = FALSE
    /\ request = [d \in Device |-> "none"]
    /\ reply = [d \in Device |-> NoReply(d)]
    /\ session = [d \in Device |-> "asleep"]
    /\ served = [d \in Device |-> 0]
    /\ job = [d \in Device |-> <<>>]
    /\ status \in [Device -> InitialStates]
    /\ on_time = [d \in Device |-> TRUE]
    /\ newest = [d \in Device |-> NoReply(d)]
    /\ fate = [d \in Device |-> "seen"]
    /\ faults = 0

-----------------------------------------------------------------------------
(***************************************************************************)
(* The connection.  init_mqtt connects once; onConnect subscribes to the   *)
(* replies of all devices; onConnectionLost and onFailure only log, so     *)
(* that nothing but a reload brings the connection back.                   *)
(***************************************************************************)
Disconnected ==
    /\ subscribed' = FALSE
    /\ to_broker' = <<>>
    /\ to_page' = <<>>

init_mqtt ==
    /\ told = "nothing" /\ calls < MaxCalls
    /\ Connect
    /\ UNCHANGED <<page, network, broker, device, history, faults>>

onConnect ==
    /\ Succeed
    /\ to_broker' = Append(to_broker, SUBSCRIBE)
    /\ UNCHANGED <<page, to_page, subscribed, broker, device, history, faults>>

onFailure ==
    /\ Fail
    /\ UNCHANGED <<page, network, broker, device, history, faults>>

onConnectionLost ==
    /\ Lose
    /\ Disconnected
    /\ UNCHANGED <<page, broker, device, history, faults>>

PageReload ==
    /\ calls < MaxCalls
    /\ Reload
    /\ list' = [d \in Device |-> "none"]
    /\ handlers' = [d \in Device |-> 0]
    /\ clicked' = [d \in Device |-> "nothing"]
    /\ Disconnected
    /\ UNCHANGED <<broker, device, history, faults>>

-----------------------------------------------------------------------------
(***************************************************************************)
(* A reply arrives.                                                        *)
(***************************************************************************)
(* Mutant: a device that is in the list already is not updated. *)
add_update_walvola_AddOnly(m) ==
    /\ list' = [list EXCEPT ![m.src] = IF @ = "none" THEN m.state ELSE @]
    /\ clicked' = [clicked EXCEPT ![m.src] = "nothing"]

(***************************************************************************)
(* The device is added to the list, or what the list shows of it replaced. *)
(***************************************************************************)
add_update_walvola(m) ==
    /\ list' = [list EXCEPT ![m.src] = m.state]
    /\ clicked' = [clicked EXCEPT ![m.src] = "nothing"]

(* Mutant: handlers are added only to a device that is not in the list. *)
add_hook_Once(m) ==
    handlers' = [handlers EXCEPT ![m.src] = IF list[m.src] = "none" THEN 1 ELSE @]

(***************************************************************************)
(* One more handler for each of the two buttons.                           *)
(***************************************************************************)
add_hook(m) ==
    handlers' = [handlers EXCEPT ![m.src] = IF @ < MaxHandlers THEN @ + 1 ELSE @]

(* Mutant: the reply that ends a session is taken for a heartbeat. *)
mqtt_process_mex_NoUpdate(m) ==
    \/ /\ m.fresh /\ m.cmd = "GET_STATUS"
       /\ add_hook(m)
       /\ IF list[m.src] = "none" THEN add_update_walvola(m)
                                  ELSE UNCHANGED <<list, clicked>>
    \/ /\ m.fresh /\ m.cmd = "SET_STATUS"
       /\ add_update_walvola(m)
       /\ UNCHANGED handlers
    \/ /\ ~m.fresh \/ m.cmd \notin {"GET_STATUS", "SET_STATUS"}
       /\ UNCHANGED page

(***************************************************************************)
(* Old replies, and replies to other commands, are dropped.  (The topic    *)
(* carries replies of devices only, so src is never the page itself.)      *)
(***************************************************************************)
mqtt_process_mex(m) ==
    \/ /\ m.fresh /\ m.cmd = "GET_STATUS"
       /\ add_update_walvola(m)
       /\ add_hook(m)
    \/ /\ m.fresh /\ m.cmd = "SET_STATUS"
       /\ add_update_walvola(m)
       /\ UNCHANGED handlers
    \/ /\ ~m.fresh \/ m.cmd \notin {"GET_STATUS", "SET_STATUS"}
       /\ UNCHANGED page

(***************************************************************************)
(* The reply to GET_INFO is not JSON: JSON.parse throws, and the client    *)
(* answers an exception of the callback by closing the connection.         *)
(***************************************************************************)
IsJSON(m) == m.cmd # "GET_INFO"

onMessageArrived ==
    /\ phase = "connected" /\ to_page # <<>>
    /\ IF IsJSON(Head(to_page))
       THEN /\ mqtt_process_mex(Head(to_page))
            /\ to_page' = Tail(to_page)
            /\ UNCHANGED <<link_vars, to_broker, subscribed>>
       ELSE /\ Lose
            /\ Disconnected
            /\ UNCHANGED page
    /\ UNCHANGED <<broker, device, history, faults>>

(***************************************************************************)
(* A click on one of the buttons of a device that is in the list: every    *)
(* handler publishes the request, then shows TRANSITION.  Without a        *)
(* connection publishing throws, and the badge stays as it is.             *)
(***************************************************************************)
mqtt_message(dst, value) == [dst |-> dst, value |-> value, retained |-> TRUE]

(* Mutant: the request is not retained. *)
mqtt_send_mex_NotRetained(dst, value) ==
    to_broker' = to_broker \o [i \in 1..handlers[dst] |->
                   [mqtt_message(dst, value) EXCEPT !.retained = FALSE]]

mqtt_send_mex(dst, value) ==
    to_broker' = to_broker \o [i \in 1..handlers[dst] |-> mqtt_message(dst, value)]

walvola_set_state(d, state) ==
    /\ list[d] # "none"
    /\ IF phase = "connected" /\ handlers[d] > 0
       THEN /\ Len(to_broker) + handlers[d] <= MaxQueue
            /\ mqtt_send_mex(d, state)
            /\ list' = [list EXCEPT ![d] = "TRANSITION"]
            /\ clicked' = [clicked EXCEPT ![d] = state]
            /\ fate' = [fate EXCEPT ![d] = "underway"]
       ELSE UNCHANGED <<to_broker, list, clicked, fate>>
    /\ UNCHANGED <<link_vars, handlers, to_page, subscribed, broker, device,
                   newest, faults>>

-----------------------------------------------------------------------------
(***************************************************************************)
(* The broker: a subscription brings the retained replies, one per device; *)
(* a request replaces the one retained before, and a device that is awake  *)
(* gets it at once.                                                        *)
(***************************************************************************)
Retained ==
    SetToSeq({reply[d] : d \in {x \in Device : reply[x].cmd # "none"}})

Awake(d) == session[d] # "asleep"

Delivers(p) ==
    IF Awake(p.dst)
    THEN /\ Len(job[p.dst]) < MaxQueue
         /\ job' = [job EXCEPT ![p.dst] = Append(@, p.value)]
    ELSE UNCHANGED job

BrokerTakes ==
    LET p == Head(to_broker) IN
    /\ to_broker # <<>>
    /\ to_broker' = Tail(to_broker)
    /\ \/ /\ p = SUBSCRIBE
          /\ subscribed' = TRUE
          /\ to_page' = to_page \o Retained
          /\ newest' = reply
          /\ UNCHANGED <<request, job>>
       \/ /\ p # SUBSCRIBE
          /\ Delivers(p)
          /\ request' = IF p.retained
                        THEN [request EXCEPT ![p.dst] = p.value] ELSE request
          /\ UNCHANGED <<subscribed, to_page, newest>>
    /\ UNCHANGED <<link_vars, page, reply, session, served, status, on_time, fate,
                   faults>>

(***************************************************************************)
(* Time passes: the retained reply of a device turns too old.              *)
(***************************************************************************)
Expire(d) ==
    /\ reply[d].fresh
    /\ reply' = [reply EXCEPT ![d].fresh = FALSE]
    /\ UNCHANGED <<link_vars, page, network, request, device, history, faults>>

-----------------------------------------------------------------------------
(***************************************************************************)
(* The session of a device: it wakes up, subscribes, and gets the retained *)
(* request; it serves what it gets, one request after the other, reports   *)
(* its status and goes back to sleep.  To serve a request it erases        *)
(* whatever request the broker retains by then, announces the movement,    *)
(* makes it and confirms it.                                               *)
(***************************************************************************)
Forward(m) == to_page' = IF subscribed THEN Append(to_page, m) ELSE to_page

Tell(d, m) ==
    /\ Len(to_page) < MaxQueue
    /\ Forward(m)
    /\ newest' = [newest EXCEPT ![d] = m]

Publish(d, cmd, state) ==
    LET m == Reply(d, cmd, state, on_time[d]) IN
    Tell(d, m) /\ reply' = [reply EXCEPT ![d] = m]

NothingOnItsWay(d) == \A i \in DOMAIN to_broker : to_broker[i].dst # d

(* The device begins to serve what was clicked last. *)
Sees(d) ==
    fate' = IF NothingOnItsWay(d) /\ job[d] = <<clicked[d]>>
            THEN [fate EXCEPT ![d] = "seen"] ELSE fate

Received(d) ==
    NothingOnItsWay(d) /\ job[d] # <<>> /\ Last(job[d]) = clicked[d]

(* The device is gone: what it has received and not served is lost, unless *)
(* the broker retains it.                                                  *)
Forgets(d) ==
    /\ job' = [job EXCEPT ![d] = <<>>]
    /\ fate' = IF fate[d] = "underway" /\ Received(d) /\ request[d] # clicked[d]
               THEN [fate EXCEPT ![d] = "missed"] ELSE fate

Goes(d, from, to) ==
    session[d] = from /\ session' = [session EXCEPT ![d] = to]

Wake(d) ==
    /\ Goes(d, "asleep", "awake")
    /\ served' = [served EXCEPT ![d] = 0]
    /\ job' = [job EXCEPT ![d] = IF request[d] = "none" THEN <<>> ELSE <<request[d]>>]
    /\ \/ /\ on_time' = [on_time EXCEPT ![d] = TRUE]
          /\ UNCHANGED faults
       \/ /\ on_time' = [on_time EXCEPT ![d] = FALSE]
          /\ faults < MaxFaults /\ faults' = faults + 1
    /\ UNCHANGED <<link_vars, page, network, broker, status, history>>

Erase(d) ==
    /\ job[d] # <<>> /\ served[d] < MaxServed
    /\ served' = [served EXCEPT ![d] = @ + 1]
    /\ Goes(d, "awake", "announcing")
    /\ request' = [request EXCEPT ![d] = "none"]
    /\ Sees(d)
    /\ UNCHANGED <<link_vars, page, network, reply, job, status, on_time, newest,
                   faults>>

Announce(d) ==
    /\ Goes(d, "announcing", "moving")
    /\ Publish(d, "SET_STATUS", "TRANSITION")
    /\ UNCHANGED <<link_vars, page, to_broker, subscribed, request, served,
                   job, status, on_time, fate, faults>>

Confirm(d) ==
    /\ Goes(d, "moving", "awake")
    /\ status' = [status EXCEPT ![d] = Head(job[d])]
    /\ Publish(d, "SET_STATUS", Head(job[d]))
    /\ job' = [job EXCEPT ![d] = Tail(@)]
    /\ UNCHANGED <<link_vars, page, to_broker, subscribed, request, served,
                   on_time, fate, faults>>

Report(d) ==
    /\ Goes(d, "awake", "asleep")
    /\ Publish(d, "GET_STATUS", status[d])
    /\ Forgets(d)
    /\ UNCHANGED <<link_vars, page, to_broker, subscribed, request, served,
                   status, on_time, faults>>

(***************************************************************************)
(* Another controller asks, with a request that is not retained, for       *)
(* GET_STATUS, GET_INFO or UPDATE: the handler erases the request the      *)
(* broker retains, as for every other, and its reply is not retained.      *)
(* (What another controller does to a device with SET_STATUS, and what     *)
(* UPDATE does to it, is left to Walvola.)                                 *)
(***************************************************************************)
AnswerOther(d) ==
    LET m(cmd) == Reply(d, cmd, status[d], on_time[d]) IN
    /\ session[d] = "awake"
    /\ faults < MaxFaults /\ faults' = faults + 1
    /\ request' = [request EXCEPT ![d] = "none"]
    /\ \/ Tell(d, m("GET_STATUS"))
       \/ /\ Len(to_page) < MaxQueue
          /\ \E cmd \in {"GET_INFO", "UPDATE"} : Forward(m(cmd))
          /\ UNCHANGED newest
    /\ UNCHANGED <<link_vars, page, to_broker, subscribed, reply, device, fate>>

PowerFail(d) ==
    /\ Awake(d)
    /\ faults < MaxFaults /\ faults' = faults + 1
    /\ session' = [session EXCEPT ![d] = "asleep"]
    /\ Forgets(d)
    /\ UNCHANGED <<link_vars, page, network, broker, served, status, on_time,
                   newest>>

DeviceRuns(d) ==
    Wake(d) \/ Erase(d) \/ Announce(d) \/ Confirm(d) \/ Report(d)

Next ==
    \/ init_mqtt \/ onConnect \/ onFailure \/ onConnectionLost \/ PageReload
    \/ onMessageArrived
    \/ \E d \in Device, state \in SwitchState : walvola_set_state(d, state)
    \/ BrokerTakes
    \/ \E d \in Device : Expire(d) \/ DeviceRuns(d) \/ AnswerOther(d) \/ PowerFail(d)

(***************************************************************************)
(* Fairness: the browser and the broker handle what has arrived, and every *)
(* device wakes up again and again and goes through its session, which     *)
(* ends after five calls of mqtt_client.loop(), however many requests come *)
(* (MaxServed is there for them).                                          *)
(* Nothing is asked of the user or of the connection.                      *)
(***************************************************************************)
Spec ==
    /\ Init /\ [][Next]_vars
    /\ WF_vars(onMessageArrived)
    /\ WF_vars(BrokerTakes)
    /\ \A d \in Device : WF_vars(DeviceRuns(d))

-----------------------------------------------------------------------------
(***************************************************************************)
(* When nothing is on its way to a connected page, every device of which   *)
(* there was a recent reply, retained when the page subscribed or sent     *)
(* since, is in the list with the state of the newest, or with TRANSITION  *)
(* if the user has clicked since; and a badge does not leave TRANSITION    *)
(* while a click is unanswered.                                            *)
(***************************************************************************)
ShowsNewest ==
    \A d \in Device :
        /\ clicked[d] # "nothing" => list[d] = "TRANSITION"
        /\ (phase = "connected" /\ subscribed /\ to_page = <<>> /\ newest[d].fresh)
              => list[d] = newest[d].state \/ clicked[d] # "nothing"

(***************************************************************************)
(* What the user asked last, and no reply has answered since, while the    *)
(* page is connected: it travels, or the broker retains it, or the device  *)
(* has received it as the last of its requests, or has begun to serve it.  *)
(* Otherwise it is lost in the one way the code leaves open: the broker's  *)
(* copy was erased for another request while the device was awake, and the *)
(* device slept or lost power before it came to its own copy.  Copies made *)
(* by several handlers do not bring an older request back.                 *)
(***************************************************************************)
ClickIsUnderway ==
    \A d \in Device : phase = "connected" /\ clicked[d] # "nothing" =>
        \/ fate[d] \in {"seen", "missed"}
        \/ NothingOnItsWay(d) /\ request[d] = clicked[d]
        \/ Received(d)
        \/ \E i \in DOMAIN to_broker :
              /\ to_broker[i].dst = d /\ to_broker[i].value = clicked[d]
              /\ \A j \in DOMAIN to_broker : j > i => to_broker[j].dst # d

(***************************************************************************)
(* A badge does not stay TRANSITION on a page that stays connected,        *)
(* whatever became of the request, and of the device's power.              *)
(***************************************************************************)
BadgeRecovers ==
    \A d \in Device :
        list[d] = "TRANSITION" ~> (list[d] # "TRANSITION" \/ phase # "connected")

(***************************************************************************)
(* A device may enter the list by the reply to a request, without click    *)
(* handlers: its buttons work in the end.                                  *)
(***************************************************************************)
ButtonsWork ==
    \A d \in Device :
        list[d] # "none" ~> (handlers[d] > 0 \/ phase # "connected")
=============================================================================
