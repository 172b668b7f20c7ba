--------------------------- MODULE IHeatingProofs ---------------------------
(***************************************************************************)
(* Proofs about IHeating.tla, for every finite set of devices and every    *)
(* bound on queues, handlers, faults and loads.                            *)
(***************************************************************************)
EXTENDS IHeating, Queues, FiniteSetTheorems

USE IHeatingAssumption

-----------------------------------------------------------------------------
(* The invariants *)

Text == {"none", "nothing", "TRANSITION", "ON", "OFF"}
Cmd == {"none", "GET_STATUS", "SET_STATUS", "GET_INFO", "UPDATE"}

Order == [dst : Device, value : Text, retained : {TRUE}]

Message == [src : Device, cmd : Cmd, state : Text, fresh : BOOLEAN]

Choice == {"nothing"} \cup SwitchState

Step == {"asleep", "awake", "announcing", "moving"}

(***************************************************************************)
(* The status each device told: what the broker retains, and what the page *)
(* should see.                                                             *)
(***************************************************************************)
Replies ==
    {r \in [Device -> Message] :
        \A d \in Device : /\ r[d].src = d
                          /\ r[d].cmd \in {"none", "GET_STATUS", "SET_STATUS"}
                          /\ r[d].cmd = "none" => ~r[d].fresh}

Types ==
    /\ list \in [Device -> Text]
    /\ handlers \in [Device -> Nat]
    /\ clicked \in [Device -> Choice]
    /\ to_broker \in Seq({SUBSCRIBE} \cup Order)
    /\ to_page \in Seq(Message)
    /\ subscribed \in BOOLEAN
    /\ request \in [Device -> Text]
    /\ reply \in Replies /\ newest \in Replies
    /\ session \in [Device -> Step]
    /\ job \in [Device -> Seq(Text)]
    /\ status \in [Device -> Text]
    /\ on_time \in [Device -> BOOLEAN]
    /\ fate \in [Device -> {"underway", "seen", "missed"}]

(***************************************************************************)
(* What a device has received: nothing while it sleeps, what it serves,    *)
(* and behind that, as the last of all, what the broker retains by now.    *)
(***************************************************************************)
Serves(d) == session[d] \in {"announcing", "moving"}

HasReceived ==
    \A d \in Device :
        /\ session[d] = "asleep" => job[d] = <<>>
        /\ Serves(d) => job[d] # <<>>
        /\ session[d] # "asleep" /\ request[d] # "none" =>
              /\ job[d] # <<>> /\ Last(job[d]) = request[d]
              /\ Serves(d) => Tail(job[d]) # <<>>

(***************************************************************************)
(* Why the page shows the newest state: the newest reply is the last one   *)
(* about its device on the way, or has been shown.                         *)
(***************************************************************************)
About(d) == {m \in Message : m.src = d /\ m.cmd \in {"GET_STATUS", "SET_STATUS"}}

Told(d) == list[d] = newest[d].state \/ clicked[d] # "nothing"

NewestComes ==
    \A d \in Device : subscribed /\ newest[d].fresh =>
        \/ LastIs(to_page, About(d), newest[d])
        \/ NoneIn(to_page, About(d)) /\ Told(d)

ClickIsShown ==
    \A d \in Device : clicked[d] # "nothing" => list[d] = "TRANSITION"

(***************************************************************************)
(* Nothing is clicked on a page that has not been connected yet.           *)
(***************************************************************************)
NewPage ==
    /\ phase = "connecting" => told = "nothing"
    /\ phase = "connected" => told # "nothing"
    /\ told = "nothing" => \A d \in Device : clicked[d] = "nothing"

(***************************************************************************)
(* What becomes of a click: the last request for the device on the way is  *)
(* that of the last click; or it has arrived, and the broker retains it,   *)
(* or the device has it as the last of those it has not begun to serve.    *)
(***************************************************************************)
For(d) == {p \in Order : p.dst = d}

Unserved(d) ==
    /\ job[d] # <<>> /\ Last(job[d]) = clicked[d]
    /\ Serves(d) => Tail(job[d]) # <<>>

ClickComes ==
    \A d \in Device : phase = "connected" /\ clicked[d] # "nothing" =>
        \/ fate[d] # "underway"
        \/ LastIs(to_broker, For(d), mqtt_message(d, clicked[d]))
        \/ NoneIn(to_broker, For(d)) /\ (request[d] = clicked[d] \/ Unserved(d))

PageInv ==
    Types /\ HasReceived /\ NewestComes /\ ClickIsShown /\ NewPage /\ ClickComes

-----------------------------------------------------------------------------
(* Operators *)

LEMMA Records ==
    /\ SUBSCRIBE \in {SUBSCRIBE} \cup Order
    /\ \A d \in Device : SUBSCRIBE \notin For(d) /\ SUBSCRIBE.dst # d
    /\ \A d \in Device, value \in Text :
          mqtt_message(d, value) \in Order /\ mqtt_message(d, value).dst = d
          /\ mqtt_message(d, value).value = value
    /\ \A d \in Device, cmd \in Cmd, state \in Text, fresh \in BOOLEAN :
          LET m == Reply(d, cmd, state, fresh)
          IN  /\ m \in Message /\ m.src = d /\ m.cmd = cmd
              /\ m.state = state /\ m.fresh = fresh
BY DEF SUBSCRIBE, Order, For, mqtt_message, Reply, Message

LEMMA Words ==
    /\ "none" \in Text /\ "nothing" \in Text /\ "TRANSITION" \in Text
    /\ \A state \in SwitchState : state \in Text \cap Choice /\ state # "nothing"
    /\ "nothing" \in Choice /\ "none" \notin Choice /\ Choice \subseteq Text
BY DEF Text, SwitchState, Choice

LEMMA NothingFor ==
    ASSUME Types, NEW d \in Device
    PROVE  NothingOnItsWay(d) <=> NoneIn(to_broker, For(d))
<1>1. \A i \in DOMAIN to_broker : to_broker[i] \in {SUBSCRIBE} \cup Order
  BY LenProperties DEF Types
<1>2. \A i \in DOMAIN to_broker : to_broker[i].dst = d <=> to_broker[i] \in For(d)
  BY <1>1, Records DEF For
<1>. QED BY <1>2 DEF NothingOnItsWay, NoneIn

(***************************************************************************)
(* What a new subscription brings: the retained reply of every device that *)
(* has one, once.                                                          *)
(***************************************************************************)
LEMMA RetainedReplies ==
    ASSUME Types
    PROVE  /\ Retained \in Seq(Message)
           /\ \A d \in Device : reply[d].cmd # "none" =>
                 LastIs(Retained, About(d), reply[d])
<1> DEFINE D == {x \in Device : reply[x].cmd # "none"}
           R == {reply[d] : d \in D}
           f == [d \in D |-> reply[d]]
<1>1. IsFiniteSet(R)
  <2>1. IsFiniteSet(D)
    BY FS_Subset
  <2>2. f \in Surjection(D, R)
    BY DEF Surjection
  <2>. QED BY <2>1, <2>2, FS_Surjection
<1>2. R \subseteq Message
  BY DEF Types, Replies
<1>3. Retained = SetToSeq(R)
  BY DEF Retained
<1>. HIDE DEF R
<1>4. /\ Retained \in Seq(R)
      /\ \A x \in R : \E i \in DOMAIN Retained : Retained[i] = x
      /\ \A i, j \in DOMAIN Retained : Retained[i] = Retained[j] => i = j
  BY <1>1, <1>3, SetToSeqMembers
<1>5. /\ \A i \in DOMAIN Retained : Retained[i] \in R
      /\ Retained \in Seq(Message)
  BY <1>2, <1>4, SeqDef, LenProperties
<1>6. ASSUME NEW d \in Device, reply[d].cmd # "none"
      PROVE  LastIs(Retained, About(d), reply[d])
  <2>1. reply[d] \in R
    BY <1>6 DEF R
  <2>2. PICK i \in DOMAIN Retained : Retained[i] = reply[d]
    BY <1>4, <2>1
  <2>3. reply[d] \in About(d)
    BY <1>6 DEF Types, Replies, About
  <2>4. ASSUME NEW j \in DOMAIN Retained, Retained[j] \in About(d)
        PROVE  j = i
    <3>1. PICK e \in Device : Retained[j] = reply[e]
      BY <1>5 DEF R
    <3>2. e = d
      BY <2>4, <3>1 DEF Types, Replies, About
    <3>. QED BY <1>4, <2>2, <3>1, <3>2
  <2>5. i \in Nat
    BY <1>4, LenProperties
  <2>6. \A j \in DOMAIN Retained : j > i => Retained[j] \notin About(d)
    BY <2>4, <2>5
  <2>. QED BY <2>2, <2>3, <2>6 DEF LastIs
<1>. QED BY <1>5, <1>6

(***************************************************************************)
(* What a click puts on its way: a request per handler, all the same.      *)
(***************************************************************************)
LEMMA ClickSends ==
    ASSUME Types, NEW d \in Device, NEW state \in Text, handlers[d] > 0
    PROVE  LET s == [i \in 1 .. handlers[d] |-> mqtt_message(d, state)]
           IN  /\ s \in Seq({SUBSCRIBE} \cup Order)
               /\ LastIs(s, For(d), mqtt_message(d, state))
               /\ \A e \in Device \ {d} : NoneIn(s, For(e))
<1> DEFINE n == handlers[d]
           m == mqtt_message(d, state)
           s == [i \in 1 .. n |-> m]
<1>1. n \in Nat /\ n \in 1 .. n
  BY DEF Types
<1>2. m \in Order /\ m.dst = d
  BY Records
<1>. HIDE DEF n, m
<1>3. s \in [1 .. n -> {SUBSCRIBE} \cup Order]
  BY <1>2
<1>4. s \in Seq({SUBSCRIBE} \cup Order)
  BY <1>1, <1>3, SeqDef
<1>5. LastIs(s, For(d), m)
  BY <1>1, <1>2 DEF LastIs, For
<1>6. \A e \in Device \ {d} : NoneIn(s, For(e))
  BY <1>2 DEF NoneIn, For
<1>. QED BY <1>4, <1>5, <1>6 DEF n, m

(***************************************************************************)
(* The last of what a device has received, when a request is added, and    *)
(* when the first is done.                                                 *)
(***************************************************************************)
LEMMA LastReceived ==
    ASSUME NEW s \in Seq(Text), NEW x \in Text
    PROVE  /\ Append(s, x) # <<>> /\ Last(Append(s, x)) = x
           /\ s # <<>> => Tail(Append(s, x)) # <<>>
           /\ <<x>> # <<>> /\ Last(<<x>>) = x
           /\ s # <<>> /\ Tail(s) # <<>> => Last(Tail(s)) = Last(s)
           /\ s # <<>> /\ Tail(s) = <<>> => s = <<Last(s)>>
<1>0. \A t \in Seq(Text) : t = <<>> <=> Len(t) = 0
  BY EmptySeq
<1>1. /\ Append(s, x) \in Seq(Text) /\ Append(s, x) # <<>>
      /\ Len(Append(s, x)) = Len(s) + 1 /\ Append(s, x)[Len(s) + 1] = x
      /\ Len(s) \in Nat
  BY AppendProperties, LenProperties
<1>2. s # <<>> => /\ Len(s) \in Nat \ {0} /\ Tail(s) \in Seq(Text)
                  /\ Len(Tail(s)) = Len(s) - 1
                  /\ \A i \in 1 .. Len(Tail(s)) : Tail(s)[i] = s[i + 1]
  BY HeadTailProperties, LenProperties, EmptySeq
<1>3. Last(Append(s, x)) = x
  BY <1>1 DEF Last
<1>4. s # <<>> => Tail(Append(s, x)) # <<>>
  <2>1. /\ Tail(Append(s, x)) \in Seq(Text)
        /\ Len(Tail(Append(s, x))) = Len(Append(s, x)) - 1
    BY <1>1, HeadTailProperties
  <2>2. Len(Tail(Append(s, x))) = Len(s)
    BY <1>1, <2>1
  <2>. QED BY <1>0, <2>1, <2>2
<1>5. <<x>> # <<>> /\ Last(<<x>>) = x
  BY DEF Last
<1>6. ASSUME s # <<>>, Tail(s) # <<>>
      PROVE  Last(Tail(s)) = Last(s)
  <2>1. Len(Tail(s)) # 0
    BY <1>0, <1>2, <1>6
  <2>2. Len(Tail(s)) \in 1 .. Len(Tail(s)) /\ Len(Tail(s)) + 1 = Len(s)
    BY <1>2, <1>6, <2>1
  <2>. QED BY <1>2, <1>6, <2>2 DEF Last
<1>7. ASSUME s # <<>>, Tail(s) = <<>>
      PROVE  s = <<Last(s)>>
  <2>1. Len(s) = 1
    <3>1. Len(Tail(s)) = 0
      BY <1>0, <1>2, <1>7
    <3>. QED BY <1>2, <1>7, <3>1
  <2>2. DOMAIN s = 1 .. 1 /\ s[1] = Last(s)
    BY <2>1, LenProperties DEF Last
  <2>. QED BY <2>1, <2>2
<1>. QED BY <1>1, <1>3, <1>4, <1>5, <1>6, <1>7

-----------------------------------------------------------------------------
(* Types *)

LEMMA TypesInit == Init => Types
<1> SUFFICES ASSUME Init PROVE Types
  OBVIOUS
<1>1. \A d \in Device : /\ NoReply(d) \in Message /\ NoReply(d).src = d
                        /\ NoReply(d).cmd = "none" /\ ~NoReply(d).fresh
  <2>1. "none" \in Cmd /\ "none" \in Text
    BY DEF Cmd, Text
  <2>. QED BY <2>1 DEF NoReply, Reply, Message
<1>2. status \in [Device -> Text]
  BY DEF Init, Text
<1>3. to_broker \in Seq({SUBSCRIBE} \cup Order) /\ to_page \in Seq(Message)
  BY EmptySeq DEF Init
<1>4. reply \in Replies /\ newest \in Replies
  BY <1>1 DEF Init, Replies
<1>5. job \in [Device -> Seq(Text)]
  BY EmptySeq DEF Init
<1>. QED BY <1>1, <1>2, <1>3, <1>4, <1>5
         DEF Init, empty_walvole_list, Types, Text, Choice, Step

LEMMA TypesPage ==
    ASSUME Types, NEW m \in Message, mqtt_process_mex(m)
    PROVE  /\ list' \in [Device -> Text] /\ handlers' \in [Device -> Nat]
           /\ clicked' \in [Device -> Choice]
<1>1. m.src \in Device /\ m.state \in Text
  BY DEF Message
<1>2. add_update_walvola(m) => list' \in [Device -> Text] /\ clicked' \in [Device -> Choice]
  <2>1. "nothing" \in Choice
    BY Words
  <2>. QED BY <1>1, <2>1 DEF add_update_walvola, Types
<1>3. add_hook(m) => handlers' \in [Device -> Nat]
  <2>1. handlers[m.src] + 1 \in Nat /\ handlers[m.src] \in Nat
    BY <1>1 DEF Types
  <2>. QED BY <1>1, <2>1 DEF add_hook, Types
<1>. QED BY <1>2, <1>3 DEF mqtt_process_mex, page, Types

LEMMA TypesTell ==
    ASSUME Types, NEW d \in Device, NEW m \in Message, m.src = d,
           m.cmd \in {"GET_STATUS", "SET_STATUS"}, Tell(d, m)
    PROVE  to_page' \in Seq(Message) /\ newest' \in Replies
<1>1. to_page' \in Seq(Message)
  BY AppendProperties DEF Tell, Forward, Types
<1>2. newest' \in Replies
  BY DEF Tell, Types, Replies
<1>. QED BY <1>1, <1>2

LEMMA TypesPublish ==
    ASSUME Types, NEW d \in Device, NEW cmd \in {"GET_STATUS", "SET_STATUS"},
           NEW state \in Text, Publish(d, cmd, state)
    PROVE  to_page' \in Seq(Message) /\ reply' \in Replies /\ newest' \in Replies
<1> DEFINE m == Reply(d, cmd, state, on_time[d])
<1>1. m \in Message /\ m.src = d /\ m.cmd = cmd
  BY Records DEF Types, Cmd
<1>2. reply' = [reply EXCEPT ![d] = m] /\ Tell(d, m)
  BY DEF Publish
<1>. HIDE DEF m
<1>3. to_page' \in Seq(Message) /\ newest' \in Replies
  BY <1>1, <1>2, TypesTell
<1>4. reply' \in Replies
  BY <1>1, <1>2 DEF Types, Replies
<1>. QED BY <1>3, <1>4

LEMMA TypesStep ==
    ASSUME Types, HasReceived, [Next]_vars
    PROVE  Types'
<1>. USE DEF page, network, broker, device, history
<1>1. CASE init_mqtt \/ onFailure \/ UNCHANGED vars
  BY <1>1 DEF init_mqtt, onFailure, vars, Types
<1>2. CASE onConnect
  <2>1. to_broker' \in Seq({SUBSCRIBE} \cup Order)
    BY <1>2, Records, AppendProperties DEF onConnect, Types
  <2>. QED BY <1>2, <2>1 DEF onConnect, Types
<1>3. CASE onConnectionLost \/ PageReload
  <2>1. <<>> \in Seq({SUBSCRIBE} \cup Order) /\ <<>> \in Seq(Message)
    BY EmptySeq
  <2>2. /\ list' \in [Device -> Text] /\ handlers' \in [Device -> Nat]
        /\ clicked' \in [Device -> Choice]
    BY <1>3, Words DEF onConnectionLost, PageReload, Types
  <2>. QED BY <1>3, <2>1, <2>2 DEF onConnectionLost, PageReload, Disconnected, Types
<1>4. CASE onMessageArrived
  <2>1. Head(to_page) \in Message /\ Tail(to_page) \in Seq(Message)
    BY <1>4, HeadTailProperties DEF onMessageArrived, Types
  <2>2. CASE IsJSON(Head(to_page))
    <3>1. /\ list' \in [Device -> Text] /\ handlers' \in [Device -> Nat]
          /\ clicked' \in [Device -> Choice]
      BY <1>4, <2>1, <2>2, TypesPage DEF onMessageArrived
    <3>. QED BY <1>4, <2>1, <2>2, <3>1 DEF onMessageArrived, Types
  <2>3. CASE ~IsJSON(Head(to_page))
    <3>1. <<>> \in Seq({SUBSCRIBE} \cup Order) /\ <<>> \in Seq(Message)
      BY EmptySeq
    <3>. QED BY <1>4, <2>3, <3>1 DEF onMessageArrived, Disconnected, Types
  <2>. QED BY <2>2, <2>3
<1>5. ASSUME NEW d \in Device, NEW state \in SwitchState, walvola_set_state(d, state)
      PROVE  Types'
  <2>0. state \in Text /\ state \in Choice
    BY <1>5, Words
  <2>1. CASE phase = "connected" /\ handlers[d] > 0
    <3>1. to_broker' \in Seq({SUBSCRIBE} \cup Order)
      <4> DEFINE s == [i \in 1 .. handlers[d] |-> mqtt_message(d, state)]
      <4>1. s \in Seq({SUBSCRIBE} \cup Order)
        BY <1>5, <2>0, <2>1, ClickSends
      <4>2. to_broker' = to_broker \o s
        BY <1>5, <2>1 DEF walvola_set_state, mqtt_send_mex
      <4>. HIDE DEF s
      <4>. QED BY <4>1, <4>2, ConcatProperties DEF Types
    <3>2. /\ list' = [list EXCEPT ![d] = "TRANSITION"]
          /\ clicked' = [clicked EXCEPT ![d] = state]
          /\ fate' = [fate EXCEPT ![d] = "underway"]
          /\ UNCHANGED <<handlers, to_page, subscribed, broker, device, newest>>
      BY <1>5, <2>1 DEF walvola_set_state
    <3>. QED BY <2>0, <3>1, <3>2 DEF Types, Text
  <2>2. CASE ~(phase = "connected" /\ handlers[d] > 0)
    BY <1>5, <2>2 DEF walvola_set_state, Types
  <2>. QED BY <2>1, <2>2
<1>6. CASE BrokerTakes
  <2>1. /\ Head(to_broker) \in {SUBSCRIBE} \cup Order
        /\ to_broker' \in Seq({SUBSCRIBE} \cup Order)
    BY <1>6, HeadTailProperties DEF BrokerTakes, Types
  <2>2. to_page \o Retained \in Seq(Message)
    BY RetainedReplies, ConcatProperties DEF Types
  <2>3. subscribed' \in BOOLEAN /\ to_page' \in Seq(Message)
    BY <1>6, <2>2 DEF BrokerTakes, Types
  <2>4. request' \in [Device -> Text]
    BY <1>6, <2>1 DEF BrokerTakes, Types, Order
  <2>5. newest' \in Replies
    BY <1>6 DEF BrokerTakes, Types
  <2>6. job' \in [Device -> Seq(Text)]
    <3>1. CASE UNCHANGED job
      BY <3>1 DEF Types
    <3>2. CASE Head(to_broker) # SUBSCRIBE /\ ~UNCHANGED job
      <4> DEFINE p == Head(to_broker)
      <4>1. p.dst \in Device /\ p.value \in Text
        BY <2>1, <3>2 DEF Order
      <4>2. job' = [job EXCEPT ![p.dst] = Append(job[p.dst], p.value)]
        BY <1>6, <3>2 DEF BrokerTakes, Delivers
      <4>. HIDE DEF p
      <4>3. Append(job[p.dst], p.value) \in Seq(Text)
        BY <4>1, AppendProperties DEF Types
      <4>. QED BY <4>1, <4>2, <4>3 DEF Types
    <3>. QED BY <1>6, <3>1, <3>2 DEF BrokerTakes
  <2>. QED BY <1>6, <2>1, <2>3, <2>4, <2>5, <2>6 DEF BrokerTakes, Types
<1>7. ASSUME NEW d \in Device, Expire(d)
      PROVE  Types'
  <2> DEFINE m == [reply[d] EXCEPT !.fresh = FALSE]
  <2>1. /\ m \in Message /\ m.src = d /\ ~m.fresh
        /\ m.cmd \in {"none", "GET_STATUS", "SET_STATUS"}
    <3>1. /\ reply[d] \in Message /\ reply[d].src = d
          /\ reply[d].cmd \in {"none", "GET_STATUS", "SET_STATUS"}
      BY <1>7 DEF Types, Replies
    <3>. QED BY <3>1 DEF Message
  <2>2. reply' = [reply EXCEPT ![d] = m]
    BY <1>7 DEF Expire
  <2>. HIDE DEF m
  <2>3. reply' \in Replies
    BY <1>7, <2>1, <2>2 DEF Types, Replies
  <2>. QED BY <1>7, <2>3 DEF Expire, Types
<1>8. ASSUME NEW d \in Device, Wake(d) \/ Erase(d) \/ PowerFail(d)
      PROVE  Types'
  <2>1. request[d] \in Text
    BY <1>8 DEF Types
  <2>2. /\ on_time' \in [Device -> BOOLEAN]
        /\ request' \in [Device -> Text]
        /\ session' \in [Device -> Step]
    <3>1. CASE Wake(d)
      BY <2>1, <3>1 DEF Wake, Goes, Types, Step
    <3>2. CASE Erase(d)
      BY <3>2, Words DEF Erase, Goes, Types, Step
    <3>3. CASE PowerFail(d)
      BY <3>3, Words DEF PowerFail, Types, Step
    <3>. QED BY <1>8, <3>1, <3>2, <3>3
  <2>3. job' \in [Device -> Seq(Text)]
    <3>1. <<>> \in Seq(Text) /\ <<request[d]>> \in Seq(Text)
      BY <2>1, EmptySeq
    <3>. QED BY <1>8, <3>1 DEF Wake, Erase, PowerFail, Forgets, Types
  <2>4. fate' \in [Device -> {"underway", "seen", "missed"}]
    BY <1>8 DEF Wake, Erase, PowerFail, Sees, Forgets, Types
  <2>5. UNCHANGED <<link_vars, page, network, reply, status, newest>>
    BY <1>8 DEF Wake, Erase, PowerFail
  <2>. QED BY <2>2, <2>3, <2>4, <2>5 DEF Types
<1>9. ASSUME NEW d \in Device, Announce(d) \/ Confirm(d) \/ Report(d)
      PROVE  Types'
  <2>1. status[d] \in Text /\ "TRANSITION" \in Text /\ job[d] \in Seq(Text)
    BY <1>9, Words DEF Types
  <2>2. Confirm(d) => Head(job[d]) \in Text /\ Tail(job[d]) \in Seq(Text)
    <3>1. Confirm(d) => job[d] # <<>>
      BY <1>9 DEF Confirm, Goes, HasReceived, Serves
    <3>. QED BY <2>1, <3>1, HeadTailProperties
  <2>3. to_page' \in Seq(Message) /\ reply' \in Replies /\ newest' \in Replies
    BY <1>9, <2>1, <2>2, TypesPublish DEF Announce, Confirm, Report
  <2>4. job' \in [Device -> Seq(Text)] /\ status' \in [Device -> Text]
    <3>1. CASE Announce(d)
      BY <3>1 DEF Announce, Types
    <3>2. CASE Confirm(d)
      BY <1>9, <2>2, <3>2 DEF Confirm, Types
    <3>3. CASE Report(d)
      BY <1>9, <3>3, EmptySeq DEF Report, Forgets, Types
    <3>. QED BY <1>9, <3>1, <3>2, <3>3
  <2>5. /\ fate' \in [Device -> {"underway", "seen", "missed"}]
        /\ session' \in [Device -> Step]
    <3>1. CASE Announce(d)
      BY <3>1 DEF Announce, Goes, Types, Step
    <3>2. CASE Confirm(d)
      BY <3>2 DEF Confirm, Goes, Types, Step
    <3>3. CASE Report(d)
      <4>1. session' \in [Device -> Step]
        BY <3>3 DEF Report, Goes, Types, Step
      <4>2. fate' = fate \/ fate' = [fate EXCEPT ![d] = "missed"]
        BY <3>3 DEF Report, Forgets
      <4>. QED BY <4>1, <4>2 DEF Types
    <3>. QED BY <1>9, <3>1, <3>2, <3>3
  <2>6. UNCHANGED <<page, to_broker, subscribed, request, on_time>>
    BY <1>9 DEF Announce, Confirm, Report
  <2>. QED BY <2>3, <2>4, <2>5, <2>6 DEF Types
<1>10. ASSUME NEW d \in Device, AnswerOther(d)
       PROVE  Types'
  <2>1. PICK cmd \in {"GET_STATUS", "GET_INFO", "UPDATE"} :
           LET m == Reply(d, cmd, status[d], on_time[d])
           IN  \/ cmd = "GET_STATUS" /\ Tell(d, m)
               \/ Forward(m) /\ UNCHANGED newest
    BY <1>10 DEF AnswerOther
  <2> DEFINE m == Reply(d, cmd, status[d], on_time[d])
  <2>2. m \in Message /\ m.src = d /\ m.cmd = cmd
    BY <1>10, Records DEF Types, Cmd
  <2>. HIDE DEF m
  <2>3. to_page' \in Seq(Message) /\ newest' \in Replies
    <3>1. CASE cmd = "GET_STATUS" /\ Tell(d, m)
      BY <1>10, <2>2, <3>1, TypesTell
    <3>2. CASE Forward(m) /\ UNCHANGED newest
      BY <2>2, <3>2, AppendProperties DEF Forward, Types
    <3>. QED BY <2>1, <3>1, <3>2 DEF m
  <2>4. request' \in [Device -> Text]
    BY <1>10, Words DEF AnswerOther, Types
  <2>. QED BY <1>10, <2>3, <2>4 DEF AnswerOther, Types
<1>. QED BY <1>1, <1>2, <1>3, <1>4, <1>5, <1>6, <1>7, <1>8, <1>9, <1>10
         DEF Next, DeviceRuns

-----------------------------------------------------------------------------
(* The newest state *)

LEMMA NewestTell ==
    ASSUME Types, NewestComes, NEW d \in Device, NEW m \in Message, m.src = d,
           m.cmd \in {"GET_STATUS", "SET_STATUS"},
           Tell(d, m), UNCHANGED <<list, clicked, subscribed>>
    PROVE  NewestComes'
<1>1. newest' = [newest EXCEPT ![d] = m] /\ Forward(m)
  BY DEF Tell
<1>2. m \in About(d) /\ \A e \in Device \ {d} : m \notin About(e)
  BY DEF About
<1>3. ASSUME NEW e \in Device, subscribed, newest'[e].fresh
      PROVE  \/ LastIs(to_page', About(e), newest'[e])
             \/ NoneIn(to_page', About(e)) /\ Told(e)'
  <2>1. to_page' = Append(to_page, m) /\ to_page \in Seq(Message)
    BY <1>1, <1>3 DEF Forward, Types
  <2>2. newest \in [Device -> Message]
    BY DEF Types, Replies
  <2>3. CASE e = d
    BY <1>1, <1>2, <2>1, <2>2, <2>3, LastAppend
  <2>4. CASE e # d
    <3>1. newest'[e] = newest[e] /\ (Told(e) => Told(e)')
      BY <1>1, <2>2, <2>4 DEF Told
    <3>2. m \notin About(e)
      BY <1>2, <2>4
    <3>. QED BY <1>3, <2>1, <3>1, <3>2, LastAppend DEF NewestComes
  <2>. QED BY <2>3, <2>4
<1>. QED BY <1>3 DEF NewestComes

LEMMA NewestPublish ==
    ASSUME Types, NewestComes, NEW d \in Device,
           NEW cmd \in {"GET_STATUS", "SET_STATUS"}, NEW state \in Text,
           Publish(d, cmd, state), UNCHANGED <<list, clicked, subscribed>>
    PROVE  NewestComes'
<1> DEFINE m == Reply(d, cmd, state, on_time[d])
<1>1. m \in Message /\ m.src = d /\ m.cmd = cmd
  BY Records DEF Types, Cmd
<1>2. Tell(d, m)
  BY DEF Publish
<1>. HIDE DEF m
<1>. QED BY <1>1, <1>2, NewestTell

(***************************************************************************)
(* A message that arrives is shown, or is not the newest.                  *)
(***************************************************************************)
LEMMA NewestArrives ==
    ASSUME Types, NewestComes, onMessageArrived
    PROVE  NewestComes'
<1> DEFINE m == Head(to_page)
<1>1. CASE ~IsJSON(m)
  BY <1>1 DEF onMessageArrived, Disconnected, NewestComes
<1>2. CASE IsJSON(m)
  <2>1. /\ mqtt_process_mex(m) /\ to_page' = Tail(to_page)
        /\ UNCHANGED <<subscribed, newest>>
        /\ to_page \in Seq(Message) /\ to_page # <<>>
    BY <1>2 DEF onMessageArrived, broker, history, Types
  <2>2. m = to_page[1] /\ 1 \in DOMAIN to_page /\ m \in Message
    BY <2>1, HeadTailProperties, LenProperties, EmptySeq
  <2>. HIDE DEF m
  <2>3. ASSUME NEW d \in Device, subscribed, newest[d].fresh
        PROVE  \/ LastIs(to_page', About(d), newest[d])
               \/ NoneIn(to_page', About(d)) /\ Told(d)'
    <3>1. ASSUME m = newest[d], m \in About(d)
          PROVE  Told(d)'
      <4>1. m.src = d /\ m.fresh /\ m.cmd \in {"GET_STATUS", "SET_STATUS"}
        BY <2>3, <3>1 DEF About
      <4>2. add_update_walvola(m)
        BY <2>1, <4>1 DEF mqtt_process_mex
      <4>. QED BY <2>1, <3>1, <4>1, <4>2 DEF add_update_walvola, Told, Types
    <3>2. ASSUME m \notin About(d), Told(d)
          PROVE  Told(d)'
      <4>1. CASE m.src = d
        <5>1. m.cmd \notin {"GET_STATUS", "SET_STATUS"}
          BY <2>2, <3>2, <4>1 DEF About
        <5>. QED BY <2>1, <3>2, <5>1 DEF mqtt_process_mex, page, Told
      <4>2. CASE m.src # d
        BY <2>1, <3>2, <4>2
           DEF mqtt_process_mex, add_update_walvola, page, Told, Types
      <4>. QED BY <4>1, <4>2
    <3>3. CASE LastIs(to_page, About(d), newest[d])
      <4>1. newest[d] \in About(d)
        BY <3>3 DEF LastIs
      <4>. QED BY <2>1, <3>1, <3>3, <4>1, LastTail DEF m
    <3>4. CASE NoneIn(to_page, About(d)) /\ Told(d)
      <4>1. m \notin About(d)
        BY <2>2, <3>4 DEF NoneIn
      <4>. QED BY <2>1, <3>2, <3>4, <4>1, LastTail
    <3>. QED BY <2>3, <3>3, <3>4 DEF NewestComes
  <2>. QED BY <2>1, <2>3 DEF NewestComes
<1>. QED BY <1>1, <1>2

LEMMA NewestUnchanged ==
    ASSUME NewestComes, UNCHANGED <<subscribed, newest, to_page>>,
           \A d \in Device : Told(d) => Told(d)'
    PROVE  NewestComes'
BY DEF NewestComes

LEMMA NewestStep ==
    ASSUME Types, HasReceived, NewestComes, [Next]_vars
    PROVE  NewestComes'
<1>. USE DEF page, network, broker, device, history
<1>1. CASE \/ init_mqtt \/ onConnect \/ onFailure
           \/ (\E d \in Device : Wake(d) \/ Erase(d) \/ PowerFail(d))
           \/ UNCHANGED vars
  <2>1. UNCHANGED <<list, clicked, subscribed, newest, to_page>>
    BY <1>1 DEF init_mqtt, onConnect, onFailure, Wake, Erase, PowerFail, vars
  <2>. QED BY <2>1, NewestUnchanged DEF Told
<1>2. CASE onConnectionLost \/ PageReload
  BY <1>2 DEF onConnectionLost, PageReload, Disconnected, NewestComes
<1>3. CASE onMessageArrived
  BY <1>3, NewestArrives
<1>4. ASSUME NEW d \in Device, NEW state \in SwitchState, walvola_set_state(d, state)
      PROVE  NewestComes'
  <2>1. UNCHANGED <<subscribed, newest, to_page>>
    BY <1>4 DEF walvola_set_state
  <2>2. state # "nothing"
    BY <1>4, Words
  <2>3. \/ UNCHANGED <<list, clicked>>
        \/ /\ list' = [list EXCEPT ![d] = "TRANSITION"]
           /\ clicked' = [clicked EXCEPT ![d] = state]
    BY <1>4 DEF walvola_set_state
  <2>4. \A e \in Device : Told(e) => Told(e)'
    BY <2>1, <2>2, <2>3 DEF Told, Types
  <2>. QED BY <2>1, <2>4, NewestUnchanged
<1>5. CASE BrokerTakes
  <2>1. UNCHANGED <<list, clicked>>
    BY <1>5 DEF BrokerTakes
  <2>2. CASE UNCHANGED <<subscribed, to_page, newest>>
    BY <2>1, <2>2, NewestUnchanged DEF Told
  <2>3. CASE to_page' = to_page \o Retained /\ newest' = reply
    <3>1. ASSUME NEW d \in Device, reply[d].fresh
          PROVE  LastIs(to_page', About(d), reply[d])
      <4>1. reply[d].cmd # "none" /\ to_page \in Seq(Message)
        BY <3>1 DEF Types, Replies
      <4>. QED BY <2>3, <4>1, RetainedReplies, LastConcat
    <3>. QED BY <2>3, <3>1 DEF NewestComes
  <2>. QED BY <1>5, <2>2, <2>3 DEF BrokerTakes
<1>6. ASSUME NEW d \in Device, Expire(d)
      PROVE  NewestComes'
  <2>1. UNCHANGED <<list, clicked, subscribed, newest, to_page>>
    BY <1>6 DEF Expire
  <2>. QED BY <2>1, NewestUnchanged DEF Told
<1>7. ASSUME NEW d \in Device, Announce(d) \/ Confirm(d) \/ Report(d)
      PROVE  NewestComes'
  <2>1. status[d] \in Text /\ "TRANSITION" \in Text /\ job[d] \in Seq(Text)
    BY <1>7, Words DEF Types
  <2>2. Confirm(d) => Head(job[d]) \in Text
    <3>1. Confirm(d) => job[d] # <<>>
      BY <1>7 DEF Confirm, Goes, HasReceived, Serves
    <3>. QED BY <2>1, <3>1, HeadTailProperties
  <2>3. UNCHANGED <<list, clicked, subscribed>>
    BY <1>7 DEF Announce, Confirm, Report
  <2>. QED BY <1>7, <2>1, <2>2, <2>3, NewestPublish DEF Announce, Confirm, Report
<1>8. ASSUME NEW d \in Device, AnswerOther(d)
      PROVE  NewestComes'
  <2>1. PICK cmd \in {"GET_STATUS", "GET_INFO", "UPDATE"} :
           LET m == Reply(d, cmd, status[d], on_time[d])
           IN  \/ cmd = "GET_STATUS" /\ Tell(d, m)
               \/ cmd # "GET_STATUS" /\ Forward(m) /\ UNCHANGED newest
    BY <1>8 DEF AnswerOther
  <2> DEFINE m == Reply(d, cmd, status[d], on_time[d])
  <2>2. m \in Message /\ m.src = d /\ m.cmd = cmd
    BY <1>8, Records DEF Types, Cmd
  <2>3. UNCHANGED <<list, clicked, subscribed>>
    BY <1>8 DEF AnswerOther
  <2>4. \/ cmd = "GET_STATUS" /\ Tell(d, m)
        \/ cmd # "GET_STATUS" /\ Forward(m) /\ UNCHANGED newest
    BY <2>1
  <2>. HIDE DEF m
  <2>5. CASE cmd = "GET_STATUS" /\ Tell(d, m)
    BY <1>8, <2>2, <2>3, <2>5, NewestTell
  <2>6. CASE cmd # "GET_STATUS" /\ Forward(m) /\ UNCHANGED newest
    <3>1. \A e \in Device : m \notin About(e)
      BY <2>2, <2>6 DEF About
    <3>2. ASSUME NEW e \in Device, subscribed
          PROVE  /\ NoneIn(to_page, About(e)) => NoneIn(to_page', About(e))
                 /\ \A x : LastIs(to_page, About(e), x) => LastIs(to_page', About(e), x)
      <4>1. to_page \in Seq(Message) /\ m \notin About(e)
        BY <3>1, <3>2 DEF Types
      <4>2. to_page' = Append(to_page, m)
        BY <2>6, <3>2 DEF Forward
      <4>. QED BY <2>2, <4>1, <4>2, LastAppend
    <3>. QED BY <2>3, <2>6, <3>2 DEF NewestComes, Told
  <2>. QED BY <2>4, <2>5, <2>6
<1>. QED BY <1>1, <1>2, <1>3, <1>4, <1>5, <1>6, <1>7, <1>8 DEF Next, DeviceRuns

-----------------------------------------------------------------------------
(* Clicks *)

(***************************************************************************)
(* Only a reply and a new page take back what was clicked.                 *)
(***************************************************************************)
LEMMA ClickShownStep ==
    ASSUME Types, ClickIsShown, [Next]_vars
    PROVE  ClickIsShown'
<1>. USE DEF page, network, broker, device, history
<1>1. CASE onMessageArrived
  <2>1. CASE UNCHANGED <<list, clicked>>
    BY <2>1 DEF ClickIsShown
  <2>2. ASSUME add_update_walvola(Head(to_page))
        PROVE  ClickIsShown'
    <3>1. \A d \in Device : clicked'[d] = "nothing" \/
             (clicked'[d] = clicked[d] /\ list'[d] = list[d])
      BY <2>2 DEF add_update_walvola, Types
    <3>. QED BY <3>1 DEF ClickIsShown
  <2>. QED BY <1>1, <2>1, <2>2 DEF onMessageArrived, mqtt_process_mex
<1>2. ASSUME NEW d \in Device, NEW state \in SwitchState, walvola_set_state(d, state)
      PROVE  ClickIsShown'
  <2>1. \/ UNCHANGED <<list, clicked>>
        \/ /\ list' = [list EXCEPT ![d] = "TRANSITION"]
           /\ clicked' = [clicked EXCEPT ![d] = state]
    BY <1>2 DEF walvola_set_state
  <2>2. list \in [Device -> Text] /\ clicked \in [Device -> Choice]
    BY DEF Types
  <2>3. \A e \in Device : \/ clicked'[e] = clicked[e] /\ list'[e] = list[e]
                          \/ list'[e] = "TRANSITION"
    BY <2>1, <2>2
  <2>. QED BY <2>3 DEF ClickIsShown
<1>3. CASE PageReload
  BY <1>3 DEF PageReload, ClickIsShown
<1>4. CASE UNCHANGED <<list, clicked>>
  BY <1>4 DEF ClickIsShown
<1>. QED BY <1>1, <1>2, <1>3, <1>4
         DEF Next, vars, init_mqtt, onConnect, onFailure, onConnectionLost,
             BrokerTakes, Expire, DeviceRuns, Wake, Erase, Announce, Confirm,
             Report, AnswerOther, PowerFail

LEMMA NewPageStep ==
    ASSUME Types, NewPage, [Next]_vars
    PROVE  NewPage'
<1>. USE DEF page, network, broker, device, history, link_vars
<1>1. CASE init_mqtt \/ onConnect \/ onFailure \/ onConnectionLost
  BY <1>1 DEF init_mqtt, onConnect, onFailure, onConnectionLost, Connect,
              Succeed, Fail, Lose, NewPage
<1>2. CASE PageReload
  BY <1>2 DEF PageReload, Reload, NewPage
<1>3. CASE onMessageArrived
  <2>1. CASE IsJSON(Head(to_page))
    <3>1. phase = "connected" /\ UNCHANGED link_vars
      BY <1>3, <2>1 DEF onMessageArrived
    <3>. QED BY <3>1 DEF NewPage
  <2>2. CASE ~IsJSON(Head(to_page))
    BY <1>3, <2>2 DEF onMessageArrived, Lose, NewPage
  <2>. QED BY <2>1, <2>2
<1>4. ASSUME NEW d \in Device, NEW state \in SwitchState, walvola_set_state(d, state)
      PROVE  NewPage'
  BY <1>4 DEF walvola_set_state, NewPage
<1>5. CASE UNCHANGED <<link_vars, clicked>>
  BY <1>5 DEF NewPage
<1>. QED BY <1>1, <1>2, <1>3, <1>4, <1>5
         DEF Next, vars, BrokerTakes, Expire, DeviceRuns, Wake, Erase, Announce,
             Confirm, Report, AnswerOther, PowerFail

(***************************************************************************)
(* A device takes a request off its list when it has served it; the broker *)
(* retains a request for a device that is awake only if it came last.      *)
(***************************************************************************)
LEMMA HasReceivedStep ==
    ASSUME Types, HasReceived, [Next]_vars
    PROVE  HasReceived'
<1>. USE DEF page, network, broker, device, history
<1>1. ASSUME NEW d \in Device, Wake(d)
      PROVE  HasReceived'
  <2>1. request[d] \in Text
    BY <1>1 DEF Types
  <2>2. /\ session' = [session EXCEPT ![d] = "awake"] /\ UNCHANGED request
        /\ job' = [job EXCEPT ![d] =
                     IF request[d] = "none" THEN <<>> ELSE <<request[d]>>]
    BY <1>1 DEF Wake, Goes
  <2>3. <<request[d]>> # <<>> /\ Last(<<request[d]>>) = request[d]
    BY <2>1, EmptySeq, LastReceived
  <2>. QED BY <2>2, <2>3 DEF HasReceived, Serves, Types
<1>2. ASSUME NEW d \in Device, Erase(d)
      PROVE  HasReceived'
  BY <1>2 DEF Erase, Goes, HasReceived, Serves, Types
<1>3. ASSUME NEW d \in Device, Announce(d)
      PROVE  HasReceived'
  BY <1>3 DEF Announce, Goes, HasReceived, Serves, Types
<1>4. ASSUME NEW d \in Device, Confirm(d)
      PROVE  HasReceived'
  <2>1. /\ session[d] = "moving" /\ session' = [session EXCEPT ![d] = "awake"]
        /\ job' = [job EXCEPT ![d] = Tail(job[d])] /\ UNCHANGED request
    BY <1>4 DEF Confirm, Goes
  <2>2. job[d] \in Seq(Text) /\ request[d] \in Text
    BY DEF Types
  <2>3. job[d] # <<>> /\ (request[d] # "none" =>
           Last(job[d]) = request[d] /\ Tail(job[d]) # <<>>)
    BY <2>1 DEF HasReceived, Serves
  <2>4. request[d] # "none" => Tail(job[d]) # <<>> /\ Last(Tail(job[d])) = request[d]
    BY <2>2, <2>3, LastReceived
  <2>. QED BY <2>1, <2>4 DEF HasReceived, Serves, Types
<1>5. ASSUME NEW d \in Device, Report(d) \/ PowerFail(d)
      PROVE  HasReceived'
  <2>1. /\ session' = [session EXCEPT ![d] = "asleep"]
        /\ job' = [job EXCEPT ![d] = <<>>] /\ UNCHANGED request
    BY <1>5 DEF Report, PowerFail, Goes, Forgets
  <2>. QED BY <2>1 DEF HasReceived, Serves, Types
<1>6. ASSUME NEW d \in Device, AnswerOther(d)
      PROVE  HasReceived'
  BY <1>6 DEF AnswerOther, HasReceived, Serves, Types
<1>7. CASE BrokerTakes
  <2> DEFINE p == Head(to_broker)
  <2>1. p \in {SUBSCRIBE} \cup Order /\ UNCHANGED session
    BY <1>7, HeadTailProperties DEF BrokerTakes, Types
  <2>2. CASE UNCHANGED <<request, job>>
    BY <2>1, <2>2 DEF HasReceived, Serves
  <2>3. CASE /\ p # SUBSCRIBE /\ Delivers(p)
             /\ request' = IF p.retained
                           THEN [request EXCEPT ![p.dst] = p.value] ELSE request
    <3>1. p.dst \in Device /\ p.value \in Text /\ p.retained = TRUE
      BY <2>1, <2>3 DEF Order
    <3>. HIDE DEF p
    <3>2. request' = [request EXCEPT ![p.dst] = p.value]
      BY <2>3, <3>1
    <3>3. CASE ~Awake(p.dst)
      <4>1. UNCHANGED job
        BY <2>3, <3>3 DEF Delivers
      <4>. QED BY <2>1, <3>1, <3>2, <3>3, <4>1 DEF Awake, HasReceived, Serves, Types
    <3>4. CASE Awake(p.dst)
      <4>1. job' = [job EXCEPT ![p.dst] = Append(job[p.dst], p.value)]
        BY <2>3, <3>4 DEF Delivers
      <4>2. job[p.dst] \in Seq(Text)
        BY <3>1 DEF Types
      <4>3. /\ job'[p.dst] # <<>> /\ Last(job'[p.dst]) = p.value
            /\ job[p.dst] # <<>> => Tail(job'[p.dst]) # <<>>
            /\ request'[p.dst] = p.value
        <5> DEFINE t == Append(job[p.dst], p.value)
        <5>1. /\ t # <<>> /\ Last(t) = p.value
              /\ job[p.dst] # <<>> => Tail(t) # <<>>
          BY <3>1, <4>2, LastReceived
        <5>2. job'[p.dst] = t /\ request'[p.dst] = p.value
          BY <3>1, <3>2, <4>1 DEF Types
        <5>. HIDE DEF t
        <5>. QED BY <5>1, <5>2
      <4>4. \A e \in Device \ {p.dst} : job'[e] = job[e] /\ request'[e] = request[e]
        BY <3>2, <4>1 DEF Types
      <4>. QED BY <2>1, <3>4, <4>3, <4>4 DEF Awake, HasReceived, Serves
    <3>. QED BY <3>3, <3>4
  <2>. QED BY <1>7, <2>2, <2>3 DEF BrokerTakes
<1>8. CASE UNCHANGED <<session, request, job>>
  BY <1>8 DEF HasReceived, Serves
<1>. QED BY <1>1, <1>2, <1>3, <1>4, <1>5, <1>6, <1>7, <1>8
         DEF Next, vars, init_mqtt, onConnect, onFailure, onConnectionLost,
             PageReload, onMessageArrived, walvola_set_state, Expire, DeviceRuns

(***************************************************************************)
(* A session takes away a request that waited: it has it on its list, and  *)
(* begins to serve it, or gives it up when it ends.                        *)
(***************************************************************************)
LEMMA ClickOfSession ==
    ASSUME Types, HasReceived, ClickComes, NEW d \in Device,
           \/ Wake(d) \/ Erase(d) \/ Confirm(d) \/ Report(d) \/ PowerFail(d)
           \/ AnswerOther(d)
    PROVE  ClickComes'
<1>. USE DEF page, network, broker, device, history
<1>1. UNCHANGED <<phase, clicked, to_broker>>
  BY DEF Wake, Erase, Confirm, Report, PowerFail, AnswerOther, link_vars
<1>2. ASSUME NEW e \in Device \ {d}
      PROVE  /\ fate'[e] = fate[e] /\ request'[e] = request[e]
             /\ Unserved(e) => Unserved(e)'
  <2>1. /\ fate'[e] = fate[e] /\ request'[e] = request[e]
        /\ job'[e] = job[e] /\ session'[e] = session[e]
    BY <1>2 DEF Wake, Erase, Confirm, Report, PowerFail, AnswerOther, Goes,
                Sees, Forgets, Types
  <2>. QED BY <1>1, <2>1 DEF Unserved, Serves
<1>3. /\ job[d] \in Seq(Text) /\ clicked[d] \in Text /\ clicked[d] # "none"
      /\ fate \in [Device -> {"underway", "seen", "missed"}]
  BY Words DEF Types
<1>4. ASSUME phase = "connected", clicked[d] # "nothing",
             NoneIn(to_broker, For(d)), request[d] = clicked[d] \/ Unserved(d)
      PROVE  \/ fate'[d] \in {"seen", "missed"}
             \/ request'[d] = clicked[d] \/ Unserved(d)'
  <2>1. NothingOnItsWay(d)
    BY <1>4, NothingFor
  <2>2. CASE Wake(d)
    <3>1. request[d] = clicked[d]
      BY <1>4, <2>2 DEF Wake, Goes, HasReceived, Unserved
    <3>. QED BY <2>2, <3>1 DEF Wake
  <2>3. CASE Erase(d) \/ AnswerOther(d)
    <3>1. session[d] = "awake"
      BY <2>3 DEF Erase, AnswerOther, Goes
    <3>2. job[d] # <<>> /\ Last(job[d]) = clicked[d]
      BY <1>3, <1>4, <3>1 DEF HasReceived, Unserved
    <3>3. CASE Tail(job[d]) = <<>> /\ Erase(d)
      <4>1. job[d] = <<clicked[d]>>
        BY <1>3, <3>2, <3>3, LastReceived
      <4>. QED BY <1>3, <2>1, <3>3, <4>1 DEF Erase, Sees
    <3>4. CASE Tail(job[d]) # <<>> \/ AnswerOther(d)
      <4>1. UNCHANGED <<job, clicked>> /\ (AnswerOther(d) => session' = session)
        BY <1>1, <2>3 DEF Erase, AnswerOther
      <4>. QED BY <3>1, <3>2, <3>4, <4>1 DEF Unserved, Serves
    <3>. QED BY <2>3, <3>3, <3>4
  <2>4. CASE Confirm(d)
    <3>1. /\ session[d] = "moving" /\ session'[d] = "awake"
          /\ job'[d] = Tail(job[d])
      BY <2>4 DEF Confirm, Goes, Types
    <3>2. job[d] # <<>> /\ Tail(job[d]) # <<>> /\ Last(job[d]) = clicked[d]
      BY <1>3, <1>4, <3>1 DEF HasReceived, Unserved, Serves
    <3>3. Last(Tail(job[d])) = clicked[d]
      BY <1>3, <3>2, LastReceived
    <3>. QED BY <1>1, <3>1, <3>2, <3>3 DEF Unserved, Serves
  <2>5. CASE Report(d) \/ PowerFail(d)
    <3>1. UNCHANGED request /\ Forgets(d)
      BY <2>5 DEF Report, PowerFail
    <3>2. CASE request[d] = clicked[d]
      BY <3>1, <3>2
    <3>3. CASE request[d] # clicked[d]
      <4>1. Received(d)
        BY <1>4, <2>1, <3>3 DEF Received, Unserved
      <4>. QED BY <1>3, <3>1, <3>3, <4>1 DEF Forgets
    <3>. QED BY <3>2, <3>3
  <2>. QED BY <2>2, <2>3, <2>4, <2>5
<1>5. fate[d] # "underway" => fate'[d] # "underway"
  BY <1>3 DEF Wake, Erase, Confirm, Report, PowerFail, AnswerOther, Sees, Forgets
<1>6. ASSUME NEW e \in Device, phase = "connected", clicked[e] # "nothing",
             fate'[e] = "underway"
      PROVE  \/ LastIs(to_broker, For(e), mqtt_message(e, clicked[e]))
             \/ NoneIn(to_broker, For(e)) /\ (request'[e] = clicked[e] \/ Unserved(e)')
  <2>1. CASE e = d
    BY <1>4, <1>5, <1>6, <2>1 DEF ClickComes
  <2>2. CASE e # d
    BY <1>2, <1>6, <2>2 DEF ClickComes
  <2>. QED BY <2>1, <2>2
<1>. QED BY <1>1, <1>6 DEF ClickComes

(***************************************************************************)
(* The copies a click puts behind everything else are the last requests    *)
(* for its device; a request that waits at the broker is taken away only   *)
(* by a session of the device, or by a later request on the way.           *)
(***************************************************************************)
LEMMA ClickComesStep ==
    ASSUME Types, HasReceived, NewPage, ClickComes, [Next]_vars
    PROVE  ClickComes'
<1>. USE DEF page, network, broker, device, history, link_vars
<1>1. CASE onFailure \/ onConnectionLost \/ PageReload \/ init_mqtt
  <2>1. phase' # "connected"
    BY <1>1 DEF onFailure, onConnectionLost, PageReload, init_mqtt, Fail, Lose,
                Reload, Connect
  <2>. QED BY <2>1 DEF ClickComes
<1>2. CASE onConnect
  <2>1. \A d \in Device : clicked'[d] = "nothing"
    BY <1>2 DEF onConnect, Succeed, NewPage
  <2>. QED BY <2>1 DEF ClickComes
<1>3. CASE onMessageArrived
  <2>1. CASE IsJSON(Head(to_page))
    <3>1. UNCHANGED <<phase, to_broker, request, fate, job, session>>
      BY <1>3, <2>1 DEF onMessageArrived
    <3>2. \A d \in Device : clicked'[d] # "nothing" => clicked'[d] = clicked[d]
      BY <1>3, <2>1 DEF onMessageArrived, mqtt_process_mex, add_update_walvola, Types
    <3>. QED BY <3>1, <3>2 DEF ClickComes, Unserved, Serves
  <2>2. CASE ~IsJSON(Head(to_page))
    <3>1. phase' # "connected"
      BY <1>3, <2>2 DEF onMessageArrived, Lose
    <3>. QED BY <3>1 DEF ClickComes
  <2>. QED BY <2>1, <2>2
<1>4. ASSUME NEW d \in Device, NEW state \in SwitchState, walvola_set_state(d, state)
      PROVE  ClickComes'
  <2>1. CASE ~(phase = "connected" /\ handlers[d] > 0)
    BY <1>4, <2>1 DEF walvola_set_state, ClickComes, Unserved, Serves
  <2>2. CASE phase = "connected" /\ handlers[d] > 0
    <3> DEFINE s == [i \in 1 .. handlers[d] |-> mqtt_message(d, state)]
    <3>1. /\ to_broker' = to_broker \o s
          /\ clicked' = [clicked EXCEPT ![d] = state]
          /\ fate' = [fate EXCEPT ![d] = "underway"]
          /\ UNCHANGED <<phase, request, job, session>>
      BY <1>4, <2>2 DEF walvola_set_state, mqtt_send_mex
    <3>2. /\ s \in Seq({SUBSCRIBE} \cup Order)
          /\ LastIs(s, For(d), mqtt_message(d, state))
          /\ \A e \in Device \ {d} : NoneIn(s, For(e))
      BY <1>4, <2>2, Words, ClickSends
    <3>3. to_broker \in Seq({SUBSCRIBE} \cup Order)
      BY DEF Types
    <3>. HIDE DEF s
    <3>4. LastIs(to_broker', For(d), mqtt_message(d, clicked'[d]))
      BY <3>1, <3>2, <3>3, LastConcat DEF Types
    <3>5. ASSUME NEW e \in Device \ {d}
          PROVE  /\ clicked'[e] = clicked[e] /\ fate'[e] = fate[e]
                 /\ Unserved(e) => Unserved(e)'
                 /\ NoneIn(to_broker, For(e)) => NoneIn(to_broker', For(e))
                 /\ \A x : LastIs(to_broker, For(e), x) => LastIs(to_broker', For(e), x)
      <4>1. NoneIn(s, For(e))
        BY <3>2
      <4>2. clicked'[e] = clicked[e] /\ fate'[e] = fate[e]
        BY <3>1 DEF Types
      <4>3. Unserved(e) => Unserved(e)'
        BY <3>1, <4>2 DEF Unserved, Serves
      <4>. QED BY <3>1, <3>2, <3>3, <4>1, <4>2, <4>3, LastConcat
    <3>. QED BY <3>1, <3>4, <3>5 DEF ClickComes
  <2>. QED BY <2>1, <2>2
<1>5. CASE BrokerTakes
  <2> DEFINE p == Head(to_broker)
  <2>1. /\ p \in {SUBSCRIBE} \cup Order /\ to_broker # <<>>
        /\ to_broker \in Seq({SUBSCRIBE} \cup Order)
        /\ to_broker' = Tail(to_broker)
        /\ UNCHANGED <<phase, clicked, fate, session>>
    BY <1>5, HeadTailProperties DEF BrokerTakes, Types
  <2>2. p = SUBSCRIBE => UNCHANGED <<request, job>>
    BY <1>5 DEF BrokerTakes
  <2>3. p # SUBSCRIBE => /\ request' = [request EXCEPT ![p.dst] = p.value]
                         /\ Delivers(p)
    BY <1>5, <2>1 DEF BrokerTakes, Order
  <2>4. p = to_broker[1] /\ 1 \in DOMAIN to_broker
    BY <2>1, HeadTailProperties, LenProperties, EmptySeq
  <2>. HIDE DEF p
  <2>5. ASSUME NEW d \in Device, phase = "connected", clicked[d] # "nothing",
               fate[d] = "underway"
        PROVE  \/ LastIs(to_broker', For(d), mqtt_message(d, clicked[d]))
               \/ NoneIn(to_broker', For(d)) /\ (request'[d] = clicked[d] \/ Unserved(d)')
    <3>1. CASE LastIs(to_broker, For(d), mqtt_message(d, clicked[d]))
      <4>1. CASE LastIs(to_broker', For(d), mqtt_message(d, clicked[d]))
        BY <4>1
      <4>2. CASE p = mqtt_message(d, clicked[d]) /\ NoneIn(to_broker', For(d))
        <5>1. p # SUBSCRIBE /\ p.dst = d /\ p.value = clicked[d]
          BY <2>5, <4>2, Records DEF Types, SUBSCRIBE, mqtt_message
        <5>. QED BY <2>3, <4>2, <5>1 DEF Types
      <4>. QED BY <2>1, <3>1, <4>1, <4>2, LastTail DEF p
    <3>2. CASE NoneIn(to_broker, For(d)) /\ (request[d] = clicked[d] \/ Unserved(d))
      <4>1. NoneIn(to_broker', For(d))
        BY <2>1, <3>2, LastTail
      <4>2. p \notin For(d)
        BY <2>4, <3>2 DEF NoneIn
      <4>3. request'[d] = request[d] /\ job'[d] = job[d]
        BY <2>1, <2>2, <2>3, <4>2 DEF For, Delivers, Types
      <4>. QED BY <2>1, <3>2, <4>1, <4>3 DEF Unserved, Serves
    <3>. QED BY <2>5, <3>1, <3>2 DEF ClickComes
  <2>. QED BY <2>1, <2>5 DEF ClickComes
<1>6. ASSUME NEW d \in Device,
             \/ Wake(d) \/ Erase(d) \/ Confirm(d) \/ Report(d) \/ PowerFail(d)
             \/ AnswerOther(d)
      PROVE  ClickComes'
  BY <1>6, ClickOfSession
<1>7. ASSUME NEW d \in Device, Announce(d)
      PROVE  ClickComes'
  <2>1. /\ UNCHANGED <<phase, clicked, fate, to_broker, request, job>>
        /\ \A e \in Device : Serves(e)' => Serves(e)
    BY <1>7 DEF Announce, Goes, Serves, Types
  <2>. QED BY <2>1 DEF ClickComes, Unserved
<1>8. CASE UNCHANGED <<phase, clicked, fate, to_broker, request, job, session>>
  BY <1>8 DEF ClickComes, Unserved, Serves
<1>. QED BY <1>1, <1>2, <1>3, <1>4, <1>5, <1>6, <1>7, <1>8
         DEF Next, vars, Expire, DeviceRuns

-----------------------------------------------------------------------------
(* The theorems *)

LEMMA PageInvariance == Spec => []PageInv
<1>1. Init => PageInv
  <2> SUFFICES ASSUME Init PROVE PageInv
    OBVIOUS
  <2>1. \A d \in Device : clicked[d] = "nothing"
    BY DEF Init, empty_walvole_list
  <2>2. subscribed = FALSE /\ phase = "closed"
    BY DEF Init, LinkInit
  <2>3. HasReceived
    BY DEF Init, HasReceived, Serves
  <2>. QED BY <2>1, <2>2, <2>3, TypesInit
           DEF PageInv, NewestComes, ClickIsShown, NewPage, ClickComes
<1>2. PageInv /\ [Next]_vars => PageInv'
  BY TypesStep, HasReceivedStep, NewestStep, ClickShownStep, NewPageStep,
     ClickComesStep DEF PageInv
<1>. QED BY <1>1, <1>2, PTL DEF Spec

(***************************************************************************)
(* When nothing is on its way to a connected page, the badge of every      *)
(* device that told a recent state, with a reply that was retained when    *)
(* the page subscribed or was sent since, shows the newest, or TRANSITION  *)
(* if the user has clicked since (mqtt_process_mex, add_update_walvola).   *)
(***************************************************************************)
THEOREM PageShowsNewest == Spec => []ShowsNewest
<1>1. PageInv => ShowsNewest
  <2> SUFFICES ASSUME PageInv PROVE ShowsNewest
    OBVIOUS
  <2>1. to_page = <<>> => \A d \in Device : \A m : ~LastIs(to_page, About(d), m)
    BY DEF LastIs
  <2>. QED BY <2>1 DEF PageInv, NewestComes, ClickIsShown, Told, ShowsNewest
<1>. QED BY <1>1, PageInvariance, PTL

(***************************************************************************)
(* While the page stays connected, what was clicked last, and no reply has *)
(* answered, is on its way, or retained by the broker, or the last request *)
(* the device has received, or the device has begun to serve it; and it is *)
(* lost only by a device that had received it and ended its session, or    *)
(* lost power, before it served it, and after the broker's copy had been   *)
(* erased for another request.                                             *)
(***************************************************************************)
THEOREM ClicksAreNotLost == Spec => []ClickIsUnderway
<1>1. PageInv => ClickIsUnderway
  <2> SUFFICES ASSUME PageInv, NEW d \in Device, phase = "connected",
                      clicked[d] # "nothing", fate[d] \notin {"seen", "missed"}
               PROVE  \/ NothingOnItsWay(d) /\ request[d] = clicked[d]
                      \/ Received(d)
                      \/ \E i \in DOMAIN to_broker :
                            /\ to_broker[i].dst = d /\ to_broker[i].value = clicked[d]
                            /\ \A j \in DOMAIN to_broker : j > i => to_broker[j].dst # d
    BY DEF ClickIsUnderway
  <2>0. fate[d] = "underway"
    BY DEF PageInv, Types
  <2>1. CASE LastIs(to_broker, For(d), mqtt_message(d, clicked[d]))
    <3>1. \A j \in DOMAIN to_broker : to_broker[j] \notin For(d) => to_broker[j].dst # d
      BY Records, LenProperties DEF PageInv, Types, For
    <3>2. PICK i \in DOMAIN to_broker :
             /\ to_broker[i] = mqtt_message(d, clicked[d])
             /\ \A j \in DOMAIN to_broker : j > i => to_broker[j] \notin For(d)
      BY <2>1 DEF LastIs
    <3>3. to_broker[i].dst = d /\ to_broker[i].value = clicked[d]
      BY <3>2 DEF mqtt_message
    <3>. QED BY <3>1, <3>2, <3>3
  <2>2. CASE NoneIn(to_broker, For(d)) /\ (request[d] = clicked[d] \/ Unserved(d))
    BY <2>2, NothingFor DEF PageInv, Received, Unserved
  <2>. QED BY <2>0, <2>1, <2>2 DEF PageInv, ClickComes
<1>. QED BY <1>1, PageInvariance, PTL
=============================================================================
