# A specification of Walvola

Walvola is a home heating system: battery powered radiator valves (role
`WALVOLA`), air conditioners driven by infrared (`WAC`) and relay boards (`IRB`),
each an ESP8266 that sleeps most of the time, wakes up every ten or fifteen
minutes, picks up at most a few requests from an MQTT broker, executes them,
reports its status and goes back to sleep.  A web application (iHeating) shows
the status of the devices and publishes requests.  Nobody is awake at the same
time: everything goes through the retained messages of the broker.

Paths below are relative to `src/Software/`.

## Inventory

| Component | State | Operations | Interacts through |
|---|---|---|---|
| Device session (`Walvola/Walvola.ino`, `mqtt.cpp`, `misc.cpp`, `wifi.cpp`) | program place, `walvola_status`, `relay_status`, `update_mode` in RAM | `setup`, `loop`, `start_inet_connectivity`, `MQTT_init`, `mqtt_callback`, the four command handlers, deep and modem sleep | MQTT client, EEPROM, actuator, radio |
| Status storage (`misc.cpp`) | one EEPROM byte | read at boot, write after a movement | read and written by the session |
| Valve motor (`misc.cpp`) | two GPIO pins, position of the valve | `motor_off/left/right`, `set_walvola`, `GPIO_init` | called from a command handler; 35 s of blocking delay |
| Web time (`timeapi.cpp`) | a TCP connection and counters | `get_web_time` | called in every session, before MQTT |
| MQTT client library (`pubsubclient-master/src`) | socket, packet identifier, keepalive times | `connect`, `subscribe`, `loop`, `publish`, `disconnect` | runs the callback inside `subscribe` and `loop` |
| MQTT broker (external) | retained message per topic, session | accepts packets, forwards | two FIFO byte streams per device |
| JSON (`json.cpp`, `jsmn-master`) | tokens, a table of key-value pairs | `mqtt2JSONkvs`, `getJSONvalue`, `jsmn_parse` | called from the callback |
| Web application (`iHeating/js/appHeating.js`) | list of devices, click handlers, MQTT connection | `init_mqtt`, `mqtt_process_mex`, `walvola_set_state` | MQTT client of the page, broker |
| MQTT client of the page (`iHeating/js/mqttws31.js`, Paho) | socket, queue, messages in flight and their copies in `localStorage`, pingers, timeouts, bytes of an incomplete packet | `connect`, `send`, `subscribe`, `unsubscribe`, `disconnect`, callbacks of the WebSocket and of the timers | calls back the application; WebSocket |
| Telemetry (`keen.cpp`), infrared (`ac.cpp`), Telegram (`telegram.cpp`) | none | one HTTP POST; one infrared code; commented out | called by the session |

What makes them hard:

* the device and the controllers interleave at the broker: the device *erases*
  the retained request it serves, whatever that is by the time the erasure
  arrives;
* a request may be delivered before the SUBACK, and is then served, motor
  included, from inside `subscribe()`;
* power may fail between any two steps, and the status is stored after the
  movement;
* the connection may break or the radio may be switched off with packets on the
  way;
* several loops of the code wait for a network event without a bound;
* the page may be loaded again, and its connection may end, between any two
  packets of an exchange; what it must remember is in two places, memory and
  `localStorage`;
* several timers of the page race with the answers they wait for.

What makes each component correct:

* session: requests are served in order and never replaced by an older one, a
  confirmation is the truth, the reported status is where the actuator is, no
  request is lost while the device sleeps, the device goes back to sleep;
* motor: never both pins high, a movement that returns is complete, the motor
  stops;
* web time: the time is the local one, the function returns;
* JSON: every pair of a flat message is found and nothing is written outside the
  tables;
* MQTT library of the device: an acknowledgement is matched to its packet, a dead
  connection is noticed;
* MQTT client of the page: what `send` accepted is delivered as often as its
  quality of service says, a dead connection is noticed, callbacks come as
  documented, packets are framed and encoded as the standard has them;
* application: it shows the newest state of each device, and a click reaches the
  device, or is lost only where the device's own code loses it.

## Modules

```
Valve            what a device promises (abstract)
  ^ implemented by
Walvola  ------> MqttBroker      the device and its session; the broker and the link
  ^ proved in
WalvolaProofs <--- WalvolaSessionProofs
MCWalvola        the requests of the runs

WebTime, MCWebTime     get_web_time in detail (one step of Walvola)
  ^ proved in
WebTimeProofs
Motor, MCMotor         the H-bridge in detail (two steps of Walvola)
  ^ proved in
MotorProofs

MqttLink         what the client of the page promises about its connection (abstract)
  ^ implemented by                 ^ used by
Paho  ------> PahoClient           IHeating     the application, the broker, the devices
MCPaho  ^ proved in                  ^ proved in                       (reduced Walvola)
      PahoProofs --> Queues <----- IHeatingProofs
           ^         lemmas about queues and sets
      PahoDeliveryProofs             the messages themselves

Framing  ---> MqttWire   byte stream of the page; packets as bytes
MCFraming
```

### MqttBroker

Two topics matter to a device: `in/<id>`, where controllers publish retained
requests and the device subscribes, and `out/<id>`, where it replies.  A request
is identified by its position in the history `requests`, so that "older" and
"newer" are comparisons of numbers; 0 is the empty message.  `to_broker` and
`to_device` are the two directions of the TCP connection.  The broker takes one
packet at a time, and may send the retained message before or after the SUBACK,
as MQTT 3.1.1 allows and as `_wait_for` (`PubSubClient.cpp:90`) is written for.
`Abandon` is a device that goes away without closing its socket (deep sleep,
power failure, restart): any prefix of what it sent may still arrive.  `Break`
loses everything.  Reply messages that are not retained leave no trace at the
broker; what the application makes of them is in `IHeating`.

### Walvola

`pc` is the place in the program between two points where something else can
happen; the header of the module lists its values.  The actions carry the names
of the functions they model.

| Action | Code |
|---|---|
| `Setup` | `setup` up to line 89: the stored status is read, and set if it was not |
| `WifiAlreadyUp`, `WiFi_init` | the test of `Walvola.ino:101` and `138`; `WiFi_init` either joins or gives up |
| `get_web_time`, `Connect`, `ConnectFails` | `start_inet_connectivity`, the first half of `MQTT_init` |
| `SubscribeDone`, `SubscribeFails`, `SubscribeReads` | `subscribe` → `_send_reliably` → `_wait_for` |
| `PollReads`, `PollIdle`, `PollDone` | the five calls of `mqtt_client.loop()` |
| `mqtt_callback` (from `SubscribeReads`, `PollReads`) | the whole callback up to the dispatch: parse, address filter, erasure |
| `reply_CMD_*`, `DiscardUnknown` | `mqtt_mex_process` |
| `AnnounceTransition`, `SetNothing`, `SetWalvola`, `set_irb`, `Actuate`, `Store`, `ConfirmSet` | `reply_CMD_SET_STATUS` and `set_walvola`/`set_irb`, in the order of the code |
| `Report` | the publish at the end of `MQTT_init` |
| `DeepSleep`, `EnterOta`, `Scheduled`, `stop_inet_connectivity` | the end of `setup`, the two branches of `loop` |

Abstractions, each with its reason:

* `get_web_time` always returns here; `WebTime` shows when it does not.
* A request is a record of `dst`, `cmd` and `value`: parsing is not modelled
  here.  A message without them has no `dst` and is ignored, as in the code
  (`mqtt2JSONkvs` returns 1 also when it fails).
* The 255 resends of a SUBSCRIBE are one failure: `lastInActivity` is not
  refreshed by a resend, so all of them time out at once
  (`PubSubClient.cpp:92`).  The answer to a resend that crosses the failure is
  then never read, since the session is over.
* `suback` and `readpkt` are different places: the wait for the first byte has a
  timeout, but after one packet has been processed the next `readPacket` has
  none (`MQTT.cpp:129`).
* A packet is read in one step.  `readPacket` asks `readByte` for its first bytes,
  one at a time and without a timeout: a connection that breaks in between, in
  `subscribe()` or in `loop()`, leaves the device there for ever (`AmidPacket` in
  `ConnectionBreaks`; `Stuck` is the state it stays in).  Of the rest it takes what
  is available (`MQTT.cpp:158`): a packet whose rest comes in a later TCP segment
  is truncated, and the remainder is taken for the next packet.  That is not
  modelled: the packets of a device are some 200 bytes long and are taken to
  arrive in one segment.
* The write of the EEPROM byte and its commit are one step.
* `EEPROM_ENABLE` is 1 and `OTA_MODE` is defined, as in `Walvola.h`;
  `inet_connected` is never read and is left out.
* A power failure in the radio-off wait of a relay board counts like any other.

### WebTime

One action per iteration of each of the three loops of `get_web_time`, against a
server whose answer arrives in segments of any size, and a network that may drop
the connection.  The sending loop does not count: it reuses the counter of the
connection loop, which it never increments.  So it sends without limit while
nothing answers, and a connection made at the last permitted attempt is not used
at all.

Characters are digits or something else.  `raw_timestamp` is what the two
`indexOf` and the `substring` of lines 85 to 89 cut out of the part that was read,
wherever it ends; `formatted` puts the fields together as lines 90 to 99 do, a
missing month as 00 and a missing hour as 01.  `Field` are the places at which the
web application cuts the result (`appHeating.js:168`).  At 23:00 GMT the hour is 24,
which `new Date(...)` takes as the first hour of the next day; `TimestampIsLocal`
compares seconds of the day in that sense.  It says that a time made of a cut
answer cannot be read as a date, or is right but for the last digits of the
seconds.

### Motor

`program` is the list of pin writes and delays left to execute; power may fail
between any two.  A tick stands for the unit of the delays; the pause of 200 ms
after each pair of writes is one tick.  The stroke must not
be longer than the two delays (`MotorAssumption`), which is what the 35 seconds
of `Walvola.h:55` are chosen for.

### PahoClient, Paho, MqttLink

`PahoClient` is the client, one action per callback: JavaScript runs one at a
time.  The exception is `on_socket_message`, which takes up all packets of one
WebSocket message (`frame`); `HandleMessage` then handles them one per step, and
no other callback of the page is enabled until `frame` is empty, while server
and network go on, as they do.

| Action | Code |
|---|---|
| `Connect`, `Disconnect`, `Send`, `subscribe`, `unsubscribe` | the methods of `Client` and of `ClientImpl` |
| `on_socket_open`, `on_socket_close`, `on_socket_message` | the callbacks of the WebSocket |
| `ConnectTimeout`, `RequestTimeout` | `Timeout` |
| `SendPing`, `ReceivePing`, `ZombiePing` | `Pinger.doPing` of the two pingers, and of one that a second `connect` has replaced while its timer was running |
| `handle_*` | the cases of `_handleMessage` |
| `Reload` | the page is loaded again and the constructor restores `localStorage` |

`disconnected` is `_disconnected` with all its outcomes: the next host, version 3
of the protocol, `onConnectionLost`, `onFailure`.  `sentMessages` is the table of
the code, by identifier; `localStorage` is the second copy that `store` and
`removeItem` maintain.  `FreeId` and `Wire` are the search for an identifier and
its truncation to 16 bits.  A timer is armed or not, there is no clock; the timer
of a pinger runs out only when all that was sent before has been answered
(`Answered`), unless the connection is dead, because `keepAliveInterval` is chosen
longer than an answer takes.

`Paho` adds the page (any legal call at any time), the network, and a server
that keeps its half of the session: it remembers the identifiers of QoS 2
messages and sends again what was not acknowledged.

Abstractions: arguments are legal; messages and requests are model values; the
trace is left out; a SUBACK is `granted` or `refused`; of a disconnecting
callback (`Throwing`) only that it throws.  Two messages of the server are told
apart by their contents, not by their identifiers.

`MqttLink` is what the documentation of `Client` says a page sees: one callback
per `connect()`, `onConnectionLost` only after `onSuccess`.  `phase` is computed
from `connected` and `socket`; trying another host or another version is not
visible.

### MqttWire, Framing

`MqttWire` translates `encode`, `decodeMessage` and their helpers as functions on
sequences of bytes and of UTF-16 code units.  `UTF8Length` and `stringToUTF8` are
kept apart as in the code, and so are `remLength` and `body`; `Fit` is the buffer
that has room for the former and gets the latter.  `Framing` puts them into the
stream: the page writes a request and the server reads it (`ServerReads`, after
the standard); the server sends packets, and WebSocket messages deliver their
bytes in pieces of any size of `Chunk`.

### IHeating

The application on top of `MqttLink`, so that it sees a client that keeps its
promises.  `list` is the text of each badge, `handlers` the number of click
handlers registered for each of the two buttons of a device: every GET_STATUS reply
adds one, and a click runs them all.  (Framework7 delegates clicks by class, so
the handlers survive the replacement of the list entry.)  Whether a reply is
younger than 1050 seconds is its field `fresh`.

The devices go through the steps of `Walvola` that can be seen from outside.  `job`
are the requests a device has received and not served: the one that was retained
when it woke up, and those that come while it is awake.  Serving one erases
whatever the broker retains by then (`Erase`), as does the answer to another
controller's GET_STATUS, GET_INFO or UPDATE (`AnswerOther`).  A click is therefore
*seen* only when the device begins to serve the copy it has received; it is
*missed* when the device has received it, the broker's copy was erased for another
request, and the session or the power ended before it came to it (`fate`).  That a
session ends with requests unread is in the code: it has five calls of `loop()`.
What SET_STATUS requests of other controllers do to a device is left to `Walvola`.

| Action | Code |
|---|---|
| `init_mqtt`, `onConnect`, `onFailure`, `onConnectionLost` | the functions of these names |
| `onMessageArrived` | with `mqtt_process_mex`, `add_update_walvola`, `add_hook` |
| `walvola_set_state` | with `mqtt_send_mex`, once per handler |
| `PageReload` | the script runs again |
| `Wake`, `Erase`, `Announce`, `Confirm`, `Report`, `AnswerOther` | the session of a device: subscription and delivery, `mqtt_callback`, `reply_CMD_*`, the report |

## Runs

| Run | Configuration | Shows |
|---|---|---|
| `walvola_faults` | valve, deep sleep, 2 requests of all eight kinds at any time, 1 power failure, 1 broken connection, nothing flushed | `TypeOK`, `NeverBackwards`, `IInv`, `ConfirmedIsDone`, `StatusIsActual`, implements `Valve` |
| `irb_modem` | relay board, modem sleep, same faults | `StatusIsActual` and `Valve` for the other role and sleep mode |
| `wac_live` | air conditioner, deep sleep, 2 requests published while the radio is off, 1 power failure, 1 broken connection, fair | `NoRequestMissed`, `ControllersKnow`, `EveryRequestTaken`, `SleepsAgain`, `TransitionEnds` |
| `webtime` | 3 attempts, an answer of 48 characters cut anywhere, 5 dates, fair device | `TypeOK`, `TimestampIsLocal`, `GivesUp`, `AnswerReleases` |
| `motor` | stroke 7, driven for 7 and 8 ticks | `TypeOK`, `NeverBothHigh`, `MovementCompletes`, `MotorStops` |
| `paho` | persistent session; QoS 1 and 2 sent, QoS 2 received; 2 faults, 1 reload, 1 `disconnect()`, 4 connections | `TypeOK`, `StorageMirrors`, `AtMostOnce`, `NothingLost`, `InSentOrder`, implements `MqttLink` |
| `paho_rough` | clean session, a callback that throws, both kinds of request, one with a timeout, pingers, `disconnect()` at any time, version not given | `StorageMirrors`, `RequestsReported`, `NoFalseAlarm` |
| `paho_live` | two hosts, pingers, version not given, a subscription from `onSuccess`, 2 faults, fair | `NoFalseAlarm`, `DeadLinkNoticed`, `AllDelivered`, `AllArrive` |
| `iheating` | 1 device, 2 handlers, 2 requests served per session, the page loaded twice, 1 fault | `ShowsNewest`, `ClickIsUnderway`, `BadgeRecovers`, `ButtonsWork` |
| `wire` | every kind of packet, with and without each option, characters of 1 to 4 bytes, pieces of 1, 2, 7, 120 bytes and of all | `FramesMessages`, `ServerUnderstands` |
| `requests_missed` | `NoRequestMissed` with requests published while the device is awake | a violation: a request replaces the one the device is about to erase, and is erased with it (`findings` in `PROJECT.json`) |
| `answered_twice` | `AnsweredOnce` with the constants of `paho_rough` | a violation: `onFailure` of a `subscribe()` runs for its timeout and again for the SUBACK that refuses it |

Bounds.  Two requests are enough to have an older and a newer one, a replaced
one and an erased one; one power failure and one broken connection reach every
step of the session, before and after it.  `Polls` is 5, as in the code, in the
runs where the number matters, and 2 (fewer than the packets one session can
deliver) in `wac_live` and `irb_modem`.  Delays of `Motor` are
multiples of its tick; 7 is more than the ticks of the pauses between the writes.
The dates of `WebTime` are at the start, in the middle and in the last hour of a
day, with hours of one and two digits before and after the shift; 15 characters
before the Date header are enough for what is cut out when it has not arrived.

Two messages in flight are enough to be sent again in the wrong order or under
one identifier; two broken connections to interrupt an exchange and its
repetition.  `FrameSize` 2 puts a packet behind one that ends the connection.
`MaxMessageId` 8 is never reached, except that it bounds the identifiers.  In
`IHeating`, devices do not share any state, so that one is enough; the queues
hold two packets, the request of two handlers; the two handlers stand for two
or more.  `MaxServed` 2 lets a session serve an older request and a newer one, or
end before the newer one.  The remaining lengths 127 and 128 in `wire`, of a PUBLISH
in one direction and of a SUBSCRIBE in the other, are the first border of the
encoding (a packet of 16384 bytes is not in reach of the checker).

`CHECK_DEADLOCK FALSE` stands where the system may stop: a connection that breaks
may leave the device in `readByte` for ever; a page need not call anything, and
the bounds on calls, faults and loads end the runs of `Paho`, `IHeating` and
`Framing`.

## Fairness

* `WF(Device)`: the processor runs.  Uploading a program is not part of it.
* `WF(BrokerStep)`: the broker works.
* `SF` on joining the network, connecting, answering before the timeout and
  reading what has arrived: each of these can lose its race in one session
  (`WiFi_init` gives up after some tries, a poll finds nothing yet), and is tried
  again in every session.  It is assumed not to lose for ever.  Without it the
  promise of the code is empty: a device out of radio range serves nobody.
* `FlushBeforeSleep`: in the run about lost requests and liveness, what was sent
  reaches the broker before the radio goes off.  The session posts the voltage to
  keen.io (an HTTP exchange with a timeout of 2 s) after its last publish,
  `Walvola.ino:109` and `144`.  The other runs do not assume it.
* `WebTime`: the device is fair, the server and the network are not.
* `Paho`: the browser runs the callbacks and timers that are due, the server
  reads what arrives.  `Closes` is not fair: nobody promises that the browser
  notices a dead connection, which is what the pingers are for.  `AllDelivered`
  and `AllArrive` need a page that connects again when told that the connection
  is lost (`PageConnects`); iHeating is not such a page.
* `IHeating`: browser and broker handle what has arrived, every device wakes up
  again and again.  Nothing is assumed of the user and of the connection.

`AwakePublish` is FALSE in `wac_live`: `requests_missed` shows that the properties
need it.  `EveryRequestTaken` also excuses a power failure: it can leave the
erasure of the request that was being served on its way, and a request published
meanwhile is erased by it.  All three liveness properties of the device excuse
`Stuck`, the endless `readByte` after a broken connection: in the code nothing but
a power failure ends it.  `TransitionEnds` also excuses update mode, in which the
device waits for its upload, with the confirmation lost if the connection broke
before it.  The reply to GET_INFO is not
retained and no property is about it; on a relay board it carries
`walvola_status`, which is not the state of the relay.

## Proofs

The theorems hold for every value of the constants that the named assumptions of
the modules allow; a theorem that needs more says so in its statement.

### The device: `WalvolaProofs`, `WalvolaSessionProofs`

For every role, sleep mode, set of requests, number of polls and bound on faults
allowed by `RequestAssumption` and `ConfigurationAssumption`.

| Theorem | Statement |
|---|---|
| `Invariance` | `Spec => []IInv` |
| `TypeCorrect` | `Spec => []TypeOK` |
| `OrderCorrect` | `Spec => []NeverBackwards` |
| `ConfirmationCorrect` | `Spec => []ConfirmedIsDone` |
| `StatusCorrect` | `Spec => []StatusIsActual` |
| `Implementation` | `Spec => ValveImplemented` |
| `NoRequestIsMissed` | `FlushBeforeSleep /\ ~AwakePublish => (Spec => []NoRequestMissed)` |
| `ControllersAreTold` | `FlushBeforeSleep /\ RelayStays => (Spec => []ControllersKnow)` |

The inductive invariant `IInv` (checked by TLC in `walvola_faults`) has five
parts:

* `TypeOK`;
* `NeverBackwards`: the retained copy is the newest request or nothing, and the
  packets on the way to the device are in order, between `accepted` and the
  newest.  It is inductive by itself: erasing, forwarding, taking a packet and
  dropping the connection each keep a subsequence of an ordered sequence, or
  append the newest element (`InOrderAppend`, `InOrderTail`);
* `ServesCurrent`: what the handler steps know of the request they serve.  The
  others cannot do without it: that `Actuate` moves to the value of the newest
  accepted request needs that `current` is `accepted`, is a SET_STATUS and has a
  value that is a position;
* `ConfirmedIsDone`;
* `StoredIsActual`, stronger than `StatusIsActual`: outside the two steps between
  a movement and its storage, and unless power failed there (`interrupted`, until
  the next movement is stored), the stored byte is where the actuator is, also
  while the device is off, when RAM means nothing.

`StatusIsActual` alone is not inductive: it says nothing of a byte that was never
set, from which the first boot takes ON.

`Implementation` maps each step: a publication to `Ask`, a delivery that is
served to `Accept` (which needs `NeverBackwards`), the steps of the motor or the
relay to `Move` (which need `ServesCurrent`), a power failure or a restart of a
relay board to `LosePower`, everything else to a stutter.

`NoRequestIsMissed` adds `NothingTravels` (the packets of a session have arrived
when the next one begins) and `RequestsKept`: only the newest request is handed
over, so that an erasure that travels is the erasure of the newest one.  That is
where the two hypotheses come in, and `requests_missed` shows what happens without
`~AwakePublish`.  A power failure is excluded because it leaves an erasure on its
way that may arrive after the next request.

`ControllersAreTold` adds `ReplyIsTrue`: the last retained reply on the way is
true, or the connection is still there for the report that will correct it.
`RelayStays` (a relay board gets no UPDATE request) is necessary: uploading a
program restarts the board with its relay open, while the retained reply says ON
until the next session.

### Web time: `WebTimeProofs`

For every number of attempts, set of times and cut of the answer allowed by
`WebTimeAssumption`:

| Theorem | Statement |
|---|---|
| `WebTimeTypeCorrect` | `Spec => []TypeOK` |

`TypeOK` is inductive by itself; its last conjunct, that the timestamp is a sequence
of digits and other characters whatever was read, needs that `substring` keeps
within its argument (`SubstringType`).

### The motor: `MotorProofs`

For every stroke and every pair of delays long enough for it (`MotorAssumption`),
where the runs have one stroke and two delays:

| Theorem | Statement |
|---|---|
| `MotorTypeCorrect` | `Spec => []TypeOK` |
| `NeverShorts` | `Spec => []NeverBothHigh` |
| `MovementIsComplete` | `Spec => []MovementCompletes` |

`MotorInv` says that `program` is the end of the instruction list of its target
(`OnProgram`), which pin is high at which instruction (`PinsOnProgram`), and that
the ticks left of the long delay are enough for the way left (`OnItsWay`).
`NeverBothHigh` is far from inductive: what keeps the pins apart is where in the
program each is raised and dropped.

### The application: `IHeatingProofs`, `Queues`

For every finite set of devices and every bound on queues, handlers, faults and
loads, where the run has one device and two handlers:

| Theorem | Statement |
|---|---|
| `PageShowsNewest` | `Spec => []ShowsNewest` |
| `ClicksAreNotLost` | `Spec => []ClickIsUnderway` |

The two properties speak of moments when nothing travels; the invariants say what
travels.  `NewestComes`: the newest reply about a device is the last one on the way
to a subscribed page, or has been shown.  `ClickComes`: the last request for a device
on the way to the broker is that of the last click, or it is retained, or it is the
last the device has received and not begun to serve, or its fate is settled.  The
third case rests on `HasReceived`: what the broker retains for a device that is awake
is the last thing the device has received, behind the request it serves, so that an
erasure for another request takes the broker's copy and not the device's.  `Queues`
proves what appending, taking and joining do to the last message of a kind, and
`SetToSeqMembers` that a subscription brings every retained reply once.
`NewPage` says that nothing can be clicked before the first connection of a page,
and that a page is connected only once (`init_mqtt`).

### The MQTT client of the page: `PahoProofs`

For every set of messages and requests, every number of hosts and option of
`connect()`, every size of WebSocket messages, and every bound on faults, loads
and calls, where the runs have two messages and two faults.  `Calm` and `Few` are
conditions on the constants only.

| Theorem | Statement |
|---|---|
| `ClientTypes` | `Calm /\ Few => (Spec => []TypeOK)` |
| `NothingForgotten` | `Calm /\ Few => (Spec => []StorageMirrors)` |
| `PromisesKept` | `Calm /\ Few => (Spec => LinkImplemented)` |
| `RequestsAnswered` | `Calm /\ Few => (Spec => []RequestsReported)` |

`Calm` is a page whose `onMessageArrived` does not throw and which does not call
`disconnect()` before it is connected; `Few` says that the page sends fewer messages
and requests in all than there are identifiers.  Without `Calm` the code does
otherwise: a callback that throws on a PUBREL leaves a copy removed and its entry
kept, and an early `disconnect()` runs `_disconnected` twice (both below).  Without
`Few` identifier 65536 is sent as 0 (below), and packets of two exchanges cannot be
told apart.  The runs with a callback that throws and with an early `disconnect()`
stay with TLC (`paho_rough`, `answered_twice`).

The inductive invariant `ClientInv` has four parts:

* `Memory`: the table of messages in flight, its copy, and identifiers that are
  taken in turn from 1 on, so that there is always a free one
  (`FreeIdentifier`) and none is cut on the wire (`Numbered`);
* `Sockets`: what a socket, a timer, a pinger and a link need of each other;
* `Protocol`: what travels.  A connection begins with one CONNECT, behind all that
  is left of the old ones, and one CONNACK before everything else (`Greeting`), and
  until then only a CONNECT, a PINGREQ or a DISCONNECT is sent (`Opening`); of
  every exchange at most one packet is under way in the two directions together,
  and it suits the entry in flight (`Exchanges`).  What the server has not read of
  former connections is left out: it is answered no more (`Live`);
* `ServerTypes`.

`StorageMirrors` alone is not inductive: that a PUBREC marks a message and not a
request, and that a PUBCOMP has an entry to end, is known from what travels.
`PromisesKept` maps the steps that end a connection to `Lose`, `Fail` or, when the
next host or the older version is tried, to a stutter; that a connection that was
established is never followed by a silent attempt needs `hostIndex = Hosts` of
`Sockets`.  `RequestsAnswered` adds `ReportInv`: a request has one entry, and what
is left for its timer and its answer to report.

### The messages themselves: `PahoDeliveryProofs`

What the three levels of quality of service promise, on top of `ClientInv` and for
the same constants.

| Theorem | Statement |
|---|---|
| `DeliveredAtMostOnce` | `Calm /\ Few => (Spec => []AtMostOnce)` |
| `MessagesKept` | `Calm /\ Few /\ ~CleanSession => (Spec => []NothingLost)` |
| `SentOrderKept` | `Calm /\ Few /\ ~CleanSession /\ Subscription \cup Unsubscription = {} => (Spec => []InSentOrder)` |

Both additional hypotheses are needed; TLC finds a counterexample when the
configuration of `paho` is changed to do without them.  With a clean session the
client forgets the messages in flight when the connection is greeted
(`mqttws31.js:1197`): they never arrive, while messages sent after them do.
With a subscription in flight, the comparison by which the messages are sorted
(1229) meets an entry without a sequence number; it is no order then, the language
leaves the result open, and so does the model (`ResendOrders`).  The run `paho` has
a persistent session and no requests, that is, it satisfies both hypotheses.

None of the three properties is inductive: that a message is not taken twice
depends on what the server remembers of its identifier, on the stage its entry
has reached, and on which old packets still travel.  The invariants say this, one
direction at a time:

* `Book`: each message in flight has one entry, and a packet to the server with an
  identifier, even one of a connection that has ended, has its entry at the stage it
  tells of; what the server has answered is not on its way to it any more;
* `Once`: a QoS 2 message the server has got is published again only while the
  server remembers its identifier.  In a clean session that holds only while the
  client is connected: between the CONNECT, which makes the server forget, and the
  CONNACK, which makes the client forget, only `Opening` packets are sent;
* `Safe` and `Accounts`: in a persistent session what the server remembers, has
  marked or answers is a message it has; so one reported delivered is there;
* `Ordered`: sequence numbers follow the order of sending; a connection that works
  carries what the server has not got, and each message travels behind those sent
  before it that the server has not got;
* `Arrivals` (`Single`, `Tracked`) and `Arrives` (`Safely`): for a QoS 2 message to
  the page, what its packets in the two directions say of the server's record, and
  that one the page has got is not kept any more.

A step of the specification is some forty cases, of which few matter to a message.
`StepSends` and `StepReceives` show, once, that every step is one of those of
`SenderStep` and `ReceiverStep` (send, mark, finish, send again, forget; take,
release, start a session); `SenderKept`, `OrderedKept`, `ArrivalsKept` and
`ArrivesKept` then show that these keep the invariants.

### Only model-checked

* Liveness (`EveryRequestTaken`, `SleepsAgain`, `TransitionEnds`, `GivesUp`,
  `AnswerReleases`, `MotorStops`, `DeadLinkNoticed`, `AllDelivered`, `AllArrive`,
  `BadgeRecovers`, `ButtonsWork`), which the prover does not do.
* `Framing` and `MqttWire`, whose functions are folds over data: what they compute
  for every input needs induction theorems the prover cannot instantiate.
* `TimestampIsLocal`, which is about the digits of numbers, and `NoFalseAlarm`.
* What `paho_rough` checks outside `Calm`.

## Where the code and its documentation differ

Besides `requests_missed` and `answered_twice`, behaviours of the models that contradict a comment, or
that a user would not expect.  The properties above are stated so that they hold
in spite of them, or stop where they begin.

Device:

* The status after a power failure during a movement is the one before it
  (`misc.cpp:215`; `Walvola.ino:69` says the status does not change).
* No report is published when `subscribe` fails (`mqtt.cpp:253`, against the
  comment at 260).
* In modem sleep mode the pass of `loop()` that follows an UPDATE request switches
  the radio off (`Walvola.ino:153`), so that no property about a reachable update
  page is stated.
* `readByte` waits for ever when the connection breaks in the middle of a packet,
  in `loop()` as in `subscribe()`, or after a packet that overtook the SUBACK
  (`MQTT.cpp:130`).  A silent time server has the same effect: the loop that asks it
  is meant to end after `TIMEAPI_RETRY` requests and does not count them
  (`timeapi.cpp:52`).

Application:

* A lost connection is logged and never made again (`appHeating.js:88`); the
  reply to GET_INFO, which is not JSON, is enough to lose it (`mqtt.cpp:155`).
* A click may be lost after the device has received it (`fate` "missed" in
  `IHeating`): its copy at the broker is erased with another request
  (`mqtt.cpp:211`), and the session ends before its own copy is read.
* One click publishes the request as often as GET_STATUS replies have arrived
  (`appHeating.js:254`).
* Time stamps are GMT+1 all year (`timeapi.cpp:94`): with a browser in summer time
  every reply is 3600 seconds old, more than the 1050 that are accepted
  (`appHeating.js:176`).  In the model such a device is one that never has the
  time, and the page does not list it.

MQTT client of the page:

* Of `disconnect()` before the CONNACK, with something to send again, the exception
  that follows runs `_disconnected` twice: after `onConnectionLost` the second run
  connects again with version 3 (`mqttws31.js:1452`).
* `_sequence` starts from 0 when the page is loaded again, so messages of two
  loads are sent again in an order that is not the original one (1228).
* A request in flight has no sequence number, so that with one in the table what is
  sent again need not be sorted (1229, against the comment at 1228).
* `receiveBuffer` survives the connection (1405 says that all non-durable state
  is removed).
* The limit of messages in flight is off by one, the search does not wrap and
  65536 is sent as 0 (1113-1127).
* A PUBCOMP for which there is no message ends the connection (1293); a PUBACK is
  ignored.
* A message that makes `onMessageArrived` throw at QoS 2 loses its copy in
  `localStorage` but not its entry (1276-1281), and ends every connection again.
* A PINGRESP in the same WebSocket message as a packet that ended the connection
  arms the send pinger of that connection again (1328); the next `connect()` does
  not stop it, and its `doPing` acts on the new connection (988): it may give up a
  connection that works, which `NoFalseAlarm` allows it and no other pinger.
* A clean session forgets the messages in flight before it looks at the return
  code (1197-1219), and a message sent again within one page does not have its
  `duplicate` flag set.
* `connect()` adds entries to the object it is given which `validate` refuses the
  next time (1707).
* Unpaired surrogates have another length in `UTF8Length` than in `stringToUTF8`
  (564-604); a will with a binary payload is sent empty (294); an exception in
  `_deframeMessages` discards the packets decoded before it and then throws again
  at 1150.

## Not modelled, and why

Infrared and keen.io are single calls of a library whose result is ignored.
`telegram.cpp` is commented out.  Framework7 is minified third-party code.
Wording of messages, logging, tracing and voltage readings do not affect any
property.  Of `PubSubClient` only what the firmware calls is modelled, within
`Walvola`.  JSON is a record: a message of which the table of key-value pairs
has no `dst` is ignored, like one without it.

## Plan

1. `PubSubClient`: `_send_reliably` with identifiers of 16 and 8 bits, keepalive
   in `loop`.
2. `Jsmn` and `JsonKvs` as pure algorithms, and the schedule of `loop()` with
   `millis()` modulo a power of two.
