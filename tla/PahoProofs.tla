----------------------------- MODULE PahoProofs -----------------------------
(***************************************************************************)
(* Proofs about Paho.tla and PahoClient.tla: the protocol the client       *)
(* follows with the server, and what localStorage holds.                   *)
(***************************************************************************)
EXTENDS Paho, Queues


-----------------------------------------------------------------------------
(* The invariants *)

(***************************************************************************)
(* A page whose callbacks do not throw and which calls disconnect() only   *)
(* on a connection; fewer messages and requests than there are identifiers. *)
(***************************************************************************)
Calm == Throwing = {} /\ ~EarlyQuit

Few == IsFiniteSet(Item) /\ IsFiniteSet(Arriving) /\ Cardinality(Item) < MaxMessageId

(***************************************************************************)
(* Packets.  An identifier other than 0 is one of the client's, and names  *)
(* an exchange the client has begun.                                       *)
(***************************************************************************)
Word == Item \cup Arriving \cup {NoItem, "accepted", "refused", "granted"}

Question == {"PUBLISH", "PUBREL", "SUBSCRIBE", "UNSUBSCRIBE"}
Answer   == {"PUBACK", "PUBREC", "PUBCOMP", "SUBACK", "UNSUBACK"}

(* What CONNECT has in the place of an identifier is the version. *)
Ref(p) == IF p.type = "CONNECT" THEN 0 ELSE p.id

Up ==
    {p \in [type : Question \cup {"CONNECT", "PUBACK", "PUBREC", "PUBCOMP",
                                  "PINGREQ", "DISCONNECT"},
            id : Nat, what : Word] :
        /\ p.type = "PUBLISH" => p.what \in Message
        /\ p.type = "PUBREL" => p.id # 0
        /\ p.type \in {"PUBACK", "PUBREC", "PUBCOMP"} => p.what \in Arriving
        /\ Ref(p) # 0 => p.type \in Question}

Down ==
    {p \in [type : Answer \cup {"CONNACK", "PUBLISH", "PUBREL", "PINGRESP"},
            id : Nat, what : Word] :
        /\ p.type \in {"PUBLISH", "PUBREL"} => p.what \in Arriving
        /\ p.type = "CONNACK" => p.what \in {"accepted", "refused"}
        /\ p.type = "PUBCOMP" => p.id # 0
        /\ Ref(p) # 0 => p.type \in Answer}

(***************************************************************************)
(* An entry of the table of messages in flight.                            *)
(***************************************************************************)
Flight ==
    {e \in [item : Item, sequence : Nat, pubRecReceived : BOOLEAN] :
        /\ e.item \in Message => QoS[e.item] # 0
        /\ e.pubRecReceived => e.item \in Message /\ QoS[e.item] = 2}

Begun == ToSet(sent) \cup requested

(***************************************************************************)
(* The copy localStorage has of a table: its messages, not its requests.   *)
(***************************************************************************)
Mirror(table) ==
    [id \in {i \in DOMAIN table : table[i].item \in Message} |-> table[id]]

(***************************************************************************)
(* The client's memory.  Identifiers are taken in turn, from 1 on.         *)
(***************************************************************************)
Memory ==
    /\ sent \in Seq(Message)
    /\ timers \subseteq requested
    /\ requested \subseteq Subscription \cup Unsubscription
    /\ sentMessages \in [DOMAIN sentMessages -> Flight]
    /\ DOMAIN sentMessages \subseteq 1 .. Cardinality(Begun)
    /\ message_identifier \in 1 .. (Cardinality(Begun) + 1)
    /\ sequence \in Nat
    /\ receivedMessages \subseteq Arriving
    /\ localStorage = [Sent |-> Mirror(sentMessages), Received |-> receivedMessages]

(***************************************************************************)
(* The connection: a timer, a link and a frame need a socket.              *)
(***************************************************************************)
Sockets ==
    /\ socket \in {"none", "connecting", "open"}
    /\ connected \in BOOLEAN /\ connectTimeout \in BOOLEAN /\ link \in BOOLEAN
    /\ version \in {0, 3, 4} /\ hostIndex \in 0 .. Hosts
    /\ sendPinger \in PingerState /\ receivePinger \in PingerState
    /\ told \in {"nothing", "onSuccess", "onFailure", "onConnectionLost"}
    /\ connected => socket = "open" /\ hostIndex = Hosts
    /\ link => socket = "open"
    /\ frame # <<>> => socket = "open"
    /\ connectTimeout => socket # "none" /\ ~connected
    /\ sendPinger # "off" => socket = "open"
    /\ receivePinger # "off" => socket = "open"
    /\ zombie = "off"
    /\ msg_queue = <<>>

(***************************************************************************)
(* What the client has still to handle, and the greeting of a connection:  *)
(* one CONNECT, one CONNACK before everything else.                        *)
(***************************************************************************)
Pipe == frame \o to_client

NoType(q, type) == \A p \in ToSet(q) : p.type # type

Refs(q) == {Ref(p) : p \in ToSet(q)}

Live == link /\ NoType(to_server, "CONNECT")

Greets(q) ==
    /\ Head(q).type = "CONNACK" /\ NoType(Tail(q), "CONNACK")
    /\ Head(q).what = "refused" => Tail(q) = <<>> /\ ~online

(* What the client sends before it is greeted. *)
Opening == {"CONNECT", "PINGREQ", "DISCONNECT"}

OpeningOnly(q) == \A p \in ToSet(q) : p.type \in Opening

ConnectsLast(q) ==
    \A i, j \in DOMAIN q : i < j /\ q[i].type = "CONNECT" => q[j].type \in Opening

Greeting ==
    /\ ~link => to_client = <<>>
    /\ connected \/ Pipe # <<>> => NoType(to_server, "CONNECT")
    /\ connected => NoType(Pipe, "CONNACK")
    /\ ~connected /\ Pipe # <<>> => Greets(Pipe) /\ OpeningOnly(to_server)
    /\ ~connected /\ Live => Pipe # <<>>
    /\ ConnectsLast(to_server)

(***************************************************************************)
(* The exchanges: on a connection at most one packet of each travels, and  *)
(* it is one that suits the entry in flight.                               *)
(***************************************************************************)
Fits(p, item) ==
    IF item \in Message
    THEN /\ p.what = item
         /\ IF QoS[item] = 1 THEN p.type \in {"PUBLISH", "PUBACK"}
            ELSE p.type \in {"PUBLISH", "PUBREC", "PUBREL", "PUBCOMP"}
    ELSE p.type \in {"SUBSCRIBE", "UNSUBSCRIBE", "SUBACK", "UNSUBACK"}

Match(p) ==
    Ref(p) # 0 => /\ connected
                  /\ p.id \in DOMAIN sentMessages
                  /\ Fits(p, sentMessages[p.id].item)

Distinct(q) ==
    \A i, j \in DOMAIN q : Ref(q[i]) # 0 /\ Ref(q[i]) = Ref(q[j]) => i = j

Exchanges ==
    /\ \A p \in ToSet(Pipe) : Match(p)
    /\ Distinct(Pipe)
    /\ Live => /\ \A p \in ToSet(to_server) : Match(p)
               /\ Distinct(to_server)
               /\ Refs(Pipe) \cap Refs(to_server) \subseteq {0}

Wires ==
    frame \in Seq(Down) /\ to_client \in Seq(Down) /\ to_server \in Seq(Up)

Protocol == Wires /\ Greeting /\ Exchanges

ServerTypes ==
    /\ online \in BOOLEAN
    /\ outgoing \in [Arriving -> {"new", "pub", "rel", "done"}]
    /\ got \in Seq(Message)

ClientInv == Memory /\ Sockets /\ Protocol /\ ServerTypes

-----------------------------------------------------------------------------
(* Queues of packets *)

LEMMA AppendRefs ==
    ASSUME NEW S, NEW q \in Seq(S), NEW p \in S
    PROVE  LET t == Append(q, p)
           IN  /\ t \in Seq(S) /\ t # <<>>
               /\ ToSet(t) = ToSet(q) \cup {p}
               /\ Refs(t) = Refs(q) \cup {Ref(p)}
               /\ Distinct(q) /\ (Ref(p) = 0 \/ Ref(p) \notin Refs(q)) => Distinct(t)
               /\ ConnectsLast(q) /\ (p.type \in Opening \/ NoType(q, "CONNECT")) =>
                     ConnectsLast(t)
<1> DEFINE t == Append(q, p)
           n == Len(q) + 1
<1>1. /\ DOMAIN t = 1 .. n /\ DOMAIN q = 1 .. Len(q) /\ Len(q) \in Nat
      /\ \A i \in 1 .. Len(q) : t[i] = q[i]
      /\ t[n] = p /\ t \in Seq(S) /\ t # <<>>
  BY AppendProperties, LenProperties
<1>2. /\ n \in 1 .. n
      /\ \A i \in 1 .. n : i \in 1 .. Len(q) \/ i = n
      /\ \A i \in 1 .. Len(q) : i \in 1 .. n /\ i # n /\ ~(n < i)
      /\ ~(n < n)
  BY <1>1
<1>. HIDE DEF t, n
<1>3. ToSet(t) = ToSet(q) \cup {p}
  BY <1>1, <1>2 DEF ToSet
<1>4. Refs(t) = Refs(q) \cup {Ref(p)}
  BY <1>3 DEF Refs
<1>5. \A i \in DOMAIN q : Ref(q[i]) \in Refs(q) /\ q[i] \in ToSet(q)
  BY DEF Refs, ToSet
<1>6. ASSUME Distinct(q), Ref(p) = 0 \/ Ref(p) \notin Refs(q)
      PROVE  Distinct(t)
  BY <1>1, <1>2, <1>5, <1>6 DEF Distinct
<1>7. ASSUME ConnectsLast(q), p.type \in Opening \/ NoType(q, "CONNECT")
      PROVE  ConnectsLast(t)
  BY <1>1, <1>2, <1>5, <1>7 DEF ConnectsLast, NoType
<1>. QED BY <1>1, <1>3, <1>4, <1>6, <1>7 DEF t

LEMMA ConcatRefs ==
    ASSUME NEW S, NEW q \in Seq(S), NEW r \in Seq(S)
    PROVE  LET u == q \o r
           IN  /\ u \in Seq(S)
               /\ u = <<>> <=> q = <<>> /\ r = <<>>
               /\ ToSet(u) = ToSet(q) \cup ToSet(r)
               /\ Refs(u) = Refs(q) \cup Refs(r)
               /\ Distinct(q) /\ Distinct(r) /\ Refs(q) \cap Refs(r) \subseteq {0} =>
                     Distinct(u)
               /\ Distinct(u) => Distinct(q)
<1> DEFINE u == q \o r
           n == Len(q)
           k == Len(r)
<1>1. /\ DOMAIN q = 1 .. n /\ DOMAIN r = 1 .. k /\ n \in Nat /\ k \in Nat
      /\ DOMAIN u = 1 .. (n + k) /\ u \in Seq(S)
      /\ \A i \in 1 .. (n + k) : u[i] = IF i <= n THEN q[i] ELSE r[i - n]
  BY ConcatProperties, LenProperties
<1>2. u = <<>> <=> q = <<>> /\ r = <<>>
  BY ConcatEqualIffEmpty
<1>. HIDE DEF u, n, k
<1>3. \A i \in 1 .. n : i \in 1 .. (n + k) /\ u[i] = q[i]
  BY <1>1
<1>4. \A i \in 1 .. k : n + i \in 1 .. (n + k) /\ ~(n + i <= n) /\ (n + i) - n = i
  BY <1>1
<1>5. \A i \in 1 .. k : u[n + i] = r[i]
  BY <1>1, <1>4
<1>6. \A i \in 1 .. (n + k) :
         \/ i \in 1 .. n /\ u[i] = q[i]
         \/ i \notin 1 .. n /\ i - n \in 1 .. k /\ u[i] = r[i - n]
  BY <1>1
<1>7. ToSet(u) = ToSet(q) \cup ToSet(r)
  <2>1. ASSUME NEW p \in ToSet(u) PROVE p \in ToSet(q) \cup ToSet(r)
    <3>1. PICK i \in 1 .. (n + k) : p = u[i]
      BY <1>1, <2>1 DEF ToSet
    <3>. QED BY <1>1, <1>6, <3>1 DEF ToSet
  <2>2. ASSUME NEW p \in ToSet(q) PROVE p \in ToSet(u)
    BY <1>1, <1>3, <2>2 DEF ToSet
  <2>3. ASSUME NEW p \in ToSet(r) PROVE p \in ToSet(u)
    <3>1. PICK i \in 1 .. k : p = r[i]
      BY <1>1, <2>3 DEF ToSet
    <3>2. n + i \in DOMAIN u /\ u[n + i] = p
      BY <1>1, <1>4, <1>5, <3>1
    <3>. QED BY <3>2 DEF ToSet
  <2>. QED BY <2>1, <2>2, <2>3
<1>8. Refs(u) = Refs(q) \cup Refs(r)
  BY <1>7 DEF Refs
<1>9. ASSUME Distinct(q), Distinct(r), Refs(q) \cap Refs(r) \subseteq {0}
      PROVE  Distinct(u)
  <2> SUFFICES ASSUME NEW i \in DOMAIN u, NEW j \in DOMAIN u, Ref(u[i]) # 0,
                      Ref(u[i]) = Ref(u[j])
               PROVE  i = j
    BY DEF Distinct
  <2>1. /\ \A x \in 1 .. n : Ref(q[x]) \in Refs(q)
        /\ \A x \in 1 .. k : Ref(r[x]) \in Refs(r)
    BY <1>1 DEF Refs, ToSet
  <2>2. CASE i \in 1 .. n /\ j \in 1 .. n
    BY <1>1, <1>3, <1>9, <2>2 DEF Distinct
  <2>3. CASE i \notin 1 .. n /\ j \notin 1 .. n
    <3>0. /\ i - n \in DOMAIN r /\ u[i] = r[i - n]
          /\ j - n \in DOMAIN r /\ u[j] = r[j - n]
      BY <1>1, <1>6, <2>3
    <3>1. i - n = j - n
      BY <1>9, <3>0 DEF Distinct
    <3>. QED BY <1>1, <3>1
  <2>4. CASE (i \in 1 .. n) # (j \in 1 .. n)
    BY <1>1, <1>6, <1>9, <2>1, <2>4
  <2>. QED BY <2>2, <2>3, <2>4
<1>10. Distinct(u) => Distinct(q)
  BY <1>1, <1>3 DEF Distinct
<1>. QED BY <1>1, <1>2, <1>7, <1>8, <1>9, <1>10 DEF u

LEMMA ConcatToSet ==
    ASSUME NEW S, NEW q \in Seq(S), NEW r \in Seq(S)
    PROVE  ToSet(q \o r) = ToSet(q) \cup ToSet(r)
BY ConcatRefs

LEMMA TailRefs ==
    ASSUME NEW S, NEW q \in Seq(S), q # <<>>
    PROVE  /\ Head(q) \in S /\ Tail(q) \in Seq(S)
           /\ ToSet(q) = {Head(q)} \cup ToSet(Tail(q))
           /\ Refs(q) = {Ref(Head(q))} \cup Refs(Tail(q))
           /\ Distinct(q) => /\ Distinct(Tail(q))
                             /\ Ref(Head(q)) = 0 \/ Ref(Head(q)) \notin Refs(Tail(q))
           /\ ConnectsLast(q) =>
                 /\ ConnectsLast(Tail(q))
                 /\ Head(q).type = "CONNECT" => OpeningOnly(Tail(q))
<1> DEFINE t == Tail(q)
           n == Len(q)
<1>1. /\ DOMAIN q = 1 .. n /\ n \in Nat \ {0} /\ Head(q) = q[1]
      /\ DOMAIN t = 1 .. (n - 1) /\ t \in Seq(S) /\ Head(q) \in S
      /\ \A i \in 1 .. (n - 1) : t[i] = q[i + 1]
  BY HeadTailProperties, LenProperties, EmptySeq
<1>2. /\ 1 \in 1 .. n
      /\ \A i \in 1 .. (n - 1) : i + 1 \in 1 .. n /\ 1 < i + 1 /\ i + 1 # 1
      /\ \A i, j \in 1 .. (n - 1) : (i + 1 = j + 1 => i = j) /\ (i < j => i + 1 < j + 1)
  BY <1>1
<1>3. \A i \in 1 .. n : i = 1 \/ (i - 1 \in 1 .. (n - 1) /\ t[i - 1] = q[i])
  BY <1>1
<1>. HIDE DEF t, n
<1>4. ToSet(q) = {Head(q)} \cup ToSet(t)
  <2>1. ASSUME NEW p \in ToSet(q) PROVE p \in {Head(q)} \cup ToSet(t)
    <3>1. PICK i \in 1 .. n : p = q[i]
      BY <1>1, <2>1 DEF ToSet
    <3>2. CASE i = 1
      BY <1>1, <3>1, <3>2
    <3>3. CASE i # 1
      <4>1. i - 1 \in DOMAIN t /\ t[i - 1] = p
        BY <1>1, <1>3, <3>1, <3>3
      <4>. QED BY <4>1 DEF ToSet
    <3>. QED BY <3>2, <3>3
  <2>2. Head(q) \in ToSet(q)
    BY <1>1, <1>2 DEF ToSet
  <2>3. ASSUME NEW p \in ToSet(t) PROVE p \in ToSet(q)
    <3>1. PICK i \in 1 .. (n - 1) : p = t[i]
      BY <1>1, <2>3 DEF ToSet
    <3>2. i + 1 \in DOMAIN q /\ q[i + 1] = p
      BY <1>1, <1>2, <3>1
    <3>. QED BY <3>2 DEF ToSet
  <2>. QED BY <2>1, <2>2, <2>3
<1>5. Refs(q) = {Ref(Head(q))} \cup Refs(t)
  BY <1>4 DEF Refs
<1>6. \A x \in Refs(t) : \E i \in 1 .. (n - 1) : x = Ref(t[i])
  BY <1>1 DEF Refs, ToSet
<1>7. ASSUME Distinct(q)
      PROVE  Distinct(t) /\ (Ref(Head(q)) = 0 \/ Ref(Head(q)) \notin Refs(t))
  <2>1. Distinct(t)
    <3> SUFFICES ASSUME NEW i \in 1 .. (n - 1), NEW j \in 1 .. (n - 1),
                        Ref(t[i]) # 0, Ref(t[i]) = Ref(t[j])
                 PROVE  i = j
      BY <1>1 DEF Distinct
    <3>1. /\ i + 1 \in DOMAIN q /\ j + 1 \in DOMAIN q
          /\ q[i + 1] = t[i] /\ q[j + 1] = t[j]
      BY <1>1, <1>2
    <3>2. i + 1 = j + 1
      BY <1>7, <3>1 DEF Distinct
    <3>. QED BY <1>2, <3>2
  <2>2. ASSUME Ref(Head(q)) # 0, Ref(Head(q)) \in Refs(t)
        PROVE  FALSE
    <3>1. PICK i \in 1 .. (n - 1) : Ref(Head(q)) = Ref(t[i])
      BY <1>6, <2>2
    <3>2. i + 1 \in DOMAIN q /\ Ref(q[i + 1]) = Ref(q[1]) /\ 1 \in DOMAIN q
      BY <1>1, <1>2, <3>1
    <3>3. i + 1 = 1
      BY <1>1, <1>7, <2>2, <3>2 DEF Distinct
    <3>. QED BY <1>2, <3>3
  <2>. QED BY <2>1, <2>2
<1>8. ASSUME ConnectsLast(q)
      PROVE  /\ ConnectsLast(t)
             /\ Head(q).type = "CONNECT" => OpeningOnly(t)
  <2>1. ConnectsLast(t)
    <3> SUFFICES ASSUME NEW i \in 1 .. (n - 1), NEW j \in 1 .. (n - 1), i < j,
                        t[i].type = "CONNECT"
                 PROVE  t[j].type \in Opening
      BY <1>1 DEF ConnectsLast
    <3>1. /\ i + 1 \in DOMAIN q /\ j + 1 \in DOMAIN q /\ i + 1 < j + 1
          /\ q[i + 1] = t[i] /\ q[j + 1] = t[j]
      BY <1>1, <1>2
    <3>. QED BY <1>8, <3>1 DEF ConnectsLast
  <2>2. ASSUME Head(q).type = "CONNECT", NEW p \in ToSet(t)
        PROVE  p.type \in Opening
    <3>1. PICK i \in 1 .. (n - 1) : p = t[i]
      BY <1>1, <2>2 DEF ToSet
    <3>2. i + 1 \in DOMAIN q /\ 1 \in DOMAIN q /\ 1 < i + 1 /\ q[i + 1] = t[i]
      BY <1>1, <1>2
    <3>. QED BY <1>1, <1>8, <2>2, <3>1, <3>2 DEF ConnectsLast
  <2>. QED BY <2>1, <2>2 DEF OpeningOnly
<1>. QED BY <1>1, <1>4, <1>5, <1>7, <1>8 DEF t

LEMMA EmptyRefs ==
    /\ ToSet(<<>>) = {} /\ Refs(<<>>) = {}
    /\ Distinct(<<>>) /\ ConnectsLast(<<>>)
BY DEF ToSet, Refs, Distinct, ConnectsLast

LEMMA ConcatTail ==
    ASSUME NEW S, NEW q \in Seq(S), NEW r \in Seq(S), q # <<>>
    PROVE  /\ q \o r \in Seq(S) /\ q \o r # <<>>
           /\ Head(q \o r) = Head(q) /\ Tail(q \o r) = Tail(q) \o r
<1> DEFINE u == q \o r
           v == Tail(q) \o r
           n == Len(q)
           k == Len(r)
<1>1. /\ n \in Nat \ {0} /\ k \in Nat
      /\ u \in Seq(S) /\ u # <<>> /\ Len(u) = n + k
      /\ \A i \in 1 .. (n + k) : u[i] = IF i <= n THEN q[i] ELSE r[i - n]
  BY LenProperties, EmptySeq, ConcatProperties, ConcatEqualIffEmpty
<1>2. /\ Tail(q) \in Seq(S) /\ Len(Tail(q)) = n - 1
      /\ \A i \in 1 .. (n - 1) : Tail(q)[i] = q[i + 1]
  BY <1>1, HeadTailProperties
<1>3. /\ v \in Seq(S) /\ Len(v) = n - 1 + k
      /\ \A i \in 1 .. (n - 1 + k) :
            v[i] = IF i <= n - 1 THEN Tail(q)[i] ELSE r[i - (n - 1)]
  BY <1>1, <1>2, ConcatProperties
<1>4. /\ Tail(u) \in Seq(S) /\ Len(Tail(u)) = n - 1 + k
      /\ \A i \in 1 .. (n - 1 + k) : Tail(u)[i] = u[i + 1]
  BY <1>1, HeadTailProperties
<1>5. Head(u) = Head(q)
  <2>1. Head(u) = u[1] /\ Head(q) = q[1]
    BY <1>1
  <2>. QED BY <1>1, <2>1
<1>. HIDE DEF u, v, n, k
<1>6. ASSUME NEW i \in 1 .. (n - 1 + k)
      PROVE  v[i] = Tail(u)[i]
  <2>1. i + 1 \in 1 .. (n + k) /\ i \in Nat
    BY <1>1
  <2>2. CASE i <= n - 1
    <3>1. i \in 1 .. (n - 1) /\ i + 1 <= n
      BY <1>1, <2>1, <2>2
    <3>. QED BY <1>1, <1>2, <1>3, <1>4, <2>1, <2>2, <3>1
  <2>3. CASE ~(i <= n - 1)
    <3>1. ~(i + 1 <= n) /\ (i + 1) - n = i - (n - 1)
      BY <1>1, <2>1, <2>3
    <3>. QED BY <1>1, <1>3, <1>4, <2>1, <2>3, <3>1
  <2>. QED BY <2>2, <2>3
<1>7. v = Tail(u)
  BY <1>3, <1>4, <1>6, SeqEqual
<1>. QED BY <1>1, <1>5, <1>7 DEF u, v

(***************************************************************************)
(* What is handled is taken from the head of the pipe; what arrives is     *)
(* added to its end.                                                       *)
(***************************************************************************)
LEMMA PipeHandled ==
    ASSUME Wires, frame # <<>>, frame' = Tail(frame), to_client' = to_client
    PROVE  /\ Pipe \in Seq(Down) /\ Pipe # <<>>
           /\ Head(Pipe) = Head(frame) /\ Pipe' = Tail(Pipe)
           /\ frame' \in Seq(Down)
BY ConcatTail, HeadTailProperties DEF Wires, Pipe

LEMMA PipeArrives ==
    ASSUME Wires, NEW out \in Seq(Down), frame' = frame, to_client' = to_client \o out
    PROVE  Pipe' = Pipe \o out /\ to_client' \in Seq(Down)
BY ConcatAssociative, ConcatProperties DEF Wires, Pipe

-----------------------------------------------------------------------------
(* The protocol *)

LEMMA PipeType ==
    ASSUME Wires
    PROVE  /\ Pipe \in Seq(Down)
           /\ Pipe = <<>> <=> frame = <<>> /\ to_client = <<>>
           /\ ToSet(Pipe) = ToSet(frame) \cup ToSet(to_client)
           /\ Refs(Pipe) = Refs(frame) \cup Refs(to_client)
           /\ Distinct(Pipe) => Distinct(frame)
BY ConcatRefs DEF Wires, Pipe

LEMMA NoConnects ==
    ASSUME NEW q, NoType(q, "CONNECT")
    PROVE  ConnectsLast(q)
BY DEF NoType, ConnectsLast, ToSet

(***************************************************************************)
(* A connection that ends leaves nothing to handle, and nothing the server *)
(* will answer.                                                            *)
(***************************************************************************)
LEMMA Ended ==
    ASSUME Protocol, ~link', ~connected', frame' = <<>>, to_client' = <<>>,
           to_server' = to_server \/ to_server' = to_server \o <<DISCONNECT>>
    PROVE  Protocol'
<1>1. DISCONNECT \in Up /\ DISCONNECT.type \in Opening
  BY DEF DISCONNECT, Packet, Up, Ref, Question, Word, Opening
<1>2. to_server' \in Seq(Up) /\ ConnectsLast(to_server')
  <2>1. to_server \in Seq(Up) /\ ConnectsLast(to_server)
    BY DEF Protocol, Wires, Greeting
  <2>2. to_server \o <<DISCONNECT>> = Append(to_server, DISCONNECT)
    BY <1>1, <2>1, AppendIsConcat
  <2>3. /\ Append(to_server, DISCONNECT) \in Seq(Up)
        /\ ConnectsLast(Append(to_server, DISCONNECT))
    BY <1>1, <2>1, AppendRefs
  <2>. QED BY <2>1, <2>2, <2>3
<1>3. Wires'
  BY <1>2, EmptySeq DEF Wires
<1>4. Pipe' = <<>>
  BY DEF Pipe
<1>5. Greeting'
  BY <1>2, <1>4 DEF Greeting, Live
<1>6. Exchanges'
  BY <1>4, EmptyRefs DEF Exchanges, Live
<1>. QED BY <1>3, <1>5, <1>6 DEF Protocol

(***************************************************************************)
(* A new connection: CONNECT is behind all there is.                       *)
(***************************************************************************)
LEMMA Opened ==
    ASSUME Protocol, ~link, ~connected, frame = <<>>, NEW v \in Nat,
           link', ~connected', frame' = frame, to_client' = to_client,
           to_server' = Append(to_server, Packet("CONNECT", v, NoItem))
    PROVE  Protocol'
<1> DEFINE p == Packet("CONNECT", v, NoItem)
<1>1. p \in Up /\ Ref(p) = 0 /\ p.type = "CONNECT"
  BY DEF Packet, Up, Ref, Question, Word
<1>. HIDE DEF p
<1>2. /\ to_server' \in Seq(Up) /\ ConnectsLast(to_server')
      /\ p \in ToSet(to_server')
  BY <1>1, AppendRefs DEF Protocol, Wires, Greeting, Opening, p
<1>3. Wires'
  BY <1>2 DEF Protocol, Wires
<1>4. to_client' = <<>>
  BY DEF Protocol, Greeting
<1>5. Pipe' = <<>>
  BY <1>4 DEF Pipe
<1>6. ~Live'
  BY <1>1, <1>2 DEF Live, NoType
<1>7. Greeting'
  BY <1>2, <1>4, <1>5, <1>6 DEF Greeting
<1>8. Exchanges'
  BY <1>5, <1>6, EmptyRefs DEF Exchanges
<1>. QED BY <1>3, <1>7, <1>8 DEF Protocol

(***************************************************************************)
(* The identifiers that travel: in what the client has still to handle and *)
(* in what the server will still answer.                                   *)
(***************************************************************************)
Travelling(pipe) == Refs(pipe) \cup (IF Live THEN Refs(to_server) ELSE {})

(***************************************************************************)
(* A connected client that has handled a packet or not, and sends `out':   *)
(* new exchanges or the next step of one that is not travelling.           *)
(***************************************************************************)
LEMMA Spoken ==
    ASSUME Protocol, NEW out \in Seq(Up),
           socket_send(out), UNCHANGED <<link, to_client, online>>, connected',
           \/ connected /\ frame' = frame
           \/ frame # <<>> /\ frame' = Tail(frame),
           NoType(out, "CONNECT"), Distinct(out),
           Refs(out) \cap Travelling(Pipe') \subseteq {0},
           \A p \in ToSet(out) : Match(p)',
           \A n \in DOMAIN sentMessages \cap Travelling(Pipe') :
              n # 0 => /\ n \in DOMAIN sentMessages'
                       /\ sentMessages'[n].item = sentMessages[n].item
    PROVE  Protocol'
<1>1. /\ Pipe \in Seq(Down) /\ Pipe' \in Seq(Down) /\ frame' \in Seq(Down)
      /\ ToSet(Pipe') \subseteq ToSet(Pipe) /\ Refs(Pipe') \subseteq Refs(Pipe)
      /\ Distinct(Pipe')
      /\ NoType(Pipe', "CONNACK")
      /\ connected \/ Pipe # <<>>
  <2>1. Wires /\ Pipe \in Seq(Down) /\ Distinct(Pipe)
    BY PipeType DEF Protocol, Exchanges
  <2>2. CASE connected /\ frame' = frame
    <3>1. Pipe' = Pipe
      BY <2>2 DEF Pipe
    <3>. QED BY <2>1, <2>2, <3>1 DEF Protocol, Greeting, Wires
  <2>3. CASE frame # <<>> /\ frame' = Tail(frame)
    <3>1. Pipe # <<>> /\ Pipe' = Tail(Pipe) /\ frame' \in Seq(Down)
      BY <2>1, <2>3, PipeHandled
    <3>2. /\ Tail(Pipe) \in Seq(Down) /\ ToSet(Tail(Pipe)) \subseteq ToSet(Pipe)
          /\ Refs(Tail(Pipe)) \subseteq Refs(Pipe) /\ Distinct(Tail(Pipe))
      BY <2>1, <3>1, TailRefs
    <3>3. NoType(Tail(Pipe), "CONNACK")
      BY <3>1, <3>2 DEF Protocol, Greeting, Greets, NoType
    <3>. QED BY <2>1, <3>1, <3>2, <3>3
  <2>. QED BY <2>2, <2>3
<1>2. NoType(to_server, "CONNECT") /\ (Live <=> link)
  BY <1>1 DEF Protocol, Greeting, Live
<1>3. /\ to_server \in Seq(Up) /\ to_server' \in Seq(Up)
      /\ ToSet(to_server') \subseteq ToSet(to_server) \cup ToSet(out)
      /\ Refs(to_server') \subseteq Refs(to_server) \cup Refs(out)
      /\ link /\ Distinct(to_server) => Distinct(to_server')
      /\ ~link => to_server' = to_server
  <2>1. to_server \in Seq(Up)
    BY DEF Protocol, Wires
  <2>2. CASE link
    <3>1. Refs(to_server) \cap Refs(out) \subseteq {0}
      BY <1>2, <2>2 DEF Travelling
    <3>. QED BY <2>1, <2>2, <3>1, ConcatRefs DEF socket_send
  <2>. QED BY <2>1, <2>2 DEF socket_send
<1>4. NoType(to_server', "CONNECT") /\ ConnectsLast(to_server')
  <2>1. NoType(to_server', "CONNECT")
    BY <1>2, <1>3 DEF NoType
  <2>. QED BY <2>1, NoConnects
<1>5. Live' <=> link
  BY <1>4 DEF Live
<1>6. Wires'
  BY <1>1, <1>3 DEF Protocol, Wires
<1>7. Greeting'
  BY <1>1, <1>4 DEF Protocol, Greeting
<1>8. ASSUME NEW p, Match(p), Ref(p) \in Travelling(Pipe')
      PROVE  Match(p)'
  BY <1>8 DEF Match, Ref
<1>9. \A p \in ToSet(Pipe') : Match(p)'
  <2>1. \A p \in ToSet(Pipe') : Match(p) /\ Ref(p) \in Travelling(Pipe')
    BY <1>1 DEF Protocol, Exchanges, Travelling, Refs
  <2>. QED BY <1>8, <2>1
<1>10. ASSUME Live'
       PROVE  /\ \A p \in ToSet(to_server') : Match(p)'
              /\ Distinct(to_server')
              /\ Refs(Pipe') \cap Refs(to_server') \subseteq {0}
  <2>1. link /\ Live
    BY <1>2, <1>5, <1>10
  <2>2. \A p \in ToSet(to_server) : Match(p) /\ Ref(p) \in Travelling(Pipe')
    BY <2>1 DEF Protocol, Exchanges, Travelling, Refs
  <2>3. \A p \in ToSet(to_server') : Match(p)'
    BY <1>3, <1>8, <2>2
  <2>4. Distinct(to_server')
    BY <1>3, <2>1 DEF Protocol, Exchanges
  <2>5. Refs(Pipe') \cap Refs(to_server') \subseteq {0}
    BY <1>1, <1>3, <2>1 DEF Protocol, Exchanges, Travelling
  <2>. QED BY <2>3, <2>4, <2>5
<1>11. Exchanges'
  BY <1>1, <1>9, <1>10 DEF Exchanges
<1>. QED BY <1>6, <1>7, <1>11 DEF Protocol

(***************************************************************************)
(* The server takes a packet other than CONNECT or none, and sends `out':  *)
(* nothing that is travelling already.                                     *)
(***************************************************************************)
LEMMA ServerSpoken ==
    ASSUME Protocol, NEW out \in Seq(Down),
           UNCHANGED <<link, frame, connected, sentMessages>>,
           \/ to_server' = to_server
           \/ /\ to_server # <<>> /\ Head(to_server).type # "CONNECT"
              /\ to_server' = Tail(to_server),
           to_client' = IF Live' THEN to_client \o out ELSE to_client,
           out # <<>> => online, online' => online,
           NoType(out, "CONNACK"), Distinct(out),
           Live' => /\ \A p \in ToSet(out) : Match(p)
                    /\ Refs(out) \cap (Refs(Pipe) \cup Refs(to_server')) \subseteq {0}
    PROVE  Protocol'
<1>1. /\ to_server' \in Seq(Up) /\ ToSet(to_server') \subseteq ToSet(to_server)
      /\ NoType(to_server', "CONNECT") <=> NoType(to_server, "CONNECT")
      /\ Refs(to_server') \subseteq Refs(to_server)
      /\ Distinct(to_server) => Distinct(to_server')
      /\ ConnectsLast(to_server')
  <2>1. to_server \in Seq(Up) /\ ConnectsLast(to_server)
    BY DEF Protocol, Wires, Greeting
  <2>2. CASE to_server' = to_server
    BY <2>1, <2>2
  <2>3. CASE /\ to_server # <<>> /\ Head(to_server).type # "CONNECT"
             /\ to_server' = Tail(to_server)
    <3>1. /\ Tail(to_server) \in Seq(Up) /\ ConnectsLast(Tail(to_server))
          /\ ToSet(to_server) = {Head(to_server)} \cup ToSet(Tail(to_server))
          /\ Refs(to_server) = {Ref(Head(to_server))} \cup Refs(Tail(to_server))
          /\ Distinct(to_server) => Distinct(Tail(to_server))
      BY <2>1, <2>3, TailRefs
    <3>2. NoType(Tail(to_server), "CONNECT") <=> NoType(to_server, "CONNECT")
      BY <2>3, <3>1 DEF NoType
    <3>. QED BY <2>3, <3>1, <3>2
  <2>. QED BY <2>2, <2>3
<1>2. /\ Live' <=> Live
      /\ OpeningOnly(to_server) => OpeningOnly(to_server')
  BY <1>1 DEF Live, OpeningOnly
<1>3. /\ Wires /\ Pipe \in Seq(Down) /\ Distinct(Pipe)
      /\ \A p \in ToSet(Pipe) : Match(p)
  BY PipeType DEF Protocol, Exchanges
<1>4. /\ \A p : Match(p)' <=> Match(p)
      /\ \A q : Distinct(q)' <=> Distinct(q)
  BY DEF Match
<1>5. CASE ~Live \/ out = <<>>
  <2>1. to_client' = to_client /\ Pipe' = Pipe
    <3>1. to_client \o <<>> = to_client
      BY <1>3, ConcatEmptySeq DEF Wires
    <3>. QED BY <1>2, <1>5, <3>1 DEF Pipe
  <2>2. Wires'
    BY <1>1, <1>3, <2>1 DEF Wires
  <2>3. Greeting'
    BY <1>1, <1>2, <2>1 DEF Protocol, Greeting, Greets
  <2>4. Exchanges'
    BY <1>1, <1>2, <1>3, <1>4, <2>1 DEF Protocol, Exchanges
  <2>. QED BY <2>2, <2>3, <2>4 DEF Protocol
<1>6. CASE Live /\ out # <<>>
  <2>1. Pipe' = Pipe \o out /\ to_client' \in Seq(Down)
    BY <1>2, <1>3, <1>6, PipeArrives
  <2>2. /\ ToSet(Pipe \o out) = ToSet(Pipe) \cup ToSet(out)
        /\ Refs(Pipe \o out) = Refs(Pipe) \cup Refs(out)
        /\ Distinct(Pipe \o out)
        /\ Pipe \o out # <<>>
    BY <1>2, <1>3, <1>6, ConcatRefs
  <2>3. Wires'
    BY <1>1, <1>3, <2>1 DEF Wires
  <2>4. Greeting'
    <3>1. link' /\ NoType(to_server', "CONNECT") /\ (connected' <=> connected)
      BY <1>1, <1>6 DEF Live
    <3>2. ASSUME connected
          PROVE  NoType(Pipe \o out, "CONNACK")
      BY <2>2, <3>2 DEF Protocol, Greeting, NoType
    <3>3. ASSUME ~connected
          PROVE  Greets(Pipe)' /\ OpeningOnly(to_server')
      <4>1. /\ Pipe # <<>> /\ Greets(Pipe) /\ Head(Pipe).what # "refused"
            /\ OpeningOnly(to_server)
        BY <1>6, <3>3 DEF Protocol, Greeting, Greets
      <4>2. /\ Head(Pipe \o out) = Head(Pipe) /\ Tail(Pipe \o out) = Tail(Pipe) \o out
            /\ Tail(Pipe) \in Seq(Down)
        BY <1>3, <4>1, ConcatTail, HeadTailProperties
      <4>3. NoType(Tail(Pipe) \o out, "CONNACK")
        <5> DEFINE t == Tail(Pipe)
        <5>1. t \in Seq(Down) /\ NoType(t, "CONNACK")
          BY <4>1, <4>2 DEF Greets
        <5>. HIDE DEF t
        <5>2. ToSet(t \o out) = ToSet(t) \cup ToSet(out)
          BY <5>1, ConcatToSet
        <5>3. NoType(t \o out, "CONNACK")
          BY <5>1, <5>2 DEF NoType
        <5>. QED BY <5>3 DEF t
      <4>. QED BY <1>2, <2>1, <4>1, <4>2, <4>3 DEF Greets
    <3>. QED BY <1>1, <2>1, <2>2, <3>1, <3>2, <3>3 DEF Greeting
  <2>5. Exchanges'
    BY <1>1, <1>2, <1>3, <1>4, <1>6, <2>1, <2>2 DEF Protocol, Exchanges
  <2>. QED BY <2>3, <2>4, <2>5 DEF Protocol
<1>. QED BY <1>5, <1>6

(***************************************************************************)
(* The server takes CONNECT, and answers it with CONNACK first.            *)
(***************************************************************************)
LEMMA ServerGreeted ==
    ASSUME Protocol, NEW out \in Seq(Down), out # <<>>, Refs(out) \subseteq {0},
           UNCHANGED <<link, frame, connected, sentMessages>>,
           to_server # <<>>, Head(to_server).type = "CONNECT",
           to_server' = Tail(to_server),
           to_client' = IF Live' THEN to_client \o out ELSE to_client,
           Greets(out)'
    PROVE  Protocol'
<1>1. /\ to_server' \in Seq(Up) /\ ConnectsLast(to_server')
      /\ OpeningOnly(to_server')
      /\ Head(to_server) \in ToSet(to_server)
  BY TailRefs DEF Protocol, Wires, Greeting
<1>10. Refs(to_server') \subseteq {0}
  <2>1. \A p \in ToSet(to_server') : p \in Up
    BY <1>1, ElementOfSeq DEF ToSet
  <2>. QED BY <1>1, <2>1 DEF OpeningOnly, Refs, Up, Opening, Question
<1>2. ~connected /\ Pipe = <<>>
  BY <1>1 DEF Protocol, Greeting, NoType
<1>3. frame = <<>> /\ to_client = <<>>
  BY <1>2, PipeType DEF Protocol
<1>4. to_client' = IF Live' THEN out ELSE <<>>
  BY <1>3
<1>5. Pipe' = IF Live' THEN out ELSE <<>>
  BY <1>3, <1>4 DEF Pipe
<1>6. Wires'
  BY <1>1, <1>4, EmptySeq DEF Protocol, Wires
<1>7. Greeting'
  BY <1>1, <1>2, <1>4, <1>5 DEF Greeting, Live
<1>8. \A q : Refs(q) \subseteq {0} => Distinct(q) /\ \A p \in ToSet(q) : Match(p)'
  BY DEF Refs, Distinct, ToSet, Match
<1>9. Exchanges'
  BY <1>5, <1>8, <1>10, EmptyRefs DEF Exchanges
<1>. QED BY <1>6, <1>7, <1>9 DEF Protocol

LEMMA SubSeqRefs ==
    ASSUME NEW S, NEW q \in Seq(S), NEW i \in DOMAIN q
    PROVE  LET t == SubSeq(q, i, Len(q))
           IN  /\ t \in Seq(S) /\ q[i] \in ToSet(t)
               /\ ConnectsLast(q) => ConnectsLast(t)
<1> DEFINE t == SubSeq(q, i, Len(q))
           n == Len(q)
<1>1. /\ DOMAIN q = 1 .. n /\ n \in Nat /\ i \in 1 .. n
      /\ t \in Seq(S) /\ DOMAIN t = 1 .. (n - i + 1)
      /\ \A k \in 1 .. (n - i + 1) : t[k] = q[i + k - 1]
  <2>1. DOMAIN q = 1 .. n /\ n \in Nat /\ i \in 1 .. n
    BY LenProperties
  <2>2. \A k \in i .. n : k \in 1 .. n
    BY <2>1
  <2>3. /\ t \in Seq(S)
        /\ Len(t) = IF i <= n THEN n - i + 1 ELSE 0
        /\ \A k \in 1 .. (n - i + 1) : t[k] = q[i + k - 1]
    BY <2>1, <2>2, SubSeqProperties
  <2>. QED BY <2>1, <2>3, LenProperties
<1>. HIDE DEF t, n
<1>2. 1 \in DOMAIN t /\ t[1] = q[i]
  <2>1. 1 \in 1 .. (n - i + 1) /\ i + 1 - 1 = i
    BY <1>1
  <2>. QED BY <1>1, <2>1
<1>3. ASSUME ConnectsLast(q), NEW j \in DOMAIN t, NEW k \in DOMAIN t, j < k,
             t[j].type = "CONNECT"
      PROVE  t[k].type \in Opening
  <2>1. /\ i + j - 1 \in DOMAIN q /\ i + k - 1 \in DOMAIN q /\ i + j - 1 < i + k - 1
        /\ t[j] = q[i + j - 1] /\ t[k] = q[i + k - 1]
    BY <1>1, <1>3
  <2>. QED BY <1>3, <2>1 DEF ConnectsLast
<1>4. q[i] \in ToSet(t)
  BY <1>2 DEF ToSet
<1>5. ConnectsLast(q) => ConnectsLast(t)
  BY <1>3 DEF ConnectsLast
<1>. QED BY <1>1, <1>4, <1>5 DEF t

(***************************************************************************)
(* What is before the CONNECT of a newer connection is dropped.            *)
(***************************************************************************)
LEMMA Dropped ==
    ASSUME Protocol, NEW i \in DOMAIN to_server, to_server[i].type = "CONNECT",
           to_server' = SubSeq(to_server, i, Len(to_server)),
           UNCHANGED <<link, frame, to_client, connected, sentMessages>>
    PROVE  Protocol'
<1>1. to_server \in Seq(Up) /\ ConnectsLast(to_server)
  BY DEF Protocol, Wires, Greeting
<1>2. /\ to_server' \in Seq(Up) /\ ConnectsLast(to_server')
      /\ to_server[i] \in ToSet(to_server')
  BY <1>1, SubSeqRefs
<1>3. ~connected /\ Pipe = <<>>
  BY DEF Protocol, Greeting, NoType, ToSet
<1>4. Pipe' = <<>>
  BY <1>3 DEF Pipe
<1>5. ~Live'
  BY <1>2 DEF Live, NoType
<1>6. Wires'
  BY <1>2 DEF Protocol, Wires
<1>7. Greeting'
  BY <1>2, <1>3, <1>4, <1>5 DEF Protocol, Greeting
<1>8. Exchanges'
  BY <1>4, <1>5, EmptyRefs DEF Exchanges
<1>. QED BY <1>6, <1>7, <1>8 DEF Protocol

(***************************************************************************)
(* A broken connection keeps what the client has taken up.                 *)
(***************************************************************************)
LEMMA Broken ==
    ASSUME Protocol, ~link', to_client' = <<>>,
           UNCHANGED <<frame, to_server, connected, sentMessages, online>>
    PROVE  Protocol'
<1>1. /\ Wires /\ Pipe \in Seq(Down) /\ Distinct(frame)
      /\ ToSet(frame) \subseteq ToSet(Pipe)
      /\ frame # <<>> => Pipe # <<>>
  BY PipeType DEF Protocol, Exchanges
<1>2. Pipe' = frame
  BY <1>1, ConcatEmptySeq DEF Wires, Pipe
<1>3. Wires'
  BY <1>1, EmptySeq DEF Wires
<1>4. ASSUME frame # <<>>, Greets(Pipe)
      PROVE  Greets(frame)
  <2>1. /\ Head(Pipe) = Head(frame) /\ Tail(Pipe) = Tail(frame) \o to_client
        /\ Tail(frame) \in Seq(Down)
    BY <1>1, <1>4, ConcatTail, HeadTailProperties DEF Wires, Pipe
  <2>2. /\ ToSet(Tail(frame)) \subseteq ToSet(Tail(Pipe))
        /\ Tail(Pipe) = <<>> => Tail(frame) = <<>>
    <3> DEFINE t == Tail(frame)
    <3>1. t \in Seq(Down) /\ to_client \in Seq(Down) /\ Tail(Pipe) = t \o to_client
      BY <1>1, <2>1 DEF Wires
    <3>. HIDE DEF t
    <3>2. /\ ToSet(t) \subseteq ToSet(t \o to_client)
          /\ t \o to_client = <<>> => t = <<>>
      BY <3>1, ConcatToSet, ConcatEqualIffEmpty
    <3>. QED BY <3>1, <3>2 DEF t
  <2>. QED BY <1>4, <2>1, <2>2 DEF Greets, NoType
<1>5. Greeting'
  BY <1>1, <1>2, <1>4 DEF Protocol, Greeting, Greets, NoType, Live
<1>6. Exchanges'
  BY <1>1, <1>2 DEF Protocol, Exchanges, Match, Live
<1>. QED BY <1>3, <1>5, <1>6 DEF Protocol

(***************************************************************************)
(* To take up a WebSocket message changes nothing of what is to be         *)
(* handled.                                                                *)
(***************************************************************************)
LEMMA TakenUp ==
    ASSUME Protocol, frame = <<>>, NEW n \in 1 .. Len(to_client),
           frame' = SubSeq(to_client, 1, n),
           to_client' = SubSeq(to_client, n + 1, Len(to_client)),
           UNCHANGED <<link, to_server, connected, sentMessages, online>>
    PROVE  Protocol'
<1>1. to_client \in Seq(Down) /\ Len(to_client) \in Nat \ {0} /\ to_client # <<>>
  BY LenProperties DEF Protocol, Wires
<1>2. frame' \o to_client' = SubSeq(to_client, 1, Len(to_client))
  BY <1>1, ConcatAdjacentSubSeq
<1>3. Pipe = to_client /\ Pipe' = to_client
  BY <1>1, <1>2, SubSeqFull, ConcatEmptySeq DEF Pipe
<1>4. frame' \in Seq(Down) /\ to_client' \in Seq(Down)
  <2>1. /\ \A k \in 1 .. n : to_client[k] \in Down
        /\ \A k \in (n + 1) .. Len(to_client) : to_client[k] \in Down
    BY <1>1, ElementOfSeq, LenProperties
  <2>. QED BY <1>1, <2>1, SubSeqProperties
<1>5. link
  BY <1>1 DEF Protocol, Greeting
<1>6. Wires'
  BY <1>4 DEF Protocol, Wires
<1>7. Greeting'
  BY <1>3, <1>5 DEF Protocol, Greeting, Greets, Live
<1>8. Exchanges'
  BY <1>3 DEF Protocol, Exchanges, Match, Live
<1>. QED BY <1>6, <1>7, <1>8 DEF Protocol

-----------------------------------------------------------------------------
(* The client's memory *)

LEMMA WithType ==
    ASSUME NEW D, NEW table \in [D -> Flight], NEW id, NEW e \in Flight
    PROVE  With(table, id, e) \in [D \cup {id} -> Flight]
BY DEF With

LEMMA WithMirror ==
    ASSUME NEW table, NEW id, NEW e
    PROVE  /\ e.item \in Message =>
                 Mirror(With(table, id, e)) = With(Mirror(table), id, e)
           /\ e.item \notin Message /\ id \notin DOMAIN table =>
                 Mirror(With(table, id, e)) = Mirror(table)
BY DEF With, Mirror

LEMMA WithoutType ==
    ASSUME NEW D, NEW table \in [D -> Flight], NEW id
    PROVE  Without(table, id) \in [D \ {id} -> Flight]
BY DEF Without

LEMMA WithoutMirror ==
    ASSUME NEW table, NEW id
    PROVE  /\ Mirror(Without(table, id)) = Without(Mirror(table), id)
           /\ id \in DOMAIN table /\ table[id].item \notin Message =>
                 Mirror(Without(table, id)) = Mirror(table)
BY DEF Without, Mirror

LEMMA BegunItems ==
    ASSUME Few, sent \in Seq(Message), requested \subseteq Subscription \cup Unsubscription
    PROVE  /\ ToSet(sent) \subseteq Message
           /\ Begun \subseteq Item /\ IsFiniteSet(Begun) /\ Cardinality(Begun) \in Nat
           /\ \A r \in Item \ Begun :
                 /\ Cardinality(Begun \cup {r}) = Cardinality(Begun) + 1
                 /\ Cardinality(Begun) + 1 < MaxMessageId
<1>1. ToSet(sent) \subseteq Message
  BY LenProperties, ElementOfSeq DEF ToSet
<1>2. Begun \subseteq Item
  BY <1>1 DEF Begun, Item
<1>3. IsFiniteSet(Begun) /\ Cardinality(Begun) \in Nat
  BY <1>2, FS_Subset, FS_CardinalityType DEF Few
<1>4. ASSUME NEW r \in Item \ Begun
      PROVE  /\ Cardinality(Begun \cup {r}) = Cardinality(Begun) + 1
             /\ Cardinality(Begun) + 1 < MaxMessageId
  <2>1. Cardinality(Begun \cup {r}) = Cardinality(Begun) + 1
    BY <1>3, FS_AddElement
  <2>2. Cardinality(Begun \cup {r}) <= Cardinality(Item) /\ Cardinality(Item) \in Nat
    BY <1>2, FS_Subset, FS_CardinalityType DEF Few
  <2>. QED BY <1>3, <2>1, <2>2, ClientAssumption DEF Few
<1>. QED BY <1>1, <1>2, <1>3, <1>4

(***************************************************************************)
(* The search for an identifier ends within as many steps as there are     *)
(* messages in flight, and finds one that none of them has.                *)
(***************************************************************************)
LEMMA FreeIdentifier ==
    ASSUME NEW n \in Nat, message_identifier \in 1 .. (n + 1),
           NEW table, DOMAIN table \subseteq 1 .. n
    PROVE  FreeId(table) \in 1 .. (n + 1) /\ FreeId(table) \notin DOMAIN table
<1> DEFINE mi == message_identifier
           Free == {id \in mi .. (n + 1) : id \notin DOMAIN table}
           Found(id) == /\ id \notin DOMAIN table
                        /\ mi .. (id - 1) \subseteq DOMAIN table
<1>1. mi \in Nat /\ mi >= 1 /\ mi <= n + 1
  OBVIOUS
<1>2. PICK id \in Free : \A other \in Free : id <= other
  <2>1. Free \in SUBSET Nat
    BY <1>1
  <2>2. n + 1 \in Free
    BY <1>1
  <2>. HIDE DEF Free
  <2>. QED BY <2>1, <2>2, Least
<1>3. Found(id)
  <2>1. ASSUME NEW k \in mi .. (id - 1), k \notin DOMAIN table
        PROVE  FALSE
    <3>1. k \in Free /\ ~(id <= k)
      BY <1>1, <2>1
    <3>. QED BY <1>2, <3>1
  <2>. QED BY <2>1
<1>4. id \in mi .. (mi + Cardinality(DOMAIN table))
  <2>1. IsFiniteSet(DOMAIN table) /\ Cardinality(DOMAIN table) \in Nat
    <3>1. IsFiniteSet(1 .. n)
      BY FS_Interval
    <3>. QED BY <3>1, FS_Subset, FS_CardinalityType
  <2>2. Cardinality(mi .. (id - 1)) <= Cardinality(DOMAIN table)
    BY <1>3, <2>1, FS_Subset
  <2>3. Cardinality(mi .. (id - 1)) = IF mi > id - 1 THEN 0 ELSE (id - 1) - mi + 1
    BY <1>1, FS_Interval
  <2>. QED BY <1>1, <2>1, <2>2, <2>3
<1>5. FreeId(table) = CHOOSE k \in mi .. (mi + Cardinality(DOMAIN table)) : Found(k)
  BY DEF FreeId
<1>6. /\ FreeId(table) \in mi .. (mi + Cardinality(DOMAIN table))
      /\ Found(FreeId(table))
  <2>. HIDE DEF Found, mi
  <2>. QED BY <1>3, <1>4, <1>5
<1>7. FreeId(table) <= n + 1
  <2> SUFFICES ASSUME FreeId(table) > n + 1 PROVE FALSE
    BY <1>1, <1>6
  <2>1. n + 1 \in mi .. (FreeId(table) - 1) /\ n + 1 \notin 1 .. n
    BY <1>1, <1>6
  <2>. QED BY <1>6, <2>1
<1>. QED BY <1>1, <1>6, <1>7

(***************************************************************************)
(* A new exchange gets an identifier that none in flight has, and that is  *)
(* not cut on the wire.                                                    *)
(***************************************************************************)
NewEntry(r) ==
    [item |-> r, sequence |-> IF r \in Message THEN sequence + 1 ELSE 0,
     pubRecReceived |-> FALSE]

LEMMA NewEntryType ==
    ASSUME Memory, NEW r \in Item, r \in Message => QoS[r] # 0
    PROVE  NewEntry(r) \in Flight /\ NewEntry(r).item = r
BY DEF Memory, Flight, NewEntry

LEMMA Numbered ==
    ASSUME Few, Memory, NEW r \in Item \ Begun,
           NEW table, DOMAIN table \subseteq DOMAIN sentMessages
    PROVE  /\ FreeId(table) \in 1 .. (Cardinality(Begun) + 1)
           /\ Wire(FreeId(table)) = FreeId(table)
           /\ FreeId(table) \notin DOMAIN table /\ FreeId(table) # MaxMessageId
<1> DEFINE n == Cardinality(Begun)
           id == FreeId(table)
<1>1. n \in Nat /\ n + 1 < MaxMessageId /\ MaxMessageId \in Nat
  BY ClientAssumption, BegunItems DEF Memory
<1>. HIDE DEF n
<1>2. message_identifier \in 1 .. (n + 1) /\ DOMAIN table \subseteq 1 .. n
  BY DEF Memory, n
<1>3. id \in 1 .. (n + 1) /\ id \notin DOMAIN table
  BY <1>1, <1>2, FreeIdentifier
<1>. HIDE DEF id
<1>4. Wire(id) = id /\ id # MaxMessageId
  BY <1>1, <1>3 DEF Wire
<1>. QED BY <1>3, <1>4 DEF n, id

LEMMA Grown ==
    ASSUME Few, Memory, sent' \in Seq(Message),
           requested' \subseteq Subscription \cup Unsubscription,
           Begun \subseteq Begun'
    PROVE  /\ Cardinality(Begun) \in Nat /\ Cardinality(Begun') \in Nat
           /\ Cardinality(Begun) <= Cardinality(Begun')
<1>1. ToSet(sent') \subseteq Message
  BY LenProperties, ElementOfSeq DEF ToSet
<1>2. Begun' \subseteq Item
  BY <1>1 DEF Begun, Item
<1>3. IsFiniteSet(Begun') /\ Cardinality(Begun') \in Nat
  BY <1>2, FS_Subset, FS_CardinalityType DEF Few
<1>. QED BY <1>3, FS_Subset, FS_CardinalityType

(***************************************************************************)
(* Memory without a new exchange: entries go, or take their next step.     *)
(***************************************************************************)
LEMMA Kept ==
    ASSUME Few, Memory, sent' \in Seq(Message), timers' \subseteq requested',
           requested' \subseteq Subscription \cup Unsubscription,
           Begun \subseteq Begun',
           sentMessages' \in [DOMAIN sentMessages' -> Flight],
           DOMAIN sentMessages' \subseteq DOMAIN sentMessages,
           message_identifier' \in {1, message_identifier}, sequence' \in Nat,
           receivedMessages' \subseteq Arriving,
           localStorage' = [Sent |-> Mirror(sentMessages'), Received |-> receivedMessages']
    PROVE  Memory'
<1> DEFINE n == Cardinality(Begun)
           k == Cardinality(Begun')
<1>1. n \in Nat /\ k \in Nat /\ n <= k
  BY Grown
<1>2. DOMAIN sentMessages \subseteq 1 .. n /\ message_identifier \in 1 .. (n + 1)
  BY DEF Memory
<1>. HIDE DEF n, k
<1>3. DOMAIN sentMessages' \subseteq 1 .. k /\ message_identifier' \in 1 .. (k + 1)
  BY <1>1, <1>2
<1>. QED BY <1>3 DEF Memory, k

(***************************************************************************)
(* Memory with a new exchange.                                             *)
(***************************************************************************)
LEMMA Remembered ==
    ASSUME Few, Memory, NEW r \in Item \ Begun, r \in Message => QoS[r] # 0,
           NEW table, table \in [DOMAIN table -> Flight],
           DOMAIN table \subseteq DOMAIN sentMessages,
           requires_ack(table, r), Begun' = Begun \cup {r},
           sent' \in Seq(Message), timers' \subseteq requested',
           requested' \subseteq Subscription \cup Unsubscription,
           receivedMessages' \subseteq Arriving,
           localStorage' = [Sent |-> Mirror(sentMessages'), Received |-> receivedMessages']
    PROVE  Memory'
<1> DEFINE n == Cardinality(Begun)
           id == FreeId(table)
<1>1. n \in Nat /\ Cardinality(Begun') = n + 1
  BY BegunItems DEF Memory
<1>2. id \in 1 .. (n + 1) /\ id # MaxMessageId
  BY Numbered
<1>3. DOMAIN table \subseteq 1 .. n /\ sequence \in Nat
  BY DEF Memory
<1>. HIDE DEF n
<1>4. /\ sentMessages' = With(table, id, NewEntry(r))
      /\ message_identifier' = id
      /\ sequence' \in Nat
  BY <1>2, <1>3 DEF requires_ack, NewEntry
<1>. HIDE DEF id
<1>5. /\ sentMessages' \in [DOMAIN sentMessages' -> Flight]
      /\ DOMAIN sentMessages' = DOMAIN table \cup {id}
  <2>1. With(table, id, NewEntry(r)) \in [DOMAIN table \cup {id} -> Flight]
    BY NewEntryType, WithType
  <2>. QED BY <1>4, <2>1
<1>6. /\ DOMAIN sentMessages' \subseteq 1 .. (n + 1)
      /\ message_identifier' \in 1 .. (n + 1 + 1)
  BY <1>1, <1>2, <1>3, <1>4, <1>5
<1>. QED BY <1>1, <1>4, <1>5, <1>6 DEF Memory

(***************************************************************************)
(* The packet that is handled, and what is left behind it.                 *)
(***************************************************************************)
LEMMA ThePacket ==
    ASSUME Protocol, frame # <<>>
    PROVE  /\ packet \in Down /\ Ref(packet) = packet.id /\ Match(packet)
           /\ packet.id \notin Travelling(Tail(Pipe)) \ {0}
           /\ connected => packet.type # "CONNACK"
           /\ ~connected => /\ packet.type = "CONNACK"
                            /\ packet.what = "refused" => rest = <<>>
           /\ rest \in Seq(Down)
<1>1. /\ Wires /\ Pipe \in Seq(Down) /\ Pipe # <<>> /\ Distinct(Pipe)
      /\ frame \in Seq(Down) /\ to_client \in Seq(Down)
  BY PipeType DEF Protocol, Wires, Exchanges
<1>2. Head(Pipe) = packet /\ Tail(Pipe) = rest \o to_client
  BY <1>1, ConcatTail DEF Pipe, packet, rest
<1>3. packet \in Down /\ rest \in Seq(Down)
  BY <1>1, HeadTailProperties DEF packet, rest
<1>4. /\ packet \in ToSet(Pipe)
      /\ Ref(packet) = 0 \/ Ref(packet) \notin Refs(Tail(Pipe))
  <2>1. /\ Head(Pipe) \in ToSet(Pipe)
        /\ Ref(Head(Pipe)) = 0 \/ Ref(Head(Pipe)) \notin Refs(Tail(Pipe))
    BY <1>1, TailRefs
  <2>. QED BY <1>2, <2>1
<1>5. Ref(packet) = packet.id /\ Match(packet)
  <2>1. packet.type # "CONNECT"
    BY <1>3 DEF Down, Answer
  <2>. QED BY <1>4, <2>1 DEF Protocol, Exchanges, Ref
<1>6. Ref(packet) # 0 /\ Live => Ref(packet) \notin Refs(to_server)
  BY <1>4 DEF Protocol, Exchanges, Refs
<1>7. packet.id \notin Travelling(Tail(Pipe)) \ {0}
  BY <1>4, <1>5, <1>6 DEF Travelling
<1>8. connected => packet.type # "CONNACK"
  BY <1>4 DEF Protocol, Greeting, NoType
<1>9. ASSUME ~connected
      PROVE  packet.type = "CONNACK" /\ (packet.what = "refused" => rest = <<>>)
  <2>1. Greets(Pipe)
    BY <1>1, <1>9 DEF Protocol, Greeting
  <2>2. Tail(Pipe) = <<>> => rest = <<>>
    <3>1. rest \o to_client = <<>> => rest = <<>>
      BY <1>1, <1>3, ConcatEqualIffEmpty
    <3>. QED BY <1>2, <3>1
  <2>. QED BY <1>2, <2>1, <2>2 DEF Greets
<1>. QED BY <1>3, <1>5, <1>7, <1>8, <1>9

(***************************************************************************)
(* A connected client that handles a packet or not, and sends one packet   *)
(* or none.                                                                *)
(***************************************************************************)
LEMMA SpokenOne ==
    ASSUME Protocol, connected, connected', NEW p \in Up, p.type # "CONNECT",
           schedule_message(p), UNCHANGED <<link, to_client, online>>,
           frame' = frame \/ (frame # <<>> /\ frame' = Tail(frame)),
           p.id # 0 => p.id \notin Travelling(Pipe') /\ Match(p)',
           \A n \in DOMAIN sentMessages \cap Travelling(Pipe') :
              n # 0 => /\ n \in DOMAIN sentMessages'
                       /\ sentMessages'[n].item = sentMessages[n].item
    PROVE  Protocol'
<1>1. /\ <<p>> \in Seq(Up) /\ ToSet(<<p>>) = {p}
      /\ \A i, j \in DOMAIN <<p>> : i = j
  BY DEF ToSet
<1>2. Refs(<<p>>) = {p.id} /\ Ref(p) = p.id
  BY <1>1 DEF Refs, Ref
<1>3. NoType(<<p>>, "CONNECT") /\ Distinct(<<p>>)
  BY <1>1 DEF NoType, Distinct
<1>4. \A q \in ToSet(<<p>>) : Match(q)'
  BY <1>1, <1>2 DEF Match
<1>5. socket_send(<<p>>)
  BY DEF schedule_message
<1>6. Refs(<<p>>) \cap Travelling(Pipe') \subseteq {0}
  BY <1>2
<1>. QED BY <1>1, <1>3, <1>4, <1>5, <1>6, Spoken

LEMMA Silent ==
    ASSUME Protocol, connected, connected', UNCHANGED <<link, to_server, to_client, online>>,
           frame' = frame \/ (frame # <<>> /\ frame' = Tail(frame)),
           \A n \in DOMAIN sentMessages \cap Travelling(Pipe') :
              n # 0 => /\ n \in DOMAIN sentMessages'
                       /\ sentMessages'[n].item = sentMessages[n].item
    PROVE  Protocol'
<1>1. <<>> \in Seq(Up) /\ socket_send(<<>>)
  BY EmptySeq, ConcatEmptySeq DEF Protocol, Wires, socket_send
<1>2. NoType(<<>>, "CONNECT")
  BY EmptyRefs DEF NoType
<1>3. Refs(<<>>) \cap Travelling(Pipe') \subseteq {0} /\ \A q \in ToSet(<<>>) : Match(q)'
  BY EmptyRefs
<1>. QED BY <1>1, <1>2, <1>3, EmptyRefs, Spoken

(***************************************************************************)
(* The end of a connection or of an attempt to connect.                    *)
(***************************************************************************)
LEMMA Disconnected ==
    ASSUME NEW was \in BOOLEAN, NEW host, disconnected(was, host)
    PROVE  /\ msg_queue' = <<>> /\ to_client' = <<>>
           /\ socket' \in {"none", "connecting"}
           /\ connected' = FALSE /\ link' = FALSE
           /\ connectTimeout' \in BOOLEAN
           /\ connectTimeout' => socket' = "connecting"
           /\ sendPinger' = "off" /\ receivePinger' = "off"
           /\ version' \in {version, 3}
           /\ host \in 0 .. Hosts => hostIndex' \in 0 .. Hosts
           /\ IF socket' = "connecting" THEN told' = told ELSE
                 told' = IF was THEN "onConnectionLost" ELSE "onFailure"
           /\ was /\ host = Hosts => socket' = "none"
<1>1. /\ msg_queue' = <<>> /\ to_client' = <<>>
      /\ socket' \in {"none", "connecting"}
      /\ connected' = FALSE /\ link' = FALSE
      /\ sendPinger' = "off" /\ receivePinger' = "off"
      /\ version' \in {version, 3}
  BY DEF disconnected, doConnect, closed
<1>2. /\ connectTimeout' \in BOOLEAN
      /\ connectTimeout' => socket' = "connecting"
  BY DEF disconnected, doConnect, closed
<1>3. host \in 0 .. Hosts => hostIndex' \in 0 .. Hosts
  BY ClientAssumption DEF disconnected, doConnect, closed
<1>4. IF socket' = "connecting" THEN told' = told ELSE
         told' = IF was THEN "onConnectionLost" ELSE "onFailure"
  BY DEF disconnected, doConnect, closed
<1>5. was /\ host = Hosts => socket' = "none"
  BY ClientAssumption DEF disconnected, closed
<1>. QED BY <1>1, <1>2, <1>3, <1>4, <1>5

-----------------------------------------------------------------------------
(* The steps of the page *)

LEMMA ProtocolSame ==
    ASSUME Protocol,
           UNCHANGED <<link, to_server, to_client, frame, connected, sentMessages,
                       online>>
    PROVE  Protocol'
<1>1. Pipe' = Pipe
  BY DEF Pipe
<1>. QED BY <1>1 DEF Protocol, Wires, Greeting, Greets, Exchanges, Match, Live

LEMMA MemorySame ==
    ASSUME Memory, UNCHANGED <<session, numbers, sent, requested>>, timers' \subseteq timers
    PROVE  Memory'
<1>1. Begun' = Begun
  BY DEF Begun
<1>. QED BY <1>1 DEF Memory, session, numbers

LEMMA ServerSame ==
    ASSUME ServerTypes, UNCHANGED server
    PROVE  ServerTypes' /\ online' = online
BY DEF ServerTypes, server

LEMMA ConnectStep ==
    ASSUME ClientInv, Connect, UNCHANGED server
    PROVE  ClientInv'
<1>1. UNCHANGED <<session, numbers, sent, requested, timers, msg_queue, frame, link,
                  to_server, to_client, connected>>
  BY DEF ClientInv, Sockets, Connect, doConnect, requests, network
<1>2. Memory'
  BY <1>1, MemorySame DEF ClientInv
<1>3. Protocol'
  BY <1>1, ServerSame, ProtocolSame DEF ClientInv, session
<1>4. Sockets'
  BY <1>1, ClientAssumption DEF ClientInv, Sockets, Connect, doConnect, PingerState
<1>. QED BY <1>2, <1>3, <1>4, ServerSame DEF ClientInv

(***************************************************************************)
(* Whatever ends the connection, or starts the next attempt to connect.    *)
(***************************************************************************)
LEMMA EndStep ==
    ASSUME ClientInv, disconnected(connected, hostIndex), frame' = <<>>, zombie' = zombie,
           to_server' = to_server \/ to_server' = to_server \o <<DISCONNECT>>
    PROVE  Sockets' /\ Protocol'
<1>1. connected \in BOOLEAN /\ hostIndex \in 0 .. Hosts
  BY DEF ClientInv, Sockets
<1>2. Sockets'
  BY <1>1, Disconnected DEF ClientInv, Sockets, PingerState
<1>3. Protocol'
  BY <1>1, Disconnected, Ended DEF ClientInv
<1>. QED BY <1>2, <1>3

LEMMA GiveUpStep ==
    ASSUME ClientInv, give_up, frame = <<>>, UNCHANGED server,
           UNCHANGED <<zombie, session, numbers, callbacks, calls, sent, requests, frame>>
    PROVE  ClientInv'
<1>1. Sockets' /\ Protocol'
  BY EndStep DEF give_up
<1>2. Memory'
  BY MemorySame DEF ClientInv, requests
<1>. QED BY <1>1, <1>2, ServerSame DEF ClientInv

LEMMA DisconnectStep ==
    ASSUME ClientInv, Disconnect, connected, UNCHANGED server
    PROVE  ClientInv'
<1>1. disconnected(TRUE, hostIndex) /\ socket_send(<<DISCONNECT>>) /\ zombie' = zombie
  BY DEF Disconnect
<1>2. connected = TRUE
  BY DEF ClientInv, Sockets
<1>3. Sockets' /\ Protocol'
  BY <1>1, <1>2, EndStep DEF Disconnect, socket_send
<1>4. Memory'
  BY MemorySame DEF ClientInv, Disconnect, requests
<1>. QED BY <1>3, <1>4, ServerSame DEF ClientInv

(***************************************************************************)
(* A new exchange: its identifier, its entry, and its first packet.        *)
(***************************************************************************)
Begins(r, table, id, e, p) ==
    /\ id = FreeId(table) /\ id \notin DOMAIN table
    /\ p = Packet(TypeOf(r), Wire(id), r)
    /\ p.id = id /\ p.type \in Question \ {"PUBREL"} /\ Fits(p, r)
    /\ e.item = r /\ sentMessages' = With(table, id, e)
    /\ DOMAIN sentMessages' = DOMAIN table \cup {id}
    /\ sentMessages'[id] = e
    /\ \A n \in DOMAIN table : sentMessages'[n] = table[n]

LEMMA NewExchange ==
    ASSUME Few, ClientInv, NEW r \in Item \ Begun, r \in Message => QoS[r] # 0,
           NEW table, table \in [DOMAIN table -> Flight],
           DOMAIN table \subseteq DOMAIN sentMessages,
           requires_ack(table, r)
    PROVE  \E id \in Nat \ {0}, e \in Flight, p \in Up : Begins(r, table, id, e, p)
<1>1. NewEntry(r) \in Flight /\ NewEntry(r).item = r
  BY NewEntryType DEF ClientInv
<1>2. PICK id \in Nat \ {0} : /\ id = FreeId(table) /\ id \notin DOMAIN table
                              /\ Wire(id) = id
  <2>1. /\ FreeId(table) \in Nat \ {0} /\ Wire(FreeId(table)) = FreeId(table)
        /\ FreeId(table) \notin DOMAIN table
    <3>1. Cardinality(Begun) \in Nat
      BY BegunItems DEF ClientInv, Memory
    <3>. QED BY <3>1, Numbered DEF ClientInv
  <2>. QED BY <2>1
<1>3. PICK e \in Flight : e = NewEntry(r) /\ e.item = r
  BY <1>1
<1>4. sentMessages' = With(table, id, e)
  BY <1>2, <1>3 DEF requires_ack, NewEntry
<1>5. /\ DOMAIN sentMessages' = DOMAIN table \cup {id} /\ sentMessages'[id] = e
      /\ \A n \in DOMAIN table : sentMessages'[n] = table[n]
  BY <1>2, <1>4 DEF With
<1>6. PICK p \in Up : /\ p = Packet(TypeOf(r), Wire(id), r)
                      /\ p.id = id /\ p.type \in Question \ {"PUBREL"} /\ Fits(p, r)
  <2> DEFINE p == Packet(TypeOf(r), Wire(id), r)
  <2>1. /\ p \in Up /\ p.id = id /\ p.type \in Question \ {"PUBREL"} /\ p.what = r
        /\ r \in Message => p.type = "PUBLISH"
        /\ r \notin Message => p.type \in {"SUBSCRIBE", "UNSUBSCRIBE"}
    BY <1>2 DEF Packet, TypeOf, Up, Question, Word, Ref, Item
  <2>2. Fits(p, r)
    BY <2>1 DEF Fits
  <2>. QED BY <2>1, <2>2
<1>7. Begins(r, table, id, e, p)
  BY <1>2, <1>3, <1>4, <1>5, <1>6 DEF Begins
<1>. QED BY <1>7

LEMMA SendStep ==
    ASSUME Few, ClientInv, NEW m \in Message, Send(m), UNCHANGED server
    PROVE  ClientInv'
<1>1. /\ connected /\ connected' /\ frame' = frame
      /\ UNCHANGED <<connection, link, to_client, online, receivePinger, zombie,
                   told>>
  BY ServerSame DEF ClientInv, Send, connection
<1>2. /\ sent \in Seq(Message) /\ sent' \in Seq(Message)
      /\ ToSet(sent') = ToSet(sent) \cup {m}
  BY AppendRefs DEF ClientInv, Memory, Send
<1>3. /\ Begun' = Begun \cup {m} /\ m \in Item \ Begun
      /\ UNCHANGED requests
  BY <1>2, ClientAssumption DEF ClientInv, Memory, Send, Begun, requests, Item
<1>4. Pipe' = Pipe
  BY <1>1 DEF Pipe
<1>5. CASE QoS[m] = 0
  <2> DEFINE p == Packet("PUBLISH", 0, m)
  <2>1. p \in Up /\ p.type # "CONNECT" /\ p.id = 0
    BY DEF Packet, Up, Question, Word, Ref, Item
  <2>2. schedule_message(p) /\ UNCHANGED <<session, numbers>>
    BY <1>5 DEF Send
  <2>. HIDE DEF p
  <2>3. Protocol'
    BY <1>1, <2>1, <2>2, SpokenOne DEF ClientInv, session
  <2>4. Memory'
    BY <1>2, <1>3, <2>2, Kept DEF ClientInv, Memory, session, numbers, requests
  <2>5. Sockets'
    BY <1>1, <2>2 DEF ClientInv, Sockets, connection, schedule_message, reset, PingerState
  <2>. QED BY <2>3, <2>4, <2>5, ServerSame DEF ClientInv
<1>6. CASE QoS[m] # 0
  <2>1. /\ requires_ack(sentMessages, m)
        /\ schedule_message(Packet("PUBLISH", Wire(FreeId(sentMessages)), m))
        /\ localStorage' = store_sent(FreeId(sentMessages),
                                      sentMessages'[FreeId(sentMessages)])
        /\ UNCHANGED receivedMessages
    BY <1>6 DEF Send
  <2>2. /\ sentMessages \in [DOMAIN sentMessages -> Flight]
        /\ Memory
    BY DEF ClientInv, Memory
  <2>3. PICK id \in Nat \ {0}, e \in Flight, p \in Up : Begins(m, sentMessages, id, e, p)
    BY <1>3, <1>6, <2>1, <2>2, NewExchange
  <2>4. schedule_message(p)
    BY <2>1, <2>3 DEF Begins, TypeOf
  <2>5. Memory'
    <3>1. Mirror(sentMessages') = With(Mirror(sentMessages), id, e)
      BY <2>3, WithMirror DEF Begins
    <3>2. localStorage' = [Sent |-> Mirror(sentMessages'), Received |-> receivedMessages']
      BY <2>1, <2>2, <2>3, <3>1 DEF Begins, store_sent, Memory
    <3>. QED BY <1>2, <1>3, <1>6, <2>1, <2>2, <3>2, Remembered DEF requests, Memory
  <2>6. Protocol'
    <3>1. Match(p)'
      BY <1>1, <2>3 DEF Begins, Match
    <3>2. id \notin Travelling(Pipe')
      BY <1>1, <1>4, <2>3 DEF Begins, ClientInv, Protocol, Exchanges, Travelling, Refs, Match, Ref
    <3>3. p.type # "CONNECT"
      BY <2>3 DEF Begins, Question
    <3>. QED BY <1>1, <2>3, <2>4, <3>1, <3>2, <3>3, SpokenOne DEF ClientInv, Begins
  <2>7. Sockets'
    BY <1>1, <2>4 DEF ClientInv, Sockets, connection, schedule_message, reset, PingerState
  <2>. QED BY <2>5, <2>6, <2>7, ServerSame DEF ClientInv
<1>. QED BY <1>5, <1>6

LEMMA AskStep ==
    ASSUME Few, ClientInv, NEW r \in Subscription \cup Unsubscription, Ask(r),
           UNCHANGED server
    PROVE  ClientInv'
<1>1. /\ connected /\ connected' /\ frame' = frame
      /\ UNCHANGED <<connection, link, to_client, online, receivePinger, zombie,
                     told, sent, receivedMessages, localStorage>>
  BY ServerSame DEF ClientInv, Ask, connection
<1>2. /\ Begun' = Begun \cup {r} /\ r \in Item \ Begun /\ r \notin Message
      /\ requested' \subseteq Subscription \cup Unsubscription
      /\ timers' \subseteq requested'
  <2>1. ToSet(sent) \subseteq Message
    BY BegunItems DEF ClientInv, Memory
  <2>. QED BY <1>1, <2>1, ClientAssumption DEF ClientInv, Memory, Ask, Begun, Item
<1>3. Pipe' = Pipe
  BY <1>1 DEF Pipe
<1>4. /\ requires_ack(sentMessages, r)
      /\ schedule_message(Packet(TypeOf(r), Wire(FreeId(sentMessages)), r))
  BY DEF Ask
<1>5. /\ sentMessages \in [DOMAIN sentMessages -> Flight]
      /\ Memory
  BY DEF ClientInv, Memory
<1>6. PICK id \in Nat \ {0}, e \in Flight, p \in Up : Begins(r, sentMessages, id, e, p)
  BY <1>2, <1>4, <1>5, NewExchange
<1>7. schedule_message(p)
  BY <1>4, <1>6 DEF Begins
<1>8. Memory'
  <2>1. Mirror(sentMessages') = Mirror(sentMessages)
    BY <1>2, <1>6, WithMirror DEF Begins
  <2>2. localStorage' = [Sent |-> Mirror(sentMessages'), Received |-> receivedMessages']
    BY <1>1, <1>5, <2>1 DEF Memory
  <2>. QED BY <1>1, <1>2, <1>4, <1>5, <2>2, Remembered DEF Memory
<1>9. Protocol'
  <2>1. Match(p)'
    BY <1>1, <1>6 DEF Begins, Match
  <2>2. id \notin Travelling(Pipe')
    BY <1>1, <1>3, <1>6 DEF Begins, ClientInv, Protocol, Exchanges, Travelling, Refs, Match, Ref
  <2>3. p.type # "CONNECT"
    BY <1>6 DEF Begins, Question
  <2>. QED BY <1>1, <1>6, <1>7, <2>1, <2>2, <2>3, SpokenOne DEF ClientInv, Begins
<1>10. Sockets'
  BY <1>1, <1>7 DEF ClientInv, Sockets, connection, schedule_message, reset, PingerState
<1>. QED BY <1>8, <1>9, <1>10, ServerSame DEF ClientInv

LEMMA TimeoutStep ==
    ASSUME ClientInv, NEW r, RequestTimeout(r), UNCHANGED server
    PROVE  ClientInv'
<1>1. UNCHANGED <<connection, pingers, msg_queue, session, numbers, told, sent, requested,
                  frame, network>>
  BY DEF RequestTimeout
<1>2. timers' \subseteq timers
  BY DEF RequestTimeout
<1>3. Memory'
  BY <1>1, <1>2, MemorySame DEF ClientInv
<1>4. Protocol'
  BY <1>1, ServerSame, ProtocolSame DEF ClientInv, connection, session, network
<1>5. Sockets'
  BY <1>1 DEF ClientInv, Sockets, connection, pingers, network
<1>. QED BY <1>3, <1>4, <1>5, ServerSame DEF ClientInv

LEMMA OpenStep ==
    ASSUME ClientInv, on_socket_open, UNCHANGED server
    PROVE  ClientInv'
<1>1. /\ ~link /\ ~connected /\ frame = <<>> /\ frame' = frame /\ version \in Nat
      /\ link' /\ ~connected' /\ to_client' = to_client
      /\ to_server' = Append(to_server, Packet("CONNECT", version, NoItem))
  BY DEF ClientInv, Sockets, on_socket_open
<1>2. Protocol'
  BY <1>1, Opened DEF ClientInv
<1>3. Memory'
  BY MemorySame DEF ClientInv, on_socket_open, page, requests
<1>4. Sockets'
  BY DEF ClientInv, Sockets, on_socket_open, reset, PingerState, page
<1>. QED BY <1>2, <1>3, <1>4, ServerSame DEF ClientInv

LEMMA CloseStep ==
    ASSUME ClientInv, on_socket_close \/ ConnectTimeout, UNCHANGED server
    PROVE  ClientInv'
BY GiveUpStep DEF on_socket_close, ConnectTimeout

(***************************************************************************)
(* A PINGREQ may be sent before the CONNACK is there.                      *)
(***************************************************************************)
LEMMA Pinged ==
    ASSUME Protocol, socket_send(<<PINGREQ>>),
           UNCHANGED <<link, to_client, frame, connected, sentMessages, online>>
    PROVE  Protocol'
<1>1. /\ PINGREQ \in Up /\ Ref(PINGREQ) = 0 /\ PINGREQ.type \in Opening \ {"CONNECT"}
      /\ Match(PINGREQ)
  BY DEF PINGREQ, Packet, Up, Ref, Question, Word, Match, Opening
<1>2. CASE ~link
  BY <1>2, ProtocolSame DEF socket_send
<1>3. CASE link
  <2>1. to_server \in Seq(Up) /\ ConnectsLast(to_server)
    BY DEF Protocol, Wires, Greeting
  <2>2. to_server' = Append(to_server, PINGREQ)
    BY <1>1, <1>3, <2>1, AppendIsConcat DEF socket_send
  <2> DEFINE t == Append(to_server, PINGREQ)
  <2>3. /\ t \in Seq(Up)
        /\ ToSet(t) = ToSet(to_server) \cup {PINGREQ}
        /\ Refs(t) = Refs(to_server) \cup {0}
        /\ Distinct(to_server) => Distinct(t)
        /\ ConnectsLast(t)
    BY <1>1, <2>1, AppendRefs
  <2>. HIDE DEF t
  <2>4. to_server' = t
    BY <2>2 DEF t
  <2>5. NoType(to_server', "CONNECT") <=> NoType(to_server, "CONNECT")
    BY <1>1, <2>3, <2>4 DEF NoType
  <2>6. /\ Pipe' = Pipe /\ (Live' <=> Live)
        /\ OpeningOnly(to_server) => OpeningOnly(to_server')
    BY <1>1, <2>3, <2>4, <2>5 DEF Pipe, Live, OpeningOnly
  <2>7. \A p : Match(p)' <=> Match(p)
    BY DEF Match
  <2>8. Wires'
    BY <2>3, <2>4 DEF Protocol, Wires
  <2>9. Greeting'
    BY <2>3, <2>4, <2>5, <2>6 DEF Protocol, Greeting, Greets
  <2>10. Exchanges'
    BY <1>1, <2>3, <2>4, <2>6, <2>7 DEF Protocol, Exchanges
  <2>. QED BY <2>8, <2>9, <2>10 DEF Protocol
<1>. QED BY <1>2, <1>3

LEMMA PingStep ==
    ASSUME ClientInv, SendPing \/ ReceivePing \/ ZombiePing, UNCHANGED server
    PROVE  ClientInv'
<1>1. CASE /\ give_up /\ frame = <<>>
           /\ UNCHANGED <<zombie, session, numbers, callbacks, calls, sent, requests, frame>>
  BY <1>1, GiveUpStep
<1>2. CASE /\ ping /\ socket = "open"
           /\ UNCHANGED <<zombie, session, numbers, callbacks, calls, sent, requests, frame>>
           /\ {sendPinger', receivePinger'} \subseteq {sendPinger, receivePinger, after_ping}
  <2>1. socket_send(<<PINGREQ>>) /\ UNCHANGED <<connection, msg_queue, told, link, to_client>>
    BY <1>2 DEF ping
  <2>2. Protocol'
    BY <1>2, <2>1, ServerSame, Pinged DEF ClientInv, connection, session
  <2>3. Memory'
    BY <1>2, MemorySame DEF ClientInv, requests
  <2>4. Sockets'
    BY <1>2, <2>1 DEF ClientInv, Sockets, connection, after_ping, PingerState
  <2>. QED BY <2>2, <2>3, <2>4, ServerSame DEF ClientInv
<1>3. zombie = "off"
  BY DEF ClientInv, Sockets
<1>4. (sendPinger = "reset" \/ receivePinger = "reset") => socket = "open"
  BY DEF ClientInv, Sockets
<1>. QED BY <1>1, <1>2, <1>3, <1>4 DEF SendPing, ReceivePing, ZombiePing

LEMMA MessageStep ==
    ASSUME ClientInv, on_socket_message, UNCHANGED server
    PROVE  ClientInv'
<1>1. PICK n \in 1 .. FrameSize :
         /\ n <= Len(to_client)
         /\ frame' = SubSeq(to_client, 1, n)
         /\ to_client' = SubSeq(to_client, n + 1, Len(to_client))
  BY DEF on_socket_message
<1>2. n \in 1 .. Len(to_client)
  <2>1. Len(to_client) \in Nat
    BY LenProperties DEF ClientInv, Protocol, Wires
  <2>. QED BY <1>1, <2>1, ClientAssumption
<1>3. /\ frame = <<>> /\ socket = "open" /\ receivePinger' = reset
      /\ UNCHANGED <<connection, sendPinger, zombie, msg_queue, session, numbers, page,
                     link, to_server>>
  BY DEF on_socket_message
<1>4. Protocol'
  BY <1>1, <1>2, <1>3, ServerSame, TakenUp DEF ClientInv, connection, session
<1>5. Memory'
  BY <1>3, MemorySame DEF ClientInv, page, requests
<1>6. Sockets'
  BY <1>3 DEF ClientInv, Sockets, connection, reset, PingerState, page
<1>. QED BY <1>4, <1>5, <1>6, ServerSame DEF ClientInv

LEMMA ReloadStep ==
    ASSUME Few, ClientInv, Reload, UNCHANGED server
    PROVE  ClientInv'
<1>1. /\ sentMessages' = localStorage.Sent /\ receivedMessages' = localStorage.Received
      /\ message_identifier' = 1 /\ sequence' = 0 /\ timers' = {}
      /\ UNCHANGED <<localStorage, sent, requested, frame, to_server>>
      /\ frame = <<>> /\ ~link' /\ ~connected' /\ to_client' = <<>>
  BY DEF Reload
<1>2. /\ sentMessages \in [DOMAIN sentMessages -> Flight]
      /\ localStorage = [Sent |-> Mirror(sentMessages), Received |-> receivedMessages]
      /\ sent \in Seq(Message) /\ requested \subseteq Subscription \cup Unsubscription
      /\ receivedMessages \subseteq Arriving /\ Memory
  BY DEF ClientInv, Memory
<1>3. sentMessages' = Mirror(sentMessages) /\ receivedMessages' = receivedMessages
  BY <1>1, <1>2
<1>4. /\ sentMessages' \in [DOMAIN sentMessages' -> Flight]
      /\ DOMAIN sentMessages' \subseteq DOMAIN sentMessages
      /\ Mirror(sentMessages') = sentMessages'
  BY <1>2, <1>3 DEF Mirror
<1>5. Begun' = Begun
  BY <1>1 DEF Begun
<1>6. Memory'
  BY <1>1, <1>2, <1>3, <1>4, <1>5, Kept
<1>7. Protocol'
  BY <1>1, Ended DEF ClientInv
<1>8. Sockets'
  <2>1. 0 \in 0 .. Hosts
    BY ClientAssumption
  <2>2. /\ socket' = "none" /\ connected' = FALSE /\ link' = FALSE
        /\ version' = 0 /\ hostIndex' = 0 /\ connectTimeout' = FALSE
        /\ sendPinger' = "off" /\ receivePinger' = "off" /\ zombie' = "off"
        /\ msg_queue' = <<>> /\ told' = "nothing" /\ frame' = <<>>
    BY DEF Reload
  <2>. QED BY <2>1, <2>2 DEF Sockets, PingerState
<1>. QED BY <1>6, <1>7, <1>8, ServerSame DEF ClientInv

-----------------------------------------------------------------------------
(* The packets the client handles *)

LEMMA PublishStep ==
    ASSUME Calm, ClientInv, frame # <<>>, handle_PUBLISH, UNCHANGED server
    PROVE  ClientInv'
<1> DEFINE m == packet.what
<1>1. /\ packet \in Down /\ packet.type = "PUBLISH" /\ connected /\ rest \in Seq(Down)
  BY ThePacket DEF ClientInv, handle_PUBLISH
<1>2. m \in Arriving /\ packet.id = 0
  BY <1>1 DEF Down, Ref, Answer
<1>3. /\ frame' = rest
      /\ UNCHANGED <<zombie, sentMessages, numbers, calls, sent, requests, connection,
                     receivePinger, told, link, to_client>>
  BY <1>2 DEF handle_PUBLISH, Calm
<1>4. \A type \in {"PUBREC", "PUBACK"} :
         LET p == Packet(type, packet.id, m)
         IN  p \in Up /\ p.type # "CONNECT" /\ p.id = 0
  BY <1>2 DEF Packet, Up, Question, Word, Ref
<1>. HIDE DEF m
<1>5. \/ \E type \in {"PUBREC", "PUBACK"} : schedule_message(Packet(type, packet.id, m))
      \/ UNCHANGED <<to_server, sendPinger, msg_queue>>
  BY <1>2 DEF handle_PUBLISH, Calm, m
<1>6. receivedMessages' \subseteq Arriving
  BY <1>2 DEF handle_PUBLISH, ClientInv, Memory, m
<1>7. localStorage' = [Sent |-> Mirror(sentMessages'), Received |-> receivedMessages']
  BY <1>2, <1>3 DEF handle_PUBLISH, ClientInv, Memory, m
<1>8. Memory'
  BY <1>3, <1>6, <1>7 DEF ClientInv, Memory, numbers, requests, Begun
<1>9. connected' /\ online' = online /\ frame' = Tail(frame)
  BY <1>1, <1>3, ServerSame DEF ClientInv, connection, rest
<1>10. Protocol' /\ Sockets'
  <2>1. CASE \E type \in {"PUBREC", "PUBACK"} : schedule_message(Packet(type, packet.id, m))
    <3>1. PICK p \in Up : schedule_message(p) /\ p.type # "CONNECT" /\ p.id = 0
      BY <1>4, <2>1
    <3>2. Protocol'
      BY <1>1, <1>3, <1>9, <3>1, SpokenOne DEF ClientInv
    <3>3. Sockets'
      BY <1>1, <1>3, <3>1 DEF ClientInv, Sockets, schedule_message, connection, reset,
                              PingerState
    <3>. QED BY <3>2, <3>3
  <2>2. CASE UNCHANGED <<to_server, sendPinger, msg_queue>>
    <3>1. Protocol'
      BY <1>1, <1>3, <1>9, <2>2, Silent DEF ClientInv
    <3>2. Sockets'
      BY <1>1, <1>3, <2>2 DEF ClientInv, Sockets, connection
    <3>. QED BY <3>1, <3>2
  <2>. QED BY <1>5, <2>1, <2>2
<1>. QED BY <1>8, <1>10, ServerSame DEF ClientInv

LEMMA PubrelStep ==
    ASSUME Calm, ClientInv, frame # <<>>, handle_PUBREL, UNCHANGED server
    PROVE  ClientInv'
<1> DEFINE m == packet.what
<1>1. /\ packet \in Down /\ packet.type = "PUBREL" /\ connected /\ rest \in Seq(Down)
  BY ThePacket DEF ClientInv, handle_PUBREL
<1>2. m \in Arriving /\ packet.id = 0
  BY <1>1 DEF Down, Ref, Answer
<1>3. /\ frame' = rest
      /\ UNCHANGED <<zombie, sentMessages, numbers, calls, sent, requests, connection,
                     receivePinger, told, link, to_client>>
      /\ localStorage' = [localStorage EXCEPT !.Received = @ \ {m}]
      /\ receivedMessages' = receivedMessages \ {m}
      /\ schedule_message(Packet("PUBCOMP", packet.id, m))
  BY <1>2 DEF handle_PUBREL, Calm
<1>4. PICK p \in Up : schedule_message(p) /\ p.type # "CONNECT" /\ p.id = 0
  <2> DEFINE p == Packet("PUBCOMP", packet.id, m)
  <2>1. p \in Up /\ p.type # "CONNECT" /\ p.id = 0
    BY <1>2 DEF Packet, Up, Question, Word, Ref
  <2>. QED BY <1>3, <2>1
<1>. HIDE DEF m
<1>5. Memory'
  BY <1>3 DEF ClientInv, Memory, numbers, requests, Begun
<1>6. connected' /\ online' = online /\ frame' = Tail(frame)
  BY <1>1, <1>3, ServerSame DEF ClientInv, connection, rest
<1>7. Protocol'
  BY <1>1, <1>3, <1>4, <1>6, SpokenOne DEF ClientInv
<1>8. Sockets'
  BY <1>1, <1>3, <1>4 DEF ClientInv, Sockets, schedule_message, connection, reset,
                          PingerState
<1>. QED BY <1>5, <1>7, <1>8, ServerSame DEF ClientInv

(***************************************************************************)
(* The end of an exchange: its identifier does not travel any more.        *)
(***************************************************************************)
LEMMA Finished ==
    ASSUME ClientInv, frame # <<>>, connected, quiet_handler, UNCHANGED server,
           sentMessages' \in {sentMessages, Without(sentMessages, packet.id)}
    PROVE  Protocol' /\ Sockets'
<1>1. /\ frame' = Tail(frame) /\ rest \in Seq(Down) /\ Pipe' = Tail(Pipe)
      /\ UNCHANGED <<connection, pingers, msg_queue, told, network, online>>
      /\ packet.id \notin Travelling(Pipe') \ {0}
  <2>1. /\ frame' = Tail(frame)
        /\ UNCHANGED <<connection, pingers, msg_queue, told, network>>
    BY DEF quiet_handler, rest
  <2>2. Pipe' = Tail(Pipe)
    BY <2>1, PipeHandled DEF ClientInv, Protocol, network
  <2>. QED BY <2>1, <2>2, ThePacket, ServerSame DEF ClientInv
<1>2. ASSUME NEW n \in DOMAIN sentMessages \cap Travelling(Pipe'), n # 0
      PROVE  n \in DOMAIN sentMessages' /\ sentMessages'[n].item = sentMessages[n].item
  <2>1. n # packet.id
    BY <1>1, <1>2
  <2>. QED BY <1>2, <2>1 DEF Without
<1>3. Protocol'
  BY <1>1, <1>2, Silent DEF ClientInv, network, connection
<1>4. Sockets'
  BY <1>1 DEF ClientInv, Sockets, connection, pingers, network
<1>. QED BY <1>3, <1>4

LEMMA Forgotten ==
    ASSUME Few, ClientInv, quiet_handler, NEW id,
           \/ UNCHANGED <<sentMessages, localStorage>>
           \/ sentMessages' = Without(sentMessages, id) /\ localStorage' = remove_sent(id)
           \/ /\ sentMessages' = Without(sentMessages, id) /\ localStorage' = localStorage
              /\ id \in DOMAIN sentMessages /\ sentMessages[id].item \notin Message,
           timers' \subseteq timers
    PROVE  Memory'
<1>1. /\ UNCHANGED <<receivedMessages, numbers, sent, requested>>
      /\ Begun' = Begun
  BY DEF quiet_handler, Begun
<1>2. /\ Memory /\ sentMessages \in [DOMAIN sentMessages -> Flight]
      /\ localStorage = [Sent |-> Mirror(sentMessages), Received |-> receivedMessages]
  BY DEF ClientInv, Memory
<1>3. CASE UNCHANGED <<sentMessages, localStorage>>
  BY <1>1, <1>3, MemorySame, <1>2 DEF session
<1>4. ASSUME sentMessages' = Without(sentMessages, id),
             localStorage' = [Sent |-> Mirror(sentMessages'), Received |-> receivedMessages']
      PROVE  Memory'
  <2>1. Without(sentMessages, id) \in [DOMAIN sentMessages \ {id} -> Flight]
    BY <1>2, WithoutType
  <2>2. /\ sentMessages' \in [DOMAIN sentMessages' -> Flight]
        /\ DOMAIN sentMessages' \subseteq DOMAIN sentMessages
    BY <1>4, <2>1
  <2>. QED BY <1>1, <1>2, <1>4, <2>2, Kept DEF Memory, numbers
<1>5. CASE sentMessages' = Without(sentMessages, id) /\ localStorage' = remove_sent(id)
  <2>1. Mirror(sentMessages') = Without(Mirror(sentMessages), id)
    BY <1>5, WithoutMirror
  <2>2. localStorage' = [Sent |-> Mirror(sentMessages'), Received |-> receivedMessages']
    BY <1>1, <1>2, <1>5, <2>1 DEF remove_sent
  <2>. QED BY <1>4, <1>5, <2>2
<1>6. CASE /\ sentMessages' = Without(sentMessages, id) /\ localStorage' = localStorage
           /\ id \in DOMAIN sentMessages /\ sentMessages[id].item \notin Message
  <2>1. Mirror(sentMessages') = Mirror(sentMessages)
    BY <1>6, WithoutMirror
  <2>. QED BY <1>1, <1>2, <1>4, <1>6, <2>1
<1>. QED BY <1>3, <1>5, <1>6

LEMMA PubackStep ==
    ASSUME Few, ClientInv, frame # <<>>, handle_PUBACK, UNCHANGED server
    PROVE  ClientInv'
<1>1. connected
  BY ThePacket DEF ClientInv, handle_PUBACK
<1>2. /\ quiet_handler
      /\ \/ UNCHANGED <<sentMessages, localStorage>>
         \/ /\ sentMessages' = Without(sentMessages, packet.id)
            /\ localStorage' = remove_sent(packet.id)
      /\ timers' \subseteq timers
  BY DEF handle_PUBACK, forget
<1>. QED BY <1>1, <1>2, Finished, Forgotten, ServerSame DEF ClientInv

LEMMA PubcompStep ==
    ASSUME Few, ClientInv, frame # <<>>, handle_PUBCOMP, UNCHANGED server
    PROVE  ClientInv'
<1>1. packet \in Down /\ packet.type = "PUBCOMP" /\ connected
  BY ThePacket DEF ClientInv, handle_PUBCOMP
<1>2. in_flight(packet.id)
  BY <1>1, ThePacket DEF ClientInv, Down, Match, in_flight
<1>3. /\ quiet_handler
      /\ sentMessages' = Without(sentMessages, packet.id)
      /\ localStorage' = remove_sent(packet.id)
      /\ timers' \subseteq timers
  BY <1>2 DEF handle_PUBCOMP, forget
<1>. QED BY <1>1, <1>3, Finished, Forgotten, ServerSame DEF ClientInv

LEMMA RequestAckStep ==
    ASSUME Few, ClientInv, frame # <<>>, handle_request_ack, UNCHANGED server
    PROVE  ClientInv'
<1>1. packet \in Down /\ packet.type \in {"SUBACK", "UNSUBACK"} /\ connected
  BY ThePacket DEF ClientInv, handle_request_ack
<1>2. in_flight(packet.id) => sentMessages[packet.id].item \notin Message
  <2>1. in_flight(packet.id) => packet.id # 0
    BY BegunItems DEF ClientInv, Memory, in_flight
  <2>. QED BY <1>1, <2>1, ThePacket DEF ClientInv, Match, Fits
<1>3. /\ quiet_handler
      /\ \/ UNCHANGED <<sentMessages, localStorage>>
         \/ /\ sentMessages' = Without(sentMessages, packet.id) /\ localStorage' = localStorage
            /\ packet.id \in DOMAIN sentMessages
            /\ sentMessages[packet.id].item \notin Message
      /\ timers' \subseteq timers
  BY <1>2 DEF handle_request_ack, in_flight
<1>. QED BY <1>1, <1>3, Finished, Forgotten, ServerSame DEF ClientInv

LEMMA PubrecStep ==
    ASSUME Few, ClientInv, frame # <<>>, handle_PUBREC, UNCHANGED server
    PROVE  ClientInv'
<1>1. /\ packet \in Down /\ packet.type = "PUBREC" /\ connected /\ rest \in Seq(Down)
      /\ Match(packet) /\ Ref(packet) = packet.id
      /\ packet.id \notin Travelling(Tail(Pipe)) \ {0}
  BY ThePacket DEF ClientInv, handle_PUBREC
<1>2. /\ frame' = rest
      /\ UNCHANGED <<connection, receivePinger, zombie, receivedMessages, numbers, page,
                     link, to_client>>
  BY DEF handle_PUBREC
<1>3. /\ connected' /\ online' = online /\ frame' = Tail(frame) /\ told' = told
      /\ UNCHANGED <<sent, requested, timers>> /\ Begun' = Begun
  BY <1>1, <1>2, ServerSame DEF ClientInv, connection, rest, page, requests, Begun
<1>4. Pipe' = Tail(Pipe)
  BY <1>2, <1>3, PipeHandled DEF ClientInv, Protocol
<1>5. CASE ~in_flight(packet.id)
  <2>1. UNCHANGED <<sentMessages, localStorage, msg_queue, to_server, sendPinger>>
    BY <1>5 DEF handle_PUBREC
  <2>2. Memory'
    BY <1>2, <1>3, <2>1, MemorySame DEF ClientInv, session
  <2>3. Protocol'
    BY <1>1, <1>2, <1>3, <2>1, Silent DEF ClientInv
  <2>4. Sockets'
    BY <1>1, <1>2, <1>3, <2>1 DEF ClientInv, Sockets, connection
  <2>. QED BY <2>2, <2>3, <2>4, ServerSame DEF ClientInv
<1>6. CASE in_flight(packet.id)
  <2>1. PICK id \in DOMAIN sentMessages \ {0} : id = packet.id
    BY <1>6, BegunItems DEF ClientInv, Memory, in_flight
  <2>2. /\ sentMessages \in [DOMAIN sentMessages -> Flight] /\ Memory
        /\ localStorage = [Sent |-> Mirror(sentMessages), Received |-> receivedMessages]
    BY DEF ClientInv, Memory
  <2>3. PICK e \in Flight :
           /\ e = [sentMessages[id] EXCEPT !.pubRecReceived = TRUE]
           /\ e.item = sentMessages[id].item
           /\ e.item \in Message /\ QoS[e.item] = 2
    <3>1. sentMessages[id].item \in Message /\ QoS[sentMessages[id].item] # 1
      BY <1>1, <2>1 DEF Match, Fits
    <3>2. sentMessages[id] \in Flight /\ QoS[sentMessages[id].item] = 2
      BY <2>2, <3>1, ClientAssumption DEF Flight
    <3> DEFINE e == [sentMessages[id] EXCEPT !.pubRecReceived = TRUE]
    <3>3. e \in Flight /\ e.item = sentMessages[id].item
      BY <3>1, <3>2 DEF Flight
    <3>. QED BY <3>1, <3>2, <3>3
  <2>4. PICK p \in Up : /\ p = Packet("PUBREL", id, e.item) /\ p.type = "PUBREL"
                        /\ p.id = id /\ p.what = e.item
    <3> DEFINE p == Packet("PUBREL", id, e.item)
    <3>1. id \in Nat \ {0}
      BY <2>1, BegunItems DEF ClientInv, Memory
    <3>2. p \in Up /\ p.type = "PUBREL" /\ p.id = id /\ p.what = e.item
      BY <2>3, <3>1 DEF Packet, Up, Question, Word, Ref, Item
    <3>. QED BY <3>2
  <2>5. /\ sentMessages' = [sentMessages EXCEPT ![id] = e]
        /\ localStorage' = store_sent(id, e)
        /\ schedule_message(p)
    BY <1>6, <2>1, <2>3, <2>4 DEF handle_PUBREC
  <2>6. sentMessages' = With(sentMessages, id, e)
    BY <2>1, <2>2, <2>5 DEF With
  <2>7. /\ sentMessages' \in [DOMAIN sentMessages' -> Flight]
        /\ DOMAIN sentMessages' = DOMAIN sentMessages
        /\ sentMessages'[id] = e
        /\ \A n \in DOMAIN sentMessages : sentMessages'[n].item = sentMessages[n].item
    BY <2>1, <2>2, <2>3, <2>5
  <2>8. Memory'
    <3>1. Mirror(sentMessages') = With(Mirror(sentMessages), id, e)
      <4>1. Mirror(With(sentMessages, id, e)) = With(Mirror(sentMessages), id, e)
        <5>1. e.item \in Message
          BY <2>3
        <5>. QED BY <5>1, WithMirror
      <4>. QED BY <2>6, <4>1
    <3>2. localStorage' = [Sent |-> Mirror(sentMessages'), Received |-> receivedMessages']
      BY <1>2, <2>2, <2>5, <3>1 DEF store_sent
    <3>. QED BY <1>2, <1>3, <2>2, <2>7, <3>2, Kept DEF Memory, numbers
  <2>9. Protocol'
    <3>1. Match(p)'
      BY <1>3, <2>1, <2>3, <2>4, <2>7 DEF Match, Fits
    <3>2. id \notin Travelling(Pipe')
      BY <1>1, <1>4, <2>1
    <3>. QED BY <1>1, <1>2, <1>3, <2>4, <2>5, <2>7, <3>1, <3>2, SpokenOne DEF ClientInv
  <2>10. Sockets'
    BY <1>1, <1>2, <1>3, <2>5 DEF ClientInv, Sockets, connection, schedule_message, reset,
                                  PingerState
  <2>. QED BY <2>8, <2>9, <2>10, ServerSame DEF ClientInv
<1>. QED BY <1>5, <1>6

LEMMA PingrespStep ==
    ASSUME ClientInv, frame # <<>>, handle_PINGRESP, UNCHANGED server
    PROVE  ClientInv'
<1>1. /\ connected /\ rest \in Seq(Down) /\ frame' = Tail(frame) /\ sendPinger' = reset
      /\ UNCHANGED <<connection, receivePinger, zombie, msg_queue, session, numbers, page,
                     network>>
  BY ThePacket DEF ClientInv, handle_PINGRESP, rest
<1>2. Memory'
  BY <1>1, MemorySame DEF ClientInv, page, requests
<1>3. Protocol'
  BY <1>1, ServerSame, Silent DEF ClientInv, network, connection, session
<1>4. Sockets'
  BY <1>1 DEF ClientInv, Sockets, network, connection, page, reset, PingerState
<1>. QED BY <1>2, <1>3, <1>4, ServerSame DEF ClientInv

(***************************************************************************)
(* CONNACK.                                                                *)
(***************************************************************************)
LEMMA Cleaned ==
    ASSUME Memory, clean_session
    PROVE  /\ kept \in [DOMAIN kept -> Flight] /\ DOMAIN kept \subseteq DOMAIN sentMessages
           /\ receivedMessages' \subseteq Arriving
           /\ localStorage' = [Sent |-> Mirror(kept), Received |-> receivedMessages']
<1>1. /\ sentMessages \in [DOMAIN sentMessages -> Flight]
      /\ localStorage = [Sent |-> Mirror(sentMessages), Received |-> receivedMessages]
      /\ receivedMessages \subseteq Arriving
  BY DEF Memory
<1>2. CASE ~CleanSession
  BY <1>1, <1>2 DEF clean_session, kept
<1>3. CASE CleanSession
  <2>1. kept = NoEntries /\ receivedMessages' = {}
    BY <1>3 DEF kept, clean_session
  <2>2. DOMAIN Mirror(sentMessages) \ DOMAIN sentMessages = {}
    BY DEF Mirror
  <2>3. Mirror(NoEntries) = [id \in DOMAIN Mirror(sentMessages) \ DOMAIN sentMessages |->
                                Mirror(sentMessages)[id]]
    BY <2>2 DEF Mirror, NoEntries
  <2>4. localStorage' = [Sent |-> Mirror(NoEntries), Received |-> {}]
    BY <1>1, <1>3, <2>3 DEF clean_session
  <2>. QED BY <2>1, <2>4 DEF NoEntries
<1>. QED BY <1>2, <1>3

LEMMA RefusedStep ==
    ASSUME Few, ClientInv, frame # <<>>, handle_CONNACK_refused, UNCHANGED server
    PROVE  ClientInv'
<1>1. ~connected /\ rest = <<>>
  BY ThePacket DEF ClientInv, handle_CONNACK_refused
<1>2. Sockets' /\ Protocol'
  BY <1>1, EndStep DEF ClientInv, handle_CONNACK_refused, give_up
<1>3. /\ sentMessages' = kept /\ clean_session /\ Begun' = Begun
      /\ UNCHANGED <<numbers, sent, requests>>
  BY DEF handle_CONNACK_refused, Begun, requests
<1>4. Memory'
  BY <1>3, Cleaned, Kept DEF ClientInv, Memory, numbers, requests
<1>. QED BY <1>2, <1>4, ServerSame DEF ClientInv

(***************************************************************************)
(* What is sent again: the next packet of every exchange in flight, once.  *)
(***************************************************************************)
LEMMA Resent ==
    ASSUME Few, Memory, kept \in [DOMAIN kept -> Flight],
           DOMAIN kept \subseteq DOMAIN sentMessages,
           NEW order \in ResendOrders
    PROVE  LET again == [i \in DOMAIN order |-> resend(order[i])]
           IN  /\ again \in Seq(Up) /\ Distinct(again)
               /\ \A p \in ToSet(again) : /\ p.type \in Question /\ p.id \in DOMAIN kept \ {0}
                                          /\ Fits(p, kept[p.id].item)
               /\ IsFiniteSet(DOMAIN kept)
               /\ \A id \in DOMAIN kept : id # 0 /\ resend(id).id = id
<1> DEFINE n == Cardinality(DOMAIN kept)
           again == [i \in DOMAIN order |-> resend(order[i])]
<1>1. /\ order \in [1 .. n -> DOMAIN kept]
      /\ \A i, j \in 1 .. n : i # j => order[i] # order[j]
  BY DEF ResendOrders, SetToSeqs
<1>2. /\ n \in Nat /\ DOMAIN kept \subseteq 1 .. Cardinality(Begun)
      /\ IsFiniteSet(DOMAIN kept)
  <2>1. DOMAIN kept \subseteq 1 .. Cardinality(Begun)
    BY DEF Memory
  <2>2. IsFiniteSet(1 .. Cardinality(Begun))
    <3>1. Cardinality(Begun) \in Nat
      BY BegunItems DEF Memory
    <3>. QED BY <3>1, FS_Interval
  <2>3. IsFiniteSet(DOMAIN kept)
    BY <2>1, <2>2, FS_Subset
  <2>. QED BY <2>1, <2>3, FS_CardinalityType
<1>. HIDE DEF n
<1>3. ASSUME NEW id \in DOMAIN kept
      PROVE  /\ resend(id) \in Up /\ resend(id).id = id /\ id # 0
             /\ resend(id).type \in Question
             /\ Fits(resend(id), kept[id].item)
  <2>1. id \in Nat \ {0} /\ Wire(id) = id
    <3>1. /\ Cardinality(Begun) \in Nat /\ Cardinality(Begun) < MaxMessageId
          /\ MaxMessageId \in Nat \ {0}
      <4>1. Begun \subseteq Item
        BY BegunItems DEF Memory
      <4>2. Cardinality(Begun) <= Cardinality(Item) /\ Cardinality(Item) \in Nat
            /\ Cardinality(Begun) \in Nat
        BY <4>1, BegunItems, FS_Subset, FS_CardinalityType DEF Few, Memory
      <4>. QED BY <4>2, ClientAssumption DEF Few
    <3>. QED BY <1>2, <1>3, <3>1 DEF Wire
  <2>2. kept[id] \in Flight
    BY <1>3
  <2> DEFINE e == kept[id]
             type == IF e.pubRecReceived THEN "PUBREL" ELSE TypeOf(e.item)
  <2>3. /\ resend(id) = Packet(type, id, e.item)
    BY <2>1 DEF resend
  <2>4. /\ e.item \in Item
        /\ e.item \in Message => QoS[e.item] \in {1, 2}
        /\ e.pubRecReceived => e.item \in Message /\ QoS[e.item] = 2
    BY <2>2, ClientAssumption DEF Flight
  <2>5. /\ type \in Question
        /\ e.item \in Message =>
              /\ type \in {"PUBLISH", "PUBREL"}
              /\ QoS[e.item] = 1 => type = "PUBLISH"
        /\ e.item \notin Message => type \in {"SUBSCRIBE", "UNSUBSCRIBE"}
    BY <2>4 DEF Question, TypeOf
  <2>. HIDE DEF e, type
  <2>6. /\ resend(id).type = type /\ resend(id).id = id /\ resend(id).what = e.item
        /\ resend(id) \in Up
    BY <2>1, <2>3, <2>4, <2>5 DEF Packet, Up, Word, Question, Ref
  <2>7. Fits(resend(id), e.item)
    BY <2>5, <2>6 DEF Fits
  <2>. QED BY <2>1, <2>5, <2>6, <2>7 DEF e
<1>4. again \in Seq(Up) /\ DOMAIN again = 1 .. n
  <2>1. again \in [1 .. n -> Up]
    BY <1>1, <1>3
  <2>. QED BY <1>2, <2>1, SeqDef
<1>5. ASSUME NEW i \in 1 .. n
      PROVE  again[i] = resend(order[i]) /\ order[i] \in DOMAIN kept
  BY <1>1, <1>5
<1>. HIDE DEF again
<1>6. Distinct(again)
  <2> SUFFICES ASSUME NEW i \in 1 .. n, NEW j \in 1 .. n, Ref(again[i]) = Ref(again[j])
               PROVE  i = j
    BY <1>4 DEF Distinct
  <2>1. /\ Ref(again[i]) = order[i] /\ Ref(again[j]) = order[j]
    BY <1>3, <1>5 DEF Ref, Question
  <2>. QED BY <1>1, <2>1
<1>7. \A p \in ToSet(again) : /\ p.type \in Question /\ p.id \in DOMAIN kept \ {0}
                              /\ Fits(p, kept[p.id].item)
  BY <1>3, <1>4, <1>5 DEF ToSet
<1>. QED BY <1>2, <1>3, <1>4, <1>6, <1>7 DEF again

LEMMA OnePacket ==
    /\ SetToSeq({}) = <<>>
    /\ \A p \in Up : /\ SetToSeq({p}) \in Seq(Up) /\ ToSet(SetToSeq({p})) \subseteq {p}
                     /\ Distinct(SetToSeq({p}))
<1>1. SetToSeq({}) = <<>>
  <2>1. SetToSeq({}) \in Seq({})
    BY FS_EmptySet, SetToSeqMembers
  <2>2. Len(SetToSeq({})) = 0
    BY <2>1, LenProperties, ElementOfSeq
  <2>. QED BY <2>1, <2>2, EmptySeq
<1>2. ASSUME NEW p \in Up
      PROVE  /\ SetToSeq({p}) \in Seq(Up) /\ ToSet(SetToSeq({p})) \subseteq {p}
             /\ Distinct(SetToSeq({p}))
  <2> DEFINE s == SetToSeq({p})
  <2>1. IsFiniteSet({p})
    BY FS_Singleton
  <2>2. s \in Seq({p}) /\ \A i, j \in DOMAIN s : s[i] = s[j] => i = j
    BY <2>1, SetToSeqMembers
  <2>. HIDE DEF s
  <2>3. /\ s \in [1 .. Len(s) -> {p}] /\ Len(s) \in Nat
    BY <2>2, LenProperties, SeqDef
  <2>4. s \in Seq(Up)
    BY <1>2, <2>3, SeqDef
  <2>5. ToSet(s) \subseteq {p} /\ Distinct(s)
    BY <2>2, <2>3 DEF ToSet, Distinct
  <2>. QED BY <2>4, <2>5 DEF s
<1>. QED BY <1>1, <1>2

(***************************************************************************)
(* Before the CONNACK of a connection no identifier travels on it.         *)
(***************************************************************************)
LEMMA NoneTravels ==
    ASSUME ClientInv, ~connected, frame # <<>>, frame' = rest,
           UNCHANGED <<link, to_client>>
    PROVE  Travelling(Pipe') \subseteq {0}
<1>1. Wires /\ Pipe \in Seq(Down) /\ Pipe # <<>> /\ Pipe' = Tail(Pipe)
  <2>1. Wires /\ Pipe \in Seq(Down) /\ Pipe # <<>>
    BY PipeType DEF ClientInv, Protocol
  <2>. QED BY <2>1, PipeHandled DEF Wires, rest
<1>2. Refs(Tail(Pipe)) \subseteq Refs(Pipe)
  BY <1>1, TailRefs
<1>3. Refs(Pipe) \subseteq {0}
  BY DEF ClientInv, Protocol, Exchanges, Match, Refs
<1>4. Live => Refs(to_server) \subseteq {0}
  BY DEF ClientInv, Protocol, Exchanges, Match, Refs
<1>. QED BY <1>1, <1>2, <1>3, <1>4 DEF Travelling

LEMMA AcceptedStep ==
    ASSUME Few, ClientInv, frame # <<>>, handle_CONNACK_accepted, UNCHANGED server
    PROVE  ClientInv'
<1>1. /\ ~connected /\ connected' = TRUE /\ socket' = socket /\ hostIndex' = Hosts
      /\ connectTimeout' = FALSE /\ told' = "onSuccess"
      /\ msg_queue = <<>> /\ msg_queue' = <<>> /\ frame' = rest
      /\ UNCHANGED <<version, receivePinger, zombie, sent, link, to_client, online>>
      /\ rest \in Seq(Down) /\ Memory /\ clean_session
  BY ThePacket, ServerSame DEF handle_CONNACK_accepted, ClientInv, Sockets
<1>2. /\ kept \in [DOMAIN kept -> Flight] /\ DOMAIN kept \subseteq DOMAIN sentMessages
      /\ receivedMessages' \subseteq Arriving
      /\ localStorage' = [Sent |-> Mirror(kept), Received |-> receivedMessages']
  BY <1>1, Cleaned
<1>3. Travelling(Pipe') \subseteq {0}
  BY <1>1, NoneTravels
<1>4. PICK order \in ResendOrders :
         LET out == msg_queue \o [i \in DOMAIN order |-> resend(order[i])]
                      \o SetToSeq(greetings(first_subscription))
         IN  /\ socket_send(out)
             /\ sendPinger' = IF out = <<>> THEN sendPinger ELSE reset
  BY DEF handle_CONNACK_accepted
<1> DEFINE again == [i \in DOMAIN order |-> resend(order[i])]
<1>5. /\ again \in Seq(Up) /\ Distinct(again)
      /\ \A p \in ToSet(again) : /\ p.type \in Question /\ p.id \in DOMAIN kept \ {0}
                                 /\ Fits(p, kept[p.id].item)
  BY <1>1, <1>2, Resent
<1>. HIDE DEF again
<1>6. /\ socket_send(again \o SetToSeq(greetings(first_subscription)))
      /\ sendPinger' \in {sendPinger, reset}
  BY <1>1, <1>4, <1>5, ConcatEmptySeq DEF again
<1>7. ASSUME NEW out \in Seq(Up), socket_send(out), Distinct(out),
             \A p \in ToSet(out) : p.type \in Question /\ Match(p)'
      PROVE  Protocol'
  <2>1. NoType(out, "CONNECT")
    BY <1>7 DEF NoType, Question
  <2>2. frame' = Tail(frame)
    BY <1>1 DEF rest
  <2>. QED BY <1>1, <1>3, <1>7, <2>1, <2>2, Spoken DEF ClientInv
<1>8. Sockets'
  <2>1. socket = "open" /\ Hosts \in 0 .. Hosts
    BY ClientAssumption DEF ClientInv, Sockets
  <2>. QED BY <1>1, <1>6, <2>1 DEF ClientInv, Sockets, reset, PingerState
<1>9. CASE first_subscription = {}
  <2>1. /\ sentMessages' = kept /\ UNCHANGED <<numbers, sent, requested, timers>>
        /\ Begun' = Begun
    BY <1>1, <1>9 DEF handle_CONNACK_accepted, onSuccess, Begun
  <2>2. Memory'
    BY <1>1, <1>2, <2>1, Kept DEF Memory, numbers
  <2>3. socket_send(again)
    <3>1. greetings({}) = {} /\ again \o <<>> = again
      BY <1>5, ConcatEmptySeq DEF greetings
    <3>. QED BY <1>6, <1>9, <3>1, OnePacket
  <2>4. \A p \in ToSet(again) : p.type \in Question /\ Match(p)'
    BY <1>1, <1>5, <2>1 DEF Match
  <2>. QED BY <1>5, <1>7, <1>8, <2>2, <2>3, <2>4, ServerSame DEF ClientInv
<1>10. CASE first_subscription # {}
  <2>1. PICK s \in Subscription \ requested : first_subscription = {s}
    BY <1>10 DEF first_subscription
  <2>2. /\ requires_ack(kept, s) /\ requested' = requested \cup {s}
        /\ timers' = timers \cup ({s} \cap Timed)
    BY <2>1 DEF handle_CONNACK_accepted, onSuccess
  <2>3. /\ Begun' = Begun \cup {s} /\ s \in Item \ Begun /\ s \notin Message
        /\ requested' \subseteq Subscription \cup Unsubscription
        /\ timers' \subseteq requested'
    <3>1. ToSet(sent) \subseteq Message
      BY <1>1, BegunItems DEF Memory
    <3>. QED BY <1>1, <2>1, <2>2, <3>1, ClientAssumption DEF Memory, Begun, Item
  <2>4. PICK id \in Nat \ {0}, e \in Flight, p \in Up : Begins(s, kept, id, e, p)
    BY <1>2, <2>2, <2>3, NewExchange
  <2>5. Memory'
    <3>1. Mirror(sentMessages') = Mirror(kept)
      BY <2>3, <2>4, WithMirror DEF Begins
    <3>2. localStorage' = [Sent |-> Mirror(sentMessages'), Received |-> receivedMessages']
      BY <1>2, <3>1
    <3>. QED BY <1>1, <1>2, <2>2, <2>3, <3>2, Remembered DEF Memory
  <2>6. PICK one \in Seq(Up) : /\ one = SetToSeq({p}) /\ ToSet(one) \subseteq {p}
                               /\ Distinct(one)
    BY OnePacket
  <2>7. socket_send(again \o one)
    <3>1. greetings({s}) = {p}
      BY <2>1, <2>3, <2>4 DEF Begins, greetings, TypeOf
    <3>. QED BY <1>6, <2>1, <2>6, <3>1
  <2>8. Refs(again) \cap Refs(one) \subseteq {0}
    <3>1. Refs(again) \subseteq DOMAIN kept
      BY <1>5 DEF Refs, Ref, Question
    <3>2. Refs(one) \subseteq {id}
      <4>1. Ref(p) = id
        BY <2>4 DEF Begins, Ref, Question
      <4>. QED BY <2>6, <4>1 DEF Refs
    <3>. QED BY <2>4, <3>1, <3>2 DEF Begins
  <2>9. PICK out \in Seq(Up) : /\ out = again \o one /\ Distinct(out)
                               /\ ToSet(out) = ToSet(again) \cup ToSet(one)
    <3>1. /\ again \o one \in Seq(Up) /\ Distinct(again \o one)
          /\ ToSet(again \o one) = ToSet(again) \cup ToSet(one)
      <4>1. again \in Seq(Up) /\ Distinct(again) /\ one \in Seq(Up) /\ Distinct(one)
        BY <1>5, <2>6
      <4>. QED BY <2>8, <4>1, ConcatRefs
    <3>. QED BY <3>1
  <2>10. \A q \in ToSet(again) : q.type \in Question /\ Match(q)'
    BY <1>1, <1>5, <2>4 DEF Begins, Match
  <2>11. \A q \in ToSet(one) : q.type \in Question /\ Match(q)'
    <3>1. p.type \in Question /\ Match(p)'
      BY <1>1, <2>4 DEF Begins, Match
    <3>. QED BY <2>6, <3>1
  <2>12. Protocol'
    <3>1. socket_send(out)
      BY <2>7, <2>9
    <3>. QED BY <1>7, <2>9, <2>10, <2>11, <3>1
  <2>. QED BY <1>8, <2>5, <2>12, ServerSame DEF ClientInv
<1>. QED BY <1>9, <1>10

LEMMA HandleStep ==
    ASSUME Calm, Few, ClientInv, HandleMessage, UNCHANGED server
    PROVE  ClientInv'
<1>1. frame # <<>>
  BY DEF HandleMessage
<1>2. ~handle_CONNACK_quits
  BY EmptyRefs DEF ClientInv, Sockets, handle_CONNACK_quits
<1>3. ~handle_EXCEPTION
  BY <1>1, ThePacket DEF ClientInv, handle_EXCEPTION, Down, Answer
<1>. QED BY <1>1, <1>2, <1>3, RefusedStep, AcceptedStep, PublishStep, PubackStep, PubrecStep,
            PubrelStep, PubcompStep, RequestAckStep, PingrespStep DEF HandleMessage

(***************************************************************************)
(* A step of the page.                                                     *)
(***************************************************************************)
LEMMA ClientStep ==
    ASSUME Calm, Few, ClientInv, ClientNext
    PROVE  ClientInv'
<1>0. UNCHANGED server
  BY DEF ClientNext, InPage
<1>1. CASE PageConnects
  BY <1>0, <1>1, ConnectStep DEF PageConnects
<1>2. CASE PageSends
  BY <1>0, <1>2, SendStep DEF PageSends
<1>3. CASE PageAsks
  BY <1>0, <1>3, AskStep DEF PageAsks, subscribe, unsubscribe
<1>4. CASE PageDisconnects
  BY <1>0, <1>4, DisconnectStep DEF PageDisconnects, Calm
<1>5. CASE PageReloads
  BY <1>0, <1>5, ReloadStep DEF PageReloads
<1>6. CASE RequestsTimeOut
  BY <1>0, <1>6, TimeoutStep DEF RequestsTimeOut
<1>7. CASE Opens
  BY <1>0, <1>7, OpenStep DEF Opens
<1>8. CASE Closes \/ TakesTooLong
  BY <1>0, <1>8, CloseStep DEF Closes, TakesTooLong
<1>9. CASE Pings
  BY <1>0, <1>9, PingStep DEF Pings
<1>10. CASE Receives
  BY <1>0, <1>10, MessageStep DEF Receives
<1>11. CASE Handles
  BY <1>0, <1>11, HandleStep DEF Handles
<1>. QED BY <1>1, <1>2, <1>3, <1>4, <1>5, <1>6, <1>7, <1>8, <1>9, <1>10, <1>11
         DEF ClientNext, InPage

-----------------------------------------------------------------------------
(* The steps of the server and of the network *)

LEMMA ClientSame ==
    ASSUME ClientInv, UNCHANGED client, link' \in BOOLEAN, link' => link
    PROVE  /\ Memory' /\ Sockets'
           /\ UNCHANGED <<frame, connected, sentMessages>>
<1>1. UNCHANGED <<connection, pingers, msg_queue, session, numbers, page, frame>>
  BY DEF client
<1>2. Memory'
  BY <1>1, MemorySame DEF ClientInv, page, requests
<1>3. Sockets'
  BY <1>1 DEF ClientInv, Sockets, connection, pingers, page
<1>. QED BY <1>1, <1>2, <1>3 DEF connection, session

LEMMA TailConnects ==
    ASSUME NEW S, NEW q \in Seq(S), q # <<>>
    PROVE  NoType(Tail(q), "CONNECT") <=> ~\E i \in 2 .. Len(q) : IsCONNECT(q[i])
<1> DEFINE t == Tail(q)
           n == Len(q)
<1>1. /\ n \in Nat \ {0} /\ DOMAIN t = 1 .. (n - 1)
      /\ \A i \in 1 .. (n - 1) : t[i] = q[i + 1]
  BY HeadTailProperties, LenProperties, EmptySeq
<1>. HIDE DEF t, n
<1>2. \A i \in 1 .. (n - 1) : i + 1 \in 2 .. n
  BY <1>1
<1>3. \A i \in 2 .. n : i - 1 \in 1 .. (n - 1) /\ t[i - 1] = q[i]
  <2> SUFFICES ASSUME NEW i \in 2 .. n
               PROVE  i - 1 \in 1 .. (n - 1) /\ t[i - 1] = q[i]
    OBVIOUS
  <2>1. i - 1 \in 1 .. (n - 1) /\ (i - 1) + 1 = i
    BY <1>1
  <2>. QED BY <1>1, <2>1
<1>4. NoType(t, "CONNECT") <=> ~\E i \in 2 .. n : IsCONNECT(q[i])
  <2>1. ASSUME NoType(t, "CONNECT"), NEW i \in 2 .. n
        PROVE  ~IsCONNECT(q[i])
    <3>1. i - 1 \in DOMAIN t /\ q[i] = t[i - 1]
      BY <1>1, <1>3
    <3>. QED BY <2>1, <3>1 DEF NoType, ToSet, IsCONNECT
  <2>2. ASSUME \A i \in 2 .. n : ~IsCONNECT(q[i]), NEW i \in DOMAIN t
        PROVE  t[i].type # "CONNECT"
    BY <1>1, <1>2, <2>2 DEF IsCONNECT
  <2>. QED BY <2>1, <2>2 DEF NoType, ToSet
<1>. QED BY <1>4 DEF t, n

LEMMA Replied ==
    ASSUME ClientInv, to_server # <<>>, NEW out, Reply(out)
    PROVE  /\ Memory' /\ Sockets'
           /\ UNCHANGED <<link, frame, connected, sentMessages>>
           /\ to_server' = Tail(to_server)
           /\ to_client' = IF Live' THEN to_client \o out ELSE to_client
<1>1. /\ UNCHANGED client /\ link' = link /\ to_server' = Tail(to_server)
  BY DEF Reply
<1>2. Memory' /\ Sockets' /\ UNCHANGED <<frame, connected, sentMessages>>
  BY <1>1, ClientSame DEF ClientInv, Sockets
<1>3. Live' <=> Reachable
  BY <1>1, TailConnects DEF ClientInv, Protocol, Wires, Live, Reachable
<1>. QED BY <1>1, <1>2, <1>3 DEF Reply

(***************************************************************************)
(* The server answers a packet with one packet of the same exchange, or of *)
(* its own, or with none.                                                  *)
(***************************************************************************)
Answers(out) ==
    \/ out = <<>>
    \/ /\ online
       /\ \E p \in Down : /\ out = <<p>> /\ p.type # "CONNACK"
                          /\ Live /\ p.id # 0 => p.id = Arrival.id /\ Match(p)

LEMMA AnswerStep ==
    ASSUME ClientInv, to_server # <<>>, Arrival.type # "CONNECT", NEW out, Reply(out),
           Answers(out), online' => online, ServerTypes'
    PROVE  ClientInv'
<1>1. /\ Memory' /\ Sockets'
      /\ UNCHANGED <<link, frame, connected, sentMessages>>
      /\ to_server' = Tail(to_server)
      /\ to_client' = IF Live' THEN to_client \o out ELSE to_client
  BY Replied
<1>2. /\ Protocol /\ Wires /\ Exchanges
  BY DEF ClientInv, Protocol
<1>3. /\ Refs(to_server) = {Ref(Arrival)} \cup Refs(Tail(to_server))
      /\ Arrival \in ToSet(to_server)
      /\ Distinct(to_server) =>
            Ref(Arrival) = 0 \/ Ref(Arrival) \notin Refs(Tail(to_server))
      /\ ToSet(to_server) = {Arrival} \cup ToSet(Tail(to_server))
  BY <1>2, TailRefs DEF Wires, Arrival
<1>4. Ref(Arrival) = Arrival.id
  BY DEF Ref
<1>5. Live' => Live
  BY <1>1, <1>3 DEF Live, NoType
<1>6. Head(to_server).type # "CONNECT"
  BY DEF Arrival
<1>7. CASE out = <<>>
  <2>1. /\ out \in Seq(Down) /\ NoType(out, "CONNACK") /\ Distinct(out)
        /\ Refs(out) = {} /\ ToSet(out) = {}
    BY <1>7, EmptyRefs, EmptySeq DEF NoType
  <2>2. Protocol'
    BY <1>1, <1>2, <1>6, <1>7, <2>1, ServerSpoken
  <2>. QED BY <1>1, <2>2 DEF ClientInv
<1>8. CASE out # <<>>
  <2>1. PICK p \in Down : /\ out = <<p>> /\ p.type # "CONNACK"
                          /\ Live /\ p.id # 0 => p.id = Arrival.id /\ Match(p)
    BY <1>8 DEF Answers
  <2>2. online
    BY <1>8 DEF Answers
  <2>3. ToSet(out) = {p} /\ out \in Seq(Down)
    BY <2>1 DEF ToSet
  <2>4. /\ NoType(out, "CONNACK") /\ Distinct(out) /\ Refs(out) = {p.id}
    <3>1. Ref(p) = p.id
      BY DEF Ref, Down, Answer
    <3>. QED BY <2>1, <2>3, <3>1 DEF NoType, Distinct, Refs
  <2>5. ASSUME Live'
        PROVE  /\ \A q \in ToSet(out) : Match(q)
               /\ Refs(out) \cap (Refs(Pipe) \cup Refs(to_server')) \subseteq {0}
    <3>1. CASE p.id = 0
      BY <2>3, <2>4, <3>1 DEF Match, Ref
    <3>2. CASE p.id # 0
      <4>1. p.id = Arrival.id /\ Match(p)
        BY <1>5, <2>1, <2>5, <3>2
      <4>2. /\ Distinct(to_server) /\ Refs(Pipe) \cap Refs(to_server) \subseteq {0}
        BY <1>2, <1>5, <2>5 DEF Exchanges
      <4>. QED BY <1>1, <1>3, <1>4, <2>3, <2>4, <4>1, <4>2
    <3>. QED BY <3>1, <3>2
  <2>6. Protocol'
    BY <1>1, <1>2, <1>6, <2>2, <2>3, <2>4, <2>5, ServerSpoken
  <2>. QED BY <1>1, <2>6 DEF ClientInv
<1>. QED BY <1>7, <1>8

LEMMA ServesStep ==
    ASSUME ClientInv, to_server # <<>>, ServerServes
    PROVE  ClientInv'
<1> DEFINE a == Arrival
           id == Arrival.id
           m == Arrival.what
<1>1. /\ a \in Up /\ a \in ToSet(to_server) /\ online
      /\ Live => Match(a)
  BY TailRefs DEF ClientInv, Protocol, Wires, Exchanges, Arrival, ServerServes
<1>2. /\ id \in Nat
      /\ a.type = "PUBLISH" => m \in Message
      /\ a.type \in {"PUBACK", "PUBREC", "PUBCOMP"} => m \in Arriving
      /\ a.type = "PUBREL" => id # 0
      /\ m \in Word
  BY <1>1 DEF Up
<1>3. /\ a.type # "CONNECT" /\ online' = online
      /\ Live /\ id # 0 => /\ connected /\ id \in DOMAIN sentMessages
                           /\ Fits(a, sentMessages[id].item)
  BY <1>1 DEF ServerServes, Match, Ref
<1>4. ASSUME NEW out, Reply(out), Answers(out),
             outgoing' \in [Arriving -> {"new", "pub", "rel", "done"}],
             got' \in Seq(Message)
      PROVE  ClientInv'
  <2>1. ServerTypes'
    BY <1>3, <1>4 DEF ClientInv, ServerTypes
  <2>. QED BY <1>3, <1>4, <2>1, AnswerStep
<1>5. /\ outgoing \in [Arriving -> {"new", "pub", "rel", "done"}]
      /\ got \in Seq(Message)
  BY DEF ClientInv, ServerTypes
<1>6. ASSUME NEW type \in Answer, NEW what \in Word, type = "PUBCOMP" => id # 0,
             Live /\ id # 0 => Fits(Packet(type, id, what), sentMessages[id].item)
      PROVE  Answers(<<Packet(type, id, what)>>)
  <2> DEFINE p == Packet(type, id, what)
  <2>1. p \in Down /\ p.type # "CONNACK" /\ p.id = id
    BY <1>2, <1>6 DEF Packet, Down, Answer, Ref
  <2>2. Live /\ id # 0 => Match(p)
    BY <1>3, <1>6, <2>1 DEF Match
  <2>. QED BY <1>1, <2>1, <2>2 DEF Answers
<1>7. ASSUME NEW what \in Word, NEW type \in {"PINGRESP", "PUBREL"},
             type = "PUBREL" => what \in Arriving
      PROVE  Answers(<<Packet(type, 0, what)>>)
  <2> DEFINE p == Packet(type, 0, what)
  <2>1. p \in Down /\ p.type # "CONNACK" /\ p.id = 0
    BY <1>7 DEF Packet, Down, Answer, Ref
  <2>. QED BY <1>1, <2>1 DEF Answers
<1>8. Answers(<<>>)
  BY DEF Answers
<1>9. CASE a.type = "PUBLISH"
  <2>1. got' = got \/ got' = Append(got, m)
    BY <1>9 DEF ServerServes
  <2>2. got' \in Seq(Message)
    BY <1>2, <1>5, <1>9, <2>1, AppendProperties
  <2>3. outgoing' = outgoing
    BY <1>9 DEF ServerServes
  <2>4. \/ Reply(<<>>)
        \/ QoS[m] = 1 /\ Reply(<<Packet("PUBACK", id, m)>>)
        \/ QoS[m] # 1 /\ Reply(<<Packet("PUBREC", id, m)>>)
    BY <1>9 DEF ServerServes
  <2>5. Live /\ id # 0 => sentMessages[id].item = m
    BY <1>3, <1>9 DEF Fits
  <2>6. CASE QoS[m] = 1
    <3>1. Fits(Packet("PUBACK", id, m), m)
      BY <1>2, <1>9, <2>6 DEF Fits, Packet
    <3>2. Answers(<<Packet("PUBACK", id, m)>>)
      BY <1>2, <1>6, <2>5, <3>1 DEF Answer
    <3>. QED BY <1>4, <1>5, <1>8, <2>2, <2>3, <2>4, <2>6, <3>2
  <2>7. CASE QoS[m] # 1
    <3>1. Fits(Packet("PUBREC", id, m), m)
      BY <1>2, <1>9, <2>7 DEF Fits, Packet
    <3>2. Answers(<<Packet("PUBREC", id, m)>>)
      BY <1>2, <1>6, <2>5, <3>1 DEF Answer
    <3>. QED BY <1>4, <1>5, <1>8, <2>2, <2>3, <2>4, <2>7, <3>2
  <2>. QED BY <2>6, <2>7
<1>10. CASE a.type = "PUBREL"
  <2>1. Live /\ id # 0 => Fits(Packet("PUBCOMP", id, m), sentMessages[id].item)
    BY <1>3, <1>10 DEF Fits, Packet
  <2>2. Answers(<<Packet("PUBCOMP", id, m)>>)
    BY <1>2, <1>6, <1>10, <2>1 DEF Answer
  <2>. QED BY <1>4, <1>5, <1>10, <2>2 DEF ServerServes
<1>11. CASE a.type \in {"PUBACK", "PUBCOMP"}
  <2>1. /\ \E from \in {"pub", "rel"} : Step(m, from, "done")
        /\ Reply(<<>>) /\ got' = got
    BY <1>11 DEF ServerServes
  <2>2. outgoing' \in [Arriving -> {"new", "pub", "rel", "done"}]
    BY <1>2, <1>5, <1>11, <2>1 DEF Step
  <2>. QED BY <1>4, <1>5, <1>8, <2>1, <2>2
<1>12. CASE a.type = "PUBREC"
  <2>1. /\ Step(m, "pub", "rel") /\ got' = got
        /\ Reply(<<Packet("PUBREL", 0, m)>>) \/ Reply(<<>>)
    BY <1>12 DEF ServerServes, ServerId
  <2>2. outgoing' \in [Arriving -> {"new", "pub", "rel", "done"}]
    BY <1>2, <1>5, <1>12, <2>1 DEF Step
  <2>3. Answers(<<Packet("PUBREL", 0, m)>>)
    BY <1>2, <1>7, <1>12
  <2>. QED BY <1>4, <1>5, <1>8, <2>1, <2>2, <2>3
<1>13. CASE a.type = "SUBSCRIBE"
  <2>1. /\ \E verdict \in {"granted", "refused"} : Reply(<<Packet("SUBACK", id, verdict)>>)
        /\ outgoing' = outgoing /\ got' = got
    BY <1>13 DEF ServerServes
  <2>2. PICK verdict \in {"granted", "refused"} : Reply(<<Packet("SUBACK", id, verdict)>>)
    BY <2>1
  <2>3. Live /\ id # 0 => Fits(Packet("SUBACK", id, verdict), sentMessages[id].item)
    BY <1>3, <1>13 DEF Fits, Packet
  <2>4. Answers(<<Packet("SUBACK", id, verdict)>>)
    BY <1>6, <2>3 DEF Answer, Word
  <2>. QED BY <1>4, <1>5, <2>1, <2>2, <2>4
<1>14. CASE a.type = "UNSUBSCRIBE"
  <2>1. Live /\ id # 0 => Fits(Packet("UNSUBACK", id, NoItem), sentMessages[id].item)
    BY <1>3, <1>14 DEF Fits, Packet
  <2>2. Answers(<<Packet("UNSUBACK", id, NoItem)>>)
    BY <1>6, <2>1 DEF Answer, Word
  <2>. QED BY <1>4, <1>5, <1>14, <2>2 DEF ServerServes
<1>15. CASE a.type = "PINGREQ"
  <2>1. Answers(<<Packet("PINGRESP", 0, NoItem)>>)
    BY <1>7 DEF Word
  <2>. QED BY <1>4, <1>5, <1>15, <2>1 DEF ServerServes
<1>. QED BY <1>9, <1>10, <1>11, <1>12, <1>13, <1>14, <1>15 DEF ServerServes

LEMMA IgnoresStep ==
    ASSUME ClientInv, to_server # <<>>, ServerIgnores
    PROVE  ClientInv'
<1>1. Arrival.type # "CONNECT"
  BY DEF ServerIgnores, IsCONNECT
<1>2. ServerTypes' /\ online' = FALSE
  BY DEF ClientInv, ServerTypes, ServerIgnores
<1>3. Answers(<<>>) /\ Reply(<<>>)
  BY DEF Answers, ServerIgnores
<1>. QED BY <1>1, <1>2, <1>3, AnswerStep

(***************************************************************************)
(* What the session still owes the client has the server's identifier.     *)
(***************************************************************************)
LEMMA OwedPackets ==
    ASSUME Few, NEW progress
    PROVE  /\ Owed(progress) \in Seq(Down)
           /\ \A p \in ToSet(Owed(progress)) :
                 /\ Ref(p) = 0 /\ p.what \in Arriving /\ p.type \in {"PUBLISH", "PUBREL"}
                 /\ progress[p.what] = IF p.type = "PUBLISH" THEN "pub" ELSE "rel"
           /\ \A i, j \in DOMAIN Owed(progress) :
                 Owed(progress)[i].what = Owed(progress)[j].what => i = j
<1> DEFINE X == {x \in Arriving : progress[x] \in {"pub", "rel"}}
           s == SetToSeq(X)
           P(x) == Packet(IF progress[x] = "pub" THEN "PUBLISH" ELSE "PUBREL", ServerId, x)
<1>1. IsFiniteSet(X)
  BY FS_Subset DEF Few
<1>2. s \in Seq(X) /\ \A i, j \in DOMAIN s : s[i] = s[j] => i = j
  BY <1>1, SetToSeqMembers
<1>3. Owed(progress) = [i \in DOMAIN s |-> P(s[i])]
  BY DEF Owed
<1>4. \A x \in X : /\ P(x) \in Down /\ Ref(P(x)) = 0 /\ P(x).what = x /\ x \in Arriving
                    /\ P(x).type \in {"PUBLISH", "PUBREL"}
                    /\ progress[x] = IF P(x).type = "PUBLISH" THEN "pub" ELSE "rel"
  BY DEF Packet, ServerId, Down, Answer, Word, Ref
<1>. HIDE DEF P, s, X
<1>5. DOMAIN s = 1 .. Len(s) /\ Len(s) \in Nat /\ \A i \in DOMAIN s : s[i] \in X
  BY <1>2, LenProperties, ElementOfSeq
<1>6. Owed(progress) \in [1 .. Len(s) -> Down]
  BY <1>3, <1>4, <1>5
<1>7. Owed(progress) \in Seq(Down)
  BY <1>5, <1>6, SeqDef
<1>8. \A i \in DOMAIN s : Owed(progress)[i] = P(s[i])
  BY <1>3
<1>9. ASSUME NEW p \in ToSet(Owed(progress))
      PROVE  /\ Ref(p) = 0 /\ p.what \in Arriving /\ p.type \in {"PUBLISH", "PUBREL"}
             /\ progress[p.what] = IF p.type = "PUBLISH" THEN "pub" ELSE "rel"
  <2>1. PICK i \in DOMAIN s : p = P(s[i])
    BY <1>3, <1>8 DEF ToSet
  <2>. QED BY <1>4, <1>5, <2>1
<1>10. ASSUME NEW i \in DOMAIN s, NEW j \in DOMAIN s,
              Owed(progress)[i].what = Owed(progress)[j].what
       PROVE  i = j
  BY <1>2, <1>4, <1>5, <1>8, <1>10
<1>. QED BY <1>3, <1>7, <1>9, <1>10

LEMMA GreetStep ==
    ASSUME Few, ClientInv, to_server # <<>>, ServerConnect
    PROVE  ClientInv'
<1>1. Head(to_server).type = "CONNECT"
  BY DEF ServerConnect, IsCONNECT, Arrival
<1>2. ServerTypes'
  BY DEF ClientInv, ServerTypes, ServerConnect
<1>3. ASSUME NEW verdict \in {"accepted", "refused"}, NEW owed \in Seq(Down),
             \A p \in ToSet(owed) : Ref(p) = 0 /\ p.type # "CONNACK",
             verdict = "refused" => owed = <<>> /\ ~online',
             Reply(<<Packet("CONNACK", 0, verdict)>> \o owed)
      PROVE  ClientInv'
  <2> DEFINE p == Packet("CONNACK", 0, verdict)
             one == <<p>>
             out == one \o owed
  <2>1. /\ p \in Down /\ Ref(p) = 0 /\ p.type = "CONNACK" /\ p.what = verdict
    BY DEF Packet, Down, Answer, Ref, Word
  <2>. HIDE DEF p
  <2>2. one \in Seq(Down) /\ one # <<>> /\ Head(one) = p /\ Tail(one) = <<>>
        /\ Refs(one) = {0}
    BY <2>1 DEF Refs, ToSet
  <2>. HIDE DEF one
  <2>3. /\ out \in Seq(Down) /\ out # <<>> /\ Refs(out) = Refs(one) \cup Refs(owed)
    BY <2>2, ConcatRefs
  <2>4. Head(out) = p /\ Tail(out) = <<>> \o owed
    BY <2>2, ConcatTail
  <2>5. Tail(out) = owed
    BY <2>4, ConcatEmptySeq
  <2>6. Refs(out) \subseteq {0}
    BY <1>3, <2>2, <2>3 DEF Refs
  <2>7. Greets(out)'
    BY <1>3, <2>1, <2>4, <2>5 DEF Greets, NoType
  <2>8. /\ Memory' /\ Sockets'
        /\ UNCHANGED <<link, frame, connected, sentMessages>>
        /\ to_server' = Tail(to_server)
        /\ to_client' = IF Live' THEN to_client \o out ELSE to_client
    BY <1>3, Replied DEF out, one, p
  <2>. HIDE DEF out
  <2>9. Protocol'
    BY <1>1, <2>3, <2>6, <2>7, <2>8, ServerGreeted DEF ClientInv
  <2>. QED BY <1>2, <2>8, <2>9 DEF ClientInv
<1>4. \/ \E progress : Reply(<<Packet("CONNACK", 0, "accepted")>> \o Owed(progress))
      \/ Reply(<<Packet("CONNACK", 0, "refused")>>) /\ online' = FALSE
  BY DEF ServerConnect
<1>5. CASE \E progress : Reply(<<Packet("CONNACK", 0, "accepted")>> \o Owed(progress))
  <2>1. PICK progress : Reply(<<Packet("CONNACK", 0, "accepted")>> \o Owed(progress))
    BY <1>5
  <2>. QED BY <1>3, <2>1, OwedPackets
<1>6. CASE Reply(<<Packet("CONNACK", 0, "refused")>>) /\ online' = FALSE
  <2> DEFINE one == <<Packet("CONNACK", 0, "refused")>>
  <2>1. one \in Seq({Packet("CONNACK", 0, "refused")})
    OBVIOUS
  <2>2. one \o <<>> = one /\ <<>> \in Seq(Down) /\ ToSet(<<>>) = {}
    BY <2>1, ConcatEmptySeq, EmptySeq, EmptyRefs
  <2>. QED BY <1>3, <1>6, <2>2
<1>. QED BY <1>4, <1>5, <1>6

LEMMA DropsStep ==
    ASSUME ClientInv, ServerDrops
    PROVE  ClientInv'
<1>1. PICK i \in 2 .. Len(to_server) :
         /\ IsCONNECT(to_server[i])
         /\ to_server' = SubSeq(to_server, i, Len(to_server))
         /\ UNCHANGED <<client, link, to_client, incoming, outgoing, got>>
         /\ online' = FALSE
  BY DEF ServerDrops
<1>2. i \in DOMAIN to_server
  BY LenProperties DEF ClientInv, Protocol, Wires
<1>3. Memory' /\ Sockets' /\ UNCHANGED <<frame, connected, sentMessages>>
  BY <1>1, ClientSame DEF ClientInv, Sockets
<1>4. Protocol'
  BY <1>1, <1>2, <1>3, Dropped DEF ClientInv, IsCONNECT
<1>5. ServerTypes'
  BY <1>1 DEF ClientInv, ServerTypes
<1>. QED BY <1>3, <1>4, <1>5 DEF ClientInv

LEMMA PublishesStep ==
    ASSUME ClientInv, NEW m \in Arriving, ServerPublishes(m)
    PROVE  ClientInv'
<1> DEFINE p == Packet("PUBLISH", 0, m)
<1>1. UNCHANGED <<client, link, to_server, online, got>>
  BY DEF ServerPublishes
<1>2. Memory' /\ Sockets' /\ UNCHANGED <<frame, connected, sentMessages>>
  BY <1>1, ClientSame DEF ClientInv, Sockets
<1>3. ServerTypes'
  BY <1>1 DEF ClientInv, ServerTypes, ServerPublishes
<1>4. p \in Down /\ Ref(p) = 0 /\ p.type = "PUBLISH"
  BY DEF Packet, Down, Answer, Ref, Word
<1>5. Live' <=> link /\ ~\E i \in DOMAIN to_server : IsCONNECT(to_server[i])
  BY <1>1 DEF Live, NoType, ToSet, IsCONNECT
<1>6. to_client' = IF Live' /\ online THEN Append(to_client, p) ELSE to_client
  BY <1>5 DEF ServerPublishes, ServerId
<1>. HIDE DEF p
<1>7. PICK out \in Seq(Down) :
         /\ out = IF online THEN <<p>> ELSE <<>>
         /\ Refs(out) \subseteq {0}
  <2>1. <<p>> \in Seq(Down) /\ Refs(<<p>>) \subseteq {0}
    BY <1>4 DEF Refs, ToSet
  <2>2. <<>> \in Seq(Down) /\ Refs(<<>>) \subseteq {0}
    BY EmptySeq, EmptyRefs
  <2>. QED BY <2>1, <2>2
<1>8. to_client' = IF Live' THEN to_client \o out ELSE to_client
  <2>1. to_client \in Seq(Down)
    BY DEF ClientInv, Protocol, Wires
  <2>2. to_client \o <<p>> = Append(to_client, p) /\ to_client \o <<>> = to_client
    BY <1>4, <2>1, AppendIsConcat, ConcatEmptySeq
  <2>. QED BY <1>6, <1>7, <2>2
<1>9. /\ NoType(out, "CONNACK") /\ Distinct(out) /\ \A q \in ToSet(out) : Match(q)
      /\ out # <<>> => online
  <2>1. out # <<>> => online /\ out = <<p>>
    BY <1>7
  <2>2. NoType(out, "CONNACK")
    BY <1>4, <1>7, EmptyRefs DEF NoType, ToSet
  <2>3. \A q \in ToSet(out) : Ref(q) = 0
    BY <1>7 DEF Refs
  <2>4. \A i \in DOMAIN out : Ref(out[i]) = 0
    BY <2>3 DEF ToSet
  <2>. QED BY <2>1, <2>2, <2>3, <2>4 DEF Distinct, Match
<1>10. Protocol'
  BY <1>1, <1>2, <1>7, <1>8, <1>9, ServerSpoken DEF ClientInv
<1>. QED BY <1>2, <1>3, <1>10 DEF ClientInv

LEMMA BreakStep ==
    ASSUME ClientInv, Break
    PROVE  ClientInv'
<1>1. /\ link' = FALSE /\ to_client' = <<>>
      /\ UNCHANGED <<client, to_server, server>>
  BY DEF Break
<1>2. Memory' /\ Sockets' /\ UNCHANGED <<frame, connected, sentMessages>>
  BY <1>1, ClientSame DEF ClientInv
<1>3. Protocol'
  BY <1>1, <1>2, Broken DEF ClientInv, server
<1>. QED BY <1>1, <1>2, <1>3, ServerSame DEF ClientInv

-----------------------------------------------------------------------------
(* The theorems *)

LEMMA InitInv == ASSUME Few, Init PROVE ClientInv
<1>1. /\ sent = <<>> /\ requested = {} /\ timers = {} /\ sentMessages = NoEntries
      /\ receivedMessages = {} /\ localStorage = EmptyStorage
      /\ message_identifier = 1 /\ sequence = 0
      /\ socket = "none" /\ connected = FALSE /\ version = 0 /\ hostIndex = 0
      /\ connectTimeout = FALSE /\ sendPinger = "off" /\ receivePinger = "off"
      /\ zombie = "off" /\ msg_queue = <<>> /\ frame = <<>> /\ told = "nothing"
      /\ link = FALSE /\ to_server = <<>> /\ to_client = <<>>
      /\ online = FALSE /\ got = <<>> /\ outgoing = [m \in Arriving |-> "new"]
  BY DEF Init, ClientInit
<1>2. Memory
  <2>1. Cardinality(Begun) = 0
    <3>1. Begun = {}
      BY <1>1, EmptyRefs DEF Begun
    <3>. QED BY <3>1, FS_EmptySet
  <2>2. /\ sentMessages \in [DOMAIN sentMessages -> Flight] /\ DOMAIN sentMessages = {}
        /\ localStorage = [Sent |-> Mirror(sentMessages), Received |-> receivedMessages]
    BY <1>1 DEF NoEntries, EmptyStorage, Mirror
  <2>. QED BY <1>1, <2>1, <2>2, EmptySeq DEF Memory
<1>3. Sockets
  <2>1. 0 \in 0 .. Hosts
    BY ClientAssumption
  <2>. QED BY <1>1, <2>1 DEF Sockets, PingerState
<1>4. Pipe = <<>> /\ ~Live
  BY <1>1 DEF Pipe, Live
<1>5. Wires
  BY <1>1, EmptySeq DEF Wires
<1>6. Greeting
  BY <1>1, <1>4, EmptyRefs DEF Greeting
<1>7. Exchanges
  BY <1>4, EmptyRefs DEF Exchanges
<1>8. ServerTypes
  BY <1>1, EmptySeq DEF ServerTypes
<1>. QED BY <1>2, <1>3, <1>5, <1>6, <1>7, <1>8 DEF ClientInv, Protocol

LEMMA NextInv == ASSUME Calm, Few, ClientInv, [Next]_vars PROVE ClientInv'
<1>1. CASE ClientNext
  BY <1>1, ClientStep
<1>2. CASE ServerReceives
  BY <1>2, GreetStep, ServesStep, IgnoresStep DEF ServerReceives
<1>3. CASE ServerDrops
  BY <1>3, DropsStep
<1>4. CASE \E m \in Arriving : ServerPublishes(m)
  BY <1>4, PublishesStep
<1>5. CASE Break
  BY <1>5, BreakStep
<1>6. CASE UNCHANGED vars
  <2>1. UNCHANGED client /\ UNCHANGED server /\ UNCHANGED network
    BY <1>6 DEF vars
  <2>2. Memory' /\ Sockets' /\ UNCHANGED <<frame, connected, sentMessages>>
    BY <2>1, ClientSame DEF ClientInv, Sockets, network
  <2>3. Protocol'
    BY <2>1, <2>2, ServerSame, ProtocolSame DEF ClientInv, network
  <2>. QED BY <2>1, <2>2, <2>3, ServerSame DEF ClientInv
<1>. QED BY <1>1, <1>2, <1>3, <1>4, <1>5, <1>6 DEF Next

LEMMA ClientInvariance == Calm /\ Few => (Spec => []ClientInv)
<1> SUFFICES ASSUME Calm, Few PROVE Spec => []ClientInv
  OBVIOUS
<1>1. Init => ClientInv
  BY InitInv
<1>2. ClientInv /\ [Next]_vars => ClientInv'
  BY NextInv
<1>. QED BY <1>1, <1>2, PTL DEF Spec

(***************************************************************************)
(* Type correctness, with what holds of a connected client (ClientImpl in  *)
(* mqttws31.js): its socket is open, nothing waits in the queue, and no    *)
(* timeout of a connection runs.                                           *)
(***************************************************************************)
THEOREM ClientTypes == Calm /\ Few => (Spec => []TypeOK)
<1> SUFFICES ASSUME Calm, Few PROVE Spec => []TypeOK
  OBVIOUS
<1>1. ClientInv => TypeOK
  <2> SUFFICES ASSUME ClientInv PROVE TypeOK
    OBVIOUS
  <2>1. /\ socket \in {"none", "connecting", "open"}
        /\ {connected, connectTimeout, link, online} \subseteq BOOLEAN
        /\ version \in {0, 3, 4} /\ hostIndex \in 0 .. Hosts
        /\ {sendPinger, receivePinger, zombie} \subseteq PingerState
        /\ told \in {"nothing", "onSuccess", "onFailure", "onConnectionLost"}
        /\ connected => socket = "open" /\ msg_queue = <<>> /\ ~connectTimeout
    BY DEF ClientInv, Sockets, ServerTypes, PingerState
  <2>2. \A q \in {msg_queue, frame, to_server, to_client} : \A i \in DOMAIN q : PacketOK(q[i])
    <3>1. /\ frame \in Seq(Down) /\ to_client \in Seq(Down) /\ to_server \in Seq(Up)
          /\ msg_queue \in Seq(Down)
      BY EmptySeq DEF ClientInv, Protocol, Wires, Sockets
    <3>2. \A p : p \in Down \/ p \in Up => PacketOK(p)
      BY DEF Down, Up, PacketOK
    <3>. QED BY <3>1, <3>2, LenProperties, ElementOfSeq
  <2>3. /\ sentMessages \in [DOMAIN sentMessages -> Flight]
        /\ DOMAIN sentMessages \subseteq Nat \ {0}
        /\ message_identifier \in Nat \ {0} /\ sequence \in Nat
        /\ timers \subseteq requested /\ receivedMessages \subseteq Arriving
        /\ localStorage = [Sent |-> Mirror(sentMessages), Received |-> receivedMessages]
    <3>1. Cardinality(Begun) \in Nat
      BY BegunItems DEF ClientInv, Memory
    <3>. QED BY <3>1 DEF ClientInv, Memory
  <2>4. \A e \in Flight : Entry(e)
    BY DEF Flight, Entry
  <2>5. Table(sentMessages)
    BY <2>3, <2>4 DEF Table
  <2>6. Table(localStorage.Sent) /\ localStorage.Received \subseteq Arriving
    BY <2>3, <2>4 DEF Table, Mirror
  <2>7. ToSet(sent) \subseteq Message /\ ToSet(got) \subseteq Message
    BY LenProperties, ElementOfSeq DEF ClientInv, Memory, ServerTypes, ToSet
  <2>8. outgoing \in [Arriving -> {"new", "pub", "rel", "done"}]
    BY DEF ClientInv, ServerTypes
  <2>. QED BY <2>1, <2>2, <2>3, <2>5, <2>6, <2>7, <2>8 DEF TypeOK
<1>. QED BY <1>1, ClientInvariance, PTL

(***************************************************************************)
(* Whatever happens, the entries "Sent:" and "Received:" of localStorage   *)
(* are those of the tables in memory (store, removeItem, restore and the   *)
(* clean session of ClientImpl): what a reload takes up is what was there. *)
(***************************************************************************)
THEOREM NothingForgotten == Calm /\ Few => (Spec => []StorageMirrors)
<1> SUFFICES ASSUME Calm, Few PROVE Spec => []StorageMirrors
  OBVIOUS
<1>1. ClientInv => StorageMirrors
  BY DEF ClientInv, Memory, Mirror, StorageMirrors
<1>. QED BY <1>1, ClientInvariance, PTL

-----------------------------------------------------------------------------
(* The client implements what its documentation promises the page *)

LEMMA PhaseSame ==
    ASSUME UNCHANGED <<connection, told, calls>>
    PROVE  UNCHANGED <<phase, told, calls>>
BY DEF connection, phase

(***************************************************************************)
(* The end of a connection is reported as its loss, the end of an attempt  *)
(* as a failure; the next attempt is not reported.                         *)
(***************************************************************************)
LEMMA EndReported ==
    ASSUME ClientInv, disconnected(connected, hostIndex), socket # "none", calls' = calls
    PROVE  [Link!LinkNext]_(Link!link_vars)
<1>1. connected \in BOOLEAN /\ hostIndex \in 0 .. Hosts
  BY DEF ClientInv, Sockets
<1>2. /\ socket' \in {"none", "connecting"} /\ connected' = FALSE
      /\ IF socket' = "connecting" THEN told' = told ELSE
            told' = IF connected THEN "onConnectionLost" ELSE "onFailure"
      /\ connected /\ hostIndex = Hosts => socket' = "none"
  BY <1>1, Disconnected
<1>3. CASE connected
  <2>1. socket' = "none" /\ told' = "onConnectionLost"
    BY <1>2, <1>3 DEF ClientInv, Sockets
  <2>. QED BY <1>2, <1>3, <2>1 DEF phase, Link!LinkNext, Link!Lose
<1>4. CASE ~connected
  <2>1. phase = "connecting"
    BY <1>4 DEF phase
  <2>2. CASE socket' = "connecting"
    BY <1>2, <2>1, <2>2 DEF phase, Link!link_vars
  <2>3. CASE socket' = "none"
    BY <1>2, <1>4, <2>1, <2>3 DEF phase, Link!LinkNext, Link!Fail
  <2>. QED BY <1>2, <2>2, <2>3
<1>. QED BY <1>3, <1>4

LEMMA PacketReported ==
    ASSUME Calm, ClientInv, HandleMessage
    PROVE  [Link!LinkNext]_(Link!link_vars)
<1>1. frame # <<>> /\ socket = "open" /\ packet \in Down
  BY ThePacket DEF ClientInv, Sockets, HandleMessage
<1>2. CASE handle_CONNACK_refused
  BY <1>1, <1>2, EndReported DEF handle_CONNACK_refused, give_up
<1>3. CASE handle_CONNACK_accepted
  <2>1. /\ ~connected /\ connected' = TRUE /\ told' = "onSuccess" /\ calls' = calls
    BY <1>1, <1>3, ThePacket DEF ClientInv, handle_CONNACK_accepted
  <2>. QED BY <1>1, <2>1 DEF phase, Link!LinkNext, Link!Succeed
<1>4. CASE handle_PUBLISH \/ handle_PUBREL
  <2>1. UNCHANGED <<connection, told, calls>>
    BY <1>4 DEF Calm, handle_PUBLISH, handle_PUBREL
  <2>. QED BY <2>1, PhaseSame DEF Link!link_vars
<1>5. CASE handle_PUBACK \/ handle_PUBREC \/ handle_request_ack \/ handle_PINGRESP
  <2>1. UNCHANGED <<connection, told, calls>>
    BY <1>5 DEF handle_PUBACK, handle_PUBREC, handle_request_ack, handle_PINGRESP,
                quiet_handler, page
  <2>. QED BY <2>1, PhaseSame DEF Link!link_vars
<1>6. CASE handle_PUBCOMP
  <2>1. packet.type = "PUBCOMP"
    BY <1>6 DEF handle_PUBCOMP
  <2>2. in_flight(packet.id)
    BY <1>1, <2>1, ThePacket DEF ClientInv, Down, Match, in_flight
  <2>3. UNCHANGED <<connection, told, calls>>
    BY <1>6, <2>2 DEF handle_PUBCOMP, quiet_handler
  <2>. QED BY <2>3, PhaseSame DEF Link!link_vars
<1>7. ~handle_CONNACK_quits
  BY EmptyRefs DEF ClientInv, Sockets, handle_CONNACK_quits
<1>8. ~handle_EXCEPTION
  BY <1>1 DEF handle_EXCEPTION, Down, Answer
<1>. QED BY <1>2, <1>3, <1>4, <1>5, <1>6, <1>7, <1>8 DEF HandleMessage

LEMMA StepReported ==
    ASSUME Calm, ClientInv, [Next]_vars
    PROVE  [Link!LinkNext]_(Link!link_vars)
<1>1. CASE PageConnects
  BY <1>1 DEF PageConnects, Connect, doConnect, phase, Link!LinkNext, Link!Connect
<1>2. CASE PageSends \/ PageAsks \/ RequestsTimeOut
  <2>1. UNCHANGED <<connection, told, calls>>
    BY <1>2 DEF PageSends, PageAsks, RequestsTimeOut, Send, subscribe, unsubscribe, Ask,
                RequestTimeout
  <2>. QED BY <2>1, PhaseSame DEF Link!link_vars
<1>3. CASE PageDisconnects
  <2>1. connected = TRUE /\ disconnected(TRUE, hostIndex) /\ calls' = calls /\ socket # "none"
    BY <1>3 DEF PageDisconnects, Disconnect, Calm, ClientInv, Sockets
  <2>. QED BY <2>1, EndReported
<1>4. CASE PageReloads
  BY <1>4 DEF PageReloads, Reload, phase, Link!LinkNext, Link!Reload
<1>5. CASE Opens
  <2>1. /\ ~connected /\ connected' = connected /\ socket = "connecting" /\ socket' = "open"
        /\ UNCHANGED <<told, calls>>
    BY <1>5 DEF Opens, on_socket_open, page, ClientInv, Sockets
  <2>. QED BY <2>1 DEF phase, Link!link_vars
<1>6. CASE Closes \/ TakesTooLong
  <2>1. disconnected(connected, hostIndex) /\ calls' = calls /\ socket # "none"
    BY <1>6 DEF Closes, TakesTooLong, on_socket_close, ConnectTimeout, give_up, ClientInv,
                Sockets
  <2>. QED BY <2>1, EndReported
<1>7. CASE Pings
  <2>1. zombie = "off"
    BY DEF ClientInv, Sockets
  <2>2. \/ /\ disconnected(connected, hostIndex) /\ calls' = calls
           /\ sendPinger = "waiting" \/ receivePinger = "waiting"
        \/ UNCHANGED <<connection, told, calls>>
    BY <1>7, <2>1 DEF Pings, SendPing, ReceivePing, ZombiePing, ping, give_up
  <2>3. sendPinger = "waiting" \/ receivePinger = "waiting" => socket # "none"
    BY DEF ClientInv, Sockets
  <2>. QED BY <2>2, <2>3, EndReported, PhaseSame DEF Link!link_vars
<1>8. CASE Receives
  <2>1. UNCHANGED <<connection, told, calls>>
    BY <1>8 DEF Receives, on_socket_message, page
  <2>. QED BY <2>1, PhaseSame DEF Link!link_vars
<1>9. CASE Handles
  BY <1>9, PacketReported DEF Handles
<1>10. CASE UNCHANGED client
  <2>1. UNCHANGED <<connection, told, calls>>
    BY <1>10 DEF client, page
  <2>. QED BY <2>1, PhaseSame DEF Link!link_vars
<1>11. (ServerReceives \/ ServerDrops \/ \E m \in Arriving : ServerPublishes(m)) =>
          UNCHANGED client
  BY DEF ServerReceives, ServerConnect, ServerServes, ServerIgnores, Reply, ServerDrops,
         ServerPublishes
<1>12. Break \/ UNCHANGED vars => UNCHANGED client
  BY DEF Break, vars
<1>. QED BY <1>1, <1>2, <1>3, <1>4, <1>5, <1>6, <1>7, <1>8, <1>9, <1>10, <1>11, <1>12
         DEF Next, ClientNext, InPage

(***************************************************************************)
(* The client keeps the promises of its documentation (MqttLink): every    *)
(* step of the program is one of them or changes nothing they speak of.    *)
(* connect() is answered once, and a loss follows a success.               *)
(***************************************************************************)
THEOREM PromisesKept == Calm /\ Few => (Spec => LinkImplemented)
<1> SUFFICES ASSUME Calm, Few PROVE Spec => LinkImplemented
  OBVIOUS
<1>1. Init => Link!LinkInit
  BY DEF Init, ClientInit, phase, Link!LinkInit
<1>2. ClientInv /\ [Next]_vars => [Link!LinkNext]_(Link!link_vars)
  BY StepReported
<1>. QED BY <1>1, <1>2, ClientInvariance, PTL DEF Spec, LinkImplemented, Link!LinkSpec

-----------------------------------------------------------------------------
(* What a page is told about its requests *)

Request == Subscription \cup Unsubscription

Reports(r) == answers[r].onSuccess + answers[r].onFailure
Asked(r)   == \E id \in DOMAIN sentMessages : sentMessages[id].item = r

(***************************************************************************)
(* A request is reported by its timer and by the answer to its only entry; *)
(* the answer stops the timer.                                             *)
(***************************************************************************)
ReportsLeft(r) ==
    /\ r \notin requested => Reports(r) = 0 /\ ~Asked(r)
    /\ r \in timers => Reports(r) = 0
    /\ Asked(r) => Reports(r) <= IF r \in Timed \ timers THEN 1 ELSE 0
    /\ Reports(r) <= IF r \in Timed THEN 2 ELSE 1
    /\ answers[r].onSuccess <= IF Asked(r) THEN 0 ELSE 1

ReportInv ==
    /\ answers \in [Request -> [onSuccess : Nat, onFailure : Nat]]
    /\ timers \subseteq Timed \cap requested
    /\ \A i, j \in DOMAIN sentMessages :
          sentMessages[i].item = sentMessages[j].item /\ sentMessages[i].item \in Request =>
             i = j
    /\ \A r \in Request : ReportsLeft(r)

LEMMA ReportNat ==
    ASSUME ReportInv, NEW r \in Request
    PROVE  /\ Reports(r) \in Nat
           /\ answers[r].onSuccess \in Nat /\ answers[r].onFailure \in Nat
           /\ Reports(r) = answers[r].onSuccess + answers[r].onFailure
BY DEF ReportInv, Reports

(* No request, no report. *)
LEMMA NoReport ==
    ASSUME ReportInv, answers' = answers, requested' = requested, timers' \subseteq timers,
           \A id \in DOMAIN sentMessages' :
              \/ sentMessages'[id].item \in Message
              \/ /\ id \in DOMAIN sentMessages
                 /\ sentMessages'[id].item = sentMessages[id].item
    PROVE  ReportInv'
<1>1. ASSUME NEW r \in Request
      PROVE  ReportsLeft(r)'
  <2>1. /\ Reports(r)' = Reports(r) /\ Reports(r) \in Nat
        /\ answers' = answers /\ answers[r].onSuccess \in Nat
    BY ReportNat DEF Reports
  <2>2. Asked(r)' => Asked(r)
    BY ClientAssumption DEF Asked, Request
  <2>3. ReportsLeft(r)
    BY DEF ReportInv
  <2>. QED BY <2>1, <2>2, <2>3 DEF ReportsLeft
<1>2. \A i, j \in DOMAIN sentMessages' :
         sentMessages'[i].item = sentMessages'[j].item /\ sentMessages'[i].item \in Request =>
            i = j
  BY ClientAssumption DEF ReportInv, Request
<1>. QED BY <1>1, <1>2 DEF ReportInv

(* A new request. *)
LEMMA NewReport ==
    ASSUME ReportInv, NEW s \in Request \ requested, NEW table, NEW fid, NEW e, e.item = s,
           sentMessages' = With(table, fid, e), answers' = answers,
           requested' = requested \cup {s}, timers' = timers \cup ({s} \cap Timed),
           \A id \in DOMAIN table : /\ id \in DOMAIN sentMessages
                                    /\ table[id].item = sentMessages[id].item
    PROVE  ReportInv'
<1>1. /\ DOMAIN sentMessages' = DOMAIN table \cup {fid}
      /\ \A id \in DOMAIN sentMessages' :
            sentMessages'[id].item = IF id = fid THEN s ELSE sentMessages[id].item
  BY DEF With
<1>2. ~Asked(s) /\ Reports(s) = 0 /\ answers[s].onSuccess = 0
  <2>1. ~Asked(s) /\ Reports(s) = 0
    BY DEF ReportInv, ReportsLeft
  <2>. QED BY <2>1, ReportNat
<1>3. ASSUME NEW r \in Request
      PROVE  ReportsLeft(r)'
  <2>1. /\ Reports(r)' = Reports(r) /\ Reports(r) \in Nat
        /\ answers' = answers /\ answers[r].onSuccess \in Nat
    BY ReportNat DEF Reports
  <2>2. CASE r = s
    BY <1>2, <2>1, <2>2 DEF ReportsLeft
  <2>3. CASE r # s
    <3>1. Asked(r)' => Asked(r)
      BY <1>1, <2>3 DEF Asked
    <3>2. ReportsLeft(r)
      BY DEF ReportInv
    <3>. QED BY <2>1, <2>3, <3>1, <3>2 DEF ReportsLeft
  <2>. QED BY <2>2, <2>3
<1>4. \A i, j \in DOMAIN sentMessages' :
         sentMessages'[i].item = sentMessages'[j].item /\ sentMessages'[i].item \in Request =>
            i = j
  BY <1>1, <1>2 DEF ReportInv, Asked
<1>. QED BY <1>3, <1>4 DEF ReportInv

(* A request is reported: its timer is over, or its entry too. *)
LEMMA Reported ==
    ASSUME ReportInv, NEW s \in Request, s \in timers \/ Asked(s),
           requested' = requested, timers' = timers \ {s},
           \/ answers' = [answers EXCEPT ![s].onFailure = @ + 1]
           \/ /\ answers' = [answers EXCEPT ![s].onSuccess = @ + 1]
              /\ Asked(s) /\ ~Asked(s)',
           \A id \in DOMAIN sentMessages' :
              /\ id \in DOMAIN sentMessages
              /\ sentMessages'[id].item = sentMessages[id].item
              /\ s \in timers \/ sentMessages[id].item # s
    PROVE  ReportInv'
<1>1. /\ answers' \in [Request -> [onSuccess : Nat, onFailure : Nat]]
      /\ Reports(s)' = Reports(s) + 1
      /\ \A r \in Request \ {s} : Reports(r)' = Reports(r) /\ answers'[r] = answers[r]
      /\ \/ answers'[s].onSuccess = answers[s].onSuccess
         \/ answers'[s].onSuccess = answers[s].onSuccess + 1 /\ Asked(s) /\ ~Asked(s)'
  BY DEF ReportInv, Reports
<1>. DEFINE successes == answers[s].onSuccess
<1>4. successes \in Nat /\ successes <= IF Asked(s) THEN 0 ELSE 1
  BY ReportNat DEF ReportInv, ReportsLeft
<1>5. Asked(s)' => Asked(s)
  BY DEF Asked
<1>6. answers'[s].onSuccess <= IF Asked(s)' THEN 0 ELSE 1
  <2>1. CASE answers'[s].onSuccess = successes
    BY <1>4, <1>5, <2>1
  <2>2. CASE answers'[s].onSuccess = successes + 1 /\ Asked(s) /\ ~Asked(s)'
    BY <1>4, <2>2
  <2>. QED BY <1>1, <2>1, <2>2
<1>2. ASSUME NEW r \in Request
      PROVE  ReportsLeft(r)'
  <2>1. Reports(r) \in Nat /\ ReportsLeft(r) /\ answers[r].onSuccess \in Nat
    BY ReportNat DEF ReportInv
  <2>2. Asked(r)' => Asked(r)
    BY DEF Asked
  <2>3. CASE r # s
    BY <1>1, <2>1, <2>2, <2>3 DEF ReportsLeft
  <2>4. CASE r = s
    <3>1. timers \subseteq Timed \cap requested
      BY DEF ReportInv
    <3>2. CASE s \in timers
      BY <1>1, <1>6, <2>1, <2>4, <3>1, <3>2 DEF ReportsLeft
    <3>3. CASE s \notin timers
      <4>1. Asked(s) /\ ~Asked(s)'
        BY <3>3 DEF Asked
      <4>. QED BY <1>1, <1>6, <2>1, <2>4, <3>1, <3>3, <4>1 DEF ReportsLeft
    <3>. QED BY <3>2, <3>3
  <2>. QED BY <2>3, <2>4
<1>3. \A i, j \in DOMAIN sentMessages' :
         sentMessages'[i].item = sentMessages'[j].item /\ sentMessages'[i].item \in Request =>
            i = j
  BY DEF ReportInv
<1>. QED BY <1>1, <1>2, <1>3 DEF ReportInv

LEMMA HandledReports ==
    ASSUME Calm, ClientInv, ReportInv, HandleMessage
    PROVE  ReportInv'
<1>1. frame # <<>> /\ packet \in Down /\ Match(packet) /\ Ref(packet) = packet.id
  BY ThePacket DEF ClientInv, HandleMessage
<1>2. CASE handle_CONNACK_refused
  <2>1. /\ answers' = answers /\ UNCHANGED requests /\ sentMessages' = kept
    BY <1>2 DEF handle_CONNACK_refused, callbacks
  <2>. QED BY <2>1, NoReport DEF kept, NoEntries, requests
<1>3. CASE handle_CONNACK_accepted
  <2>1. answers' = answers /\ onSuccess(first_subscription)
    BY <1>3 DEF handle_CONNACK_accepted, callbacks
  <2>2. \A id \in DOMAIN kept : /\ id \in DOMAIN sentMessages
                                /\ kept[id].item = sentMessages[id].item
    BY DEF kept, NoEntries
  <2>3. CASE first_subscription = {}
    <3>1. sentMessages' = kept /\ requested' = requested /\ timers' = timers
      BY <2>1, <2>3 DEF onSuccess
    <3>. QED BY <2>1, <2>2, <3>1, NoReport
  <2>4. CASE first_subscription # {}
    <3>1. PICK s \in Subscription \ requested : first_subscription = {s}
      BY <2>4 DEF first_subscription
    <3>2. /\ requires_ack(kept, s) /\ requested' = requested \cup {s}
          /\ timers' = timers \cup ({s} \cap Timed)
      BY <2>1, <3>1 DEF onSuccess
    <3>3. sentMessages' = With(kept, FreeId(kept), NewEntry(s)) /\ NewEntry(s).item = s
      BY <3>2 DEF requires_ack, NewEntry
    <3>. QED BY <2>1, <2>2, <3>2, <3>3, NewReport DEF Request
  <2>. QED BY <2>3, <2>4
<1>4. CASE handle_PUBLISH \/ handle_PUBREL \/ handle_PINGRESP
  <2>1. UNCHANGED <<answers, requested, timers, sentMessages>>
    BY <1>4 DEF handle_PUBLISH, handle_PUBREL, handle_PINGRESP, callbacks, page, requests,
                session
  <2>. QED BY <2>1, NoReport
<1>5. CASE handle_PUBACK \/ handle_PUBCOMP
  <2>1. /\ UNCHANGED <<answers, requested, timers>>
        /\ sentMessages' \in {sentMessages, Without(sentMessages, packet.id)}
    BY <1>5 DEF handle_PUBACK, handle_PUBCOMP, quiet_handler, forget
  <2>. QED BY <2>1, NoReport DEF Without
<1>6. CASE handle_PUBREC
  <2>1. UNCHANGED <<answers, requested, timers>>
    BY <1>6 DEF handle_PUBREC, callbacks, page, requests
  <2>2. CASE UNCHANGED sentMessages
    BY <2>1, <2>2, NoReport
  <2>3. CASE in_flight(packet.id)
    <3>1. sentMessages' = [sentMessages EXCEPT ![packet.id] =
                              [sentMessages[packet.id] EXCEPT !.pubRecReceived = TRUE]]
      BY <1>6, <2>3 DEF handle_PUBREC
    <3>2. sentMessages[packet.id] \in Flight
      BY <2>3 DEF ClientInv, Memory, in_flight
    <3>3. \A id \in DOMAIN sentMessages' :
             id \in DOMAIN sentMessages /\ sentMessages'[id].item = sentMessages[id].item
      BY <2>3, <3>1, <3>2 DEF Flight, in_flight
    <3>. QED BY <2>1, <3>3, NoReport
  <2>. QED BY <1>6, <2>2, <2>3 DEF handle_PUBREC
<1>7. CASE handle_request_ack
  <2>1. requested' = requested
    BY <1>7 DEF handle_request_ack, quiet_handler
  <2>2. CASE ~in_flight(packet.id)
    BY <1>7, <2>1, <2>2, NoReport DEF handle_request_ack
  <2>3. CASE in_flight(packet.id)
    <3>1. PICK s : s = sentMessages[packet.id].item
      OBVIOUS
    <3>2. s \in Request /\ Asked(s)
      <4>1. sentMessages[packet.id].item \in Item
        BY <2>3 DEF ClientInv, Memory, in_flight, Flight
      <4>2. packet.id # 0
        BY <2>3, BegunItems DEF ClientInv, Memory, in_flight
      <4>3. s \notin Message
        BY <1>1, <1>7, <3>1, <4>2 DEF Match, Fits, handle_request_ack
      <4>. QED BY <2>3, <3>1, <4>1, <4>3 DEF Item, Request, Asked, in_flight
    <3>3. /\ sentMessages' = Without(sentMessages, packet.id) /\ timers' = timers \ {s}
          /\ \/ answers' = [answers EXCEPT ![s].onFailure = @ + 1]
             \/ answers' = [answers EXCEPT ![s].onSuccess = @ + 1]
      BY <1>7, <2>3, <3>1 DEF handle_request_ack
    <3>4. \A id \in DOMAIN sentMessages' :
             /\ id \in DOMAIN sentMessages /\ sentMessages'[id].item = sentMessages[id].item
             /\ sentMessages[id].item # s
      BY <2>3, <3>1, <3>2, <3>3 DEF Without, ReportInv, in_flight
    <3>5. ~Asked(s)'
      BY <3>4 DEF Asked
    <3>. QED BY <2>1, <3>2, <3>3, <3>4, <3>5, Reported
  <2>. QED BY <2>2, <2>3
<1>8. ~handle_CONNACK_quits
  BY EmptyRefs DEF ClientInv, Sockets, handle_CONNACK_quits
<1>9. ~handle_EXCEPTION
  BY <1>1 DEF handle_EXCEPTION, Down, Answer
<1>. QED BY <1>2, <1>3, <1>4, <1>5, <1>6, <1>7, <1>8, <1>9 DEF HandleMessage

LEMMA ReportStep ==
    ASSUME Calm, ClientInv, ReportInv, [Next]_vars
    PROVE  ReportInv'
<1>1. CASE PageSends
  <2>1. PICK m \in Message : Send(m)
    BY <1>1 DEF PageSends
  <2>2. UNCHANGED <<answers, requested, timers>>
    BY <2>1 DEF Send, requests
  <2>3. CASE sentMessages' = sentMessages
    BY <2>2, <2>3, NoReport
  <2>4. CASE requires_ack(sentMessages, m)
    <3>1. sentMessages' = With(sentMessages, FreeId(sentMessages), NewEntry(m))
      BY <2>4 DEF requires_ack, NewEntry
    <3>2. NewEntry(m).item \in Message
      BY DEF NewEntry
    <3>. QED BY <2>2, <3>1, <3>2, NoReport DEF With
  <2>. QED BY <2>1, <2>3, <2>4 DEF Send, session
<1>2. CASE PageAsks
  <2>1. PICK s \in Request : Ask(s)
    BY <1>2 DEF PageAsks, subscribe, unsubscribe, Request
  <2>2. /\ s \notin requested /\ answers' = answers
        /\ requested' = requested \cup {s} /\ timers' = timers \cup ({s} \cap Timed)
        /\ sentMessages' = With(sentMessages, FreeId(sentMessages), NewEntry(s))
        /\ NewEntry(s).item = s
    BY <2>1 DEF Ask, requires_ack, NewEntry, callbacks
  <2>. QED BY <2>2, NewReport
<1>3. CASE PageReloads
  <2>1. /\ UNCHANGED <<answers, requested>> /\ timers' = {}
        /\ sentMessages' = Mirror(sentMessages)
    BY <1>3 DEF PageReloads, Reload, callbacks, ClientInv, Memory
  <2>. QED BY <2>1, NoReport DEF Mirror
<1>4. CASE RequestsTimeOut
  <2>1. PICK s \in timers : RequestTimeout(s)
    BY <1>4 DEF RequestsTimeOut
  <2>2. s \in Request
    BY DEF ClientInv, Memory, Request
  <2>3. /\ UNCHANGED <<requested, sentMessages>> /\ timers' = timers \ {s}
        /\ answers' = [answers EXCEPT ![s].onFailure = @ + 1]
    BY <2>1 DEF RequestTimeout, session
  <2>. QED BY <2>2, <2>3, Reported
<1>5. CASE Handles
  BY <1>5, HandledReports DEF Handles
<1>6. ASSUME PageConnects \/ PageDisconnects \/ Opens \/ Closes \/ TakesTooLong \/ Pings
                \/ Receives \/ UNCHANGED client
      PROVE  ReportInv'
  <2>1. UNCHANGED <<answers, requested, timers, sentMessages>>
    <3>1. CASE PageConnects \/ PageDisconnects
      BY <3>1 DEF PageConnects, PageDisconnects, Connect, Disconnect, session, callbacks,
                  requests
    <3>2. CASE Opens \/ Receives
      BY <3>2 DEF Opens, Receives, on_socket_open, on_socket_message, session, callbacks,
                  page, requests
    <3>3. CASE Closes \/ TakesTooLong \/ Pings
      BY <3>3 DEF Closes, TakesTooLong, Pings, on_socket_close, ConnectTimeout, SendPing,
                  ReceivePing, ZombiePing, session, callbacks, requests
    <3>4. CASE UNCHANGED client
      BY <3>4 DEF client, session, callbacks, page, requests
    <3>. QED BY <1>6, <3>1, <3>2, <3>3, <3>4
  <2>. QED BY <2>1, NoReport
<1>7. (ServerReceives \/ ServerDrops \/ \E m \in Arriving : ServerPublishes(m)) =>
         UNCHANGED client
  BY DEF ServerReceives, ServerConnect, ServerServes, ServerIgnores, Reply, ServerDrops,
         ServerPublishes
<1>8. Break \/ UNCHANGED vars => UNCHANGED client
  BY DEF Break, vars
<1>. QED BY <1>1, <1>2, <1>3, <1>4, <1>5, <1>6, <1>7, <1>8 DEF Next, ClientNext, InPage

(***************************************************************************)
(* A request is reported once, and at most once more when it has a timeout *)
(* and the answer comes later; its success is reported at most once, and   *)
(* one that was reported does not time out                                 *)
(* (Timeout, _requires_ack and the SUBACK and UNSUBACK cases of            *)
(* _handleMessage).                                                        *)
(***************************************************************************)
THEOREM RequestsAnswered == Calm /\ Few => (Spec => []RequestsReported)
<1> SUFFICES ASSUME Calm, Few PROVE Spec => []RequestsReported
  OBVIOUS
<1>1. Init => ReportInv
  <2> SUFFICES ASSUME Init PROVE ReportInv
    OBVIOUS
  <2>1. /\ timers = {} /\ requested = {} /\ sentMessages = NoEntries
        /\ answers = [r \in Request |-> [onSuccess |-> 0, onFailure |-> 0]]
    BY DEF Init, ClientInit, Request
  <2>2. \A r \in Request : Reports(r) = 0 /\ ~Asked(r)
    BY <2>1 DEF Reports, Asked, NoEntries
  <2>. QED BY <2>1, <2>2 DEF ReportInv, ReportsLeft, NoEntries
<1>2. ClientInv /\ ReportInv /\ [Next]_vars => ReportInv'
  BY ReportStep
<1>3. ReportInv => RequestsReported
  BY DEF ReportInv, ReportsLeft, Reports, Request, RequestsReported
<1>. QED BY <1>1, <1>2, <1>3, ClientInvariance, PTL DEF Spec
=============================================================================
