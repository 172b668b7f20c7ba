------------------------- MODULE PahoDeliveryProofs -------------------------
(***************************************************************************)
(* Proofs about what Paho.tla promises of the messages themselves: that a  *)
(* QoS 2 message arrives at most once, that none is lost, and that they    *)
(* arrive in the order of sending.                                         *)
(***************************************************************************)
EXTENDS PahoProofs

-----------------------------------------------------------------------------
(* The invariants of delivery *)

(***************************************************************************)
(* The messages in flight from the page, as localStorage has them; packets *)
(* that carry one, and packets that answer one.                            *)
(***************************************************************************)
Store == localStorage.Sent

Sending == {"PUBLISH", "PUBREL"}
Receipt == {"PUBACK", "PUBREC", "PUBCOMP"}

Known == ToSet(got)

(***************************************************************************)
(* Each message in flight has one entry.  A packet to the server carries a *)
(* message that was sent, and one with an identifier, even of a connection *)
(* that has ended, has its entry, which tells at which stage it is.        *)
(***************************************************************************)
Stored(p) ==
    p.type \in Sending /\ p.id # 0 =>
        /\ p.id \in DOMAIN Store
        /\ Store[p.id].item = p.what
        /\ Store[p.id].pubRecReceived <=> p.type = "PUBREL"

(* What the server has answered is not on its way to it any more. *)
Apart(p) ==
    \A q \in ToSet(to_server) : q.type \in Sending /\ q.id = p.id => p.id = 0

Book ==
    /\ \A a, b \in DOMAIN Store : Store[a].item = Store[b].item => a = b
    /\ \A a \in DOMAIN Store : Store[a].item \in ToSet(sent)
    /\ Known \subseteq ToSet(sent)
    /\ \A p \in ToSet(to_server) :
          /\ p.type = "PUBLISH" => p.what \in ToSet(sent)
          /\ p.type = "PUBLISH" /\ p.id = 0 => QoS[p.what] = 0
          /\ Stored(p)
    /\ \A p \in ToSet(Pipe) : p.type \in Receipt => Apart(p)

(***************************************************************************)
(* A QoS 2 message the server has is published again only while the server *)
(* remembers its identifier.                                               *)
(***************************************************************************)
Unreleased(a) == QoS[Store[a].item] = 2 /\ ~Store[a].pubRecReceived

Once ==
    /\ \A m \in Message : QoS[m] = 2 => Count(m) <= 1
    /\ \A p \in ToSet(to_server) :
          p.type = "PUBLISH" /\ QoS[p.what] = 2 /\ p.what \in Known => p.id \in incoming
    /\ ~CleanSession \/ connected =>
          \A a \in DOMAIN Store :
             Unreleased(a) /\ Store[a].item \in Known => a \in incoming

(***************************************************************************)
(* In a session that outlives its connections: what the server remembers,  *)
(* has marked or answers is a message it has, and what it has completed it *)
(* does not remember any more.                                             *)
(***************************************************************************)
Safe ==
    /\ \A n \in incoming : /\ n \in DOMAIN Store /\ QoS[Store[n].item] = 2
                           /\ Store[n].item \in Known
    /\ \A a \in DOMAIN Store : Store[a].pubRecReceived => Store[a].item \in Known
    /\ \A p \in ToSet(Pipe) :
          /\ p.type \in Receipt /\ p.id \in DOMAIN Store => Store[p.id].item \in Known
          /\ p.type = "PUBCOMP" => p.id \notin incoming

Accounts ==
    \A m \in ToSet(sent) : QoS[m] > 0 =>
        \/ delivered[m] = 1 /\ m \in Known /\ ~Pending(m)
        \/ delivered[m] = 0 /\ Pending(m)

Counters ==
    /\ reloads \in Nat
    /\ delivered \in [Message -> Nat]
    /\ \A m \in Message \ ToSet(sent) : delivered[m] = 0

(***************************************************************************)
(* The order of sending: sequence numbers follow it, a connection that     *)
(* works carries what the server has not got, and each message travels     *)
(* behind those sent before it that the server has not got.                *)
(***************************************************************************)
Before(m, n) ==
    \E i, j \in DOMAIN sent : i < j /\ sent[i] = m /\ sent[j] = n

Carries(p, m) == p.type = "PUBLISH" /\ p.what = m

(* A packet in the queue q, before position k, carries m. *)
Behind(q, k, m) == \E i \in DOMAIN q : i < k /\ Carries(q[i], m)

InOrder(q) ==
    \A k \in DOMAIN q, n \in Message : Carries(q[k], n) /\ QoS[n] > 0 =>
        \A m \in Message \ Known : QoS[m] > 0 /\ Before(m, n) => Behind(q, k, m)

Ordered ==
    /\ \A a, b \in DOMAIN Store :
          Before(Store[a].item, Store[b].item) => Store[a].sequence < Store[b].sequence
    /\ \A a \in DOMAIN Store : Store[a].sequence <= sequence
    /\ connected /\ link /\ online =>
          \A a \in DOMAIN Store :
             Store[a].item \in Known \/ \E p \in ToSet(to_server) : Carries(p, Store[a].item)
    /\ online => InOrder(to_server)
    /\ \A m, n \in Message : /\ QoS[m] > 0 /\ QoS[n] > 0
                             /\ Before(m, n) /\ n \in Known
                             => m \in Known

(***************************************************************************)
(* The other direction.  A QoS 2 message travels to the page at most once  *)
(* at a time, before the client has acknowledged it; it is released after  *)
(* that, and what the page got the client does not keep.                   *)
(***************************************************************************)
Reliable == {m \in Arriving : QoS[m] = 2}

Brings(p, m) == p.type = "PUBLISH" /\ p.what = m
Tells(q, type, m) == \E p \in ToSet(q) : p.type = type /\ p.what = m

Single(q) ==
    \A i, j \in DOMAIN q, m \in Reliable : Brings(q[i], m) /\ Brings(q[j], m) => i = j

Tracked(m) ==
    /\ Tells(Pipe, "PUBLISH", m) => outgoing[m] = "pub" /\ ~Tells(to_server, "PUBREC", m)
    /\ Tells(Pipe, "PUBREL", m) => outgoing[m] \in {"rel", "done"}
    /\ Tells(to_server, "PUBREC", m) => outgoing[m] # "new"
    /\ ~Tells(to_server, "PUBACK", m)
    /\ arrived[m] <= 1
    /\ arrived[m] = 1 => outgoing[m] \in {"rel", "done"} /\ m \notin receivedMessages

Arrivals ==
    /\ arrived \in [Arriving -> Nat]
    /\ Single(Pipe)
    /\ \A m \in Reliable : Tracked(m)

(***************************************************************************)
(* In a session that outlives its connections, what the client has         *)
(* acknowledged it keeps or the page has got.                              *)
(***************************************************************************)
Held(m) == m \in receivedMessages \/ arrived[m] = 1

Safely(m) ==
    /\ outgoing[m] = "rel" \/ Tells(to_server, "PUBREC", m) => Held(m)
    /\ outgoing[m] = "done" \/ Tells(to_server, "PUBCOMP", m) => arrived[m] = 1

Arrives == \A m \in Reliable : Safely(m)

-----------------------------------------------------------------------------
(* What a step does to the messages of the page *)

TablesKept == UNCHANGED <<sent, delivered>> /\ Store' = Store
ServerKept == UNCHANGED <<got, incoming>>
PageKept   == UNCHANGED <<sequence, reloads>>

Fewer(q) == ToSet(q') \subseteq ToSet(q)

(***************************************************************************)
(* Nothing of an exchange is sent, served or answered.                     *)
(***************************************************************************)
QueuePasses ==
    \/ to_server' = to_server
    \/ \E p \in Up : /\ p.type \notin Sending
                     /\ to_server' = Append(to_server, p)
    \/ /\ to_server # <<>> /\ to_server' = Tail(to_server)
       /\ Head(to_server).type \notin Sending \/ ~online'
    \/ \E i \in DOMAIN to_server : /\ to_server[i].type = "CONNECT"
                                   /\ to_server' = SubSeq(to_server, i, Len(to_server))

Passes ==
    /\ TablesKept /\ ServerKept /\ (PageKept \/ reloads' = reloads + 1)
    /\ QueuePasses
    /\ \A p \in ToSet(Pipe') : p \in ToSet(Pipe) \/ p.type \notin Receipt
    /\ connected' => connected
    /\ connected' /\ link' => link
    /\ online' => online

(***************************************************************************)
(* The page sends m.                                                       *)
(***************************************************************************)
NewMessage(m) == [item |-> m, sequence |-> sequence + 1, pubRecReceived |-> FALSE]

Sends(m) ==
    /\ connected /\ m \notin ToSet(sent) /\ sent' = Append(sent, m)
    /\ ServerKept /\ reloads' = reloads
    /\ UNCHANGED <<connected, link, online>> /\ Pipe' = Pipe
    /\ \/ /\ QoS[m] = 0
          /\ delivered' = [delivered EXCEPT ![m] = @ + 1]
          /\ Store' = Store /\ sequence' = sequence
          /\ socket_send(<<Packet("PUBLISH", 0, m)>>)
       \/ /\ QoS[m] # 0
          /\ delivered' = delivered
          /\ \E a \in Nat \ {0} :
                /\ a \notin DOMAIN sentMessages
                /\ Store' = With(Store, a, NewMessage(m))
                /\ sequence' = sequence + 1
                /\ socket_send(<<Packet("PUBLISH", a, m)>>)

(***************************************************************************)
(* The client handles the answer to a message in flight.                   *)
(***************************************************************************)
Acknowledged(a, type) ==
    /\ connected /\ a \in DOMAIN Store
    /\ \E p \in ToSet(Pipe) : p.type = type /\ p.id = a
    /\ Fewer(Pipe)
    /\ \A p \in ToSet(Pipe') : p.type \in Receipt => p.id # a
    /\ sent' = sent /\ ServerKept /\ PageKept
    /\ UNCHANGED <<connected, link, online>>

Marks(a) ==
    /\ Acknowledged(a, "PUBREC") /\ QoS[Store[a].item] = 2
    /\ delivered' = delivered
    /\ Store' = With(Store, a, [Store[a] EXCEPT !.pubRecReceived = TRUE])
    /\ socket_send(<<Packet("PUBREL", a, Store[a].item)>>)

Finishes(a) ==
    /\ \/ Acknowledged(a, "PUBACK") /\ QoS[Store[a].item] = 1
       \/ Acknowledged(a, "PUBCOMP") /\ QoS[Store[a].item] = 2
    /\ delivered' = [m \in Message |-> delivered[m] + IF m = Store[a].item THEN 1 ELSE 0]
    /\ Store' = Without(Store, a)
    /\ to_server' = to_server

(***************************************************************************)
(* A connection is greeted: the messages in flight are sent again, in      *)
(* order unless a request is in flight too; or a clean session begins.     *)
(***************************************************************************)
Sorted(q) ==
    \A k \in DOMAIN q, a, b \in DOMAIN Store :
        /\ Carries(q[k], Store[b].item)
        /\ ~Store[a].pubRecReceived /\ Store[a].sequence < Store[b].sequence
        => Behind(q, k, Store[a].item)

Resumes ==
    /\ ~CleanSession /\ ~connected /\ connected' /\ UNCHANGED <<link, online>>
    /\ OpeningOnly(to_server)
    /\ TablesKept /\ ServerKept /\ PageKept
    /\ Fewer(Pipe) /\ \A p \in ToSet(Pipe') : p.type \in Receipt => p.id = 0
    /\ \E out \in Seq(Up) :
          /\ socket_send(out)
          /\ \A p \in ToSet(out) :
                p.type \in Sending => p.id # 0 /\ Stored(p)
          /\ \A a \in DOMAIN Store :
                ~Store[a].pubRecReceived => \E p \in ToSet(out) : Carries(p, Store[a].item)
          /\ Subscription \cup Unsubscription = {} => Sorted(out)

Forgets ==
    /\ CleanSession /\ ~connected
    /\ DOMAIN Store' = {} /\ UNCHANGED <<sent, delivered, reloads>>
    /\ ServerKept
    /\ Fewer(Pipe)
    /\ \A p \in ToSet(to_server') : p.type \notin Sending

(***************************************************************************)
(* The server takes a packet with a message, or a CONNECT.                 *)
(***************************************************************************)
Acknowledges(types) ==
    \A p \in ToSet(Pipe') :
        \/ p \in ToSet(Pipe)
        \/ p.type \notin Receipt
        \/ p.type \in types /\ p.id = Arrival.id /\ Apart(p)'

Served ==
    /\ to_server # <<>> /\ to_server' = Tail(to_server)
    /\ TablesKept /\ PageKept /\ UNCHANGED <<connected, link>>

Takes ==
    LET m == Arrival.what IN
    /\ Served /\ online /\ online' = online
    /\ Arrival.type = "PUBLISH" /\ m \in Message
    /\ got' = IF QoS[m] = 2 /\ Arrival.id \in incoming THEN got ELSE Append(got, m)
    /\ incoming' = IF QoS[m] = 2 THEN incoming \cup {Arrival.id} ELSE incoming
    /\ Acknowledges({"PUBACK", "PUBREC"})

Releases ==
    /\ Served /\ online /\ online' = online
    /\ Arrival.type = "PUBREL" /\ Arrival.id # 0
    /\ got' = got /\ incoming' = incoming \ {Arrival.id}
    /\ Acknowledges({"PUBCOMP"})

Starts ==
    /\ Served /\ ~connected
    /\ Arrival.type = "CONNECT" /\ OpeningOnly(to_server')
    /\ got' = got /\ incoming' = IF CleanSession THEN {} ELSE incoming
    /\ Acknowledges({})

SenderStep ==
    \/ Passes \/ Resumes \/ Forgets \/ Takes \/ Releases \/ Starts
    \/ \E m \in Message : Sends(m)
    \/ \E a \in DOMAIN Store : Marks(a) \/ Finishes(a)

-----------------------------------------------------------------------------
(* What a step does to the QoS 2 messages for the page *)

(***************************************************************************)
(* What is new in a queue says nothing of a kind about a reliable message. *)
(***************************************************************************)
NoNews(q, types) ==
    \A p \in ToSet(q') : p \in ToSet(q) \/ p.what \notin Reliable \/ p.type \notin types


PipeFades == (Single(Pipe) => Single(Pipe)') /\ NoNews(Pipe, Sending)

PageHolds ==
    /\ receivedMessages' \cap Reliable = receivedMessages \cap Reliable
    /\ \/ arrived' = arrived
       \/ \E m \in Arriving \ Reliable : arrived' = [arrived EXCEPT ![m] = @ + 1]

ServerHolds == \A m \in Reliable : outgoing'[m] = outgoing[m]

Idles ==
    /\ \/ PageHolds
       \/ CleanSession /\ receivedMessages' = {} /\ arrived' = arrived
    /\ ServerHolds
    /\ PipeFades
    /\ NoNews(to_server, Receipt)

Announces(m) ==
    /\ outgoing[m] = "new"
    /\ \/ outgoing' = [outgoing EXCEPT ![m] = "pub"]
       \/ CleanSession /\ Pipe' = Pipe /\ outgoing' = [outgoing EXCEPT ![m] = "done"]
    /\ UNCHANGED <<arrived, receivedMessages, to_server>>
    /\ Pipe' = Pipe \/ Pipe' = Append(Pipe, Packet("PUBLISH", 0, m))

Handled(type, m, reply) ==
    /\ Pipe # <<>> /\ Head(Pipe).type = type /\ Head(Pipe).what = m /\ Pipe' = Tail(Pipe)
    /\ outgoing' = outgoing
    /\ \A p \in ToSet(to_server') : p \in ToSet(to_server) \/ p = Packet(reply, 0, m)

Stores(m) ==
    /\ Handled("PUBLISH", m, "PUBREC")
    /\ arrived' = arrived /\ receivedMessages' = receivedMessages \cup {m}

Hands(m) ==
    /\ Handled("PUBREL", m, "PUBCOMP")
    /\ arrived' = IF m \in receivedMessages THEN [arrived EXCEPT ![m] = @ + 1] ELSE arrived
    /\ receivedMessages' = receivedMessages \ {m}

Taken(types, m) ==
    /\ to_server # <<>> /\ to_server' = Tail(to_server)
    /\ Arrival.type \in types /\ Arrival.what = m
    /\ UNCHANGED <<arrived, receivedMessages>>

Records(m) ==
    /\ Taken({"PUBREC"}, m) /\ Step(m, "pub", "rel")
    /\ \/ Pipe' = Pipe
       \/ outgoing[m] # "done" /\ Pipe' = Append(Pipe, Packet("PUBREL", 0, m))

Completes(m) ==
    /\ Taken({"PUBACK", "PUBCOMP"}, m) /\ Step(m, "rel", "done")
    /\ Pipe' = Pipe

Renews ==
    /\ UNCHANGED <<arrived, receivedMessages>>
    /\ OpeningOnly(to_server')
    /\ outgoing' = IF CleanSession
                   THEN [m \in Arriving |-> IF outgoing[m] = "new" THEN "new" ELSE "done"]
                   ELSE outgoing
    /\ Single(Pipe)'
    /\ \A p \in ToSet(Pipe') :
          /\ p.type = "PUBLISH" => outgoing'[p.what] = "pub"
          /\ p.type = "PUBREL" => outgoing'[p.what] = "rel"

ReceiverStep ==
    \/ Idles \/ Renews
    \/ \E m \in Reliable : Announces(m) \/ Stores(m) \/ Hands(m) \/ Records(m) \/ Completes(m)

-----------------------------------------------------------------------------
(* Facts about the tables and the queues *)

LEMMA StoreFacts ==
    ASSUME ClientInv
    PROVE  /\ Store = Mirror(sentMessages)
           /\ DOMAIN Store = {a \in DOMAIN sentMessages : sentMessages[a].item \in Message}
           /\ \A a \in DOMAIN Store :
                 /\ a \in Nat \ {0} /\ a \in DOMAIN sentMessages
                 /\ Store[a] = sentMessages[a] /\ Store[a] \in Flight
                 /\ Store[a].item \in Message /\ QoS[Store[a].item] \in {1, 2}
                 /\ Store[a].pubRecReceived \in BOOLEAN /\ Store[a].sequence \in Nat
                 /\ Store[a].pubRecReceived => QoS[Store[a].item] = 2
<1>1. /\ Store = Mirror(sentMessages)
      /\ sentMessages \in [DOMAIN sentMessages -> Flight]
      /\ DOMAIN sentMessages \subseteq 1 .. Cardinality(Begun)
  BY DEF ClientInv, Memory, Store
<1>2. /\ DOMAIN Store = {a \in DOMAIN sentMessages : sentMessages[a].item \in Message}
      /\ \A a \in DOMAIN Store : Store[a] = sentMessages[a]
  BY <1>1 DEF Mirror
<1>3. ASSUME NEW a \in DOMAIN Store
      PROVE  /\ a \in Nat \ {0}
             /\ QoS[Store[a].item] \in {1, 2}
             /\ Store[a].pubRecReceived \in BOOLEAN /\ Store[a].sequence \in Nat
             /\ Store[a].pubRecReceived => QoS[Store[a].item] = 2
  <2>1. Store[a] \in Flight /\ Store[a].item \in Message
    BY <1>1, <1>2
  <2>2. a \in Nat \ {0}
    BY <1>1, <1>2
  <2>. QED BY <2>1, <2>2, ClientAssumption DEF Flight
<1>. QED BY <1>1, <1>2, <1>3

LEMMA SubSeqMembers ==
    ASSUME NEW S, NEW q \in Seq(S), NEW i \in DOMAIN q
    PROVE  ToSet(SubSeq(q, i, Len(q))) \subseteq ToSet(q)
<1> DEFINE t == SubSeq(q, i, Len(q))
           n == Len(q)
<1>1. DOMAIN q = 1 .. n /\ n \in Nat /\ i \in 1 .. n
  BY LenProperties
<1>2. \A k \in i .. n : k \in 1 .. n
  BY <1>1
<1>3. /\ t \in Seq(S) /\ Len(t) = IF i <= n THEN n - i + 1 ELSE 0
      /\ \A k \in 1 .. (n - i + 1) : t[k] = q[i + k - 1]
  BY <1>1, <1>2, SubSeqProperties
<1>4. DOMAIN t = 1 .. (n - i + 1)
  BY <1>1, <1>3, LenProperties
<1>. HIDE DEF t, n
<1>5. \A k \in 1 .. (n - i + 1) : i + k - 1 \in 1 .. n
  BY <1>1
<1>6. \A k \in DOMAIN t : t[k] \in ToSet(q)
  BY <1>1, <1>3, <1>4, <1>5 DEF ToSet
<1>7. ToSet(t) \subseteq ToSet(q)
  BY <1>6 DEF ToSet
<1>. QED BY <1>7 DEF t

LEMMA QueueTypes ==
    ASSUME ClientInv
    PROVE  /\ to_server \in Seq(Up) /\ Pipe \in Seq(Down)
           /\ got \in Seq(Message) /\ sent \in Seq(Message)
           /\ Known \subseteq Message /\ ToSet(sent) \subseteq Message
           /\ \A p \in ToSet(to_server) : p \in Up
           /\ \A p \in ToSet(Pipe) : p \in Down
<1>1. /\ to_server \in Seq(Up) /\ Pipe \in Seq(Down)
      /\ got \in Seq(Message) /\ sent \in Seq(Message)
  BY PipeType DEF ClientInv, Protocol, Wires, ServerTypes, Memory
<1>2. \A S, q : q \in Seq(S) => \A p \in ToSet(q) : p \in S
  BY ElementOfSeq DEF ToSet
<1>. QED BY <1>1, <1>2 DEF Known

LEMMA QueuePassed ==
    ASSUME ClientInv, QueuePasses
    PROVE  \A p \in ToSet(to_server') : p \in ToSet(to_server) \/ p.type \notin Sending
<1>1. to_server \in Seq(Up)
  BY QueueTypes
<1>2. CASE to_server' = to_server
  BY <1>2
<1>3. CASE \E p \in Up : p.type \notin Sending /\ to_server' = Append(to_server, p)
  BY <1>1, <1>3, AppendRefs
<1>4. CASE to_server # <<>> /\ to_server' = Tail(to_server)
  BY <1>1, <1>4, TailRefs
<1>5. CASE \E i \in DOMAIN to_server : to_server' = SubSeq(to_server, i, Len(to_server))
  BY <1>1, <1>5, SubSeqMembers
<1>. QED BY <1>2, <1>3, <1>4, <1>5 DEF QueuePasses

LEMMA QueueSent ==
    ASSUME ClientInv, NEW p \in Up, socket_send(<<p>>)
    PROVE  /\ to_server' = IF link THEN Append(to_server, p) ELSE to_server
           /\ ToSet(to_server') \subseteq ToSet(to_server) \cup {p}
           /\ ToSet(to_server) \subseteq ToSet(to_server')
           /\ link => p \in ToSet(to_server')
<1>1. to_server \in Seq(Up)
  BY QueueTypes
<1>2. to_server \o <<p>> = Append(to_server, p)
  BY <1>1, AppendIsConcat
<1>3. ToSet(Append(to_server, p)) = ToSet(to_server) \cup {p}
  BY <1>1, AppendRefs
<1>. QED BY <1>1, <1>2, <1>3 DEF socket_send

LEMMA QueueServed ==
    ASSUME ClientInv, to_server # <<>>
    PROVE  /\ Arrival \in Up /\ Arrival \in ToSet(to_server)
           /\ ToSet(to_server) = {Arrival} \cup ToSet(Tail(to_server))
           /\ ToSet(Tail(to_server)) \subseteq ToSet(to_server)
<1>1. to_server \in Seq(Up)
  BY QueueTypes
<1>. QED BY <1>1, TailRefs DEF Arrival

LEMMA SentMembers ==
    ASSUME ClientInv, NEW m \in Message, sent' = Append(sent, m)
    PROVE  ToSet(sent') = ToSet(sent) \cup {m}
BY QueueTypes, AppendRefs

LEMMA PagePacket ==
    /\ \A m \in Message, a \in Nat : Packet("PUBLISH", a, m) \in Up
    /\ \A m \in Message, a \in Nat \ {0} : Packet("PUBREL", a, m) \in Up
BY DEF Packet, Up, Question, Word, Ref, Item

-----------------------------------------------------------------------------
(* The messages of the page arrive at most once, and none is lost *)

SenderInv ==
    /\ Book /\ Counters /\ Once
    /\ ~CleanSession => Safe /\ Accounts

LEMMA TablesSame ==
    ASSUME TablesKept
    PROVE  /\ Store' = Store /\ sent' = sent /\ delivered' = delivered
           /\ \A m : Pending(m)' <=> Pending(m)
           /\ \A a : Unreleased(a)' <=> Unreleased(a)
           /\ \A p : Stored(p)' <=> Stored(p)
BY DEF TablesKept, Store, Pending, Unreleased, Stored

LEMMA ServerQuiet ==
    ASSUME ServerKept
    PROVE  /\ got' = got /\ incoming' = incoming /\ Known' = Known
           /\ \A m : Count(m)' = Count(m)
BY DEF ServerKept, Known, Count

LEMMA PassesInv ==
    ASSUME ClientInv, SenderInv, Passes
    PROVE  SenderInv'
<1>1. /\ TablesKept /\ ServerKept /\ reloads' \in {reloads, reloads + 1}
      /\ \A p \in ToSet(Pipe') : p \in ToSet(Pipe) \/ p.type \notin Receipt
      /\ connected' => connected
      /\ \A p \in ToSet(to_server') : p \in ToSet(to_server) \/ p.type \notin Sending
  BY QueuePassed DEF Passes, PageKept
<1>2. /\ Store' = Store /\ sent' = sent /\ delivered' = delivered
      /\ got' = got /\ incoming' = incoming /\ Known' = Known
      /\ \A m : Pending(m)' <=> Pending(m)
      /\ \A a : Unreleased(a)' <=> Unreleased(a)
      /\ \A p : Stored(p)' <=> Stored(p)
      /\ \A m : Count(m)' = Count(m)
  BY <1>1, TablesSame, ServerQuiet
<1>3. Book'
  <2>1. \A p \in ToSet(to_server') :
           /\ p.type = "PUBLISH" => p.what \in ToSet(sent)
           /\ p.type = "PUBLISH" /\ p.id = 0 => QoS[p.what] = 0
           /\ Stored(p)
    BY <1>1 DEF SenderInv, Book, Stored, Sending
  <2>2. ASSUME NEW p \in ToSet(Pipe'), p.type \in Receipt
        PROVE  Apart(p)'
    BY <1>1, <2>2 DEF SenderInv, Book, Apart
  <2>. QED BY <1>2, <2>1, <2>2 DEF SenderInv, Book
<1>4. Once'
  BY <1>1, <1>2 DEF SenderInv, Once, Sending
<1>5. Counters'
  BY <1>1, <1>2 DEF SenderInv, Counters
<1>6. ASSUME ~CleanSession
      PROVE  Safe' /\ Accounts'
  <2>1. Safe'
    BY <1>1, <1>2, <1>6 DEF SenderInv, Safe, Receipt
  <2>2. Accounts'
    BY <1>2, <1>6 DEF SenderInv, Accounts
  <2>. QED BY <2>1, <2>2
<1>. QED BY <1>3, <1>4, <1>5, <1>6 DEF SenderInv

LEMMA SendsInv ==
    ASSUME ClientInv, SenderInv, NEW m \in Message, Sends(m)
    PROVE  SenderInv'
<1>1. /\ UNCHANGED <<connected, Pipe, reloads>> /\ m \notin ToSet(sent) /\ m \notin Known
      /\ ToSet(sent') = ToSet(sent) \cup {m} /\ ServerKept
  BY SentMembers DEF Sends, SenderInv, Book
<1>2. got' = got /\ incoming' = incoming /\ Known' = Known /\ \A x : Count(x)' = Count(x)
  BY <1>1, ServerQuiet
<1>3. \A a \in DOMAIN Store : /\ Store[a].item \in ToSet(sent) /\ Store[a].item # m
                              /\ a # 0 /\ a \in DOMAIN sentMessages
  BY <1>1, StoreFacts DEF SenderInv, Book
<1>4. CASE QoS[m] = 0
  <2>1. /\ Store' = Store /\ delivered' = [delivered EXCEPT ![m] = @ + 1]
        /\ socket_send(<<Packet("PUBLISH", 0, m)>>)
    BY <1>4 DEF Sends
  <2> DEFINE p == Packet("PUBLISH", 0, m)
  <2>2. p \in Up /\ p.type = "PUBLISH" /\ p.id = 0 /\ p.what = m
    BY PagePacket DEF Packet
  <2>. HIDE DEF p
  <2>3. ToSet(to_server') \subseteq ToSet(to_server) \cup {p}
    BY <2>1, <2>2, QueueSent DEF p
  <2>4. \A q : Stored(q)' <=> Stored(q)
    BY <2>1 DEF Stored
  <2>5. Book'
    <3>1. \A q \in ToSet(to_server') :
             /\ q.type = "PUBLISH" => q.what \in ToSet(sent')
             /\ q.type = "PUBLISH" /\ q.id = 0 => QoS[q.what] = 0
             /\ Stored(q)
      BY <1>1, <1>4, <2>2, <2>3 DEF SenderInv, Book, Stored
    <3>2. ASSUME NEW r \in ToSet(Pipe'), r.type \in Receipt
          PROVE  Apart(r)'
      BY <1>1, <2>2, <2>3, <3>2 DEF SenderInv, Book, Apart
    <3>. QED BY <1>1, <1>2, <2>1, <2>4, <3>1, <3>2 DEF SenderInv, Book
  <2>6. Once'
    BY <1>1, <1>2, <2>1, <2>2, <2>3 DEF SenderInv, Once, Unreleased
  <2>7. Counters'
    BY <1>1, <2>1 DEF SenderInv, Counters
  <2>8. ASSUME ~CleanSession
        PROVE  Safe' /\ Accounts'
    <3>1. Safe'
      BY <1>1, <1>2, <2>1, <2>8 DEF SenderInv, Safe
    <3>2. \A x : Pending(x)' <=> Pending(x)
      BY <2>1 DEF Pending, Store
    <3>3. \A x \in ToSet(sent) : x # m => delivered'[x] = delivered[x]
      BY <2>1, QueueTypes DEF SenderInv, Counters
    <3>4. Accounts'
      BY <1>1, <1>2, <1>4, <2>8, <3>2, <3>3 DEF SenderInv, Accounts
    <3>. QED BY <3>1, <3>4
  <2>. QED BY <2>5, <2>6, <2>7, <2>8 DEF SenderInv
<1>5. CASE QoS[m] # 0
  <2>1. delivered' = delivered
    BY <1>5 DEF Sends
  <2>2. PICK a \in Nat \ {0} : /\ a \notin DOMAIN sentMessages
                               /\ Store' = With(Store, a, NewMessage(m))
                               /\ socket_send(<<Packet("PUBLISH", a, m)>>)
    BY <1>5 DEF Sends
  <2>3. /\ a \notin DOMAIN Store /\ DOMAIN Store' = DOMAIN Store \cup {a}
        /\ Store'[a].item = m /\ Store'[a].pubRecReceived = FALSE
        /\ \A b \in DOMAIN Store : b # a /\ Store'[b] = Store[b]
    BY <1>3, <2>2 DEF With, NewMessage
  <2> DEFINE p == Packet("PUBLISH", a, m)
  <2>4. p \in Up /\ p.type = "PUBLISH" /\ p.id = a /\ p.what = m
    BY PagePacket DEF Packet
  <2>. HIDE DEF p
  <2>5. ToSet(to_server') \subseteq ToSet(to_server) \cup {p}
    BY <2>2, <2>4, QueueSent DEF p
  <2>6. \A r \in ToSet(Pipe) : r.type \in Receipt => r.id # a
    <3>1. \A r \in ToSet(Pipe) : r.type \in Receipt => Ref(r) = r.id /\ Match(r)
      BY DEF ClientInv, Protocol, Exchanges, Ref, Receipt
    <3>. QED BY <2>2, <3>1 DEF Match
  <2>7. Book'
    <3>1. \A b, c \in DOMAIN Store' : Store'[b].item = Store'[c].item => b = c
      BY <1>3, <2>3 DEF SenderInv, Book
    <3>2. \A b \in DOMAIN Store' : Store'[b].item \in ToSet(sent')
      BY <1>1, <1>3, <2>3
    <3>3. ASSUME NEW q \in ToSet(to_server')
          PROVE  /\ q.type = "PUBLISH" => q.what \in ToSet(sent')
                 /\ q.type = "PUBLISH" /\ q.id = 0 => QoS[q.what] = 0
                 /\ Stored(q)'
      <4>1. CASE q \in ToSet(to_server)
        <5>1. Stored(q)'
          BY <2>3, <4>1 DEF SenderInv, Book, Stored
        <5>. QED BY <1>1, <4>1, <5>1 DEF SenderInv, Book
      <4>2. CASE q = p
        BY <1>1, <2>3, <2>4, <4>2 DEF Stored
      <4>. QED BY <2>5, <4>1, <4>2
    <3>4. ASSUME NEW r \in ToSet(Pipe'), r.type \in Receipt
          PROVE  Apart(r)'
      BY <1>1, <2>4, <2>5, <2>6, <3>4 DEF SenderInv, Book, Apart
    <3>5. Known' \subseteq ToSet(sent')
      BY <1>1, <1>2 DEF SenderInv, Book
    <3>. QED BY <3>1, <3>2, <3>3, <3>4, <3>5 DEF Book
  <2>8. Once'
    BY <1>1, <1>2, <2>3, <2>4, <2>5 DEF SenderInv, Once, Unreleased
  <2>9. Counters'
    BY <1>1, <2>1 DEF SenderInv, Counters
  <2>10. ASSUME ~CleanSession
         PROVE  Safe' /\ Accounts'
    <3>1. Safe'
      BY <1>1, <1>2, <2>3, <2>6, <2>10 DEF SenderInv, Safe
    <3>2. Pending(m)' /\ \A x : x # m => (Pending(x)' <=> Pending(x))
      BY <1>3, <2>3 DEF Pending, Store
    <3>3. delivered[m] = 0
      BY <1>1 DEF SenderInv, Counters
    <3>4. Accounts'
      BY <1>1, <1>2, <2>1, <2>10, <3>2, <3>3 DEF SenderInv, Accounts
    <3>. QED BY <3>1, <3>4
  <2>. QED BY <2>7, <2>8, <2>9, <2>10 DEF SenderInv
<1>. QED BY <1>4, <1>5

(***************************************************************************)
(* What the server has answered of an exchange does not travel any more.   *)
(***************************************************************************)
LEMMA AcknowledgedFacts ==
    ASSUME ClientInv, SenderInv, NEW a \in DOMAIN Store, NEW type \in Receipt,
           Acknowledged(a, type)
    PROVE  /\ a # 0 /\ sent' = sent /\ connected' = connected /\ reloads' = reloads
           /\ got' = got /\ incoming' = incoming /\ Known' = Known
           /\ \A m : Count(m)' = Count(m)
           /\ ToSet(Pipe') \subseteq ToSet(Pipe)
           /\ \A p \in ToSet(Pipe') : p.type \in Receipt => p.id # a
           /\ \A q \in ToSet(to_server) : q.type \in Sending => q.id # a
           /\ ~CleanSession => /\ Store[a].item \in Known
                               /\ type = "PUBCOMP" => a \notin incoming
<1>1. a # 0
  BY StoreFacts
<1>2. PICK p \in ToSet(Pipe) : p.type = type /\ p.id = a
  BY DEF Acknowledged
<1>3. Apart(p)
  BY <1>2 DEF SenderInv, Book
<1>4. \A q \in ToSet(to_server) : q.type \in Sending => q.id # a
  BY <1>1, <1>2, <1>3 DEF Apart
<1>5. ~CleanSession => /\ Store[a].item \in Known
                       /\ type = "PUBCOMP" => a \notin incoming
  BY <1>2 DEF SenderInv, Safe
<1>6. /\ got' = got /\ incoming' = incoming /\ Known' = Known
      /\ \A m : Count(m)' = Count(m)
  BY ServerQuiet DEF Acknowledged
<1>. QED BY <1>1, <1>4, <1>5, <1>6 DEF Acknowledged, Fewer, PageKept

LEMMA MarksInv ==
    ASSUME ClientInv, SenderInv, NEW a \in DOMAIN Store, Marks(a)
    PROVE  SenderInv'
<1>1. Acknowledged(a, "PUBREC") /\ "PUBREC" \in Receipt
  BY DEF Marks, Receipt
<1>2. /\ a # 0 /\ sent' = sent /\ connected' = connected /\ reloads' = reloads
      /\ got' = got /\ incoming' = incoming /\ Known' = Known
      /\ \A m : Count(m)' = Count(m)
      /\ ToSet(Pipe') \subseteq ToSet(Pipe)
      /\ \A p \in ToSet(Pipe') : p.type \in Receipt => p.id # a
      /\ \A q \in ToSet(to_server) : q.type \in Sending => q.id # a
      /\ ~CleanSession => Store[a].item \in Known
  BY <1>1, AcknowledgedFacts
<1>3. /\ delivered' = delivered
      /\ Store' = With(Store, a, [Store[a] EXCEPT !.pubRecReceived = TRUE])
      /\ socket_send(<<Packet("PUBREL", a, Store[a].item)>>)
  BY DEF Marks
<1>4. /\ DOMAIN Store' = DOMAIN Store
      /\ \A b \in DOMAIN Store : /\ Store'[b].item = Store[b].item
                                 /\ b # a => Store'[b] = Store[b]
      /\ Store'[a].pubRecReceived = TRUE
  <2>1. Store[a] \in Flight
    BY StoreFacts
  <2>. QED BY <1>3, <2>1 DEF With, Flight
<1> DEFINE p == Packet("PUBREL", a, Store[a].item)
<1>5. p \in Up /\ p.type = "PUBREL" /\ p.id = a /\ p.what = Store[a].item
  BY StoreFacts, PagePacket DEF Packet
<1>. HIDE DEF p
<1>6. ToSet(to_server') \subseteq ToSet(to_server) \cup {p}
  BY <1>3, <1>5, QueueSent DEF p
<1>7. Book'
  <2>1. ASSUME NEW q \in ToSet(to_server')
        PROVE  /\ q.type = "PUBLISH" => q.what \in ToSet(sent)
               /\ q.type = "PUBLISH" /\ q.id = 0 => QoS[q.what] = 0
               /\ Stored(q)'
    <3>1. CASE q \in ToSet(to_server)
      <4>1. Stored(q)'
        BY <1>2, <1>4, <3>1 DEF SenderInv, Book, Stored, Sending
      <4>. QED BY <3>1, <4>1 DEF SenderInv, Book
    <3>2. CASE q = p
      BY <1>4, <1>5, <3>2 DEF Stored
    <3>. QED BY <1>6, <3>1, <3>2
  <2>2. ASSUME NEW r \in ToSet(Pipe'), r.type \in Receipt
        PROVE  Apart(r)'
    BY <1>2, <1>5, <1>6, <2>2 DEF SenderInv, Book, Apart
  <2>. QED BY <1>2, <1>4, <2>1, <2>2 DEF SenderInv, Book
<1>8. Once'
  BY <1>2, <1>4, <1>5, <1>6 DEF SenderInv, Once, Unreleased
<1>9. Counters'
  BY <1>2, <1>3 DEF SenderInv, Counters
<1>10. ASSUME ~CleanSession
       PROVE  Safe' /\ Accounts'
  <2>1. Safe'
    BY <1>2, <1>4, <1>10 DEF SenderInv, Safe
  <2>2. \A x : Pending(x)' <=> Pending(x)
    BY <1>4 DEF Pending, Store
  <2>3. Accounts'
    BY <1>2, <1>3, <1>10, <2>2 DEF SenderInv, Accounts
  <2>. QED BY <2>1, <2>3
<1>. QED BY <1>7, <1>8, <1>9, <1>10 DEF SenderInv

LEMMA FinishesInv ==
    ASSUME ClientInv, SenderInv, NEW a \in DOMAIN Store, Finishes(a)
    PROVE  SenderInv'
<1>1. PICK type \in {"PUBACK", "PUBCOMP"} :
         /\ Acknowledged(a, type)
         /\ QoS[Store[a].item] = IF type = "PUBACK" THEN 1 ELSE 2
  BY DEF Finishes
<1>2. /\ a # 0 /\ sent' = sent /\ connected' = connected /\ reloads' = reloads
      /\ got' = got /\ incoming' = incoming /\ Known' = Known
      /\ \A m : Count(m)' = Count(m)
      /\ ToSet(Pipe') \subseteq ToSet(Pipe)
      /\ \A q \in ToSet(to_server) : q.type \in Sending => q.id # a
      /\ ~CleanSession => /\ Store[a].item \in Known
                          /\ type = "PUBCOMP" => a \notin incoming
  BY <1>1, AcknowledgedFacts DEF Receipt
<1>3. /\ delivered' = [m \in Message |-> delivered[m] + IF m = Store[a].item THEN 1 ELSE 0]
      /\ to_server' = to_server
      /\ DOMAIN Store' = DOMAIN Store \ {a}
      /\ \A b \in DOMAIN Store' : b \in DOMAIN Store /\ b # a /\ Store'[b] = Store[b]
  BY DEF Finishes, Without
<1>4. Book'
  <2>1. \A q \in ToSet(to_server) : Stored(q)'
    BY <1>2, <1>3 DEF SenderInv, Book, Stored
  <2>2. \A r \in ToSet(Pipe') : r.type \in Receipt => Apart(r)'
    BY <1>2, <1>3 DEF SenderInv, Book, Apart
  <2>. QED BY <1>2, <1>3, <2>1, <2>2 DEF SenderInv, Book
<1>5. Once'
  BY <1>2, <1>3 DEF SenderInv, Once, Unreleased
<1>6. Counters'
  BY <1>2, <1>3 DEF SenderInv, Counters, Book
<1>7. ASSUME ~CleanSession
      PROVE  Safe' /\ Accounts'
  <2>1. a \notin incoming
    BY <1>1, <1>2, <1>7 DEF SenderInv, Safe
  <2>2. Safe'
    BY <1>2, <1>3, <1>7, <2>1 DEF SenderInv, Safe
  <2>3. ASSUME NEW m \in ToSet(sent), QoS[m] > 0
        PROVE  \/ delivered'[m] = 1 /\ m \in Known' /\ ~Pending(m)'
               \/ delivered'[m] = 0 /\ Pending(m)'
    <3>1. m \in Message
      BY QueueTypes
    <3>2. CASE m = Store[a].item
      <4>1. Pending(m) /\ ~Pending(m)'
        BY <1>3, <3>2 DEF Pending, Store, SenderInv, Book
      <4>2. delivered[m] = 0
        BY <1>7, <2>3, <4>1 DEF SenderInv, Accounts
      <4>. QED BY <1>2, <1>3, <1>7, <3>1, <3>2, <4>1, <4>2
    <3>3. CASE m # Store[a].item
      <4>1. Pending(m)' <=> Pending(m)
        BY <1>3, <3>3 DEF Pending, Store
      <4>2. delivered'[m] = delivered[m]
        BY <1>3, <3>1, <3>3 DEF SenderInv, Counters
      <4>. QED BY <1>2, <1>7, <2>3, <4>1, <4>2 DEF SenderInv, Accounts
    <3>. QED BY <3>2, <3>3
  <2>4. Accounts'
    BY <1>2, <2>3 DEF Accounts
  <2>. QED BY <2>2, <2>4
<1>. QED BY <1>4, <1>5, <1>6, <1>7 DEF SenderInv

LEMMA ResumesInv ==
    ASSUME ClientInv, SenderInv, Resumes
    PROVE  SenderInv'
<1>1. /\ ~CleanSession /\ TablesKept /\ ServerKept /\ reloads' = reloads
      /\ ToSet(Pipe') \subseteq ToSet(Pipe)
      /\ \A p \in ToSet(Pipe') : p.type \in Receipt => p.id = 0
      /\ OpeningOnly(to_server)
  BY DEF Resumes, Fewer, PageKept
<1>2. PICK out \in Seq(Up) :
         /\ socket_send(out)
         /\ \A p \in ToSet(out) : p.type \in Sending => p.id # 0 /\ Stored(p)
  BY DEF Resumes
<1>3. \A p \in ToSet(to_server') : p \in ToSet(to_server) \/ p \in ToSet(out)
  BY <1>2, QueueTypes, ConcatToSet DEF socket_send
<1>4. \A p \in ToSet(to_server') : p.type \in Sending => p.id # 0 /\ Stored(p)
  BY <1>1, <1>2, <1>3 DEF OpeningOnly, Opening, Sending
<1>5. /\ Store' = Store /\ sent' = sent /\ delivered' = delivered
      /\ got' = got /\ incoming' = incoming /\ Known' = Known
      /\ \A m : Pending(m)' <=> Pending(m)
      /\ \A a : Unreleased(a)' <=> Unreleased(a)
      /\ \A p : Stored(p)' <=> Stored(p)
      /\ \A m : Count(m)' = Count(m)
  BY <1>1, TablesSame, ServerQuiet
<1>6. Book'
  <2>1. ASSUME NEW p \in ToSet(to_server')
        PROVE  /\ p.type = "PUBLISH" => p.what \in ToSet(sent)
               /\ p.type = "PUBLISH" /\ p.id = 0 => QoS[p.what] = 0
               /\ Stored(p)
    BY <1>4 DEF SenderInv, Book, Stored, Sending
  <2>2. \A p \in ToSet(Pipe') : p.type \in Receipt => Apart(p)'
    BY <1>1 DEF Apart
  <2>. QED BY <1>5, <2>1, <2>2 DEF SenderInv, Book
<1>7. Once'
  <2>1. ASSUME NEW p \in ToSet(to_server'), p.type = "PUBLISH", QoS[p.what] = 2,
               p.what \in Known
        PROVE  p.id \in incoming
    <3>1. /\ p.id # 0 /\ p.id \in DOMAIN Store /\ Store[p.id].item = p.what
          /\ ~Store[p.id].pubRecReceived
      BY <1>4, <2>1 DEF Stored, Sending
    <3>. QED BY <1>1, <2>1, <3>1 DEF SenderInv, Once, Unreleased
  <2>. QED BY <1>1, <1>5, <2>1 DEF SenderInv, Once
<1>8. Counters'
  BY <1>1, <1>5 DEF SenderInv, Counters
<1>9. Safe' /\ Accounts'
  BY <1>1, <1>5 DEF SenderInv, Safe, Accounts
<1>. QED BY <1>6, <1>7, <1>8, <1>9 DEF SenderInv

LEMMA ForgetsInv ==
    ASSUME ClientInv, SenderInv, Forgets
    PROVE  SenderInv'
<1>1. /\ CleanSession /\ DOMAIN Store' = {} /\ UNCHANGED <<sent, delivered, reloads>>
      /\ got' = got /\ Known' = Known /\ \A m : Count(m)' = Count(m)
      /\ \A p \in ToSet(to_server') : p.type \notin Sending
  BY ServerQuiet DEF Forgets
<1>2. Book'
  BY <1>1 DEF SenderInv, Book, Stored, Apart, Sending
<1>3. Once'
  BY <1>1 DEF SenderInv, Once, Sending
<1>4. Counters'
  BY <1>1 DEF SenderInv, Counters
<1>. QED BY <1>1, <1>2, <1>3, <1>4 DEF SenderInv

LEMMA CountAppend ==
    ASSUME got \in Seq(Message), NEW m \in Message
    PROVE  /\ got' = Append(got, m) =>
                 /\ Known' = Known \cup {m}
                 /\ \A x : x # m => Count(x)' = Count(x)
                 /\ m \notin Known => Count(m)' = 1
           /\ \A x : x \notin Known => Count(x) = 0
<1>1. \A x : x \notin Known => Count(x) = 0
  <2> SUFFICES ASSUME NEW x, x \notin Known PROVE Count(x) = 0
    OBVIOUS
  <2>1. {i \in DOMAIN got : got[i] = x} = {}
    BY DEF Known, ToSet
  <2>. QED BY <2>1, FS_EmptySet DEF Count
<1>2. ASSUME got' = Append(got, m)
      PROVE  /\ Known' = Known \cup {m}
             /\ \A x : x # m => Count(x)' = Count(x)
             /\ m \notin Known => Count(m)' = 1
  <2> DEFINE t == Append(got, m)
             n == Len(got) + 1
  <2>1. /\ DOMAIN t = 1 .. n /\ DOMAIN got = 1 .. Len(got) /\ Len(got) \in Nat
        /\ \A i \in 1 .. Len(got) : t[i] = got[i]
        /\ t[n] = m
    BY AppendProperties, LenProperties
  <2>2. /\ n \in 1 .. n /\ n \notin 1 .. Len(got)
        /\ \A i : i \in 1 .. n <=> i \in 1 .. Len(got) \/ i = n
    BY <2>1
  <2>3. got' = t
    BY <1>2
  <2>. HIDE DEF t, n
  <2>4. Known' = Known \cup {m}
    BY <2>1, <2>2, <2>3 DEF Known, ToSet
  <2>5. ASSUME NEW x, x # m
        PROVE  Count(x)' = Count(x)
    <3>1. {i \in DOMAIN t : t[i] = x} = {i \in DOMAIN got : got[i] = x}
      BY <2>1, <2>2, <2>5
    <3>. QED BY <2>3, <3>1 DEF Count
  <2>6. ASSUME m \notin Known
        PROVE  Count(m)' = 1
    <3>1. \A i \in DOMAIN got : got[i] # m
      BY <2>6 DEF Known, ToSet
    <3>2. {i \in DOMAIN t : t[i] = m} = {n}
      BY <2>1, <2>2, <3>1
    <3>. QED BY <2>3, <3>2, FS_Singleton DEF Count
  <2>. QED BY <2>4, <2>5, <2>6
<1>. QED BY <1>1, <1>2

(***************************************************************************)
(* A packet with a message that the server takes is that of its entry.     *)
(***************************************************************************)
LEMMA ArrivalStored ==
    ASSUME ClientInv, Book, to_server # <<>>, Arrival.type \in Sending
    PROVE  /\ Arrival \in ToSet(to_server) /\ Arrival.id \in Nat /\ Stored(Arrival)
           /\ Arrival.id \in DOMAIN Store => Arrival.id # 0
           /\ Arrival.type = "PUBLISH" =>
                 /\ Arrival.what \in ToSet(sent)
                 /\ QoS[Arrival.what] # 0 => Arrival.id # 0
           /\ \A p \in ToSet(Pipe) : p.type \in Receipt /\ p.id = Arrival.id => p.id = 0
BY QueueServed, StoreFacts DEF Book, Apart, Up

LEMMA TakesInv ==
    ASSUME ClientInv, SenderInv, Takes
    PROVE  SenderInv'
<1>0. PICK m, id : m = Arrival.what /\ id = Arrival.id
  OBVIOUS
<1>1. /\ to_server # <<>> /\ to_server' = Tail(to_server)
      /\ TablesKept /\ UNCHANGED <<connected, reloads>>
      /\ Arrival.type = "PUBLISH" /\ Arrival.type \in Sending /\ m \in Message
      /\ got' = IF QoS[m] = 2 /\ id \in incoming THEN got ELSE Append(got, m)
      /\ incoming' = IF QoS[m] = 2 THEN incoming \cup {id} ELSE incoming
      /\ \A p \in ToSet(Pipe') : \/ p \in ToSet(Pipe)
                                 \/ p.type \notin Receipt
                                 \/ p.type \in {"PUBACK", "PUBREC"} /\ p.id = id /\ Apart(p)'
  BY <1>0 DEF Takes, Served, Sending, Acknowledges, PageKept
<1>2. /\ Store' = Store /\ sent' = sent /\ delivered' = delivered
      /\ \A x : Pending(x)' <=> Pending(x)
      /\ \A a : Unreleased(a)' <=> Unreleased(a)
      /\ \A p : Stored(p)' <=> Stored(p)
  BY <1>1, TablesSame
<1>3. /\ Arrival \in ToSet(to_server) /\ Stored(Arrival) /\ m \in ToSet(sent)
      /\ id \in DOMAIN Store => id # 0
      /\ QoS[m] # 0 => id # 0
      /\ \A p \in ToSet(Pipe) : p.type \in Receipt /\ p.id = id => p.id = 0
      /\ ToSet(to_server') \subseteq ToSet(to_server)
  BY <1>0, <1>1, ArrivalStored, QueueServed DEF SenderInv
<1>4. id # 0 => /\ id \in DOMAIN Store /\ Store[id].item = m
                /\ ~Store[id].pubRecReceived
  BY <1>0, <1>1, <1>3 DEF Stored
<1>5. /\ QoS[m] = 2 /\ m \in Known => id \in incoming
  BY <1>0, <1>1, <1>3 DEF SenderInv, Once
<1>6. /\ Known \subseteq Known' /\ Known' \subseteq Known \cup {m}
      /\ QoS[m] = 2 /\ id \in incoming => got' = got /\ Known' = Known
      /\ ~(QoS[m] = 2 /\ id \in incoming) => m \in Known'
  <2>1. got' = got => Known' = Known
    BY DEF Known
  <2>2. got' = Append(got, m) => Known' = Known \cup {m}
    BY <1>1, QueueTypes, CountAppend
  <2>. QED BY <1>1, <2>1, <2>2
<1>7. \A x \in Message : QoS[x] = 2 => Count(x)' <= 1
  <2>1. CASE QoS[m] = 2 /\ id \in incoming
    <3>1. \A x : Count(x)' = Count(x)
      BY <1>6, <2>1 DEF Count
    <3>. QED BY <3>1 DEF SenderInv, Once
  <2>2. CASE ~(QoS[m] = 2 /\ id \in incoming)
    <3>1. got' = Append(got, m) /\ got \in Seq(Message)
      BY <1>1, <2>2, QueueTypes
    <3>2. \A x : x # m => Count(x)' = Count(x)
      BY <1>1, <3>1, CountAppend
    <3>3. m \notin Known => Count(m)' = 1
      BY <1>1, <3>1, CountAppend
    <3>4. QoS[m] = 2 => m \notin Known
      BY <1>5, <2>2
    <3>5. ASSUME NEW x \in Message, QoS[x] = 2
          PROVE  Count(x)' <= 1
      <4>1. CASE x = m
        <5>1. Count(m)' = 1
          BY <3>3, <3>4, <3>5, <4>1
        <5>. QED BY <4>1, <5>1
      <4>2. CASE x # m
        <5>1. Count(x)' = Count(x) /\ Count(x) <= 1
          BY <3>2, <3>5, <4>2 DEF SenderInv, Once
        <5>. QED BY <5>1
      <4>. QED BY <4>1, <4>2
    <3>. QED BY <3>5
  <2>. QED BY <2>1, <2>2
<1>8. Book'
  <2>1. ASSUME NEW p \in ToSet(to_server')
        PROVE  /\ p.type = "PUBLISH" => p.what \in ToSet(sent)
               /\ p.type = "PUBLISH" /\ p.id = 0 => QoS[p.what] = 0
               /\ Stored(p)
    BY <1>3 DEF SenderInv, Book
  <2>2. ASSUME NEW p \in ToSet(Pipe'), p.type \in Receipt
        PROVE  Apart(p)'
    BY <1>1, <1>3, <2>2 DEF SenderInv, Book, Apart
  <2>3. Known' \subseteq ToSet(sent)
    BY <1>3, <1>6 DEF SenderInv, Book
  <2>. QED BY <1>2, <2>1, <2>2, <2>3 DEF SenderInv, Book
<1>9. Once'
  <2>1. ASSUME NEW a \in DOMAIN Store, Store[a].item = m, QoS[m] = 2
        PROVE  a = id
    BY <1>3, <1>4, <2>1, ClientAssumption DEF SenderInv, Book
  <2>2. incoming \subseteq incoming' /\ (QoS[m] = 2 => id \in incoming')
    BY <1>1
  <2>3. ASSUME NEW p \in ToSet(to_server'), p.type = "PUBLISH", QoS[p.what] = 2,
               p.what \in Known'
        PROVE  p.id \in incoming'
    <3>1. CASE p.what \in Known
      BY <1>3, <2>2, <2>3, <3>1 DEF SenderInv, Once
    <3>2. CASE p.what = m
      <4>1. p.id # 0 /\ p.id \in DOMAIN Store /\ Store[p.id].item = m
        BY <1>3, <2>3, <3>2 DEF SenderInv, Book, Stored, Sending
      <4>. QED BY <2>1, <2>2, <2>3, <3>2, <4>1
    <3>. QED BY <1>6, <2>3, <3>1, <3>2
  <2>4. ASSUME ~CleanSession \/ connected, NEW a \in DOMAIN Store, Unreleased(a),
               Store[a].item \in Known'
        PROVE  a \in incoming'
    <3>1. CASE Store[a].item \in Known
      BY <2>2, <2>4, <3>1 DEF SenderInv, Once
    <3>2. CASE Store[a].item = m
      BY <2>1, <2>2, <2>4, <3>2 DEF Unreleased
    <3>. QED BY <1>6, <2>4, <3>1, <3>2
  <2>. QED BY <1>1, <1>2, <1>7, <2>3, <2>4 DEF Once
<1>10. Counters'
  BY <1>1, <1>2 DEF SenderInv, Counters
<1>11. ASSUME ~CleanSession
       PROVE  Safe' /\ Accounts'
  <2>1. m \in Known'
    <3>1. QoS[m] = 2 /\ id \in incoming => m \in Known
      BY <1>3, <1>4, <1>11 DEF SenderInv, Safe
    <3>. QED BY <1>6, <3>1
  <2>2. Safe'
    <3>1. ASSUME NEW n \in incoming'
          PROVE  /\ n \in DOMAIN Store /\ QoS[Store[n].item] = 2
                 /\ Store[n].item \in Known'
      <4>1. CASE n \in incoming
        BY <1>6, <1>11, <4>1 DEF SenderInv, Safe
      <4>2. CASE n = id /\ QoS[m] = 2
        BY <1>3, <1>4, <2>1, <4>2
      <4>. QED BY <1>1, <3>1, <4>1, <4>2
    <3>2. ASSUME NEW p \in ToSet(Pipe')
          PROVE  /\ p.type \in Receipt /\ p.id \in DOMAIN Store => Store[p.id].item \in Known'
                 /\ p.type = "PUBCOMP" => p.id \notin incoming'
      <4>1. CASE p \in ToSet(Pipe)
        <5>1. p.type = "PUBCOMP" => p.id # 0 /\ p.type \in Receipt
          BY <4>1, QueueTypes DEF Down, Receipt
        <5>2. p.type = "PUBCOMP" => p.id # id
          BY <1>3, <4>1, <5>1
        <5>. QED BY <1>1, <1>6, <1>11, <4>1, <5>2 DEF SenderInv, Safe
      <4>2. CASE p.type \in {"PUBACK", "PUBREC"} /\ p.id = id
        BY <1>3, <1>4, <2>1, <4>2
      <4>3. CASE p.type \notin Receipt
        BY <4>3 DEF Receipt
      <4>. QED BY <1>1, <4>1, <4>2, <4>3
    <3>. QED BY <1>2, <1>6, <1>11, <3>1, <3>2 DEF SenderInv, Safe
  <2>3. Accounts'
    BY <1>2, <1>6, <1>11 DEF SenderInv, Accounts
  <2>. QED BY <2>2, <2>3
<1>. QED BY <1>8, <1>9, <1>10, <1>11 DEF SenderInv

LEMMA ReleasesInv ==
    ASSUME ClientInv, SenderInv, Releases
    PROVE  SenderInv'
<1>0. PICK id : id = Arrival.id
  OBVIOUS
<1>1. /\ to_server # <<>> /\ to_server' = Tail(to_server)
      /\ TablesKept /\ UNCHANGED <<connected, reloads>>
      /\ Arrival.type = "PUBREL" /\ Arrival.type \in Sending /\ id # 0
      /\ got' = got /\ incoming' = incoming \ {id}
      /\ \A p \in ToSet(Pipe') : \/ p \in ToSet(Pipe)
                                 \/ p.type \notin Receipt
                                 \/ p.type = "PUBCOMP" /\ p.id = id /\ Apart(p)'
  BY <1>0 DEF Releases, Served, Sending, Acknowledges, PageKept
<1>2. /\ Store' = Store /\ sent' = sent /\ delivered' = delivered
      /\ \A x : Pending(x)' <=> Pending(x)
      /\ \A a : Unreleased(a)' <=> Unreleased(a)
      /\ \A p : Stored(p)' <=> Stored(p)
      /\ Known' = Known /\ \A x : Count(x)' = Count(x)
  BY <1>1, TablesSame DEF Known, Count
<1>3. /\ Arrival \in ToSet(to_server) /\ Stored(Arrival)
      /\ ToSet(to_server') \subseteq ToSet(to_server)
  BY <1>1, ArrivalStored, QueueServed DEF SenderInv
<1>4. id \in DOMAIN Store /\ Store[id].pubRecReceived
  BY <1>0, <1>1, <1>3 DEF Stored
<1>5. Book'
  <2>1. ASSUME NEW p \in ToSet(to_server')
        PROVE  /\ p.type = "PUBLISH" => p.what \in ToSet(sent)
               /\ p.type = "PUBLISH" /\ p.id = 0 => QoS[p.what] = 0
               /\ Stored(p)
    BY <1>3 DEF SenderInv, Book
  <2>2. ASSUME NEW p \in ToSet(Pipe'), p.type \in Receipt
        PROVE  Apart(p)'
    BY <1>1, <1>3, <2>2 DEF SenderInv, Book, Apart
  <2>. QED BY <1>2, <2>1, <2>2 DEF SenderInv, Book
<1>6. Once'
  <2>1. ASSUME NEW p \in ToSet(to_server'), p.type = "PUBLISH", QoS[p.what] = 2,
               p.what \in Known
        PROVE  p.id \in incoming'
    <3>1. p.id \in incoming
      BY <1>3, <2>1 DEF SenderInv, Once
    <3>2. p.id # id
      BY <1>1, <1>3, <1>4, <2>1 DEF SenderInv, Book, Stored, Sending
    <3>. QED BY <1>1, <3>1, <3>2
  <2>2. ASSUME ~CleanSession \/ connected, NEW a \in DOMAIN Store, Unreleased(a),
               Store[a].item \in Known
        PROVE  a \in incoming'
    BY <1>1, <1>4, <2>2 DEF SenderInv, Once, Unreleased
  <2>. QED BY <1>1, <1>2, <2>1, <2>2 DEF SenderInv, Once
<1>7. Counters'
  BY <1>1, <1>2 DEF SenderInv, Counters
<1>8. ASSUME ~CleanSession
      PROVE  Safe' /\ Accounts'
  <2>1. Safe'
    <3>1. ASSUME NEW p \in ToSet(Pipe')
          PROVE  /\ p.type \in Receipt /\ p.id \in DOMAIN Store => Store[p.id].item \in Known
                 /\ p.type = "PUBCOMP" => p.id \notin incoming'
      BY <1>1, <1>4, <1>8, <3>1 DEF SenderInv, Safe, Receipt
    <3>. QED BY <1>1, <1>2, <1>8, <3>1 DEF SenderInv, Safe
  <2>2. Accounts'
    BY <1>2, <1>8 DEF SenderInv, Accounts
  <2>. QED BY <2>1, <2>2
<1>. QED BY <1>5, <1>6, <1>7, <1>8 DEF SenderInv

LEMMA StartsInv ==
    ASSUME ClientInv, SenderInv, Starts
    PROVE  SenderInv'
<1>1. /\ TablesKept /\ UNCHANGED <<connected, reloads>> /\ ~connected
      /\ got' = got /\ incoming' = IF CleanSession THEN {} ELSE incoming
      /\ \A p \in ToSet(Pipe') : p \in ToSet(Pipe) \/ p.type \notin Receipt
      /\ \A p \in ToSet(to_server') : p.type \notin Sending
  BY DEF Starts, Served, Acknowledges, PageKept, OpeningOnly, Opening, Sending
<1>2. /\ Store' = Store /\ sent' = sent /\ delivered' = delivered
      /\ \A x : Pending(x)' <=> Pending(x)
      /\ \A a : Unreleased(a)' <=> Unreleased(a)
      /\ \A p : Stored(p)' <=> Stored(p)
      /\ Known' = Known /\ \A x : Count(x)' = Count(x)
  BY <1>1, TablesSame DEF Known, Count
<1>3. Book'
  BY <1>1, <1>2 DEF SenderInv, Book, Stored, Apart, Sending
<1>4. Once'
  BY <1>1, <1>2 DEF SenderInv, Once, Sending
<1>5. Counters'
  BY <1>1, <1>2 DEF SenderInv, Counters
<1>6. ASSUME ~CleanSession
      PROVE  Safe' /\ Accounts'
  BY <1>1, <1>2, <1>6 DEF SenderInv, Safe, Accounts, Receipt
<1>. QED BY <1>3, <1>4, <1>5, <1>6 DEF SenderInv

LEMMA SenderKept ==
    ASSUME ClientInv, SenderInv, SenderStep
    PROVE  SenderInv'
BY PassesInv, SendsInv, MarksInv, FinishesInv, ResumesInv, ForgetsInv, TakesInv,
   ReleasesInv, StartsInv DEF SenderStep

-----------------------------------------------------------------------------
(* Every step is one of these: the page *)

(***************************************************************************)
(* A packet of no exchange, appended or swallowed by a dead link.          *)
(***************************************************************************)
LEMMA OtherSent ==
    ASSUME ClientInv, NEW p \in Up, p.type \notin Sending, socket_send(<<p>>)
    PROVE  QueuePasses
<1>1. to_server' = IF link THEN Append(to_server, p) ELSE to_server
  BY QueueSent
<1>. QED BY <1>1 DEF QueuePasses

LEMMA PipeGone ==
    ASSUME frame' = <<>>, to_client' = <<>>
    PROVE  Pipe' = <<>> /\ ToSet(Pipe') = {} /\ Fewer(Pipe)
<1>1. Pipe' = <<>>
  BY DEF Pipe
<1>. QED BY <1>1, EmptyRefs DEF Fewer

(***************************************************************************)
(* A step of the page that sends no message and handles no answer to one.  *)
(***************************************************************************)
LEMMA PagePasses ==
    ASSUME UNCHANGED server, UNCHANGED <<sent, delivered, localStorage>>,
           PageKept \/ reloads' = reloads + 1,
           QueuePasses, Fewer(Pipe), connected' => connected,
           connected' /\ link' => link
    PROVE  Passes
<1>1. TablesKept /\ ServerKept /\ online' = online
  BY DEF TablesKept, Store, ServerKept, server
<1>. QED BY <1>1 DEF Passes, Fewer

(***************************************************************************)
(* The connection ends, or the attempt to connect.                         *)
(***************************************************************************)
LEMMA EndPasses ==
    ASSUME ClientInv, UNCHANGED server, frame' = <<>>, bounds' = bounds \/ Fault,
           NEW was \in BOOLEAN, disconnected(was, hostIndex),
           UNCHANGED <<sent, delivered, localStorage, numbers>>,
           to_server' = to_server \/ socket_send(<<DISCONNECT>>)
    PROVE  Passes
<1>1. to_client' = <<>> /\ connected' = FALSE /\ link' = FALSE
  BY Disconnected
<1>2. Fewer(Pipe)
  BY <1>1, PipeGone
<1>3. QueuePasses
  <2>1. DISCONNECT \in Up /\ DISCONNECT.type \notin Sending
    BY DEF DISCONNECT, Packet, Up, Ref, Question, Word, Sending
  <2>. QED BY <2>1, OtherSent DEF QueuePasses
<1>4. PageKept
  BY DEF PageKept, numbers, bounds, Fault
<1>. QED BY <1>1, <1>2, <1>3, <1>4, PagePasses

LEMMA PingPasses ==
    ASSUME ClientInv, Pings, UNCHANGED server
    PROVE  Passes
<1>1. /\ frame = <<>> /\ frame' = <<>> /\ bounds' = bounds
      /\ UNCHANGED <<session, numbers, callbacks, sent>>
  BY DEF Pings, NoFault, SendPing, ReceivePing, ZombiePing
<1>2. CASE give_up
  <2>1. connected \in BOOLEAN
    BY DEF ClientInv, Sockets
  <2>. QED BY <1>1, <1>2, <2>1, EndPasses DEF give_up, session, callbacks
<1>3. CASE ping
  <2>1. UNCHANGED <<connection, link, to_client>>
    BY <1>3 DEF ping
  <2>2. Pipe' = Pipe
    BY <1>1, <2>1 DEF Pipe
  <2>3. PINGREQ \in Up /\ PINGREQ.type \notin Sending
    BY DEF PINGREQ, Packet, Up, Ref, Question, Word, Sending
  <2>4. QueuePasses
    BY <1>3, <2>3, OtherSent DEF ping, QueuePasses
  <2>5. PageKept
    BY <1>1 DEF PageKept, numbers, bounds
  <2>. QED BY <1>1, <2>1, <2>2, <2>4, <2>5, PagePasses
           DEF Fewer, connection, session, callbacks
<1>. QED BY <1>2, <1>3 DEF Pings, SendPing, ReceivePing, ZombiePing

LEMMA PipeTaken ==
    ASSUME ClientInv, on_socket_message
    PROVE  Pipe' = Pipe
<1>1. /\ to_client \in Seq(Down) /\ Len(to_client) \in Nat /\ frame = <<>>
  BY LenProperties DEF ClientInv, Protocol, Wires, on_socket_message
<1>2. PICK n \in 1 .. FrameSize :
         /\ n <= Len(to_client)
         /\ frame' = SubSeq(to_client, 1, n)
         /\ to_client' = SubSeq(to_client, n + 1, Len(to_client))
  BY DEF on_socket_message
<1>3. n \in 1 .. Len(to_client) /\ to_client # <<>>
  BY <1>1, <1>2, ClientAssumption
<1>4. frame' \o to_client' = SubSeq(to_client, 1, Len(to_client))
  BY <1>1, <1>2, <1>3, ConcatAdjacentSubSeq
<1>. QED BY <1>1, <1>4, SubSeqFull, ConcatEmptySeq DEF Pipe

LEMMA SendSends ==
    ASSUME Few, ClientInv, NEW m \in Message, Send(m), bounds' = bounds, UNCHANGED server
    PROVE  Sends(m)
<1>1. /\ connected /\ m \notin ToSet(sent) /\ sent' = Append(sent, m)
      /\ UNCHANGED <<connected, link, online>> /\ Pipe' = Pipe
      /\ ServerKept /\ reloads' = reloads
  BY DEF Send, connection, Pipe, ServerKept, server, bounds
<1>2. CASE QoS[m] = 0
  <2>1. /\ delivered' = [delivered EXCEPT ![m] = @ + 1]
        /\ Store' = Store /\ sequence' = sequence
        /\ socket_send(<<Packet("PUBLISH", 0, m)>>)
    BY <1>1, <1>2 DEF Send, schedule_message, session, numbers, Store
  <2>. QED BY <1>1, <1>2, <2>1 DEF Sends
<1>3. CASE QoS[m] # 0
  <2>1. /\ requires_ack(sentMessages, m) /\ delivered' = delivered
        /\ schedule_message(Packet("PUBLISH", Wire(FreeId(sentMessages)), m))
        /\ localStorage' = store_sent(FreeId(sentMessages),
                                      sentMessages'[FreeId(sentMessages)])
    BY <1>3 DEF Send
  <2>2. m \in Item \ Begun
    BY <1>1, ClientAssumption DEF ClientInv, Memory, Begun, Item
  <2>3. /\ sentMessages \in [DOMAIN sentMessages -> Flight]
        /\ localStorage = [Sent |-> Mirror(sentMessages), Received |-> receivedMessages]
    BY DEF ClientInv, Memory
  <2>4. PICK id \in Nat \ {0}, e \in Flight, p \in Up : Begins(m, sentMessages, id, e, p)
    BY <1>3, <2>1, <2>2, <2>3, NewExchange
  <2>5. /\ id = FreeId(sentMessages) /\ id \notin DOMAIN sentMessages
        /\ sentMessages'[id] = e /\ Wire(id) = id
    <3>1. p.id = Wire(id) /\ p.id = id
      BY <2>4 DEF Begins, Packet
    <3>. QED BY <2>4, <3>1 DEF Begins
  <2>6. e = NewMessage(m) /\ sequence' = sequence + 1
    BY <2>1, <2>5 DEF requires_ack, With, NewMessage
  <2>7. Store' = With(Store, id, NewMessage(m))
    BY <2>1, <2>3, <2>5, <2>6 DEF store_sent, Store
  <2>8. socket_send(<<Packet("PUBLISH", id, m)>>)
    BY <1>1, <2>1, <2>5 DEF schedule_message
  <2>. QED BY <1>1, <1>3, <2>1, <2>5, <2>6, <2>7, <2>8 DEF Sends
<1>. QED BY <1>2, <1>3

LEMMA AskSent ==
    ASSUME Few, ClientInv, PageAsks
    PROVE  /\ \E p \in Up : p.type \in {"SUBSCRIBE", "UNSUBSCRIBE"} /\ socket_send(<<p>>)
           /\ UNCHANGED <<connection, receivedMessages, localStorage, callbacks, sent, frame,
                          link, to_client, sequence, bounds>>
<1>1. PICK r \in Subscription \cup Unsubscription : Ask(r)
  BY DEF PageAsks, subscribe, unsubscribe
<1>2. /\ r \in Item \ Begun /\ r \notin Message
  <2>1. ToSet(sent) \subseteq Message
    BY QueueTypes
  <2>. QED BY <1>1, <2>1, ClientAssumption DEF Ask, Begun, Item
<1>3. /\ requires_ack(sentMessages, r) /\ connected
      /\ schedule_message(Packet(TypeOf(r), Wire(FreeId(sentMessages)), r))
      /\ UNCHANGED <<connection, receivedMessages, localStorage, callbacks, sent, frame,
                     link, to_client, bounds>>
  BY <1>1 DEF Ask, PageAsks, NoFault
<1>4. sentMessages \in [DOMAIN sentMessages -> Flight]
  BY DEF ClientInv, Memory
<1>5. PICK id \in Nat \ {0}, e \in Flight, p \in Up : Begins(r, sentMessages, id, e, p)
  BY <1>2, <1>3, <1>4, NewExchange
<1>6. socket_send(<<p>>) /\ p.type \in {"SUBSCRIBE", "UNSUBSCRIBE"}
  BY <1>2, <1>3, <1>5 DEF Begins, schedule_message, Packet, TypeOf
<1>7. sequence' = sequence
  BY <1>2, <1>3 DEF requires_ack
<1>. QED BY <1>3, <1>6, <1>7

LEMMA AskPasses ==
    ASSUME Few, ClientInv, PageAsks, UNCHANGED server
    PROVE  Passes
<1>1. QueuePasses
  BY AskSent, OtherSent DEF Sending
<1>2. /\ UNCHANGED <<connection, localStorage, callbacks, sent, frame, link, to_client>>
      /\ PageKept
  BY AskSent DEF PageKept, bounds
<1>3. Pipe' = Pipe /\ connected' = connected
  BY <1>2 DEF Pipe, connection
<1>. QED BY <1>1, <1>2, <1>3, PagePasses DEF Fewer, callbacks

LEMMA OpenPasses ==
    ASSUME ClientInv, Opens, UNCHANGED server
    PROVE  Passes
<1> DEFINE p == Packet("CONNECT", version, NoItem)
<1>1. /\ ~connected /\ connected' = connected /\ to_server' = Append(to_server, p)
      /\ UNCHANGED <<session, numbers, callbacks, page, frame, to_client, bounds>>
  BY DEF Opens, on_socket_open, NoFault, ClientInv, Sockets
<1>2. p \in Up /\ p.type \notin Sending
  BY DEF ClientInv, Sockets, Packet, Up, Ref, Question, Word, Sending
<1>. HIDE DEF p
<1>3. QueuePasses
  BY <1>1, <1>2 DEF QueuePasses
<1>4. Pipe' = Pipe /\ PageKept
  BY <1>1 DEF Pipe, PageKept, numbers, bounds
<1>. QED BY <1>1, <1>3, <1>4, PagePasses DEF Fewer, session, callbacks, page

LEMMA ReloadPasses ==
    ASSUME ClientInv, PageReloads, UNCHANGED server
    PROVE  Passes
<1>1. /\ UNCHANGED <<localStorage, callbacks, sent, to_server>> /\ frame' = <<>>
      /\ to_client' = <<>> /\ connected' = FALSE /\ reloads' = reloads + 1
  BY DEF PageReloads, Reload
<1>2. Fewer(Pipe)
  BY <1>1, PipeGone
<1>. QED BY <1>1, <1>2, PagePasses DEF QueuePasses, callbacks

(***************************************************************************)
(* The packet that is handled, in the pipe.                                *)
(***************************************************************************)
LEMMA PacketTaken ==
    ASSUME ClientInv, frame # <<>>, frame' = rest, to_client' = to_client
    PROVE  /\ Pipe # <<>> /\ Head(Pipe) = packet /\ Pipe' = Tail(Pipe)
           /\ packet \in ToSet(Pipe) /\ Fewer(Pipe)
           /\ packet.id # 0 => \A p \in ToSet(Pipe') : p.id # packet.id
<1>1. /\ Wires /\ Pipe \in Seq(Down)
  BY PipeType DEF ClientInv, Protocol
<1>2. /\ Pipe # <<>> /\ Head(Pipe) = packet /\ Pipe' = Tail(Pipe)
  BY <1>1, PipeHandled DEF packet, rest
<1>3. /\ ToSet(Pipe) = {packet} \cup ToSet(Tail(Pipe)) /\ Tail(Pipe) \in Seq(Down)
  BY <1>1, <1>2, TailRefs
<1>4. packet.id \notin Travelling(Tail(Pipe)) \ {0}
  BY ThePacket DEF ClientInv
<1>5. \A p \in ToSet(Tail(Pipe)) : Ref(p) = p.id
  <2>1. \A p \in ToSet(Tail(Pipe)) : p \in Down
    BY <1>3, ElementOfSeq DEF ToSet
  <2>. QED BY <2>1 DEF Down, Answer, Ref
<1>6. ASSUME packet.id # 0, NEW p \in ToSet(Tail(Pipe))
      PROVE  p.id # packet.id
  <2>1. Ref(p) \in Refs(Tail(Pipe))
    BY DEF Refs
  <2>. QED BY <1>4, <1>5, <1>6, <2>1 DEF Travelling
<1>. QED BY <1>2, <1>3, <1>6 DEF Fewer

LEMMA StorageParts ==
    ASSUME ClientInv
    PROVE  /\ localStorage = [Sent |-> Store, Received |-> receivedMessages]
           /\ Store = Mirror(sentMessages)
BY DEF ClientInv, Memory, Store

(***************************************************************************)
(* A message from the server, or its release.                              *)
(***************************************************************************)
LEMMA ArrivalPasses ==
    ASSUME Calm, ClientInv, frame # <<>>, handle_PUBLISH \/ handle_PUBREL,
           bounds' = bounds, UNCHANGED server
    PROVE  Passes
<1> DEFINE m == packet.what
<1>1. packet \in Down /\ packet.type \in {"PUBLISH", "PUBREL"} /\ connected
  BY ThePacket DEF ClientInv, handle_PUBLISH, handle_PUBREL
<1>2. m \in Arriving /\ packet.id = 0
  BY <1>1 DEF Down, Ref, Answer
<1>3. /\ frame' = rest
      /\ UNCHANGED <<numbers, sent, delivered, connection, link, to_client>>
  BY <1>2 DEF handle_PUBLISH, handle_PUBREL, Calm
<1>4. \A type \in {"PUBREC", "PUBACK", "PUBCOMP"} :
         Packet(type, 0, m) \in Up /\ Packet(type, 0, m).type \notin Sending
  BY <1>2 DEF Packet, Up, Question, Word, Ref, Sending
<1>5. \/ to_server' = to_server
      \/ \E type \in {"PUBREC", "PUBACK", "PUBCOMP"} : socket_send(<<Packet(type, 0, m)>>)
  BY <1>1, <1>2 DEF handle_PUBLISH, handle_PUBREL, Calm, schedule_message
<1>. HIDE DEF m
<1>6. QueuePasses
  BY <1>4, <1>5, OtherSent DEF QueuePasses
<1>7. Store' = Store
  <2>1. \E set : localStorage' = [localStorage EXCEPT !.Received = set]
    BY StorageParts DEF handle_PUBLISH, handle_PUBREL
  <2>. QED BY <2>1, StorageParts DEF Store
<1>8. Fewer(Pipe)
  BY <1>3, PacketTaken
<1>. QED BY <1>3, <1>6, <1>7, <1>8
     DEF Passes, TablesKept, ServerKept, PageKept, Fewer, connection, numbers, bounds, server

LEMMA QuietPasses ==
    ASSUME ClientInv, frame # <<>>, quiet_handler, UNCHANGED <<delivered, localStorage>>,
           bounds' = bounds, UNCHANGED server
    PROVE  Passes
<1>1. /\ frame' = rest /\ UNCHANGED <<connection, numbers, sent, network>>
  BY DEF quiet_handler
<1>2. Fewer(Pipe)
  BY <1>1, PacketTaken DEF network
<1>. QED BY <1>1, <1>2, PagePasses DEF QueuePasses, PageKept, numbers, bounds, connection,
                                       network

(***************************************************************************)
(* The last answer to a message: its entry and its copy go.                *)
(***************************************************************************)
LEMMA ForgetFinishes ==
    ASSUME ClientInv, frame # <<>>, in_flight(packet.id), forget(packet.id),
           message_delivered(packet.id), quiet_handler, bounds' = bounds, UNCHANGED server,
           packet.type \in {"PUBACK", "PUBCOMP"}
    PROVE  \E a \in DOMAIN Store : Finishes(a)
<1>1. /\ packet \in Down /\ Match(packet) /\ Ref(packet) = packet.id /\ connected
  BY ThePacket DEF ClientInv
<1>2. PICK a \in DOMAIN sentMessages \ {0} : a = packet.id
  BY BegunItems DEF ClientInv, Memory, in_flight
<1>3. /\ sentMessages[a].item \in Message
      /\ QoS[sentMessages[a].item] = 1 <=> packet.type = "PUBACK"
  BY <1>1, <1>2 DEF Match, Fits
<1>4. a \in DOMAIN Store /\ Store[a] = sentMessages[a] /\ QoS[Store[a].item] \in {1, 2}
  BY <1>2, <1>3, StoreFacts
<1>5. /\ frame' = rest /\ UNCHANGED <<connection, numbers, sent, network>>
  BY DEF quiet_handler
<1>6. /\ packet \in ToSet(Pipe) /\ Fewer(Pipe)
      /\ \A p \in ToSet(Pipe') : p.id # a
  BY <1>2, <1>5, PacketTaken DEF network
<1>7. Acknowledged(a, packet.type)
  BY <1>1, <1>2, <1>4, <1>5, <1>6
     DEF Acknowledged, ServerKept, PageKept, server, bounds, numbers, connection, network
<1>8. Store' = Without(Store, a)
  BY <1>2, StorageParts DEF forget, remove_sent, Store
<1>9. /\ delivered' = [m \in Message |-> delivered[m] + IF m = Store[a].item THEN 1 ELSE 0]
      /\ to_server' = to_server
  BY <1>2, <1>4, <1>5 DEF message_delivered, network
<1>10. Finishes(a)
  BY <1>3, <1>4, <1>7, <1>8, <1>9 DEF Finishes
<1>. QED BY <1>4, <1>10

LEMMA PubrecMarks ==
    ASSUME ClientInv, frame # <<>>, handle_PUBREC, bounds' = bounds, UNCHANGED server
    PROVE  Passes \/ \E a \in DOMAIN Store : Marks(a)
<1>1. /\ packet \in Down /\ packet.type = "PUBREC" /\ connected
      /\ Match(packet) /\ Ref(packet) = packet.id
  BY ThePacket DEF ClientInv, handle_PUBREC
<1>2. /\ frame' = rest
      /\ UNCHANGED <<connection, numbers, delivered, sent, link, to_client>>
  BY DEF handle_PUBREC, callbacks, page
<1>3. /\ packet \in ToSet(Pipe) /\ Fewer(Pipe)
      /\ packet.id # 0 => \A p \in ToSet(Pipe') : p.id # packet.id
  BY <1>2, PacketTaken
<1>4. CASE ~in_flight(packet.id)
  <2>1. UNCHANGED <<localStorage, to_server>>
    BY <1>4 DEF handle_PUBREC
  <2>2. Passes
    BY <1>2, <1>3, <2>1, PagePasses DEF QueuePasses, PageKept, numbers, bounds, connection
  <2>. QED BY <2>2
<1>5. CASE in_flight(packet.id)
  <2>1. PICK a \in DOMAIN sentMessages \ {0} : a = packet.id
    BY <1>5, BegunItems DEF ClientInv, Memory, in_flight
  <2>2. sentMessages[a].item \in Message /\ QoS[sentMessages[a].item] # 1
    BY <1>1, <2>1 DEF Match, Fits
  <2>3. /\ a \in DOMAIN Store /\ Store[a] = sentMessages[a] /\ QoS[Store[a].item] = 2
        /\ Store[a] \in Flight
    BY <2>1, <2>2, StoreFacts
  <2> DEFINE e == [Store[a] EXCEPT !.pubRecReceived = TRUE]
  <2>4. e = [sentMessages[a] EXCEPT !.pubRecReceived = TRUE] /\ e.item = Store[a].item
    BY <2>3 DEF Flight
  <2>. HIDE DEF e
  <2>5. /\ localStorage' = store_sent(a, e)
        /\ socket_send(<<Packet("PUBREL", a, Store[a].item)>>)
    BY <1>1, <1>5, <2>1, <2>3, <2>4 DEF handle_PUBREC, schedule_message
  <2>6. Store' = With(Store, a, [Store[a] EXCEPT !.pubRecReceived = TRUE])
    BY <2>5, StorageParts DEF store_sent, Store, e
  <2>7. Acknowledged(a, "PUBREC")
    BY <1>1, <1>2, <1>3, <2>1, <2>3
       DEF Acknowledged, ServerKept, PageKept, server, bounds, numbers, connection
  <2>8. Marks(a)
    BY <1>2, <2>3, <2>5, <2>6, <2>7 DEF Marks
  <2>. QED BY <2>3, <2>8
<1>. QED BY <1>4, <1>5

-----------------------------------------------------------------------------
(* Every step is one of these: the CONNACK *)

(***************************************************************************)
(* Until the client is greeted nothing of an exchange travels.             *)
(***************************************************************************)
LEMMA GreetingTaken ==
    ASSUME ClientInv, frame # <<>>, packet.type = "CONNACK", clean_session,
           frame' = rest, to_client' = to_client \/ (rest = <<>> /\ to_client' = <<>>)
    PROVE  /\ ~connected /\ OpeningOnly(to_server)
           /\ \A p \in ToSet(to_server) : p.type \notin Sending
           /\ Fewer(Pipe) /\ \A p \in ToSet(Pipe') : p.type \in Receipt => p.id = 0
           /\ CleanSession => kept = NoEntries /\ DOMAIN Store' = {}
           /\ ~CleanSession => kept = sentMessages /\ localStorage' = localStorage
<1>1. ~connected
  BY ThePacket DEF ClientInv
<1>2. Pipe # <<>>
  BY PipeType DEF ClientInv, Protocol
<1>3. OpeningOnly(to_server) /\ \A p \in ToSet(to_server) : p.type \notin Sending
  BY <1>1, <1>2 DEF ClientInv, Protocol, Greeting, OpeningOnly, Opening, Sending
<1>4. Fewer(Pipe)
  BY PacketTaken, PipeGone
<1>5. \A p \in ToSet(Pipe) : p.type \in Receipt => p.id = 0
  BY <1>1 DEF ClientInv, Protocol, Exchanges, Match, Ref, Receipt
<1>6. ASSUME CleanSession
      PROVE  kept = NoEntries /\ DOMAIN Store' = {}
  <2>1. kept = NoEntries /\ DOMAIN Mirror(kept) = {}
    BY <1>6 DEF kept, NoEntries, Mirror
  <2>2. localStorage' = [Sent |-> Mirror(kept), Received |-> receivedMessages']
    BY Cleaned DEF ClientInv
  <2>. QED BY <2>1, <2>2 DEF Store
<1>. QED BY <1>1, <1>3, <1>4, <1>5, <1>6 DEF Fewer, kept, clean_session

LEMMA RefusedPasses ==
    ASSUME ClientInv, frame # <<>>, handle_CONNACK_refused, bounds' = bounds, UNCHANGED server
    PROVE  Passes \/ Forgets
<1>1. /\ packet.type = "CONNACK" /\ clean_session /\ give_up /\ frame' = rest
      /\ UNCHANGED <<numbers, callbacks, sent>>
  BY DEF handle_CONNACK_refused
<1>2. rest = <<>> /\ connected \in BOOLEAN
  BY <1>1, ThePacket DEF ClientInv, Sockets, handle_CONNACK_refused
<1>3. to_client' = <<>> /\ to_server' = to_server
  BY <1>1, <1>2, Disconnected DEF give_up
<1>4. CASE ~CleanSession
  <2>1. localStorage' = localStorage
    BY <1>1, <1>4 DEF clean_session
  <2>. QED BY <1>1, <1>2, <1>3, <2>1, EndPasses DEF give_up, callbacks
<1>5. CASE CleanSession
  <2>1. /\ ~connected /\ \A p \in ToSet(to_server) : p.type \notin Sending
        /\ Fewer(Pipe) /\ DOMAIN Store' = {}
    BY <1>1, <1>2, <1>3, <1>5, GreetingTaken
  <2>. QED BY <1>1, <1>3, <1>5, <2>1 DEF Forgets, ServerKept, callbacks, server, bounds
<1>. QED BY <1>4, <1>5

(***************************************************************************)
(* An order of a set has all of it.                                        *)
(***************************************************************************)
LEMMA WholeOrder ==
    ASSUME NEW S, IsFiniteSet(S), NEW order \in SetToSeqs(S)
    PROVE  /\ DOMAIN order = 1 .. Cardinality(S) /\ Cardinality(S) \in Nat
           /\ \A i \in DOMAIN order : order[i] \in S
           /\ \A x \in S : \E i \in DOMAIN order : order[i] = x
<1> DEFINE n == Cardinality(S)
           R == {order[i] : i \in 1 .. n}
<1>1. n \in Nat
  BY FS_CardinalityType
<1>2. order \in [1 .. n -> S] /\ \A i, j \in 1 .. n : i # j => order[i] # order[j]
  BY DEF SetToSeqs
<1>. HIDE DEF n
<1>3. order \in [1 .. n -> R] /\ R \subseteq S
  BY <1>2
<1>4. order \in Bijection(1 .. n, R)
  BY <1>2, <1>3 DEF Bijection, Injection, Surjection, IsInjective
<1>5. Cardinality(R) = n
  BY <1>1, <1>4, FS_CountingElements DEF ExistsBijection
<1>6. R = S
  BY <1>3, <1>5, FS_Subset DEF n
<1>. QED BY <1>1, <1>2, <1>6 DEF n

(***************************************************************************)
(* What is sent again in a session that outlives its connections.          *)
(***************************************************************************)
LEMMA AllResent ==
    ASSUME Few, ClientInv, Book, ~CleanSession, NEW order \in ResendOrders
    PROVE  LET again == [i \in DOMAIN order |-> resend(order[i])]
           IN  /\ again \in Seq(Up)
               /\ \A p \in ToSet(again) : p.type \in Sending => p.id # 0 /\ Stored(p)
               /\ \A a \in DOMAIN Store :
                     ~Store[a].pubRecReceived =>
                        \E p \in ToSet(again) : Carries(p, Store[a].item)
               /\ Subscription \cup Unsubscription = {} => Sorted(again)
<1> DEFINE again == [i \in DOMAIN order |-> resend(order[i])]
<1>1. /\ kept = sentMessages /\ Memory
      /\ kept \in [DOMAIN kept -> Flight]
  BY DEF kept, ClientInv, Memory
<1>2. /\ again \in Seq(Up) /\ IsFiniteSet(DOMAIN kept)
      /\ \A id \in DOMAIN kept : id # 0 /\ resend(id).id = id
  BY <1>1, Resent
<1>3. /\ DOMAIN order = 1 .. Cardinality(DOMAIN kept) /\ Cardinality(DOMAIN kept) \in Nat
      /\ \A i \in DOMAIN order : order[i] \in DOMAIN kept
      /\ \A id \in DOMAIN kept : \E i \in DOMAIN order : order[i] = id
  BY <1>2, WholeOrder DEF ResendOrders
<1>4. /\ DOMAIN again = DOMAIN order
      /\ \A i \in DOMAIN order : again[i] = resend(order[i])
  OBVIOUS
<1>5. \A id \in DOMAIN kept :
         /\ resend(id).what = kept[id].item
         /\ resend(id).type = IF kept[id].pubRecReceived THEN "PUBREL"
                              ELSE TypeOf(kept[id].item)
  BY DEF resend, Packet
<1>6. /\ DOMAIN Store = {a \in DOMAIN kept : kept[a].item \in Message}
      /\ \A a \in DOMAIN Store : Store[a] = kept[a] /\ Store[a].pubRecReceived \in BOOLEAN
  BY <1>1, StoreFacts
<1>. HIDE DEF again
<1>7. ASSUME NEW p \in ToSet(again), p.type \in Sending
      PROVE  p.id # 0 /\ Stored(p)
  <2>1. PICK id \in DOMAIN kept : p = resend(id)
    BY <1>3, <1>4 DEF ToSet
  <2>2. kept[id].item \in Message
    BY <1>1, <1>5, <1>7, <2>1 DEF Flight, TypeOf, Sending
  <2>3. id \in DOMAIN Store /\ Store[id] = kept[id] /\ kept[id].pubRecReceived \in BOOLEAN
    BY <1>6, <2>2
  <2>4. /\ p.id = id /\ id # 0 /\ p.what = kept[id].item
        /\ p.type = IF kept[id].pubRecReceived THEN "PUBREL" ELSE "PUBLISH"
    BY <1>2, <1>5, <2>1, <2>2 DEF TypeOf
  <2>. QED BY <2>3, <2>4 DEF Stored
<1>8. ASSUME NEW i \in DOMAIN order, NEW a \in DOMAIN Store, order[i] = a,
             ~Store[a].pubRecReceived
      PROVE  Carries(again[i], Store[a].item)
  BY <1>4, <1>5, <1>6, <1>8 DEF Carries, TypeOf
<1>9. ASSUME NEW a \in DOMAIN Store, ~Store[a].pubRecReceived
      PROVE  \E p \in ToSet(again) : Carries(p, Store[a].item)
  <2>1. PICK i \in DOMAIN order : order[i] = a
    BY <1>3, <1>6
  <2>. QED BY <1>4, <1>8, <1>9, <2>1 DEF ToSet
<1>10. ASSUME Subscription \cup Unsubscription = {}
       PROVE  Sorted(again)
  <2>1. \A i, j \in DOMAIN order :
           i < j => kept[order[i]].sequence <= kept[order[j]].sequence
    <3>1. \A id \in DOMAIN kept : kept[id].item \in Message
      BY <1>1, <1>10 DEF Flight, Item
    <3>. QED BY <3>1 DEF ResendOrders
  <2>2. ASSUME NEW k \in DOMAIN again, NEW a \in DOMAIN Store, NEW b \in DOMAIN Store,
               Carries(again[k], Store[b].item),
               ~Store[a].pubRecReceived, Store[a].sequence < Store[b].sequence
        PROVE  Behind(again, k, Store[a].item)
    <3>1. order[k] = b
      <4>1. /\ order[k] \in DOMAIN kept /\ kept[order[k]].item = Store[b].item
        BY <1>3, <1>4, <1>5, <2>2 DEF Carries
      <4>2. Store[b].item \in Message
        BY <1>6
      <4>3. order[k] \in DOMAIN Store /\ Store[order[k]].item = Store[b].item
        BY <1>6, <4>1, <4>2
      <4>. QED BY <4>3 DEF Book
    <3>2. PICK i \in DOMAIN order : order[i] = a
      BY <1>3, <1>6
    <3>3. kept[order[i]].sequence < kept[order[k]].sequence
      BY <1>6, <2>2, <3>1, <3>2
    <3>4. k \in Nat /\ i \in Nat /\ k \in DOMAIN order
      BY <1>3, <1>4
    <3>5. kept[order[i]].sequence \in Nat /\ kept[order[k]].sequence \in Nat
      BY <1>6, <3>1, <3>2, StoreFacts
    <3>6. ~(k < i) /\ k # i
      BY <2>1, <3>3, <3>4, <3>5
    <3>7. i < k
      BY <3>4, <3>6
    <3>. QED BY <1>4, <1>8, <2>2, <3>2, <3>7 DEF Behind
  <2>. QED BY <2>2 DEF Sorted
<1>. QED BY <1>2, <1>7, <1>9, <1>10 DEF again

(***************************************************************************)
(* The subscription that onSuccess makes follows what is sent again.       *)
(***************************************************************************)
LEMMA GreetingSent ==
    ASSUME Few, ClientInv, frame # <<>>, handle_CONNACK_accepted
    PROVE  \E order \in ResendOrders, out \in Seq(Up) :
              LET again == [i \in DOMAIN order |-> resend(order[i])]
              IN  /\ socket_send(out) /\ again \in Seq(Up)
                  /\ ToSet(again) \subseteq ToSet(out)
                  /\ \A p \in ToSet(out) :
                        p.type \in Question /\ (p \in ToSet(again) \/ p.type \notin Sending)
                  /\ \A p \in ToSet(again) : p.id \in DOMAIN kept
                  /\ Subscription = {} => out = again
                  /\ sequence' = sequence
<1>1. msg_queue = <<>> /\ Memory /\ clean_session /\ sent' = sent
  BY DEF ClientInv, Sockets, handle_CONNACK_accepted
<1>2. kept \in [DOMAIN kept -> Flight] /\ DOMAIN kept \subseteq DOMAIN sentMessages
  BY <1>1, Cleaned
<1>3. PICK order \in ResendOrders :
         socket_send(msg_queue \o [i \in DOMAIN order |-> resend(order[i])]
                       \o SetToSeq(greetings(first_subscription)))
  BY DEF handle_CONNACK_accepted
<1> DEFINE again == [i \in DOMAIN order |-> resend(order[i])]
<1>4. /\ again \in Seq(Up)
      /\ \A p \in ToSet(again) : p.type \in Question /\ p.id \in DOMAIN kept
  BY <1>1, <1>2, Resent
<1>. HIDE DEF again
<1>5. socket_send(again \o SetToSeq(greetings(first_subscription)))
  BY <1>1, <1>3, <1>4, ConcatEmptySeq DEF again
<1>6. PICK one \in Seq(Up) :
         /\ one = SetToSeq(greetings(first_subscription))
         /\ \A p \in ToSet(one) : p.type \in Question /\ p.type \notin Sending
         /\ Subscription = {} => one = <<>>
         /\ sequence' = sequence
  <2>1. CASE first_subscription = {}
    <3>1. greetings({}) = {} /\ SetToSeq({}) = <<>>
      BY OnePacket DEF greetings
    <3>2. sequence' = sequence
      BY <2>1 DEF handle_CONNACK_accepted, onSuccess, numbers
    <3>3. <<>> \in Seq(Up) /\ ToSet(<<>>) = {}
      BY EmptySeq, EmptyRefs
    <3>. QED BY <2>1, <3>1, <3>2, <3>3
  <2>2. CASE first_subscription # {}
    <3>1. PICK s \in Subscription \ requested : first_subscription = {s}
      BY <2>2 DEF first_subscription
    <3>2. requires_ack(kept, s)
      BY <3>1 DEF handle_CONNACK_accepted, onSuccess
    <3>3. s \in Item \ Begun /\ s \notin Message
      <4>1. ToSet(sent) \subseteq Message
        BY QueueTypes
      <4>. QED BY <3>1, <4>1, ClientAssumption DEF Begun, Item
    <3>4. PICK id \in Nat \ {0}, e \in Flight, p \in Up : Begins(s, kept, id, e, p)
      BY <1>1, <1>2, <3>2, <3>3, NewExchange
    <3>5. greetings({s}) = {p} /\ p.type = "SUBSCRIBE"
      BY <3>1, <3>3, <3>4 DEF Begins, greetings, TypeOf, Packet
    <3>6. SetToSeq({p}) \in Seq(Up) /\ ToSet(SetToSeq({p})) \subseteq {p}
      BY OnePacket
    <3>7. sequence' = sequence
      BY <3>2, <3>3 DEF requires_ack
    <3>. QED BY <3>1, <3>5, <3>6, <3>7 DEF Sending, Question
  <2>. QED BY <2>1, <2>2
<1>7. PICK out \in Seq(Up) : /\ out = again \o one
                             /\ ToSet(out) = ToSet(again) \cup ToSet(one)
  <2>1. again \o one \in Seq(Up) /\ ToSet(again \o one) = ToSet(again) \cup ToSet(one)
    BY <1>4, ConcatRefs
  <2>. QED BY <2>1
<1>8. Subscription = {} => out = again
  BY <1>4, <1>6, <1>7, ConcatEmptySeq
<1>9. /\ socket_send(out) /\ ToSet(again) \subseteq ToSet(out)
      /\ \A p \in ToSet(out) :
            p.type \in Question /\ (p \in ToSet(again) \/ p.type \notin Sending)
  BY <1>4, <1>5, <1>6, <1>7
<1>. QED BY <1>4, <1>6, <1>8, <1>9 DEF again

LEMMA AcceptedResumes ==
    ASSUME Few, ClientInv, Book, frame # <<>>, handle_CONNACK_accepted, bounds' = bounds,
           UNCHANGED server
    PROVE  Resumes \/ Forgets
<1>1. /\ packet.type = "CONNACK" /\ clean_session /\ frame' = rest /\ connected' = TRUE
      /\ UNCHANGED <<callbacks, sent, link, to_client>>
  BY DEF handle_CONNACK_accepted
<1>2. PICK order \in ResendOrders, out \in Seq(Up) :
         LET again == [i \in DOMAIN order |-> resend(order[i])]
         IN  /\ socket_send(out) /\ again \in Seq(Up)
             /\ ToSet(again) \subseteq ToSet(out)
             /\ \A p \in ToSet(out) :
                   p.type \in Question /\ (p \in ToSet(again) \/ p.type \notin Sending)
             /\ \A p \in ToSet(again) : p.id \in DOMAIN kept
             /\ Subscription = {} => out = again
             /\ sequence' = sequence
  BY GreetingSent
<1> DEFINE again == [i \in DOMAIN order |-> resend(order[i])]
<1>. HIDE DEF again
<1>3. /\ ~connected /\ OpeningOnly(to_server)
      /\ \A p \in ToSet(to_server) : p.type \notin Sending
      /\ Fewer(Pipe) /\ \A p \in ToSet(Pipe') : p.type \in Receipt => p.id = 0
      /\ CleanSession => kept = NoEntries /\ DOMAIN Store' = {}
      /\ ~CleanSession => localStorage' = localStorage
  BY <1>1, GreetingTaken
<1>4. CASE ~CleanSession
  <2>1. /\ \A p \in ToSet(again) : p.type \in Sending => p.id # 0 /\ Stored(p)
        /\ \A a \in DOMAIN Store :
              ~Store[a].pubRecReceived =>
                 \E p \in ToSet(again) : Carries(p, Store[a].item)
        /\ Subscription \cup Unsubscription = {} => Sorted(again)
    BY <1>4, AllResent DEF again
  <2>2. /\ socket_send(out)
        /\ \A p \in ToSet(out) : p.type \in Sending => p.id # 0 /\ Stored(p)
        /\ \A a \in DOMAIN Store :
              ~Store[a].pubRecReceived =>
                 \E p \in ToSet(out) : Carries(p, Store[a].item)
        /\ Subscription \cup Unsubscription = {} => Sorted(out)
    BY <1>2, <2>1 DEF again
  <2>3. /\ TablesKept /\ ServerKept /\ PageKept /\ UNCHANGED <<link, online>>
    BY <1>1, <1>2, <1>3, <1>4
       DEF TablesKept, Store, ServerKept, PageKept, server, bounds, callbacks
  <2>. QED BY <1>1, <1>3, <1>4, <2>2, <2>3 DEF Resumes
<1>5. CASE CleanSession
  <2>1. \A p \in ToSet(out) : p.type \notin Sending
    BY <1>2, <1>3, <1>5 DEF again, NoEntries
  <2>2. \A p \in ToSet(to_server') : p.type \notin Sending
    <3>1. \A p \in ToSet(to_server') : p \in ToSet(to_server) \/ p \in ToSet(out)
      BY <1>2, QueueTypes, ConcatToSet DEF socket_send
    <3>. QED BY <1>3, <2>1, <3>1
  <2>. QED BY <1>1, <1>3, <1>5, <2>2 DEF Forgets, ServerKept, callbacks, server, bounds
<1>. QED BY <1>4, <1>5

LEMMA HandleSends ==
    ASSUME Calm, Few, ClientInv, Book, Handles, UNCHANGED server
    PROVE  \/ Passes \/ Resumes \/ Forgets
           \/ \E a \in DOMAIN Store : Marks(a) \/ Finishes(a)
<1>1. HandleMessage /\ frame # <<>> /\ bounds' = bounds
  BY DEF Handles, HandleMessage, NoFault
<1>2. ~handle_CONNACK_quits
  BY EmptyRefs DEF ClientInv, Sockets, handle_CONNACK_quits
<1>3. ~handle_EXCEPTION
  BY <1>1, ThePacket DEF ClientInv, handle_EXCEPTION, Down, Answer
<1>4. CASE handle_CONNACK_refused
  BY <1>1, <1>4, RefusedPasses
<1>5. CASE handle_CONNACK_accepted
  BY <1>1, <1>5, AcceptedResumes
<1>6. CASE handle_PUBLISH \/ handle_PUBREL
  BY <1>1, <1>6, ArrivalPasses
<1>7. CASE handle_PUBACK
  BY <1>1, <1>7, QuietPasses, ForgetFinishes DEF handle_PUBACK
<1>8. CASE handle_PUBREC
  BY <1>1, <1>8, PubrecMarks
<1>9. CASE handle_PUBCOMP
  <2>1. packet \in Down /\ packet.type = "PUBCOMP"
    BY <1>1, <1>9, ThePacket DEF ClientInv, handle_PUBCOMP
  <2>2. in_flight(packet.id)
    BY <1>1, <2>1, ThePacket DEF ClientInv, Down, Match, in_flight
  <2>. QED BY <1>1, <1>9, <2>1, <2>2, ForgetFinishes DEF handle_PUBCOMP
<1>10. CASE handle_request_ack
  BY <1>1, <1>10, QuietPasses DEF handle_request_ack
<1>11. CASE handle_PINGRESP
  <2>1. frame' = rest /\ UNCHANGED <<connection, numbers, callbacks, page, session, network>>
    BY <1>11 DEF handle_PINGRESP
  <2>2. Fewer(Pipe)
    BY <1>1, <2>1, PacketTaken DEF network
  <2>. QED BY <1>1, <2>1, <2>2, PagePasses
           DEF QueuePasses, PageKept, numbers, bounds, connection, network, callbacks, page,
               session
<1>. QED BY <1>1, <1>2, <1>3, <1>4, <1>5, <1>6, <1>7, <1>8, <1>9, <1>10, <1>11
         DEF HandleMessage

LEMMA ConnectPasses ==
    ASSUME ClientInv, PageConnects, UNCHANGED server
    PROVE  Passes
<1>1. /\ ~connected /\ connected' = FALSE /\ bounds' = bounds
      /\ UNCHANGED <<session, numbers, callbacks, sent, frame, network>>
  BY DEF PageConnects, Connect, NoFault, doConnect
<1>2. Pipe' = Pipe /\ PageKept
  BY <1>1 DEF Pipe, PageKept, numbers, bounds, network
<1>. QED BY <1>1, <1>2, PagePasses DEF QueuePasses, Fewer, session, callbacks, network

LEMMA DisconnectPasses ==
    ASSUME Calm, ClientInv, PageDisconnects, UNCHANGED server
    PROVE  Passes
<1>1. /\ connected /\ Disconnect /\ UNCHANGED <<faults, reloads>>
  BY DEF PageDisconnects, Calm
<1>2. /\ disconnected(TRUE, hostIndex) /\ socket_send(<<DISCONNECT>>) /\ frame' = <<>>
      /\ UNCHANGED <<session, numbers, callbacks, sent>>
  BY <1>1 DEF Disconnect
<1>3. to_client' = <<>> /\ connected' = FALSE /\ link' = FALSE
  BY <1>2, Disconnected
<1>4. Fewer(Pipe)
  BY <1>2, <1>3, PipeGone
<1>5. QueuePasses
  <2>1. DISCONNECT \in Up /\ DISCONNECT.type \notin Sending
    BY DEF DISCONNECT, Packet, Up, Ref, Question, Word, Sending
  <2>. QED BY <1>2, <2>1, OtherSent
<1>6. PageKept
  BY <1>1, <1>2 DEF PageKept, numbers
<1>. QED BY <1>2, <1>3, <1>4, <1>5, <1>6, PagePasses DEF session, callbacks

LEMMA ClosePasses ==
    ASSUME ClientInv, Closes \/ TakesTooLong, UNCHANGED server
    PROVE  Passes
<1>1. /\ give_up /\ frame' = <<>> /\ UNCHANGED <<session, numbers, callbacks, sent>>
      /\ bounds' = bounds \/ Fault
  BY DEF Closes, TakesTooLong, on_socket_close, ConnectTimeout, NoFault
<1>2. connected \in BOOLEAN
  BY DEF ClientInv, Sockets
<1>. QED BY <1>1, <1>2, EndPasses DEF give_up, session, callbacks

LEMMA TimeoutPasses ==
    ASSUME ClientInv, RequestsTimeOut, UNCHANGED server
    PROVE  Passes
<1>1. /\ UNCHANGED <<connection, session, numbers, delivered, sent, frame, network>>
      /\ bounds' = bounds
  BY DEF RequestsTimeOut, RequestTimeout, NoFault
<1>2. Pipe' = Pipe /\ PageKept
  BY <1>1 DEF Pipe, PageKept, numbers, bounds, network
<1>. QED BY <1>1, <1>2, PagePasses DEF QueuePasses, Fewer, session, connection, network

LEMMA ReceivePasses ==
    ASSUME ClientInv, Receives, UNCHANGED server
    PROVE  Passes
<1>1. /\ UNCHANGED <<connection, session, numbers, callbacks, page, link, to_server>>
      /\ bounds' = bounds
  BY DEF Receives, on_socket_message, NoFault
<1>2. Pipe' = Pipe /\ PageKept
  BY <1>1, PipeTaken DEF Receives, PageKept, numbers, bounds
<1>. QED BY <1>1, <1>2, PagePasses DEF QueuePasses, Fewer, session, callbacks, page,
                                       connection

LEMMA ClientSends ==
    ASSUME Calm, Few, ClientInv, Book, ClientNext
    PROVE  SenderStep
<1>0. UNCHANGED server
  BY DEF ClientNext, InPage
<1>1. CASE PageConnects
  BY <1>0, <1>1, ConnectPasses DEF SenderStep
<1>2. CASE PageSends
  BY <1>0, <1>2, SendSends DEF PageSends, NoFault, SenderStep
<1>3. CASE PageAsks
  BY <1>0, <1>3, AskPasses DEF SenderStep
<1>4. CASE PageDisconnects
  BY <1>0, <1>4, DisconnectPasses DEF SenderStep
<1>5. CASE PageReloads
  BY <1>0, <1>5, ReloadPasses DEF SenderStep
<1>6. CASE RequestsTimeOut
  BY <1>0, <1>6, TimeoutPasses DEF SenderStep
<1>7. CASE Opens
  BY <1>0, <1>7, OpenPasses DEF SenderStep
<1>8. CASE Closes \/ TakesTooLong
  BY <1>0, <1>8, ClosePasses DEF SenderStep
<1>9. CASE Pings
  BY <1>0, <1>9, PingPasses DEF SenderStep
<1>10. CASE Receives
  BY <1>0, <1>10, ReceivePasses DEF SenderStep
<1>11. CASE Handles
  BY <1>0, <1>11, HandleSends DEF SenderStep
<1>. QED BY <1>1, <1>2, <1>3, <1>4, <1>5, <1>6, <1>7, <1>8, <1>9, <1>10, <1>11
         DEF ClientNext, InPage

-----------------------------------------------------------------------------
(* Every step is one of these: the server *)

LEMMA RepliedPipe ==
    ASSUME ClientInv, to_server # <<>>, NEW out \in Seq(Down), Reply(out)
    PROVE  /\ UNCHANGED <<client, link>> /\ to_server' = Tail(to_server)
           /\ Pipe' = IF Live' THEN Pipe \o out ELSE Pipe
           /\ \A p \in ToSet(Pipe') : p \in ToSet(Pipe) \/ (Live' /\ p \in ToSet(out))
<1>1. /\ UNCHANGED <<client, link, frame>> /\ to_server' = Tail(to_server)
      /\ to_client' = IF Live' THEN to_client \o out ELSE to_client
  BY Replied DEF Reply
<1>2. Wires /\ Pipe \in Seq(Down)
  BY PipeType DEF ClientInv, Protocol
<1>3. Pipe' = IF Live' THEN Pipe \o out ELSE Pipe
  <2>1. CASE Live'
    BY <1>1, <1>2, <2>1, PipeArrives
  <2>2. CASE ~Live'
    BY <1>1, <2>2 DEF Pipe
  <2>. QED BY <2>1, <2>2
<1>4. ToSet(Pipe \o out) = ToSet(Pipe) \cup ToSet(out)
  BY <1>2, ConcatToSet
<1>. QED BY <1>1, <1>3, <1>4

(***************************************************************************)
(* On a connection that works, no packet of the exchange that is answered  *)
(* travels.                                                                *)
(***************************************************************************)
LEMMA LiveApart ==
    ASSUME ClientInv', Live', NEW p \in ToSet(Pipe'), p.type \in Receipt
    PROVE  Apart(p)'
<1>1. Refs(Pipe') \cap Refs(to_server') \subseteq {0}
  BY DEF ClientInv, Protocol, Exchanges
<1>2. Ref(p) = p.id /\ Ref(p) \in Refs(Pipe')
  BY DEF Ref, Refs, Receipt
<1>3. \A q \in ToSet(to_server') :
         Ref(q) \in Refs(to_server') /\ (q.type \in Sending => Ref(q) = q.id)
  BY DEF Ref, Refs, Sending
<1>. QED BY <1>1, <1>2, <1>3 DEF Apart

LEMMA ReplyServes ==
    ASSUME ClientInv, ClientInv', to_server # <<>>, NEW out \in Seq(Down), Reply(out),
           bounds' = bounds \/ Fault, NEW types,
           \A p \in ToSet(out) :
              p.type \in Receipt => p.type \in types /\ p.id = Arrival.id
    PROVE  Served /\ Acknowledges(types)
<1>1. /\ UNCHANGED <<client, link>> /\ to_server' = Tail(to_server)
      /\ \A p \in ToSet(Pipe') : p \in ToSet(Pipe) \/ (Live' /\ p \in ToSet(out))
  BY RepliedPipe
<1>2. Served
  BY <1>1 DEF Served, TablesKept, Store, PageKept, client, connection, session, numbers,
              callbacks, page, bounds, Fault
<1>3. ASSUME NEW p \in ToSet(Pipe'), p \notin ToSet(Pipe), p.type \in Receipt
      PROVE  p.type \in types /\ p.id = Arrival.id /\ Apart(p)'
  BY <1>1, <1>3, LiveApart
<1>4. Acknowledges(types)
  BY <1>3 DEF Acknowledges
<1>. QED BY <1>2, <1>4

LEMMA ServedPasses ==
    ASSUME ClientInv, Served, ServerKept, Acknowledges({}), online' => online,
           Arrival.type \notin Sending \/ ~online'
    PROVE  Passes
<1>1. QueuePasses
  BY DEF Served, QueuePasses, Arrival
<1>. QED BY <1>1 DEF Passes, Served, Acknowledges

LEMMA ConnectStarts ==
    ASSUME Few, ClientInv, ClientInv', to_server # <<>>, ServerConnect
    PROVE  Starts
<1>1. Arrival.type = "CONNECT" /\ got' = got /\ (bounds' = bounds \/ Fault)
      /\ incoming' = IF CleanSession THEN {} ELSE incoming
  BY DEF ServerConnect, IsCONNECT, NoFault
<1>2. to_server \in Seq(Up) /\ Arrival \in ToSet(to_server)
  BY QueueTypes, QueueServed
<1>3. ~connected
  BY <1>1, <1>2 DEF ClientInv, Protocol, Greeting, NoType
<1>4. OpeningOnly(Tail(to_server))
  <2>1. ConnectsLast(to_server)
    BY DEF ClientInv, Protocol, Greeting
  <2>. QED BY <1>1, <1>2, <2>1, TailRefs DEF Arrival
<1>5. PICK out \in Seq(Down) : Reply(out) /\ \A p \in ToSet(out) : p.type \notin Receipt
  <2> DEFINE C(verdict) == <<Packet("CONNACK", 0, verdict)>>
  <2>1. ASSUME NEW verdict \in {"accepted", "refused"}
        PROVE  C(verdict) \in Seq(Down) /\ \A p \in ToSet(C(verdict)) : p.type \notin Receipt
    <3> DEFINE p == Packet("CONNACK", 0, verdict)
    <3>1. p \in Down /\ p.type \notin Receipt
      BY DEF Packet, Down, Answer, Ref, Word, Receipt
    <3>. HIDE DEF p
    <3>2. <<p>> \in Seq(Down) /\ ToSet(<<p>>) = {p}
      BY <3>1 DEF ToSet
    <3>. QED BY <3>1, <3>2 DEF p
  <2>2. ASSUME NEW progress
        PROVE  /\ C("accepted") \o Owed(progress) \in Seq(Down)
               /\ \A p \in ToSet(C("accepted") \o Owed(progress)) : p.type \notin Receipt
    <3>1. /\ C("accepted") \in Seq(Down) /\ Owed(progress) \in Seq(Down)
          /\ \A p \in ToSet(C("accepted")) : p.type \notin Receipt
          /\ \A p \in ToSet(Owed(progress)) : p.type \notin Receipt
      BY <2>1, OwedPackets DEF Receipt
    <3>. HIDE DEF C
    <3>. QED BY <3>1, ConcatRefs
  <2>3. \/ \E progress : Reply(C("accepted") \o Owed(progress))
        \/ Reply(C("refused"))
    BY DEF ServerConnect
  <2>. HIDE DEF C
  <2>. QED BY <2>1, <2>2, <2>3
<1>6. Served /\ Acknowledges({})
  BY <1>1, <1>5, ReplyServes
<1>. QED BY <1>1, <1>3, <1>4, <1>6 DEF Starts, Served

LEMMA ServesSends ==
    ASSUME ClientInv, ClientInv', to_server # <<>>, ServerServes
    PROVE  Passes \/ Takes \/ Releases
<1>0. PICK a, id, m : a = Arrival /\ id = Arrival.id /\ m = Arrival.what
  OBVIOUS
<1>1. /\ a \in Up /\ online /\ online' = online /\ bounds' = bounds
  BY <1>0, QueueServed DEF ServerServes, NoFault
<1>2. /\ id \in Nat /\ a.id = id /\ a.what = m
      /\ a.type = "PUBLISH" => m \in Message
      /\ a.type \in {"PUBACK", "PUBREC", "PUBCOMP"} => m \in Arriving
      /\ a.type = "PUBREL" => id # 0
      /\ m \in Word
      /\ m \in Message => QoS[m] \in {0, 1, 2}
  BY <1>0, <1>1, ClientAssumption DEF Up
<1>3. ASSUME NEW type, NEW n, NEW what, Packet(type, n, what) \in Down, NEW types,
             type \in Receipt => type \in types /\ n = id,
             Reply(<<Packet(type, n, what)>>)
      PROVE  Served /\ Acknowledges(types)
  <2> DEFINE p == Packet(type, n, what)
  <2>1. p \in Down /\ p.type = type /\ p.id = n
    BY <1>3 DEF Packet
  <2>2. Reply(<<p>>)
    BY <1>3
  <2>. HIDE DEF p
  <2>3. <<p>> \in Seq(Down) /\ ToSet(<<p>>) = {p}
    BY <2>1 DEF ToSet
  <2>. QED BY <1>0, <1>1, <1>3, <2>1, <2>2, <2>3, ReplyServes
<1>4. ASSUME Reply(<<>>), NEW types
      PROVE  Served /\ Acknowledges(types)
  <2>1. <<>> \in Seq(Down) /\ ToSet(<<>>) = {}
    BY EmptySeq, EmptyRefs
  <2>. QED BY <1>1, <1>4, <2>1, ReplyServes
<1>5. CASE a.type = "PUBLISH"
  <2> DEFINE types == {"PUBACK", "PUBREC"}
  <2>1. /\ got' = IF QoS[m] = 2 /\ id \in incoming THEN got ELSE Append(got, m)
        /\ incoming' = IF QoS[m] = 2 THEN incoming \cup {id} ELSE incoming
    BY <1>0, <1>5 DEF ServerServes
  <2>2. \/ Reply(<<>>)
        \/ Reply(<<Packet("PUBACK", id, m)>>)
        \/ Reply(<<Packet("PUBREC", id, m)>>)
    BY <1>0, <1>5 DEF ServerServes
  <2>3. Packet("PUBACK", id, m) \in Down /\ Packet("PUBREC", id, m) \in Down
    BY <1>2 DEF Packet, Down, Answer, Ref
  <2>4. Served /\ Acknowledges(types)
    BY <1>3, <1>4, <2>2, <2>3
  <2>5. Takes
    BY <1>0, <1>1, <1>2, <1>5, <2>1, <2>4 DEF Takes
  <2>. QED BY <2>5
<1>6. CASE a.type = "PUBREL"
  <2>1. /\ got' = got /\ incoming' = incoming \ {id}
        /\ Reply(<<Packet("PUBCOMP", id, m)>>)
    BY <1>0, <1>6 DEF ServerServes
  <2>2. Packet("PUBCOMP", id, m) \in Down
    BY <1>2, <1>6 DEF Packet, Down, Answer, Ref
  <2>3. Served /\ Acknowledges({"PUBCOMP"})
    BY <1>3, <2>1, <2>2
  <2>4. Releases
    BY <1>0, <1>1, <1>2, <1>6, <2>1, <2>3 DEF Releases
  <2>. QED BY <2>4
<1>7. CASE a.type \notin Sending
  <2>1. got' = got /\ incoming' = incoming
    BY <1>0, <1>7 DEF ServerServes, Sending
  <2>2. \/ Reply(<<>>)
        \/ a.type = "PUBREC" /\ Reply(<<Packet("PUBREL", ServerId, m)>>)
        \/ \E verdict \in {"granted", "refused"} : Reply(<<Packet("SUBACK", id, verdict)>>)
        \/ Reply(<<Packet("UNSUBACK", id, NoItem)>>)
        \/ Reply(<<Packet("PINGRESP", 0, NoItem)>>)
    BY <1>0, <1>7 DEF ServerServes, Sending
  <2>3. /\ m \in Arriving => Packet("PUBREL", ServerId, m) \in Down
        /\ \A verdict \in {"granted", "refused"} : Packet("SUBACK", id, verdict) \in Down
        /\ Packet("UNSUBACK", id, NoItem) \in Down
        /\ Packet("PINGRESP", 0, NoItem) \in Down
    BY <1>2 DEF Packet, Down, Answer, Ref, ServerId, Word
  <2>4. Served /\ Acknowledges({})
    <3>1. ASSUME NEW verdict \in {"granted", "refused"},
                 Reply(<<Packet("SUBACK", id, verdict)>>)
          PROVE  Served /\ Acknowledges({})
      BY <1>3, <2>3, <3>1 DEF Receipt
    <3>2. ASSUME a.type = "PUBREC", Reply(<<Packet("PUBREL", ServerId, m)>>)
          PROVE  Served /\ Acknowledges({})
      BY <1>2, <1>3, <2>3, <3>2 DEF Receipt
    <3>. QED BY <1>3, <1>4, <2>2, <2>3, <3>1, <3>2 DEF Receipt
  <2>. QED BY <1>0, <1>1, <1>7, <2>1, <2>4, ServedPasses DEF ServerKept
<1>. QED BY <1>5, <1>6, <1>7 DEF Sending

LEMMA IgnoresPasses ==
    ASSUME ClientInv, ClientInv', to_server # <<>>, ServerIgnores
    PROVE  Passes
<1>1. /\ Reply(<<>>) /\ online' = FALSE /\ ServerKept /\ bounds' = bounds
  BY DEF ServerIgnores, ServerKept, NoFault
<1>2. <<>> \in Seq(Down) /\ ToSet(<<>>) = {}
  BY EmptySeq, EmptyRefs
<1>3. Served /\ Acknowledges({})
  BY <1>1, <1>2, ReplyServes
<1>. QED BY <1>1, <1>3, ServedPasses

(***************************************************************************)
(* A step of the network or the server that handles no packet.             *)
(***************************************************************************)
LEMMA NetworkPasses ==
    ASSUME UNCHANGED <<client, got, incoming>>, bounds' = bounds \/ Fault, QueuePasses,
           link' => link, online' => online,
           \A p \in ToSet(Pipe') : p \in ToSet(Pipe) \/ p.type \notin Receipt
    PROVE  Passes
BY DEF Passes, TablesKept, Store, ServerKept, PageKept, client, connection, session, numbers,
       callbacks, page, bounds, Fault

LEMMA DropsPasses ==
    ASSUME ClientInv, ServerDrops
    PROVE  Passes
<1>1. /\ UNCHANGED <<client, got, incoming, link, to_client, frame>> /\ bounds' = bounds
      /\ online' = FALSE
  BY DEF ServerDrops, NoFault, client
<1>2. QueuePasses
  <2>1. PICK i \in 2 .. Len(to_server) :
           /\ to_server[i].type = "CONNECT"
           /\ to_server' = SubSeq(to_server, i, Len(to_server))
    BY DEF ServerDrops, IsCONNECT
  <2>2. i \in DOMAIN to_server
    BY QueueTypes, LenProperties
  <2>. QED BY <2>1, <2>2 DEF QueuePasses
<1>3. Pipe' = Pipe
  BY <1>1 DEF Pipe
<1>. QED BY <1>1, <1>2, <1>3, NetworkPasses

(***************************************************************************)
(* A message for the client is added to what it will handle, or not.       *)
(***************************************************************************)
LEMMA PipePublished ==
    ASSUME ClientInv, NEW m \in Arriving, ServerPublishes(m)
    PROVE  LET p == Packet("PUBLISH", 0, m)
           IN  /\ p \in Down /\ p.type = "PUBLISH" /\ p.what = m
               /\ Pipe' = Pipe \/ Pipe' = Append(Pipe, p)
<1> DEFINE p == Packet("PUBLISH", 0, m)
<1>1. p \in Down /\ p.type = "PUBLISH" /\ p.what = m
  BY DEF Packet, Down, Answer, Ref, Word
<1>2. frame' = frame /\ (to_client' = to_client \/ to_client' = Append(to_client, p))
  BY DEF ServerPublishes, ServerId, client
<1>. HIDE DEF p
<1>3. Wires /\ Pipe \in Seq(Down)
  BY PipeType DEF ClientInv, Protocol
<1>4. <<p>> \in Seq(Down) /\ Append(to_client, p) = to_client \o <<p>>
      /\ Append(Pipe, p) = Pipe \o <<p>>
  BY <1>1, <1>3, AppendIsConcat DEF Wires
<1>5. Pipe' = Pipe \/ Pipe' = Append(Pipe, p)
  <2>1. CASE to_client' = to_client
    BY <1>2, <2>1 DEF Pipe
  <2>2. CASE to_client' = Append(to_client, p)
    BY <1>2, <1>3, <1>4, <2>2, PipeArrives
  <2>. QED BY <1>2, <2>1, <2>2
<1>. QED BY <1>1, <1>5 DEF p

LEMMA PublishPasses ==
    ASSUME ClientInv, NEW m \in Arriving, ServerPublishes(m)
    PROVE  Passes
<1>1. /\ UNCHANGED <<client, got, incoming, link, to_server, online>> /\ bounds' = bounds
  BY DEF ServerPublishes, NoFault
<1>2. PICK p \in Down : /\ p.type = "PUBLISH"
                        /\ Pipe' = Pipe \/ Pipe' = Append(Pipe, p)
  BY PipePublished
<1>3. ToSet(Append(Pipe, p)) = ToSet(Pipe) \cup {p}
  BY QueueTypes, AppendRefs
<1>4. \A q \in ToSet(Pipe') : q \in ToSet(Pipe) \/ q.type \notin Receipt
  BY <1>2, <1>3 DEF Receipt
<1>. QED BY <1>1, <1>4, NetworkPasses DEF QueuePasses

LEMMA PipeBroken ==
    ASSUME ClientInv, Break
    PROVE  Pipe' = frame /\ frame' = frame /\ Pipe = frame \o to_client /\ Fewer(Pipe)
<1>1. to_client' = <<>> /\ frame' = frame
  BY DEF Break, client
<1>2. Wires /\ ToSet(frame) \subseteq ToSet(Pipe)
  BY PipeType DEF ClientInv, Protocol
<1>3. Pipe' = frame
  BY <1>1, <1>2, ConcatEmptySeq DEF Pipe, Wires
<1>. QED BY <1>1, <1>2, <1>3 DEF Pipe, Fewer

LEMMA BreakPasses ==
    ASSUME ClientInv, Break
    PROVE  Passes
<1>1. /\ UNCHANGED <<client, got, incoming, to_server, online>> /\ Fault /\ link' = FALSE
  BY DEF Break, server
<1>. QED BY <1>1, PipeBroken, NetworkPasses DEF QueuePasses, Fewer

LEMMA StepSends ==
    ASSUME Calm, Few, ClientInv, ClientInv', Book, [Next]_vars
    PROVE  SenderStep
<1>1. CASE ClientNext
  BY <1>1, ClientSends
<1>2. CASE ServerReceives
  BY <1>2, ConnectStarts, ServesSends, IgnoresPasses DEF ServerReceives, SenderStep
<1>3. CASE ServerDrops
  BY <1>3, DropsPasses DEF SenderStep
<1>4. CASE \E m \in Arriving : ServerPublishes(m)
  BY <1>4, PublishPasses DEF SenderStep
<1>5. CASE Break
  BY <1>5, BreakPasses DEF SenderStep
<1>6. CASE UNCHANGED vars
  <2>1. UNCHANGED <<client, got, incoming, to_server, to_client, frame, link, online, bounds>>
    BY <1>6 DEF vars, server, network, client
  <2>2. Pipe' = Pipe
    BY <2>1 DEF Pipe
  <2>. QED BY <2>1, <2>2, NetworkPasses DEF QueuePasses, SenderStep
<1>. QED BY <1>1, <1>2, <1>3, <1>4, <1>5, <1>6 DEF Next

-----------------------------------------------------------------------------
(* The messages of the page arrive in the order of sending *)

LEMMA BehindTail ==
    ASSUME NEW S, NEW q \in Seq(S), q # <<>>, NEW k \in DOMAIN Tail(q)
    PROVE  /\ k + 1 \in DOMAIN q /\ Tail(q)[k] = q[k + 1]
           /\ \A m : Behind(q, k + 1, m) => Carries(Head(q), m) \/ Behind(Tail(q), k, m)
<1> DEFINE t == Tail(q)
           n == Len(q)
<1>1. /\ DOMAIN q = 1 .. n /\ n \in Nat \ {0} /\ Head(q) = q[1]
      /\ DOMAIN t = 1 .. (n - 1) /\ \A i \in 1 .. (n - 1) : t[i] = q[i + 1]
  BY HeadTailProperties, LenProperties, EmptySeq
<1>. HIDE DEF t, n
<1>2. k \in 1 .. (n - 1)
  BY <1>1 DEF t
<1>3. k + 1 \in DOMAIN q /\ t[k] = q[k + 1]
  BY <1>1, <1>2
<1>4. ASSUME NEW m, Behind(q, k + 1, m), ~Carries(Head(q), m)
      PROVE  Behind(t, k, m)
  <2>1. PICK i \in 1 .. n : i < k + 1 /\ Carries(q[i], m)
    BY <1>1, <1>4 DEF Behind
  <2>2. i # 1
    BY <1>1, <1>4, <2>1
  <2>3. i - 1 \in DOMAIN t /\ i - 1 < k /\ i - 1 + 1 = i
    BY <1>1, <1>2, <2>1, <2>2
  <2>4. t[i - 1] = q[i]
    BY <1>1, <2>3
  <2>. QED BY <2>1, <2>3, <2>4 DEF Behind
<1>. QED BY <1>3, <1>4 DEF t

LEMMA BehindAppend ==
    ASSUME NEW S, NEW q \in Seq(S), NEW p \in S, NEW k \in DOMAIN Append(q, p)
    PROVE  \/ /\ k \in DOMAIN q /\ Append(q, p)[k] = q[k]
              /\ \A m : Behind(q, k, m) => Behind(Append(q, p), k, m)
           \/ /\ Append(q, p)[k] = p
              /\ \A m : (\E r \in ToSet(q) : Carries(r, m)) => Behind(Append(q, p), k, m)
<1> DEFINE t == Append(q, p)
           n == Len(q)
<1>1. /\ DOMAIN q = 1 .. n /\ n \in Nat /\ DOMAIN t = 1 .. (n + 1)
      /\ t[n + 1] = p /\ \A i \in 1 .. n : t[i] = q[i]
  BY AppendProperties, LenProperties
<1>. HIDE DEF t, n
<1>2. k \in 1 .. (n + 1) /\ \A i \in 1 .. n : i \in DOMAIN t /\ i < n + 1
  BY <1>1 DEF t
<1>3. \A m : \A i \in 1 .. n : Carries(q[i], m) => i \in DOMAIN t /\ Carries(t[i], m)
  BY <1>1, <1>2
<1>4. CASE k \in 1 .. n
  BY <1>1, <1>3, <1>4 DEF Behind, t
<1>5. CASE k = n + 1
  BY <1>1, <1>2, <1>3, <1>5 DEF Behind, ToSet, t
<1>. QED BY <1>1, <1>2, <1>4, <1>5

(***************************************************************************)
(* Behind packets that carry nothing the order is that of the others.      *)
(***************************************************************************)
LEMMA BehindConcat ==
    ASSUME NEW S, NEW q \in Seq(S), NEW r \in Seq(S), NoType(q, "PUBLISH"),
           NEW k \in DOMAIN (q \o r), NEW n, Carries((q \o r)[k], n)
    PROVE  \E j \in DOMAIN r : /\ Carries(r[j], n)
                               /\ \A m : Behind(r, j, m) => Behind(q \o r, k, m)
<1> DEFINE u == q \o r
           a == Len(q)
           b == Len(r)
<1>1. /\ DOMAIN q = 1 .. a /\ a \in Nat /\ DOMAIN r = 1 .. b /\ b \in Nat
      /\ DOMAIN u = 1 .. (a + b)
      /\ \A i \in 1 .. (a + b) : u[i] = IF i <= a THEN q[i] ELSE r[i - a]
  BY ConcatProperties, LenProperties
<1>. HIDE DEF u, a, b
<1>2. k \in 1 .. (a + b) /\ Carries(u[k], n)
  BY <1>1 DEF u
<1>3. ~(k <= a)
  <2>1. ASSUME k <= a
        PROVE  FALSE
    <3>1. k \in DOMAIN q /\ u[k] = q[k]
      BY <1>1, <1>2, <2>1
    <3>. QED BY <1>2, <3>1 DEF NoType, ToSet, Carries
  <2>. QED BY <2>1
<1>4. k - a \in DOMAIN r /\ u[k] = r[k - a]
  BY <1>1, <1>2, <1>3
<1>5. ASSUME NEW m, Behind(r, k - a, m)
      PROVE  Behind(u, k, m)
  <2>1. PICK i \in 1 .. b : i < k - a /\ Carries(r[i], m)
    BY <1>1, <1>5 DEF Behind
  <2>2. i + a \in 1 .. (a + b) /\ i + a < k /\ ~(i + a <= a) /\ i + a - a = i
    BY <1>1, <1>2, <2>1
  <2>3. i + a \in DOMAIN u /\ u[i + a] = r[i]
    BY <1>1, <2>2
  <2>. QED BY <2>1, <2>2, <2>3 DEF Behind
<1>. QED BY <1>2, <1>4, <1>5 DEF u

LEMMA InOrderTail ==
    ASSUME NEW q \in Seq(Up), q # <<>>, Head(q).type # "PUBLISH", InOrder(q)
    PROVE  InOrder(Tail(q))
BY BehindTail DEF InOrder, Carries

LEMMA InOrderAppend ==
    ASSUME NEW q \in Seq(Up), NEW p \in Up, p.type # "PUBLISH", InOrder(q)
    PROVE  InOrder(Append(q, p))
<1> SUFFICES ASSUME NEW k \in DOMAIN Append(q, p), NEW n \in Message,
                    Carries(Append(q, p)[k], n), QoS[n] > 0,
                    NEW m \in Message \ Known, QoS[m] > 0, Before(m, n)
             PROVE  Behind(Append(q, p), k, m)
  BY DEF InOrder
<1>1. k \in DOMAIN q /\ Append(q, p)[k] = q[k]
      /\ (Behind(q, k, m) => Behind(Append(q, p), k, m))
  BY BehindAppend DEF Carries
<1>. QED BY <1>1 DEF InOrder

LEMMA InOrderOpening ==
    ASSUME NEW q, OpeningOnly(q)
    PROVE  InOrder(q) /\ NoType(q, "PUBLISH") /\ \A p \in ToSet(q) : p.type # "PUBREL"
BY DEF OpeningOnly, Opening, InOrder, NoType, Carries, ToSet

(***************************************************************************)
(* From a CONNECT on, the queue has only what opens the connection.        *)
(***************************************************************************)
LEMMA ConnectOpens ==
    ASSUME NEW q \in Seq(Up), ConnectsLast(q), NEW i \in DOMAIN q, q[i].type = "CONNECT"
    PROVE  OpeningOnly(SubSeq(q, i, Len(q)))
<1> DEFINE t == SubSeq(q, i, Len(q))
           n == Len(q)
<1>1. DOMAIN q = 1 .. n /\ n \in Nat /\ i \in 1 .. n
  BY LenProperties
<1>2. \A k \in i .. n : k \in 1 .. n
  BY <1>1
<1>3. /\ t \in Seq(Up) /\ Len(t) = IF i <= n THEN n - i + 1 ELSE 0
      /\ \A k \in 1 .. (n - i + 1) : t[k] = q[i + k - 1]
  BY <1>1, <1>2, SubSeqProperties
<1>4. DOMAIN t = 1 .. (n - i + 1)
  BY <1>1, <1>3, LenProperties
<1>. HIDE DEF t, n
<1>5. ASSUME NEW k \in DOMAIN t
      PROVE  t[k].type \in Opening
  <2>1. /\ i + k - 1 \in DOMAIN q /\ t[k] = q[i + k - 1]
        /\ i + k - 1 = i \/ i < i + k - 1
    BY <1>1, <1>3, <1>4
  <2>. QED BY <2>1 DEF ConnectsLast, Opening
<1>6. OpeningOnly(t)
  BY <1>5 DEF OpeningOnly, ToSet
<1>. QED BY <1>6 DEF t

(***************************************************************************)
(* Steps that send no new message and bring none to the server.            *)
(***************************************************************************)
LEMMA OrderKept ==
    ASSUME Ordered, UNCHANGED <<sent, got, sequence>>,
           DOMAIN Store' \subseteq DOMAIN Store,
           \A a \in DOMAIN Store' : /\ Store'[a].item = Store[a].item
                                    /\ Store'[a].sequence = Store[a].sequence,
           connected' /\ link' /\ online' =>
              \A a \in DOMAIN Store' :
                 \/ Store[a].item \in Known
                 \/ \E p \in ToSet(to_server') : Carries(p, Store[a].item),
           online' => InOrder(to_server')
    PROVE  Ordered'
<1>1. Known' = Known /\ \A m, n : Before(m, n)' <=> Before(m, n)
  BY DEF Known, Before
<1>2. online' => InOrder(to_server)'
  BY <1>1 DEF InOrder
<1>3. \A a, b \in DOMAIN Store' :
         Before(Store'[a].item, Store'[b].item) => Store'[a].sequence < Store'[b].sequence
  BY DEF Ordered
<1>4. /\ \A a \in DOMAIN Store' : Store'[a].sequence <= sequence'
      /\ connected' /\ link' /\ online' =>
            \A a \in DOMAIN Store' :
               \/ Store'[a].item \in Known
               \/ \E p \in ToSet(to_server') : Carries(p, Store'[a].item)
      /\ \A m, n \in Message : QoS[m] > 0 /\ QoS[n] > 0 /\ Before(m, n) /\ n \in Known
                               => m \in Known
  BY DEF Ordered
<1>. QED BY <1>1, <1>2, <1>3, <1>4 DEF Ordered, Before

(***************************************************************************)
(* On a connection that works there is no CONNECT in the queue.            *)
(***************************************************************************)
LEMMA PassesOrdered ==
    ASSUME ClientInv, Ordered, Passes, reloads' = reloads, reloads \in Nat
    PROVE  Ordered'
<1>1. /\ Store' = Store /\ sent' = sent /\ got' = got /\ sequence' = sequence
      /\ connected' => connected
      /\ connected' /\ link' => link
      /\ online' => online
      /\ QueuePasses /\ to_server \in Seq(Up)
  BY TablesSame, ServerQuiet, QueueTypes DEF Passes, PageKept
<1>2. /\ online' => InOrder(to_server')
      /\ connected' /\ online' =>
            \A p \in ToSet(to_server) : p.type = "PUBLISH" => p \in ToSet(to_server')
  <2>1. CASE to_server' = to_server
    BY <1>1, <2>1 DEF Ordered
  <2>2. CASE \E p \in Up : p.type \notin Sending /\ to_server' = Append(to_server, p)
    <3>1. PICK p \in Up : p.type # "PUBLISH" /\ to_server' = Append(to_server, p)
      BY <2>2 DEF Sending
    <3>2. ToSet(Append(to_server, p)) = ToSet(to_server) \cup {p}
      BY <1>1, AppendRefs
    <3>3. InOrder(to_server) => InOrder(Append(to_server, p))
      BY <1>1, <3>1, InOrderAppend
    <3>. QED BY <1>1, <3>1, <3>2, <3>3 DEF Ordered
  <2>3. CASE /\ to_server # <<>> /\ to_server' = Tail(to_server)
             /\ Head(to_server).type \notin Sending \/ ~online'
    <3>1. InOrder(to_server) /\ Head(to_server).type # "PUBLISH" => InOrder(Tail(to_server))
      BY <1>1, <2>3, InOrderTail
    <3>2. ToSet(to_server) = {Head(to_server)} \cup ToSet(Tail(to_server))
      BY <1>1, <2>3, TailRefs
    <3>. QED BY <1>1, <2>3, <3>1, <3>2 DEF Ordered, Sending
  <2>4. CASE \E i \in DOMAIN to_server : /\ to_server[i].type = "CONNECT"
                                         /\ to_server' = SubSeq(to_server, i, Len(to_server))
    <3>1. PICK i \in DOMAIN to_server : /\ to_server[i].type = "CONNECT"
                                        /\ to_server' = SubSeq(to_server, i, Len(to_server))
      BY <2>4
    <3>2. ~connected
      BY <3>1 DEF ClientInv, Protocol, Greeting, NoType, ToSet
    <3>3. OpeningOnly(SubSeq(to_server, i, Len(to_server)))
      <4>1. ConnectsLast(to_server)
        BY DEF ClientInv, Protocol, Greeting
      <4>. QED BY <1>1, <3>1, <4>1, ConnectOpens
    <3>. QED BY <1>1, <3>1, <3>2, <3>3, InOrderOpening
  <2>. QED BY <1>1, <2>1, <2>2, <2>3, <2>4 DEF QueuePasses
<1>3. ASSUME connected', link', online', NEW a \in DOMAIN Store
      PROVE  \/ Store[a].item \in Known
             \/ \E p \in ToSet(to_server') : Carries(p, Store[a].item)
  BY <1>1, <1>2, <1>3 DEF Ordered, Carries
<1>. QED BY <1>1, <1>2, <1>3, OrderKept

LEMMA MarksOrdered ==
    ASSUME ClientInv, Ordered, NEW a \in DOMAIN Store, Marks(a)
    PROVE  Ordered'
<1>1. /\ sent' = sent /\ got' = got /\ sequence' = sequence
      /\ UNCHANGED <<connected, link, online>> /\ to_server \in Seq(Up)
  BY QueueTypes DEF Marks, Acknowledged, ServerKept, PageKept
<1>2. Store' = With(Store, a, [Store[a] EXCEPT !.pubRecReceived = TRUE])
  BY DEF Marks
<1>3. /\ DOMAIN Store' = DOMAIN Store
      /\ \A b \in DOMAIN Store : /\ Store'[b].item = Store[b].item
                                 /\ Store'[b].sequence = Store[b].sequence
  <2>1. Store[a] \in Flight
    BY StoreFacts
  <2>. QED BY <1>2, <2>1 DEF With, Flight
<1> DEFINE p == Packet("PUBREL", a, Store[a].item)
<1>4. /\ p \in Up /\ p.type # "PUBLISH" /\ socket_send(<<p>>)
  BY StoreFacts, PagePacket DEF Packet, Marks
<1>. HIDE DEF p
<1>5. /\ to_server' = IF link THEN Append(to_server, p) ELSE to_server
      /\ ToSet(to_server) \subseteq ToSet(to_server')
  BY <1>4, QueueSent
<1>6. InOrder(to_server) => InOrder(Append(to_server, p))
  BY <1>1, <1>4, InOrderAppend
<1>7. online' => InOrder(to_server')
  BY <1>1, <1>5, <1>6 DEF Ordered
<1>8. ASSUME connected', link', online', NEW b \in DOMAIN Store'
      PROVE  \/ Store[b].item \in Known
             \/ \E q \in ToSet(to_server') : Carries(q, Store[b].item)
  BY <1>1, <1>3, <1>5, <1>8 DEF Ordered
<1>. QED BY <1>1, <1>3, <1>7, <1>8, OrderKept

LEMMA FinishesOrdered ==
    ASSUME ClientInv, Ordered, NEW a \in DOMAIN Store, Finishes(a)
    PROVE  Ordered'
<1>1. /\ sent' = sent /\ got' = got /\ sequence' = sequence
      /\ UNCHANGED <<connected, link, online, to_server>>
      /\ Store' = Without(Store, a)
  BY DEF Finishes, Acknowledged, ServerKept, PageKept
<1>2. /\ DOMAIN Store' \subseteq DOMAIN Store
      /\ \A b \in DOMAIN Store' : Store'[b] = Store[b]
  BY <1>1 DEF Without
<1>3. online' => InOrder(to_server')
  BY <1>1 DEF Ordered
<1>. QED BY <1>1, <1>2, <1>3, OrderKept DEF Ordered

(***************************************************************************)
(* What is sent again is in order, and nothing of an exchange is before it. *)
(***************************************************************************)
LEMMA ResumesOrdered ==
    ASSUME ClientInv, SenderInv, Ordered, Resumes, Subscription \cup Unsubscription = {}
    PROVE  Ordered'
<1>1. /\ ~CleanSession /\ OpeningOnly(to_server) /\ UNCHANGED <<link, online>>
      /\ Store' = Store /\ sent' = sent /\ got' = got /\ sequence' = sequence
      /\ to_server \in Seq(Up)
  BY QueueTypes DEF Resumes, TablesKept, ServerKept, PageKept
<1>2. PICK out \in Seq(Up) :
         /\ socket_send(out)
         /\ \A p \in ToSet(out) : p.type \in Sending => p.id # 0 /\ Stored(p)
         /\ \A a \in DOMAIN Store :
               ~Store[a].pubRecReceived => \E p \in ToSet(out) : Carries(p, Store[a].item)
         /\ Sorted(out)
  BY DEF Resumes
<1>3. /\ Safe /\ Accounts /\ Book
  BY <1>1 DEF SenderInv
<1>4. ToSet(to_server \o out) = ToSet(to_server) \cup ToSet(out)
  BY <1>1, ConcatToSet
<1>5. \A a \in DOMAIN Store : Store[a].item \notin Known => ~Store[a].pubRecReceived
  BY <1>3 DEF Safe
<1>6. InOrder(to_server \o out)
  <2> SUFFICES ASSUME NEW k \in DOMAIN (to_server \o out), NEW n \in Message,
                      Carries((to_server \o out)[k], n), QoS[n] > 0,
                      NEW m \in Message \ Known, QoS[m] > 0, Before(m, n)
               PROVE  Behind(to_server \o out, k, m)
    BY DEF InOrder
  <2>1. PICK j \in DOMAIN out : /\ Carries(out[j], n)
                                /\ Behind(out, j, m) => Behind(to_server \o out, k, m)
    BY <1>1, InOrderOpening, BehindConcat
  <2>2. PICK b \in DOMAIN Store : Store[b].item = n
    <3>1. out[j] \in ToSet(out) /\ out[j].type \in Sending /\ out[j].what = n
      BY <2>1 DEF ToSet, Carries, Sending
    <3>. QED BY <1>2, <3>1 DEF Stored
  <2>3. PICK a \in DOMAIN Store : Store[a].item = m
    <3>1. m \in ToSet(sent)
      BY DEF Before, ToSet
    <3>. QED BY <1>3, <3>1 DEF Accounts, Pending, Store
  <2>4. Store[a].sequence < Store[b].sequence /\ ~Store[a].pubRecReceived
    BY <1>5, <2>2, <2>3 DEF Ordered
  <2>. QED BY <1>2, <2>1, <2>2, <2>3, <2>4 DEF Sorted
<1>7. online' => InOrder(to_server')
  BY <1>1, <1>2, <1>6 DEF socket_send, Ordered
<1>8. ASSUME link', NEW a \in DOMAIN Store
      PROVE  \/ Store[a].item \in Known
             \/ \E p \in ToSet(to_server') : Carries(p, Store[a].item)
  BY <1>1, <1>2, <1>4, <1>5, <1>8 DEF socket_send
<1>. QED BY <1>1, <1>7, <1>8, OrderKept

LEMMA StartsOrdered ==
    ASSUME Ordered, Starts
    PROVE  Ordered'
<1>1. /\ Store' = Store /\ sent' = sent /\ got' = got /\ sequence' = sequence
      /\ ~connected' /\ OpeningOnly(to_server')
  BY DEF Starts, Served, TablesKept, PageKept
<1>. QED BY <1>1, InOrderOpening, OrderKept

LEMMA ReleasesOrdered ==
    ASSUME ClientInv, Ordered, Releases
    PROVE  Ordered'
<1>1. /\ Store' = Store /\ sent' = sent /\ got' = got /\ sequence' = sequence
      /\ UNCHANGED <<connected, link, online>>
      /\ to_server # <<>> /\ to_server' = Tail(to_server) /\ Arrival.type = "PUBREL"
      /\ to_server \in Seq(Up)
  BY QueueTypes DEF Releases, Served, TablesKept, PageKept
<1>2. /\ InOrder(to_server) => InOrder(Tail(to_server))
      /\ ToSet(to_server) = {Arrival} \cup ToSet(Tail(to_server))
  BY <1>1, InOrderTail, TailRefs DEF Arrival
<1>3. ASSUME connected', link', online', NEW a \in DOMAIN Store
      PROVE  \/ Store[a].item \in Known
             \/ \E p \in ToSet(to_server') : Carries(p, Store[a].item)
  BY <1>1, <1>2, <1>3 DEF Ordered, Carries
<1>4. online' => InOrder(to_server')
  BY <1>1, <1>2 DEF Ordered
<1>. QED BY <1>1, <1>3, <1>4, OrderKept

(***************************************************************************)
(* The server takes a message: what was sent before it, it has.            *)
(***************************************************************************)
LEMMA TakesOrdered ==
    ASSUME ~CleanSession, ClientInv, SenderInv, Ordered, Takes
    PROVE  Ordered'
<1>0. PICK m, id : m = Arrival.what /\ id = Arrival.id
  OBVIOUS
<1>1. /\ Store' = Store /\ sent' = sent /\ sequence' = sequence
      /\ UNCHANGED <<connected, link, online>> /\ online
      /\ to_server # <<>> /\ to_server' = Tail(to_server)
      /\ Arrival.type = "PUBLISH" /\ m \in Message
      /\ got' = IF QoS[m] = 2 /\ id \in incoming THEN got ELSE Append(got, m)
      /\ to_server \in Seq(Up) /\ Book /\ Safe /\ got \in Seq(Message)
  BY <1>0, QueueTypes DEF Takes, Served, TablesKept, PageKept, SenderInv
<1>2. /\ ToSet(to_server) = {Arrival} \cup ToSet(Tail(to_server))
      /\ Head(to_server) = Arrival
  BY <1>1, TailRefs DEF Arrival
<1>3. Stored(Arrival) /\ (QoS[m] # 0 => id # 0)
  BY <1>0, <1>1, ArrivalStored DEF Sending
<1>4. Known' = Known \cup {m}
  <2>1. CASE QoS[m] = 2 /\ id \in incoming
    <3>1. m \in Known
      BY <1>0, <1>1, <1>3, <2>1 DEF Stored, Safe, Sending
    <3>. QED BY <1>1, <2>1, <3>1 DEF Known
  <2>2. CASE ~(QoS[m] = 2 /\ id \in incoming)
    BY <1>1, <2>2, CountAppend
  <2>. QED BY <2>1, <2>2
<1>5. \A x, y : Before(x, y)' <=> Before(x, y)
  BY <1>1 DEF Before
<1>6. InOrder(to_server)
  BY <1>1 DEF Ordered
<1>7. \A x : Carries(Arrival, x) => x = m
  BY <1>0 DEF Carries
<1>8. ASSUME NEW k \in DOMAIN to_server', NEW n \in Message,
             Carries(to_server'[k], n), QoS[n] > 0,
             NEW x \in Message \ Known', QoS[x] > 0, Before(x, n)
      PROVE  Behind(to_server', k, x)
  <2>1. /\ k \in DOMAIN Tail(to_server) /\ Carries(Tail(to_server)[k], n)
        /\ x \in Message \ Known /\ x # m
    BY <1>1, <1>4, <1>8
  <2>2. /\ k + 1 \in DOMAIN to_server /\ Carries(to_server[k + 1], n)
        /\ Behind(to_server, k + 1, x) => \/ Carries(Arrival, x)
                                          \/ Behind(Tail(to_server), k, x)
    BY <1>1, <1>2, <2>1, BehindTail
  <2>3. Behind(to_server, k + 1, x)
    BY <1>6, <1>8, <2>1, <2>2 DEF InOrder
  <2>. QED BY <1>1, <1>7, <2>1, <2>2, <2>3
<1>9. InOrder(to_server)'
  BY <1>5, <1>8 DEF InOrder
<1>10. ASSUME connected', link', NEW a \in DOMAIN Store
       PROVE  \/ Store[a].item \in Known'
              \/ \E p \in ToSet(to_server') : Carries(p, Store[a].item)
  BY <1>1, <1>2, <1>4, <1>7, <1>10 DEF Ordered
<1>11. ASSUME NEW x \in Message, NEW n \in Message, QoS[x] > 0, QoS[n] > 0,
              Before(x, n), n \in Known'
       PROVE  x \in Known'
  <2>1. CASE n \in Known
    BY <1>4, <1>11, <2>1 DEF Ordered
  <2>2. CASE n = m
    <3>1. 1 \in DOMAIN to_server /\ to_server[1] = Arrival
      BY <1>1, HeadTailProperties, LenProperties, EmptySeq DEF Arrival
    <3>2. Carries(to_server[1], n)
      BY <1>0, <1>1, <2>2, <3>1 DEF Carries
    <3>3. \A i \in DOMAIN to_server : ~(i < 1)
      BY <1>1, LenProperties
    <3>4. ~Behind(to_server, 1, x)
      BY <3>3 DEF Behind
    <3>5. x \in Known
      BY <1>6, <1>11, <3>1, <3>2, <3>4 DEF InOrder
    <3>. QED BY <1>4, <3>5
  <2>. QED BY <1>4, <1>11, <2>1, <2>2
<1>12. \A a, b \in DOMAIN Store :
          Before(Store[a].item, Store[b].item) => Store[a].sequence < Store[b].sequence
  BY DEF Ordered
<1>13. \A a \in DOMAIN Store : Store[a].sequence <= sequence
  BY DEF Ordered
<1>. QED BY <1>1, <1>5, <1>9, <1>10, <1>11, <1>12, <1>13 DEF Ordered

(***************************************************************************)
(* A new message is behind all that were sent.                             *)
(***************************************************************************)
LEMMA BeforeAppend ==
    ASSUME ClientInv, NEW m \in Message \ ToSet(sent), sent' = Append(sent, m)
    PROVE  /\ \A x, y : y # m => (Before(x, y)' <=> Before(x, y))
           /\ \A x : Before(x, m)' => x \in ToSet(sent)
           /\ \A y : ~Before(m, y)'
<1> DEFINE n == Len(sent)
<1>1. /\ DOMAIN sent = 1 .. n /\ n \in Nat /\ DOMAIN sent' = 1 .. (n + 1)
      /\ sent'[n + 1] = m /\ \A i \in 1 .. n : sent'[i] = sent[i]
  BY QueueTypes, AppendProperties, LenProperties
<1>. HIDE DEF n
<1>2. \A i \in 1 .. (n + 1) : i \in 1 .. n \/ i = n + 1
  BY <1>1
<1>3. \A i \in 1 .. n : i \in 1 .. (n + 1) /\ sent[i] # m
  BY <1>1 DEF ToSet
<1>4. ASSUME NEW x, NEW y
      PROVE  Before(x, y)' <=> \E i, j \in 1 .. (n + 1) :
                                  i < j /\ sent'[i] = x /\ sent'[j] = y
  BY <1>1 DEF Before
<1>5. ASSUME NEW x, NEW y, y # m
      PROVE  Before(x, y)' <=> Before(x, y)
  <2>1. ASSUME Before(x, y)'
        PROVE  Before(x, y)
    <3>1. PICK i, j \in 1 .. (n + 1) : i < j /\ sent'[i] = x /\ sent'[j] = y
      BY <1>4, <2>1
    <3>2. j \in 1 .. n /\ i \in 1 .. n
      BY <1>1, <1>2, <1>5, <3>1
    <3>. QED BY <1>1, <3>1, <3>2 DEF Before
  <2>2. ASSUME Before(x, y)
        PROVE  Before(x, y)'
    BY <1>1, <1>3, <1>4, <2>2 DEF Before
  <2>. QED BY <2>1, <2>2
<1>6. ASSUME NEW x, Before(x, m)'
      PROVE  x \in ToSet(sent)
  <2>1. PICK i, j \in 1 .. (n + 1) : i < j /\ sent'[i] = x
    BY <1>4, <1>6
  <2>2. i \in 1 .. n
    BY <1>1, <2>1
  <2>. QED BY <1>1, <2>1, <2>2 DEF ToSet
<1>7. ASSUME NEW y, Before(m, y)'
      PROVE  FALSE
  <2>1. PICK i, j \in 1 .. (n + 1) : i < j /\ sent'[i] = m
    BY <1>4, <1>7
  <2>2. i \in 1 .. n
    BY <1>1, <2>1
  <2>. QED BY <1>1, <1>3, <2>1, <2>2
<1>. QED BY <1>5, <1>6, <1>7

LEMMA SendsOrdered ==
    ASSUME ~CleanSession, ClientInv, SenderInv, Ordered, NEW m \in Message, Sends(m)
    PROVE  Ordered'
<1>1. /\ connected /\ m \notin ToSet(sent) /\ sent' = Append(sent, m)
      /\ UNCHANGED <<connected, link, online>> /\ Known' = Known
      /\ Book /\ Accounts /\ to_server \in Seq(Up) /\ sequence \in Nat
  BY QueueTypes DEF Sends, ServerKept, Known, SenderInv, ClientInv, Memory
<1>2. /\ \A x, y : y # m => (Before(x, y)' <=> Before(x, y))
      /\ \A x : Before(x, m)' => x \in ToSet(sent)
      /\ \A y : ~Before(m, y)'
  BY <1>1, BeforeAppend
<1>3. PICK a \in Nat, p \in Up :
         /\ p = Packet("PUBLISH", a, m) /\ p.type = "PUBLISH" /\ p.what = m
         /\ socket_send(<<p>>)
         /\ \/ QoS[m] = 0 /\ Store' = Store /\ sequence' = sequence
            \/ /\ QoS[m] # 0 /\ sequence' = sequence + 1
               /\ a \notin DOMAIN Store /\ Store' = With(Store, a, NewMessage(m))
  <2>1. CASE QoS[m] = 0
    <3>1. /\ socket_send(<<Packet("PUBLISH", 0, m)>>)
          /\ Store' = Store /\ sequence' = sequence
      BY <2>1 DEF Sends
    <3>2. 0 \in Nat /\ Packet("PUBLISH", 0, m) \in Up
      BY PagePacket
    <3>. QED BY <2>1, <3>1, <3>2 DEF Packet
  <2>2. CASE QoS[m] # 0
    <3>1. PICK a \in Nat \ {0} : /\ a \notin DOMAIN sentMessages
                                 /\ Store' = With(Store, a, NewMessage(m))
                                 /\ sequence' = sequence + 1
                                 /\ socket_send(<<Packet("PUBLISH", a, m)>>)
      BY <2>2 DEF Sends
    <3>2. a \notin DOMAIN Store
      BY <3>1, StoreFacts
    <3>. QED BY <2>2, <3>1, <3>2, PagePacket DEF Packet
  <2>. QED BY <2>1, <2>2
<1>4. /\ to_server' = IF link THEN Append(to_server, p) ELSE to_server
      /\ ToSet(to_server) \subseteq ToSet(to_server')
      /\ link => p \in ToSet(to_server')
  BY <1>3, QueueSent
<1>5. \A n : \A r \in ToSet(to_server) : Carries(r, n) => n \in ToSet(sent)
  BY <1>1 DEF Book, Carries
<1>6. ASSUME online', NEW k \in DOMAIN to_server', NEW n \in Message,
             Carries(to_server'[k], n), QoS[n] > 0,
             NEW x \in Message \ Known, QoS[x] > 0, Before(x, n)'
      PROVE  Behind(to_server', k, x)
  <2>1. InOrder(to_server)
    BY <1>1, <1>6 DEF Ordered
  <2>2. ASSUME k \in DOMAIN to_server, Carries(to_server[k], n)
        PROVE  Behind(to_server, k, x)
    <3>1. n # m
      BY <1>1, <1>5, <2>2 DEF ToSet
    <3>. QED BY <1>2, <1>6, <2>1, <2>2, <3>1 DEF InOrder
  <2>3. CASE ~link
    BY <1>4, <1>6, <2>2, <2>3
  <2>4. CASE link
    <3>1. k \in DOMAIN Append(to_server, p) /\ Carries(Append(to_server, p)[k], n)
      BY <1>4, <1>6, <2>4
    <3>2. \/ /\ k \in DOMAIN to_server /\ Append(to_server, p)[k] = to_server[k]
             /\ Behind(to_server, k, x) => Behind(Append(to_server, p), k, x)
          \/ /\ Append(to_server, p)[k] = p
             /\ (\E r \in ToSet(to_server) : Carries(r, x))
                   => Behind(Append(to_server, p), k, x)
      BY <1>1, <3>1, BehindAppend
    <3>3. ASSUME Append(to_server, p)[k] = p
          PROVE  \E r \in ToSet(to_server) : Carries(r, x)
      <4>1. n = m
        BY <1>3, <3>1, <3>3 DEF Carries
      <4>2. x \in ToSet(sent)
        BY <1>2, <1>6, <4>1
      <4>3. PICK b \in DOMAIN Store : Store[b].item = x
        BY <1>1, <1>6, <4>2 DEF Accounts, Pending, Store
      <4>. QED BY <1>1, <1>6, <2>4, <4>3 DEF Ordered
    <3>. QED BY <1>4, <2>2, <2>4, <3>1, <3>2, <3>3
  <2>. QED BY <2>3, <2>4
<1>7. online' => InOrder(to_server)'
  BY <1>1, <1>6 DEF InOrder
<1>8. /\ DOMAIN Store' \subseteq DOMAIN Store \cup {a}
      /\ \A b \in DOMAIN Store' : IF b \in DOMAIN Store
                                  THEN Store'[b] = Store[b] /\ Store[b].item # m
                                  ELSE Store'[b] = NewMessage(m)
      /\ DOMAIN Store' # DOMAIN Store => sequence' = sequence + 1
      /\ sequence' \in {sequence, sequence + 1}
  BY <1>1, <1>3 DEF With, Book
<1>9. \A b \in DOMAIN Store' \ DOMAIN Store :
         Store'[b].item = m /\ Store'[b].sequence = sequence + 1 /\ sequence' = sequence + 1
  BY <1>8 DEF NewMessage
<1>10. \A b \in DOMAIN Store : Store[b].sequence \in Nat /\ Store[b].sequence <= sequence
  BY StoreFacts DEF Ordered
<1>11. ASSUME NEW b \in DOMAIN Store', NEW c \in DOMAIN Store',
              NEW x, NEW y, x = Store'[b].item, y = Store'[c].item, Before(x, y)'
       PROVE  Store'[b].sequence < Store'[c].sequence
  <2>1. b \in DOMAIN Store
    BY <1>2, <1>9, <1>11
  <2>2. CASE c \in DOMAIN Store
    <3>1. x = Store[b].item /\ y = Store[c].item /\ y # m
      BY <1>8, <1>11, <2>1, <2>2
    <3>2. Before(x, y)
      BY <1>2, <1>11, <3>1
    <3>. QED BY <1>8, <2>1, <2>2, <3>1, <3>2 DEF Ordered
  <2>3. CASE c \notin DOMAIN Store
    BY <1>1, <1>8, <1>9, <1>10, <2>1, <2>3
  <2>. QED BY <2>2, <2>3
<1>12. \A b \in DOMAIN Store' : Store'[b].sequence <= sequence'
  BY <1>1, <1>8, <1>9, <1>10
<1>13. ASSUME connected', link', online', NEW b \in DOMAIN Store'
       PROVE  \/ Store'[b].item \in Known
              \/ \E q \in ToSet(to_server') : Carries(q, Store'[b].item)
  <2>1. CASE b \in DOMAIN Store
    BY <1>1, <1>4, <1>8, <1>13, <2>1 DEF Ordered
  <2>2. CASE b \notin DOMAIN Store
    BY <1>1, <1>3, <1>4, <1>9, <1>13, <2>2 DEF Carries
  <2>. QED BY <2>1, <2>2
<1>14. ASSUME NEW x \in Message, NEW n \in Message, QoS[x] > 0, QoS[n] > 0,
              Before(x, n)', n \in Known
       PROVE  x \in Known
  <2>1. n # m
    BY <1>1, <1>14 DEF Book
  <2>. QED BY <1>2, <1>14, <2>1 DEF Ordered
<1>. QED BY <1>1, <1>7, <1>11, <1>12, <1>13, <1>14 DEF Ordered

-----------------------------------------------------------------------------
(* Every step does one of these to the messages for the page *)

LEMMA SingleTail ==
    ASSUME NEW S, NEW q \in Seq(S), q # <<>>, Single(q)
    PROVE  /\ Single(Tail(q))
           /\ \A m \in Reliable : Brings(Head(q), m) => ~Tells(Tail(q), "PUBLISH", m)
<1> DEFINE t == Tail(q)
           n == Len(q)
<1>1. /\ DOMAIN q = 1 .. n /\ n \in Nat \ {0} /\ Head(q) = q[1]
      /\ DOMAIN t = 1 .. (n - 1) /\ \A i \in 1 .. (n - 1) : t[i] = q[i + 1]
  BY HeadTailProperties, LenProperties, EmptySeq
<1>. HIDE DEF t, n
<1>2. /\ 1 \in 1 .. n
      /\ \A i \in 1 .. (n - 1) : i + 1 \in 1 .. n /\ i + 1 # 1
      /\ \A i, j \in 1 .. (n - 1) : i + 1 = j + 1 => i = j
  BY <1>1
<1>3. Single(t)
  BY <1>1, <1>2 DEF Single
<1>4. \A m \in Reliable : Brings(Head(q), m) => ~Tells(t, "PUBLISH", m)
  BY <1>1, <1>2 DEF Single, Tells, ToSet, Brings
<1>. QED BY <1>3, <1>4 DEF t

LEMMA SingleConcat ==
    ASSUME NEW S, NEW q \in Seq(S), NEW r \in Seq(S)
    PROVE  /\ Single(q \o r) => Single(q)
           /\ Single(q) /\ (\A p \in ToSet(r) : p.type # "PUBLISH" \/ p.what \notin Reliable)
                 => Single(q \o r)
<1> DEFINE u == q \o r
           a == Len(q)
           b == Len(r)
<1>1. /\ DOMAIN q = 1 .. a /\ a \in Nat /\ DOMAIN r = 1 .. b /\ b \in Nat
      /\ DOMAIN u = 1 .. (a + b)
      /\ \A i \in 1 .. (a + b) : u[i] = IF i <= a THEN q[i] ELSE r[i - a]
  BY ConcatProperties, LenProperties
<1>. HIDE DEF u, a, b
<1>2. \A i \in 1 .. a : i \in 1 .. (a + b) /\ u[i] = q[i]
  BY <1>1
<1>3. Single(u) => Single(q)
  BY <1>1, <1>2 DEF Single
<1>4. ASSUME Single(q), \A p \in ToSet(r) : p.type # "PUBLISH" \/ p.what \notin Reliable
      PROVE  Single(u)
  <2>1. ASSUME NEW i \in 1 .. (a + b), NEW m \in Reliable, Brings(u[i], m)
        PROVE  i \in 1 .. a /\ Brings(q[i], m)
    <3>1. CASE i <= a
      BY <1>1, <2>1, <3>1
    <3>2. CASE ~(i <= a)
      <4>1. i - a \in DOMAIN r /\ u[i] = r[i - a]
        BY <1>1, <3>2
      <4>. QED BY <1>4, <2>1, <4>1 DEF ToSet, Brings
    <3>. QED BY <3>1, <3>2
  <2>. QED BY <1>1, <1>4, <2>1 DEF Single
<1>. QED BY <1>3, <1>4 DEF u

LEMMA SingleAppend ==
    ASSUME NEW S, NEW q \in Seq(S), NEW p \in S, Single(q), ~Tells(q, "PUBLISH", p.what)
    PROVE  Single(Append(q, p))
<1> DEFINE t == Append(q, p)
           n == Len(q)
<1>1. /\ DOMAIN q = 1 .. n /\ n \in Nat /\ DOMAIN t = 1 .. (n + 1)
      /\ t[n + 1] = p /\ \A i \in 1 .. n : t[i] = q[i]
  BY AppendProperties, LenProperties
<1>. HIDE DEF t, n
<1>2. \A i \in 1 .. (n + 1) : i \in 1 .. n \/ i = n + 1
  BY <1>1
<1>3. \A i \in 1 .. n, m \in Reliable : Brings(q[i], m) => m # p.what
  BY <1>1 DEF Tells, ToSet, Brings
<1>4. Single(t)
  BY <1>1, <1>2, <1>3 DEF Single, Brings
<1>. QED BY <1>4 DEF t

LEMMA SingleEmpty == Single(<<>>)
BY DEF Single

(***************************************************************************)
(* What the client has to handle stays, goes, or has one packet less.      *)
(***************************************************************************)
LEMMA PipeLess ==
    ASSUME ClientInv, Pipe' = Pipe \/ Pipe' = <<>> \/ (Pipe # <<>> /\ Pipe' = Tail(Pipe))
    PROVE  PipeFades
<1>1. Pipe \in Seq(Down)
  BY QueueTypes
<1>2. CASE Pipe' = Pipe
  BY <1>2 DEF PipeFades, NoNews, Single, Reliable
<1>3. CASE Pipe' = <<>>
  BY <1>3, EmptyRefs DEF PipeFades, NoNews, Single, Reliable
<1>4. CASE Pipe # <<>> /\ Pipe' = Tail(Pipe)
  <2>1. ToSet(Tail(Pipe)) \subseteq ToSet(Pipe) /\ (Single(Pipe) => Single(Tail(Pipe)))
    BY <1>1, <1>4, TailRefs, SingleTail
  <2>2. Single(Pipe)' <=> Single(Tail(Pipe))
    BY <1>4 DEF Single, Reliable
  <2>. QED BY <1>4, <2>1, <2>2 DEF PipeFades, NoNews
<1>. QED BY <1>2, <1>3, <1>4

(***************************************************************************)
(* The client sends packets that answer nothing.                           *)
(***************************************************************************)
LEMMA NothingTold ==
    ASSUME ClientInv, NEW out \in Seq(Up), socket_send(out),
           \A p \in ToSet(out) : p.type \notin Receipt \/ p.what \notin Reliable
    PROVE  NoNews(to_server, Receipt)
<1>1. ToSet(to_server \o out) = ToSet(to_server) \cup ToSet(out)
  BY QueueTypes, ConcatToSet
<1>. QED BY <1>1 DEF NoNews, socket_send

LEMMA OneTold ==
    ASSUME ClientInv, NEW p \in Up, socket_send(<<p>>),
           p.type \notin Receipt \/ p.what \notin Reliable
    PROVE  NoNews(to_server, Receipt)
<1>1. ToSet(to_server') \subseteq ToSet(to_server) \cup {p}
  BY QueueSent
<1>. QED BY <1>1 DEF NoNews

LEMMA QueueSame == ASSUME to_server' = to_server PROVE NoNews(to_server, Receipt)
BY DEF NoNews

LEMMA PageIdles ==
    ASSUME ClientInv, UNCHANGED server, UNCHANGED <<arrived, receivedMessages>>,
           Pipe' = Pipe \/ Pipe' = <<>> \/ (Pipe # <<>> /\ Pipe' = Tail(Pipe)),
           NoNews(to_server, Receipt)
    PROVE  Idles
BY PipeLess DEF Idles, PageHolds, ServerHolds, server

LEMMA EndIdles ==
    ASSUME ClientInv, UNCHANGED server, frame' = <<>>,
           NEW was \in BOOLEAN, disconnected(was, hostIndex),
           UNCHANGED <<arrived, receivedMessages>>,
           to_server' = to_server \/ socket_send(<<DISCONNECT>>)
    PROVE  Idles
<1>1. Pipe' = <<>>
  BY Disconnected, PipeGone
<1>2. DISCONNECT \in Up /\ DISCONNECT.type \notin Receipt
  BY DEF DISCONNECT, Packet, Up, Ref, Question, Word, Receipt
<1>3. NoNews(to_server, Receipt)
  BY <1>2, OneTold, QueueSame
<1>. QED BY <1>1, <1>3, PageIdles

(***************************************************************************)
(* Calls of the page, and callbacks that handle no packet.                 *)
(***************************************************************************)
LEMMA CallIdles ==
    ASSUME Calm, Few, ClientInv, UNCHANGED server,
           PageConnects \/ PageSends \/ PageAsks \/ PageDisconnects \/ RequestsTimeOut
    PROVE  Idles
<1>1. CASE PageConnects \/ RequestsTimeOut
  <2>1. UNCHANGED <<arrived, receivedMessages, frame, to_client, to_server>>
    BY <1>1 DEF PageConnects, Connect, RequestsTimeOut, RequestTimeout, session, callbacks,
                network
  <2>2. Pipe' = Pipe
    BY <2>1 DEF Pipe
  <2>. QED BY <2>1, <2>2, QueueSame, PageIdles
<1>2. CASE PageSends
  <2>1. PICK m \in Message : Send(m)
    BY <1>2 DEF PageSends
  <2>2. Sends(m)
    BY <1>2, <2>1, SendSends DEF PageSends, NoFault
  <2>3. PICK a \in Nat : socket_send(<<Packet("PUBLISH", a, m)>>)
    BY <2>2 DEF Sends
  <2>4. PICK p \in Up : p = Packet("PUBLISH", a, m) /\ p.type \notin Receipt
    BY PagePacket DEF Packet, Receipt
  <2>5. NoNews(to_server, Receipt)
    BY <2>3, <2>4, OneTold
  <2>6. UNCHANGED <<arrived, receivedMessages>> /\ Pipe' = Pipe
    BY <2>1, <2>2 DEF Send, Sends, session
  <2>. QED BY <2>5, <2>6, PageIdles
<1>3. CASE PageAsks
  <2>1. UNCHANGED <<arrived, receivedMessages, frame, to_client>>
    BY <1>3, AskSent DEF callbacks
  <2>2. Pipe' = Pipe
    BY <2>1 DEF Pipe
  <2>3. NoNews(to_server, Receipt)
    BY <1>3, AskSent, OneTold DEF Receipt
  <2>. QED BY <2>1, <2>2, <2>3, PageIdles
<1>4. CASE PageDisconnects
  <2>1. connected /\ Disconnect
    BY <1>4 DEF PageDisconnects, Calm
  <2>2. /\ disconnected(TRUE, hostIndex) /\ socket_send(<<DISCONNECT>>) /\ frame' = <<>>
        /\ UNCHANGED <<arrived, receivedMessages>>
    BY <2>1 DEF Disconnect, session, callbacks
  <2>. QED BY <2>2, EndIdles
<1>. QED BY <1>1, <1>2, <1>3, <1>4

LEMMA CallbackIdles ==
    ASSUME ClientInv, UNCHANGED server,
           PageReloads \/ Opens \/ Closes \/ TakesTooLong \/ Pings \/ Receives
    PROVE  Idles
<1>1. CASE PageReloads
  <2>1. /\ receivedMessages' = receivedMessages
        /\ UNCHANGED <<arrived, to_server>> /\ frame' = <<>> /\ to_client' = <<>>
    BY <1>1, StorageParts DEF PageReloads, Reload, callbacks
  <2>. QED BY <2>1, PipeGone, QueueSame, PageIdles
<1>2. CASE Opens
  <2> DEFINE p == Packet("CONNECT", version, NoItem)
  <2>1. /\ to_server' = Append(to_server, p)
        /\ UNCHANGED <<arrived, receivedMessages, frame, to_client>>
    BY <1>2 DEF Opens, on_socket_open, session, callbacks
  <2>2. p \in Up /\ p.type \notin Receipt
    BY DEF ClientInv, Sockets, Packet, Up, Ref, Question, Word, Receipt
  <2>. HIDE DEF p
  <2>3. NoNews(to_server, Receipt)
    BY <2>1, <2>2, QueueTypes, AppendRefs DEF NoNews
  <2>4. Pipe' = Pipe
    BY <2>1 DEF Pipe
  <2>. QED BY <2>1, <2>3, <2>4, PageIdles
<1>3. connected \in BOOLEAN
  BY DEF ClientInv, Sockets
<1>4. CASE Closes \/ TakesTooLong
  <2>1. /\ give_up /\ frame' = <<>> /\ UNCHANGED <<arrived, receivedMessages>>
    BY <1>4 DEF Closes, TakesTooLong, on_socket_close, ConnectTimeout, session, callbacks
  <2>. QED BY <1>3, <2>1, EndIdles DEF give_up
<1>5. CASE Pings
  <2>1. frame' = <<>> /\ UNCHANGED <<arrived, receivedMessages, frame>>
    BY <1>5 DEF Pings, SendPing, ReceivePing, ZombiePing, session, callbacks
  <2>2. CASE give_up
    BY <1>3, <2>1, <2>2, EndIdles DEF give_up
  <2>3. CASE ping
    <3>1. PINGREQ \in Up /\ PINGREQ.type \notin Receipt
      BY DEF PINGREQ, Packet, Up, Ref, Question, Word, Receipt
    <3>2. NoNews(to_server, Receipt)
      BY <2>3, <3>1, OneTold, QueueSame DEF ping
    <3>3. Pipe' = Pipe
      BY <2>1, <2>3 DEF ping, Pipe
    <3>. QED BY <2>1, <3>2, <3>3, PageIdles
  <2>. QED BY <1>5, <2>2, <2>3 DEF Pings, SendPing, ReceivePing, ZombiePing
<1>6. CASE Receives
  <2>1. UNCHANGED <<arrived, receivedMessages, to_server>>
    BY <1>6 DEF Receives, on_socket_message, session, callbacks
  <2>. QED BY <1>6, <2>1, PipeTaken, QueueSame, PageIdles DEF Receives
<1>. QED BY <1>1, <1>2, <1>4, <1>5, <1>6

(***************************************************************************)
(* A CONNACK: only a clean session forgets what the client has kept.       *)
(***************************************************************************)
LEMMA CleanIdles ==
    ASSUME ClientInv, UNCHANGED server, clean_session, arrived' = arrived,
           Pipe' = Pipe \/ Pipe' = <<>> \/ (Pipe # <<>> /\ Pipe' = Tail(Pipe)),
           NoNews(to_server, Receipt)
    PROVE  Idles
<1>1. PipeFades
  BY PipeLess
<1>. QED BY <1>1 DEF Idles, PageHolds, ServerHolds, server, clean_session

LEMMA GreetingIdles ==
    ASSUME Few, ClientInv, frame # <<>>, UNCHANGED server,
           handle_CONNACK_refused \/ handle_CONNACK_accepted
    PROVE  Idles
<1>1. clean_session /\ frame' = rest /\ arrived' = arrived /\ packet.type = "CONNACK"
  BY DEF handle_CONNACK_refused, handle_CONNACK_accepted, callbacks
<1>2. CASE handle_CONNACK_refused
  <2>1. rest = <<>> /\ connected \in BOOLEAN
    BY <1>2, ThePacket DEF ClientInv, Sockets, handle_CONNACK_refused
  <2>2. to_client' = <<>> /\ to_server' = to_server
    BY <1>2, <2>1, Disconnected DEF give_up, handle_CONNACK_refused
  <2>. QED BY <1>1, <2>1, <2>2, PipeGone, QueueSame, CleanIdles
<1>3. CASE handle_CONNACK_accepted
  <2>1. PICK out \in Seq(Up) : socket_send(out) /\ \A p \in ToSet(out) : p.type \in Question
    BY <1>3, GreetingSent
  <2>2. NoNews(to_server, Receipt)
    BY <2>1, NothingTold DEF Question, Receipt
  <2>3. to_client' = to_client
    BY <1>3 DEF handle_CONNACK_accepted
  <2>. QED BY <1>1, <2>2, <2>3, PacketTaken, CleanIdles
<1>. QED BY <1>2, <1>3

(***************************************************************************)
(* A message from the server, or its release.                              *)
(***************************************************************************)
LEMMA ArrivalReceives ==
    ASSUME Calm, ClientInv, frame # <<>>, UNCHANGED server, handle_PUBLISH \/ handle_PUBREL
    PROVE  Idles \/ \E m \in Reliable : Stores(m) \/ Hands(m)
<1>1. PICK m \in Arriving : m = packet.what
  BY ThePacket DEF ClientInv, handle_PUBLISH, handle_PUBREL, Down
<1>2. packet \in Down /\ packet.id = 0 /\ connected /\ m \notin Throwing /\ QoS[m] \in {0, 1, 2}
  BY ThePacket, ClientAssumption
     DEF ClientInv, handle_PUBLISH, handle_PUBREL, Down, Ref, Answer, Calm
<1>3. frame' = rest /\ to_client' = to_client
  BY <1>1, <1>2 DEF handle_PUBLISH, handle_PUBREL
<1>4. Pipe # <<>> /\ Head(Pipe) = packet /\ Pipe' = Tail(Pipe)
  BY <1>3, PacketTaken
<1>5. \A type \in Receipt : Packet(type, 0, m) \in Up
  BY <1>1 DEF Packet, Up, Question, Word, Ref, Receipt
<1>6. ASSUME NEW type \in Receipt, socket_send(<<Packet(type, 0, m)>>)
      PROVE  \A p \in ToSet(to_server') : p \in ToSet(to_server) \/ p = Packet(type, 0, m)
  <2>1. PICK p \in Up : p = Packet(type, 0, m)
    BY <1>5, <1>6
  <2>2. ToSet(to_server') \subseteq ToSet(to_server) \cup {p}
    BY <1>6, <2>1, QueueSent
  <2>. QED BY <2>1, <2>2
<1>7. outgoing' = outgoing
  BY DEF server
<1>8. CASE handle_PUBLISH /\ QoS[m] = 2
  <2>1. /\ receivedMessages' = receivedMessages \cup {m} /\ arrived' = arrived
        /\ packet.type = "PUBLISH" /\ socket_send(<<Packet("PUBREC", 0, m)>>)
    BY <1>1, <1>2, <1>8 DEF handle_PUBLISH, schedule_message
  <2>2. Handled("PUBLISH", m, "PUBREC")
    BY <1>1, <1>4, <1>6, <1>7, <2>1 DEF Handled, Receipt
  <2>. QED BY <1>8, <2>1, <2>2 DEF Stores, Reliable
<1>9. CASE handle_PUBLISH /\ QoS[m] # 2
  <2>1. /\ receivedMessages' = receivedMessages /\ arrived' = [arrived EXCEPT ![m] = @ + 1]
        /\ to_server' = to_server \/ socket_send(<<Packet("PUBACK", 0, m)>>)
    BY <1>1, <1>2, <1>9 DEF handle_PUBLISH, schedule_message
  <2>2. m \notin Reliable
    BY <1>9 DEF Reliable
  <2>3. NoNews(to_server, Receipt)
    <3>1. CASE to_server' = to_server
      BY <3>1, QueueSame
    <3>2. CASE socket_send(<<Packet("PUBACK", 0, m)>>)
      BY <1>6, <2>2, <3>2 DEF NoNews, Packet, Receipt
    <3>. QED BY <2>1, <3>1, <3>2
  <2>4. PipeFades
    BY <1>4, PipeLess
  <2>5. PageHolds /\ ServerHolds
    BY <1>7, <2>1, <2>2 DEF PageHolds, ServerHolds
  <2>. QED BY <2>3, <2>4, <2>5 DEF Idles
<1>10. CASE handle_PUBREL
  <2>1. /\ receivedMessages' = receivedMessages \ {m}
        /\ arrived' = IF m \in receivedMessages THEN [arrived EXCEPT ![m] = @ + 1] ELSE arrived
        /\ packet.type = "PUBREL" /\ socket_send(<<Packet("PUBCOMP", 0, m)>>)
    BY <1>1, <1>2, <1>10 DEF handle_PUBREL, schedule_message
  <2>2. CASE QoS[m] = 2
    <3>1. Handled("PUBREL", m, "PUBCOMP")
      BY <1>1, <1>4, <1>6, <1>7, <2>1 DEF Handled, Receipt
    <3>. QED BY <2>1, <2>2, <3>1 DEF Hands, Reliable
  <2>3. CASE QoS[m] # 2
    <3>1. m \notin Reliable
      BY <2>3 DEF Reliable
    <3>2. PageHolds
      <4>1. receivedMessages' \cap Reliable = receivedMessages \cap Reliable
        BY <2>1, <3>1
      <4>. QED BY <1>1, <2>1, <3>1, <4>1 DEF PageHolds
    <3>3. NoNews(to_server, Receipt)
      BY <1>6, <2>1, <3>1 DEF NoNews, Packet, Receipt
    <3>4. PipeFades
      BY <1>4, PipeLess
    <3>. QED BY <1>7, <3>2, <3>3, <3>4 DEF Idles, ServerHolds
  <2>. QED BY <2>2, <2>3
<1>. QED BY <1>8, <1>9, <1>10

LEMMA HandleReceives ==
    ASSUME Calm, Few, ClientInv, Handles, UNCHANGED server
    PROVE  Idles \/ \E m \in Reliable : Stores(m) \/ Hands(m)
<1>1. HandleMessage /\ frame # <<>>
  BY DEF Handles, HandleMessage
<1>2. ~handle_CONNACK_quits
  BY EmptyRefs DEF ClientInv, Sockets, handle_CONNACK_quits
<1>3. ~handle_EXCEPTION
  BY <1>1, ThePacket DEF ClientInv, handle_EXCEPTION, Down, Answer
<1>4. CASE handle_CONNACK_refused \/ handle_CONNACK_accepted
  BY <1>1, <1>4, GreetingIdles
<1>5. CASE handle_PUBLISH \/ handle_PUBREL
  BY <1>1, <1>5, ArrivalReceives
<1>6. CASE handle_PUBREC
  <2>1. /\ frame' = rest /\ to_client' = to_client /\ UNCHANGED <<arrived, receivedMessages>>
    BY <1>6 DEF handle_PUBREC, callbacks
  <2>2. NoNews(to_server, Receipt)
    <3>1. CASE to_server' = to_server
      BY <3>1, QueueSame
    <3>2. CASE to_server' # to_server
      <4>1. PICK a \in DOMAIN sentMessages \ {0} : a = packet.id /\ in_flight(a)
        BY <1>6, <3>2, BegunItems DEF handle_PUBREC, ClientInv, Memory, in_flight
      <4>2. packet \in Down /\ packet.type = "PUBREC" /\ connected /\ Match(packet)
        BY <1>1, <1>6, ThePacket DEF ClientInv, handle_PUBREC
      <4>3. sentMessages[a].item \in Message
        BY <4>1, <4>2 DEF Match, Fits, Down, Ref
      <4>4. a \in DOMAIN Store /\ a \in Nat \ {0} /\ sentMessages[a] \in Flight
        BY <4>1, <4>3, StoreFacts
      <4>5. PICK p \in Up : /\ p = Packet("PUBREL", a, sentMessages[a].item)
                            /\ p.type \notin Receipt
        BY <4>3, <4>4, PagePacket DEF Packet, Receipt
      <4>6. socket_send(<<p>>)
        BY <1>6, <4>1, <4>2, <4>4, <4>5 DEF handle_PUBREC, schedule_message, Flight
      <4>. QED BY <4>5, <4>6, OneTold
    <3>. QED BY <3>1, <3>2
  <2>. QED BY <1>1, <2>1, <2>2, PacketTaken, PageIdles
<1>7. CASE handle_PUBACK \/ handle_PUBCOMP \/ handle_request_ack
  <2>1. quiet_handler /\ arrived' = arrived
    <3>1. packet \in Down
      BY <1>1, ThePacket DEF ClientInv
    <3>2. handle_PUBCOMP => in_flight(packet.id)
      BY <1>1, <3>1, ThePacket DEF ClientInv, Down, Match, in_flight, handle_PUBCOMP
    <3>. QED BY <1>7, <3>2 DEF handle_PUBACK, handle_PUBCOMP, handle_request_ack, quiet_handler
  <2>2. /\ frame' = rest /\ UNCHANGED <<receivedMessages, to_client, to_server>>
    BY <2>1 DEF quiet_handler, network
  <2>. QED BY <1>1, <2>1, <2>2, PacketTaken, QueueSame, PageIdles
<1>8. CASE handle_PINGRESP
  <2>1. frame' = rest /\ UNCHANGED <<arrived, receivedMessages, to_client, to_server>>
    BY <1>8 DEF handle_PINGRESP, callbacks, session, network
  <2>. QED BY <1>1, <2>1, PacketTaken, QueueSame, PageIdles
<1>. QED BY <1>1, <1>2, <1>3, <1>4, <1>5, <1>6, <1>7, <1>8 DEF HandleMessage

LEMMA ClientReceives ==
    ASSUME Calm, Few, ClientInv, ClientNext
    PROVE  ReceiverStep
<1>1. UNCHANGED server
  BY DEF ClientNext, InPage
<1>2. CASE Handles
  BY <1>1, <1>2, HandleReceives DEF ReceiverStep
<1>. QED BY <1>1, <1>2, CallIdles, CallbackIdles DEF ClientNext, InPage, ReceiverStep

-----------------------------------------------------------------------------
(* Every step does one of these: the server *)

LEMMA SingleAfter ==
    ASSUME NEW S, NEW q \in Seq(S), NEW r \in Seq(S),
           \A p \in ToSet(q) : p.type # "PUBLISH", Single(r)
    PROVE  Single(q \o r)
<1> DEFINE u == q \o r
           a == Len(q)
           b == Len(r)
<1>1. /\ DOMAIN q = 1 .. a /\ a \in Nat /\ DOMAIN r = 1 .. b /\ b \in Nat
      /\ DOMAIN u = 1 .. (a + b)
      /\ \A i \in 1 .. (a + b) : u[i] = IF i <= a THEN q[i] ELSE r[i - a]
  BY ConcatProperties, LenProperties
<1>. HIDE DEF u, a, b
<1>2. ASSUME NEW i \in 1 .. (a + b), NEW m \in Reliable, Brings(u[i], m)
      PROVE  i - a \in 1 .. b /\ Brings(r[i - a], m)
  <2>1. CASE i <= a
    BY <1>1, <1>2, <2>1 DEF ToSet, Brings
  <2>2. CASE ~(i <= a)
    BY <1>1, <1>2, <2>2
  <2>. QED BY <2>1, <2>2
<1>3. ASSUME NEW i \in 1 .. (a + b), NEW j \in 1 .. (a + b), NEW m \in Reliable,
             Brings(u[i], m), Brings(u[j], m)
      PROVE  i = j
  <2>1. i - a = j - a
    BY <1>1, <1>2, <1>3 DEF Single
  <2>. QED BY <1>1, <2>1
<1>4. Single(u)
  BY <1>1, <1>3 DEF Single
<1>. QED BY <1>4 DEF u

(***************************************************************************)
(* Nothing is on its way to the client when its CONNECT arrives, and the   *)
(* server sends what the session owes behind the CONNACK.                  *)
(***************************************************************************)
LEMMA ConnectRenews ==
    ASSUME Few, ClientInv, ClientInv', to_server # <<>>, ServerConnect
    PROVE  Renews
<1> DEFINE progress == IF CleanSession
                       THEN [m \in Arriving |-> IF outgoing[m] = "new" THEN "new" ELSE "done"]
                       ELSE outgoing
           C(verdict) == <<Packet("CONNACK", 0, verdict)>>
           Renewed(out) ==
              /\ Single(out)
              /\ \A p \in ToSet(out) :
                    /\ p.type = "PUBLISH" => progress[p.what] = "pub"
                    /\ p.type = "PUBREL" => progress[p.what] = "rel"
<1>1. OpeningOnly(to_server')
  BY ConnectStarts DEF Starts
<1>2. Arrival.type = "CONNECT" /\ outgoing' = progress
  BY DEF ServerConnect, IsCONNECT
<1>3. Pipe = <<>>
  BY <1>2, QueueServed DEF ClientInv, Protocol, Greeting, NoType
<1>4. \/ Reply(C("accepted") \o Owed(progress))
      \/ Reply(C("refused"))
  BY DEF ServerConnect
<1>. HIDE DEF progress
<1>5. ASSUME NEW verdict \in {"accepted", "refused"}
      PROVE  /\ C(verdict) \in Seq(Down)
             /\ \A p \in ToSet(C(verdict)) : p.type \notin {"PUBLISH", "PUBREL"}
  <2> DEFINE p == Packet("CONNACK", 0, verdict)
  <2>1. p \in Down /\ p.type \notin {"PUBLISH", "PUBREL"}
    BY DEF Packet, Down, Answer, Ref, Word
  <2>. HIDE DEF p
  <2>2. <<p>> \in Seq(Down) /\ ToSet(<<p>>) = {p}
    BY <2>1 DEF ToSet
  <2>. QED BY <2>1, <2>2 DEF p
<1>6. /\ Owed(progress) \in Seq(Down)
      /\ Single(Owed(progress))
      /\ \A p \in ToSet(Owed(progress)) :
            /\ p.type = "PUBLISH" => progress[p.what] = "pub"
            /\ p.type = "PUBREL" => progress[p.what] = "rel"
  BY OwedPackets DEF Single, Brings
<1>. HIDE DEF C
<1>7. PICK out \in Seq(Down) : Reply(out) /\ Renewed(out)
  <2>1. CASE Reply(C("refused"))
    <3>1. Single(C("refused"))
      <4>1. <<>> \in Seq(Down) /\ C("refused") \o <<>> = C("refused")
        BY <1>5, EmptySeq, ConcatEmptySeq
      <4>. QED BY <1>5, <4>1, SingleAfter, SingleEmpty
    <3>. QED BY <1>5, <2>1, <3>1
  <2>2. CASE Reply(C("accepted") \o Owed(progress))
    <3>1. Single(C("accepted") \o Owed(progress))
      BY <1>5, <1>6, SingleAfter
    <3>2. /\ C("accepted") \o Owed(progress) \in Seq(Down)
          /\ ToSet(C("accepted") \o Owed(progress)) =
                ToSet(C("accepted")) \cup ToSet(Owed(progress))
      BY <1>5, <1>6, ConcatRefs
    <3>. QED BY <1>5, <1>6, <2>2, <3>1, <3>2
  <2>. QED BY <1>4, <2>1, <2>2
<1>8. UNCHANGED client /\ (Pipe' = out \/ Pipe' = <<>>)
  <2>1. <<>> \o out = out
    BY ConcatEmptySeq
  <2>. QED BY <1>3, <1>7, <2>1, RepliedPipe
<1>9. PICK q : q = Pipe'
  OBVIOUS
<1>10. Renewed(q)
  BY <1>7, <1>8, <1>9, SingleEmpty, EmptyRefs
<1>11. Single(Pipe)' /\ \A p \in ToSet(Pipe') :
                           /\ p.type = "PUBLISH" => outgoing'[p.what] = "pub"
                           /\ p.type = "PUBREL" => outgoing'[p.what] = "rel"
  BY <1>2, <1>9, <1>10 DEF Single, Reliable
<1>12. UNCHANGED <<arrived, receivedMessages>>
  BY <1>8 DEF client, callbacks, session
<1>. QED BY <1>1, <1>2, <1>11, <1>12 DEF Renews, progress

LEMMA FewerTold ==
    ASSUME ClientInv, to_server # <<>>, to_server' = Tail(to_server)
    PROVE  NoNews(to_server, Receipt)
BY QueueServed DEF NoNews

LEMMA ReplyIdles ==
    ASSUME ClientInv, to_server # <<>>, NEW out \in Seq(Down), Reply(out), ServerHolds,
           \A p \in ToSet(out) : p.type \notin Sending \/ p.what \notin Reliable
    PROVE  Idles
<1>1. /\ UNCHANGED client /\ to_server' = Tail(to_server)
      /\ Pipe' = Pipe \o out \/ Pipe' = Pipe
      /\ \A p \in ToSet(Pipe') : p \in ToSet(Pipe) \/ p \in ToSet(out)
  BY RepliedPipe
<1>2. PageHolds
  BY <1>1 DEF PageHolds, client, callbacks, session
<1>3. Single(Pipe) => Single(Pipe)'
  <2>1. Single(Pipe) => Single(Pipe \o out)
    BY QueueTypes, SingleConcat DEF Sending
  <2>2. CASE Pipe' = Pipe
    BY <2>2 DEF Single, Reliable
  <2>3. CASE Pipe' = Pipe \o out
    BY <2>1, <2>3 DEF Single, Reliable
  <2>. QED BY <1>1, <2>2, <2>3
<1>4. PipeFades
  BY <1>1, <1>3 DEF PipeFades, NoNews
<1>. QED BY <1>1, <1>2, <1>4, FewerTold DEF Idles

LEMMA OneReplyIdles ==
    ASSUME ClientInv, to_server # <<>>, ServerHolds,
           NEW type, NEW n, NEW what, Packet(type, n, what) \in Down,
           type \notin Sending \/ what \notin Reliable,
           Reply(<<Packet(type, n, what)>>)
    PROVE  Idles
<1> DEFINE p == Packet(type, n, what)
<1>1. p \in Down /\ Reply(<<p>>) /\ p.type = type /\ p.what = what
  BY DEF Packet
<1>. HIDE DEF p
<1>2. <<p>> \in Seq(Down) /\ ToSet(<<p>>) = {p}
  BY <1>1 DEF ToSet
<1>. QED BY <1>1, <1>2, ReplyIdles

LEMMA NoReplyIdles ==
    ASSUME ClientInv, to_server # <<>>, ServerHolds, Reply(<<>>)
    PROVE  Idles
<1>1. <<>> \in Seq(Down) /\ ToSet(<<>>) = {}
  BY EmptySeq, EmptyRefs
<1>. QED BY <1>1, ReplyIdles

LEMMA NoReplyPipe ==
    ASSUME ClientInv, to_server # <<>>, Reply(<<>>)
    PROVE  Pipe' = Pipe
<1>1. <<>> \in Seq(Down) /\ Pipe \o <<>> = Pipe
  BY QueueTypes, EmptySeq, ConcatEmptySeq
<1>. QED BY <1>1, RepliedPipe

LEMMA ServesReceives ==
    ASSUME ClientInv, to_server # <<>>, ServerServes
    PROVE  Idles \/ \E m \in Reliable : Records(m) \/ Completes(m)
<1>0. PICK a, id, m : a = Arrival /\ id = Arrival.id /\ m = Arrival.what
  OBVIOUS
<1>1. a \in Up
  BY <1>0, QueueServed
<1>2. /\ id \in Nat /\ a.id = id /\ a.what = m
      /\ a.type \in {"PUBACK", "PUBREC", "PUBCOMP"} => m \in Arriving
      /\ a.type = "PUBREL" => id # 0
      /\ m \in Word
  BY <1>0, <1>1 DEF Up
<1>3. outgoing \in [Arriving -> {"new", "pub", "rel", "done"}]
  BY DEF ClientInv, ServerTypes
<1>4. \A out : Reply(out) => /\ to_server' = Tail(to_server)
                             /\ UNCHANGED <<arrived, receivedMessages>>
  BY DEF Reply, client, callbacks, session
<1>5. CASE a.type = "PUBREC"
  <2>1. /\ m \in Arriving /\ Step(m, "pub", "rel")
        /\ \/ outgoing[m] # "done" /\ Reply(<<Packet("PUBREL", 0, m)>>)
           \/ outgoing[m] = "done" /\ Reply(<<>>)
    BY <1>0, <1>2, <1>5 DEF ServerServes, ServerId
  <2>2. PICK p \in Down : p = Packet("PUBREL", 0, m)
    BY <2>1 DEF Packet, Down, Answer, Ref, Word
  <2>3. CASE QoS[m] = 2
    <3>1. \/ Pipe' = Pipe
          \/ outgoing[m] # "done" /\ Pipe' = Append(Pipe, p)
      <4>1. <<p>> \in Seq(Down) /\ Pipe \o <<p>> = Append(Pipe, p)
        BY QueueTypes, AppendIsConcat
      <4>2. CASE outgoing[m] # "done"
        BY <2>1, <2>2, <4>1, <4>2, RepliedPipe
      <4>3. CASE outgoing[m] = "done"
        BY <2>1, <4>3, NoReplyPipe
      <4>. QED BY <4>2, <4>3
    <3>2. Taken({"PUBREC"}, m)
      BY <1>0, <1>4, <1>5, <2>1 DEF Taken
    <3>3. Records(m) /\ m \in Reliable
      BY <2>1, <2>2, <2>3, <3>1, <3>2 DEF Records, Reliable
    <3>. QED BY <3>3
  <2>4. CASE QoS[m] # 2
    <3>1. m \notin Reliable
      BY <2>4 DEF Reliable
    <3>2. ServerHolds
      BY <1>3, <2>1, <3>1 DEF ServerHolds, Step, Reliable
    <3>3. Packet("PUBREL", 0, m) \in Down
      BY <2>2
    <3>. QED BY <2>1, <3>1, <3>2, <3>3, OneReplyIdles, NoReplyIdles
  <2>. QED BY <2>3, <2>4
<1>6. CASE a.type \in {"PUBACK", "PUBCOMP"}
  <2>1. /\ m \in Arriving /\ Reply(<<>>)
        /\ Step(m, IF QoS[m] = 1 THEN "pub" ELSE "rel", "done")
    BY <1>0, <1>2, <1>6 DEF ServerServes
  <2>2. CASE QoS[m] = 2
    <3>1. Taken({"PUBACK", "PUBCOMP"}, m)
      BY <1>0, <1>4, <1>6, <2>1 DEF Taken
    <3>2. Step(m, "rel", "done")
      BY <2>1, <2>2
    <3>3. Completes(m) /\ m \in Reliable
      BY <2>1, <2>2, <3>1, <3>2, NoReplyPipe DEF Completes, Reliable
    <3>. QED BY <3>3
  <2>3. CASE QoS[m] # 2
    <3>1. m \notin Reliable
      BY <2>3 DEF Reliable
    <3>2. ServerHolds
      BY <1>3, <2>1, <3>1 DEF ServerHolds, Step, Reliable
    <3>. QED BY <2>1, <3>2, NoReplyIdles
  <2>. QED BY <2>2, <2>3
<1>7. CASE a.type \notin Receipt
  <2>1. ServerHolds
    BY <1>0, <1>7 DEF ServerServes, ServerHolds, Receipt
  <2>2. \/ Reply(<<>>)
        \/ a.type = "PUBLISH" /\ Reply(<<Packet("PUBACK", id, m)>>)
        \/ a.type = "PUBLISH" /\ Reply(<<Packet("PUBREC", id, m)>>)
        \/ a.type = "PUBREL" /\ Reply(<<Packet("PUBCOMP", id, m)>>)
        \/ \E verdict \in {"granted", "refused"} : Reply(<<Packet("SUBACK", id, verdict)>>)
        \/ Reply(<<Packet("UNSUBACK", id, NoItem)>>)
        \/ Reply(<<Packet("PINGRESP", 0, NoItem)>>)
    <3>1. CASE a.type = "PUBLISH"
      BY <1>0, <3>1 DEF ServerServes
    <3>2. CASE a.type # "PUBLISH"
      BY <1>0, <1>7, <3>2 DEF ServerServes, Receipt
    <3>. QED BY <3>1, <3>2
  <2>3. /\ Packet("PUBACK", id, m) \in Down /\ Packet("PUBREC", id, m) \in Down
        /\ a.type = "PUBREL" => Packet("PUBCOMP", id, m) \in Down
        /\ \A verdict \in {"granted", "refused"} : Packet("SUBACK", id, verdict) \in Down
        /\ Packet("UNSUBACK", id, NoItem) \in Down
        /\ Packet("PINGRESP", 0, NoItem) \in Down
    BY <1>2 DEF Packet, Down, Answer, Ref, Word
  <2>4. ASSUME NEW verdict \in {"granted", "refused"},
               Reply(<<Packet("SUBACK", id, verdict)>>)
        PROVE  Idles
    BY <2>1, <2>3, <2>4, OneReplyIdles DEF Sending
  <2>5. CASE Reply(<<>>)
    BY <2>1, <2>5, NoReplyIdles
  <2>6. \A type \in {"PUBACK", "PUBREC", "PUBCOMP", "UNSUBACK", "PINGRESP"} : type \notin Sending
    BY DEF Sending
  <2>7. CASE a.type = "PUBLISH" /\ Reply(<<Packet("PUBACK", id, m)>>)
    BY <2>1, <2>3, <2>6, <2>7, OneReplyIdles
  <2>8. CASE a.type = "PUBLISH" /\ Reply(<<Packet("PUBREC", id, m)>>)
    BY <2>1, <2>3, <2>6, <2>8, OneReplyIdles
  <2>9. CASE a.type = "PUBREL" /\ Reply(<<Packet("PUBCOMP", id, m)>>)
    BY <2>1, <2>3, <2>6, <2>9, OneReplyIdles
  <2>10. CASE Reply(<<Packet("UNSUBACK", id, NoItem)>>)
    BY <2>1, <2>3, <2>6, <2>10, OneReplyIdles
  <2>11. CASE Reply(<<Packet("PINGRESP", 0, NoItem)>>)
    BY <2>1, <2>3, <2>6, <2>11, OneReplyIdles
  <2>. QED BY <2>2, <2>4, <2>5, <2>7, <2>8, <2>9, <2>10, <2>11
<1>. QED BY <1>5, <1>6, <1>7 DEF Receipt

LEMMA PublishReceives ==
    ASSUME ClientInv, NEW m \in Arriving, ServerPublishes(m)
    PROVE  Idles \/ \E n \in Reliable : Announces(n)
<1> DEFINE p == Packet("PUBLISH", 0, m)
<1>1. /\ outgoing[m] = "new"
      /\ \/ outgoing' = [outgoing EXCEPT ![m] = "pub"]
         \/ outgoing' = [outgoing EXCEPT ![m] = "done"]
      /\ UNCHANGED <<arrived, receivedMessages, to_server>>
  BY DEF ServerPublishes, client, callbacks, session
<1>2. p \in Down /\ p.type = "PUBLISH" /\ p.what = m /\ (Pipe' = Pipe \/ Pipe' = Append(Pipe, p))
  BY PipePublished
<1>3. outgoing \in [Arriving -> {"new", "pub", "rel", "done"}]
  BY DEF ClientInv, ServerTypes
<1>4. CASE QoS[m] = 2
  <2>1. \/ outgoing' = [outgoing EXCEPT ![m] = "pub"]
        \/ /\ CleanSession /\ Pipe' = Pipe
           /\ outgoing' = [outgoing EXCEPT ![m] = "done"]
    <3>1. CASE link /\ online /\ ~\E i \in DOMAIN to_server : IsCONNECT(to_server[i])
      BY <1>4, <3>1 DEF ServerPublishes
    <3>2. CASE ~(link /\ online /\ ~\E i \in DOMAIN to_server : IsCONNECT(to_server[i]))
      <4>1. to_client' = to_client /\ frame' = frame
        BY <3>2 DEF ServerPublishes, client
      <4>2. CASE CleanSession
        BY <1>1, <4>1, <4>2 DEF Pipe
      <4>3. CASE ~CleanSession
        BY <1>4, <4>3 DEF ServerPublishes
      <4>. QED BY <4>2, <4>3
    <3>. QED BY <3>1, <3>2
  <2>2. Announces(m) /\ m \in Reliable
    BY <1>1, <1>2, <1>4, <2>1 DEF Announces, Reliable
  <2>. QED BY <2>2
<1>5. CASE QoS[m] # 2
  <2>1. m \notin Reliable
    BY <1>5 DEF Reliable
  <2>2. ServerHolds
    BY <1>1, <1>3, <2>1 DEF ServerHolds, Reliable
  <2>. HIDE DEF p
  <2>3. PipeFades
    <3>1. CASE Pipe' = Pipe
      BY <3>1, PipeLess
    <3>2. CASE Pipe' = Append(Pipe, p)
      <4>0. <<p>> \in Seq(Down) /\ ToSet(<<p>>) = {p}
        BY <1>2 DEF ToSet
      <4>1. /\ Append(Pipe, p) = Pipe \o <<p>>
            /\ ToSet(Append(Pipe, p)) = ToSet(Pipe) \cup {p}
        BY <1>2, QueueTypes, AppendIsConcat, AppendRefs
      <4>2. Single(Pipe) => Single(Append(Pipe, p))
        BY <1>2, <2>1, <4>0, <4>1, QueueTypes, SingleConcat
      <4>3. Single(Append(Pipe, p)) <=> Single(Pipe)'
        BY <3>2 DEF Single, Reliable
      <4>. QED BY <1>2, <2>1, <3>2, <4>1, <4>2, <4>3 DEF PipeFades, NoNews
    <3>. QED BY <1>2, <3>1, <3>2
  <2>. QED BY <1>1, <2>2, <2>3, QueueSame DEF Idles, PageHolds
<1>. QED BY <1>4, <1>5

LEMMA BreakIdles ==
    ASSUME ClientInv, Break
    PROVE  Idles
<1>1. UNCHANGED <<arrived, receivedMessages, to_server, outgoing>>
  BY DEF Break, client, callbacks, session, server
<1>2. Single(Pipe) => Single(Pipe)'
  <2>1. Single(Pipe) => Single(frame)
    BY PipeBroken, SingleConcat DEF ClientInv, Protocol, Wires
  <2>2. Single(frame) <=> Single(Pipe)'
    BY PipeBroken DEF Single, Reliable
  <2>. QED BY <2>1, <2>2
<1>3. PipeFades
  BY <1>2, PipeBroken DEF PipeFades, NoNews, Fewer
<1>. QED BY <1>1, <1>3, QueueSame DEF Idles, PageHolds, ServerHolds

LEMMA DropsIdles ==
    ASSUME ClientInv, ServerDrops
    PROVE  Idles
<1>1. UNCHANGED <<arrived, receivedMessages, outgoing, frame, to_client>>
  BY DEF ServerDrops, client, callbacks, session
<1>2. Pipe' = Pipe
  BY <1>1 DEF Pipe
<1>3. NoNews(to_server, Receipt)
  <2>1. PICK i \in 2 .. Len(to_server) : to_server' = SubSeq(to_server, i, Len(to_server))
    BY DEF ServerDrops
  <2>2. i \in DOMAIN to_server
    BY QueueTypes, LenProperties
  <2>. QED BY <2>1, <2>2, QueueTypes, SubSeqMembers DEF NoNews
<1>. QED BY <1>1, <1>2, <1>3, PipeLess DEF Idles, PageHolds, ServerHolds

LEMMA StepReceives ==
    ASSUME Calm, Few, ClientInv, ClientInv', [Next]_vars
    PROVE  ReceiverStep
<1>1. CASE ClientNext
  BY <1>1, ClientReceives
<1>2. CASE ServerReceives
  <2>1. CASE ServerIgnores
    BY <1>2, <2>1, NoReplyIdles DEF ServerIgnores, ServerReceives, ServerHolds, ReceiverStep
  <2>. QED BY <1>2, <2>1, ConnectRenews, ServesReceives DEF ServerReceives, ReceiverStep
<1>3. CASE ServerDrops
  BY <1>3, DropsIdles DEF ReceiverStep
<1>4. CASE \E m \in Arriving : ServerPublishes(m)
  BY <1>4, PublishReceives DEF ReceiverStep
<1>5. CASE Break
  BY <1>5, BreakIdles DEF ReceiverStep
<1>6. CASE UNCHANGED vars
  <2>1. UNCHANGED <<arrived, receivedMessages, frame, to_client, to_server, server>>
    BY <1>6 DEF vars, client, callbacks, session, network
  <2>2. Pipe' = Pipe
    BY <2>1 DEF Pipe
  <2>. QED BY <2>1, <2>2, QueueSame, PageIdles DEF ReceiverStep
<1>. QED BY <1>1, <1>2, <1>3, <1>4, <1>5, <1>6 DEF Next

-----------------------------------------------------------------------------
(* The messages for the page *)

(***************************************************************************)
(* What a step leaves of a message, and of what is said of it.             *)
(***************************************************************************)
NothingNew(m) ==
    /\ outgoing'[m] = outgoing[m] /\ arrived'[m] = arrived[m]
    /\ \A type \in Sending : Tells(Pipe', type, m) => Tells(Pipe, type, m)
    /\ \A type \in Receipt : Tells(to_server', type, m) => Tells(to_server, type, m)

LEMMA TrackedStays ==
    ASSUME NEW m \in Reliable, Tracked(m), NothingNew(m),
           m \in receivedMessages' => m \in receivedMessages
    PROVE  Tracked(m)'
<1>1. /\ Tells(Pipe', "PUBLISH", m) => Tells(Pipe, "PUBLISH", m)
      /\ Tells(Pipe', "PUBREL", m) => Tells(Pipe, "PUBREL", m)
      /\ Tells(to_server', "PUBREC", m) => Tells(to_server, "PUBREC", m)
      /\ Tells(to_server', "PUBACK", m) => Tells(to_server, "PUBACK", m)
  BY DEF NothingNew, Sending, Receipt
<1>. QED BY <1>1 DEF NothingNew, Tracked

LEMMA SafelyStays ==
    ASSUME NEW m \in Reliable, Safely(m), NothingNew(m),
           m \in receivedMessages => m \in receivedMessages'
    PROVE  Safely(m)'
<1>1. /\ Tells(to_server', "PUBREC", m) => Tells(to_server, "PUBREC", m)
      /\ Tells(to_server', "PUBCOMP", m) => Tells(to_server, "PUBCOMP", m)
  BY DEF NothingNew, Receipt
<1>. QED BY <1>1 DEF NothingNew, Safely, Held

LEMMA IdlesQuiet ==
    ASSUME Arrivals, Idles
    PROVE  /\ arrived' \in [Arriving -> Nat] /\ Single(Pipe)'
           /\ \A m \in Reliable : /\ NothingNew(m)
                                  /\ m \in receivedMessages' => m \in receivedMessages
                                  /\ ~CleanSession /\ m \in receivedMessages =>
                                        m \in receivedMessages'
<1>1. Single(Pipe)'
  BY DEF Arrivals, Idles, PipeFades
<1>2. /\ arrived' \in [Arriving -> Nat]
      /\ \A m \in Reliable : arrived'[m] = arrived[m]
  <2>1. CASE arrived' = arrived
    BY <2>1 DEF Arrivals
  <2>2. CASE \E m \in Arriving \ Reliable : arrived' = [arrived EXCEPT ![m] = @ + 1]
    BY <2>2 DEF Arrivals, Reliable
  <2>. QED BY <2>1, <2>2 DEF Idles, PageHolds
<1>3. ASSUME NEW m \in Reliable
      PROVE  /\ m \in receivedMessages' => m \in receivedMessages
             /\ ~CleanSession /\ m \in receivedMessages => m \in receivedMessages'
  BY DEF Idles, PageHolds
<1>4. ASSUME NEW m \in Reliable
      PROVE  NothingNew(m)
  <2>1. \A type \in Sending : Tells(Pipe', type, m) => Tells(Pipe, type, m)
    BY DEF Idles, PipeFades, NoNews, Tells
  <2>2. \A type \in Receipt : Tells(to_server', type, m) => Tells(to_server, type, m)
    BY DEF Idles, NoNews, Tells
  <2>. QED BY <1>2, <2>1, <2>2 DEF Idles, ServerHolds, NothingNew
<1>. QED BY <1>1, <1>2, <1>3, <1>4

(***************************************************************************)
(* A message begins its way, or is released: it is not on its way yet.     *)
(***************************************************************************)
LEMMA PipeGrows ==
    ASSUME ClientInv, Arrivals, NEW m \in Reliable, NEW type,
           Packet(type, 0, m) \in Down, ~Tells(Pipe, "PUBLISH", m),
           Pipe' = Pipe \/ Pipe' = Append(Pipe, Packet(type, 0, m))
    PROVE  /\ Single(Pipe)'
           /\ \A n, t : Tells(Pipe', t, n) => Tells(Pipe, t, n) \/ (n = m /\ t = type)
<1> DEFINE p == Packet(type, 0, m)
<1>1. p \in Down /\ p.what = m /\ p.type = type
  BY DEF Packet
<1>. HIDE DEF p
<1>2. Single(Append(Pipe, p)) /\ ToSet(Append(Pipe, p)) = ToSet(Pipe) \cup {p}
  BY <1>1, QueueTypes, SingleAppend, AppendRefs DEF Arrivals
<1>3. CASE Pipe' = Pipe
  BY <1>3 DEF Arrivals, Single, Reliable
<1>4. CASE Pipe' = Append(Pipe, p)
  <2>1. Single(Append(Pipe, p)) <=> Single(Pipe)'
    BY <1>4 DEF Single, Reliable
  <2>. QED BY <1>1, <1>2, <1>4, <2>1 DEF Tells
<1>. QED BY <1>3, <1>4 DEF p

LEMMA HandledPipe ==
    ASSUME ClientInv, Arrivals, NEW m \in Reliable, NEW type, NEW reply, Handled(type, m, reply)
    PROVE  /\ Single(Pipe)' /\ Tells(Pipe, type, m)
           /\ \A n, t : Tells(Pipe', t, n) => Tells(Pipe, t, n)
           /\ type = "PUBLISH" => ~Tells(Pipe', "PUBLISH", m)
           /\ \A n, t : Tells(to_server', t, n) =>
                           Tells(to_server, t, n) \/ (n = m /\ t = reply)
<1>1. /\ Pipe \in Seq(Down) /\ Pipe # <<>> /\ Pipe' = Tail(Pipe)
      /\ Head(Pipe).type = type /\ Head(Pipe).what = m
  BY QueueTypes DEF Handled
<1>2. ToSet(Pipe) = {Head(Pipe)} \cup ToSet(Tail(Pipe))
  BY <1>1, TailRefs
<1>3. Single(Tail(Pipe)) /\ (type = "PUBLISH" => ~Tells(Tail(Pipe), "PUBLISH", m))
  BY <1>1, SingleTail DEF Arrivals, Brings
<1>4. Single(Tail(Pipe)) <=> Single(Pipe)'
  BY <1>1 DEF Single, Reliable
<1>5. Tells(Pipe, type, m) /\ \A n, t : Tells(Pipe', t, n) => Tells(Pipe, t, n)
  BY <1>1, <1>2 DEF Tells
<1>6. \A n, t : Tells(to_server', t, n) => Tells(to_server, t, n) \/ (n = m /\ t = reply)
  BY DEF Handled, Tells, Packet
<1>. QED BY <1>1, <1>3, <1>4, <1>5, <1>6

LEMMA TakenTells ==
    ASSUME ClientInv, NEW m, NEW types, Taken(types, m)
    PROVE  /\ \E type \in types : Tells(to_server, type, m)
           /\ \A n, t : Tells(to_server', t, n) => Tells(to_server, t, n)
BY QueueServed DEF Taken, Tells

LEMMA StepOf ==
    ASSUME ClientInv, NEW m \in Reliable, NEW from, NEW to, Step(m, from, to)
    PROVE  /\ outgoing'[m] = IF outgoing[m] = from THEN to ELSE outgoing[m]
           /\ \A n \in Reliable \ {m} : outgoing'[n] = outgoing[n]
BY DEF Step, ClientInv, ServerTypes, Reliable

(***************************************************************************)
(* A step that is about m leaves the other messages as they are.           *)
(***************************************************************************)
LEMMA OthersQuiet ==
    ASSUME ClientInv, Arrivals, NEW m \in Reliable,
           Announces(m) \/ Stores(m) \/ Hands(m) \/ Records(m) \/ Completes(m),
           NEW n \in Reliable \ {m}
    PROVE  /\ NothingNew(n)
           /\ n \in receivedMessages' <=> n \in receivedMessages
<1>1. /\ outgoing \in [Arriving -> {"new", "pub", "rel", "done"}]
      /\ arrived \in [Arriving -> Nat] /\ m \in Arriving /\ n \in Arriving /\ n # m
  BY DEF ClientInv, ServerTypes, Arrivals, Reliable
<1>2. \A type \in {"PUBLISH", "PUBREL"} : Packet(type, 0, m) \in Down
  BY <1>1 DEF Packet, Down, Answer, Ref, Word
<1>3. ASSUME NEW type, NEW q, Packet(type, 0, m) \in Down, q \in Seq(Down)
      PROVE  \A t : Tells(Append(q, Packet(type, 0, m)), t, n) => Tells(q, t, n)
  <2>1. ToSet(Append(q, Packet(type, 0, m))) = ToSet(q) \cup {Packet(type, 0, m)}
    BY <1>3, AppendRefs
  <2>. QED BY <1>1, <2>1 DEF Tells, Packet
<1>4. Pipe \in Seq(Down)
  BY QueueTypes
<1>5. CASE Announces(m)
  <2>1. \A t : Tells(Pipe', t, n) => Tells(Pipe, t, n)
    BY <1>2, <1>3, <1>4, <1>5 DEF Announces
  <2>2. outgoing'[n] = outgoing[n]
    BY <1>1, <1>5 DEF Announces
  <2>. QED BY <1>5, <2>1, <2>2 DEF Announces, NothingNew
<1>6. CASE Stores(m) \/ Hands(m)
  <2>1. /\ \A t : Tells(Pipe', t, n) => Tells(Pipe, t, n)
        /\ \A t : Tells(to_server', t, n) => Tells(to_server, t, n)
    BY <1>1, <1>6, HandledPipe DEF Stores, Hands
  <2>2. outgoing'[n] = outgoing[n]
    BY <1>6 DEF Stores, Hands, Handled
  <2>3. arrived'[n] = arrived[n]
    BY <1>1, <1>6 DEF Stores, Hands
  <2>4. n \in receivedMessages' <=> n \in receivedMessages
    BY <1>1, <1>6 DEF Stores, Hands
  <2>. QED BY <2>1, <2>2, <2>3, <2>4 DEF NothingNew
<1>7. CASE Records(m) \/ Completes(m)
  <2>1. \A t : Tells(to_server', t, n) => Tells(to_server, t, n)
    BY <1>7, TakenTells DEF Records, Completes
  <2>2. \A t : Tells(Pipe', t, n) => Tells(Pipe, t, n)
    BY <1>2, <1>3, <1>4, <1>7 DEF Records, Completes
  <2>3. outgoing'[n] = outgoing[n]
    BY <1>7, StepOf DEF Records, Completes
  <2>. QED BY <1>7, <2>1, <2>2, <2>3 DEF NothingNew, Records, Completes, Taken
<1>. QED BY <1>5, <1>6, <1>7

LEMMA AnnouncesTracked ==
    ASSUME ClientInv, Arrivals, NEW m \in Reliable, Announces(m)
    PROVE  Arrivals'
<1>1. /\ outgoing \in [Arriving -> {"new", "pub", "rel", "done"}]
      /\ arrived \in [Arriving -> Nat] /\ m \in Arriving /\ Tracked(m)
  BY DEF ClientInv, ServerTypes, Arrivals, Reliable
<1>2. /\ ~Tells(Pipe, "PUBLISH", m) /\ ~Tells(Pipe, "PUBREL", m)
      /\ ~Tells(to_server, "PUBREC", m) /\ ~Tells(to_server, "PUBACK", m) /\ arrived[m] # 1
  BY <1>1 DEF Announces, Tracked
<1>3. Packet("PUBLISH", 0, m) \in Down
  BY <1>1 DEF Packet, Down, Answer, Ref, Word
<1>4. Single(Pipe)' /\ ~Tells(Pipe', "PUBREL", m)
  BY <1>2, <1>3, PipeGrows DEF Announces
<1>5. Tracked(m)'
  <2>1. ~Tells(to_server', "PUBREC", m) /\ ~Tells(to_server', "PUBACK", m) /\ arrived' = arrived
    BY <1>2 DEF Announces
  <2>2. \/ outgoing'[m] = "pub"
        \/ Pipe' = Pipe
    BY <1>1 DEF Announces
  <2>3. Tells(Pipe', "PUBLISH", m) => outgoing'[m] = "pub"
    BY <1>2, <2>2
  <2>. QED BY <1>1, <1>2, <1>4, <2>1, <2>3 DEF Tracked
<1>6. \A n \in Reliable \ {m} : Tracked(n)'
  BY OthersQuiet, TrackedStays DEF Arrivals
<1>. QED BY <1>1, <1>4, <1>5, <1>6 DEF Arrivals, Announces, Reliable

LEMMA StoresTracked ==
    ASSUME ClientInv, Arrivals, NEW m \in Reliable, Stores(m)
    PROVE  Arrivals'
<1>1. arrived \in [Arriving -> Nat] /\ Tracked(m)
  BY DEF Arrivals
<1>2. /\ Single(Pipe)' /\ Tells(Pipe, "PUBLISH", m)
      /\ Tells(Pipe', "PUBREL", m) => Tells(Pipe, "PUBREL", m)
      /\ ~Tells(Pipe', "PUBLISH", m)
      /\ Tells(to_server', "PUBACK", m) => Tells(to_server, "PUBACK", m)
  BY HandledPipe DEF Stores
<1>3. arrived' = arrived /\ outgoing' = outgoing
  BY DEF Stores, Handled
<1>4. Tracked(m)'
  BY <1>1, <1>2, <1>3 DEF Tracked
<1>5. \A n \in Reliable \ {m} : Tracked(n)'
  BY OthersQuiet, TrackedStays DEF Arrivals
<1>. QED BY <1>1, <1>2, <1>3, <1>4, <1>5 DEF Arrivals, Reliable

LEMMA HandsTracked ==
    ASSUME ClientInv, Arrivals, NEW m \in Reliable, Hands(m)
    PROVE  /\ Arrivals'
           /\ m \in receivedMessages => arrived'[m] = 1
           /\ m \notin receivedMessages => arrived'[m] = arrived[m]
<1>1. arrived \in [Arriving -> Nat] /\ Tracked(m) /\ m \in Arriving
  BY DEF Arrivals, Reliable
<1>2. /\ Single(Pipe)' /\ Tells(Pipe, "PUBREL", m)
      /\ Tells(Pipe', "PUBLISH", m) => Tells(Pipe, "PUBLISH", m)
      /\ Tells(to_server', "PUBREC", m) => Tells(to_server, "PUBREC", m)
      /\ Tells(to_server', "PUBACK", m) => Tells(to_server, "PUBACK", m)
  BY HandledPipe DEF Hands
<1>3. /\ outgoing' = outgoing /\ m \notin receivedMessages'
      /\ arrived' = IF m \in receivedMessages THEN [arrived EXCEPT ![m] = @ + 1] ELSE arrived
  BY DEF Hands, Handled
<1>4. /\ m \in receivedMessages => arrived'[m] = 1
      /\ m \notin receivedMessages => arrived'[m] = arrived[m]
  <2>1. arrived[m] \in Nat /\ arrived[m] <= 1
    BY <1>1 DEF Tracked
  <2>2. m \in receivedMessages => arrived[m] = 0
    BY <1>1, <2>1 DEF Tracked
  <2>. QED BY <1>1, <1>3, <2>2
<1>5. outgoing'[m] \in {"rel", "done"} /\ ~Tells(Pipe', "PUBLISH", m)
  BY <1>1, <1>2, <1>3 DEF Tracked
<1>6. arrived'[m] <= 1
  BY <1>1, <1>4 DEF Tracked
<1>7. Tracked(m)'
  BY <1>1, <1>2, <1>3, <1>5, <1>6 DEF Tracked
<1>8. \A n \in Reliable \ {m} : Tracked(n)'
  BY OthersQuiet, TrackedStays DEF Arrivals
<1>9. arrived' \in [Arriving -> Nat]
  BY <1>1, <1>3
<1>. QED BY <1>2, <1>4, <1>7, <1>8, <1>9 DEF Arrivals, Reliable

LEMMA TakenTracked ==
    ASSUME ClientInv, Arrivals, NEW m \in Reliable, Records(m) \/ Completes(m)
    PROVE  Arrivals'
<1>1. /\ outgoing \in [Arriving -> {"new", "pub", "rel", "done"}]
      /\ arrived \in [Arriving -> Nat] /\ m \in Arriving /\ Tracked(m)
  BY DEF ClientInv, ServerTypes, Arrivals, Reliable
<1>2. /\ \A t : Tells(to_server', t, m) => Tells(to_server, t, m)
      /\ UNCHANGED <<arrived, receivedMessages>>
  BY TakenTells DEF Records, Completes, Taken
<1>3. ASSUME Records(m) PROVE Single(Pipe)' /\ Tracked(m)'
  <2>1. Tells(to_server, "PUBREC", m)
    BY <1>3, TakenTells DEF Records
  <2>2. outgoing[m] # "new" /\ ~Tells(Pipe, "PUBLISH", m)
    BY <1>1, <2>1 DEF Tracked
  <2>3. outgoing'[m] = IF outgoing[m] = "pub" THEN "rel" ELSE outgoing[m]
    BY <1>3, StepOf DEF Records
  <2>4. outgoing'[m] \in {"rel", "done"}
    BY <1>1, <2>2, <2>3
  <2>5. Packet("PUBREL", 0, m) \in Down
    BY <1>1 DEF Packet, Down, Answer, Ref, Word
  <2>6. Single(Pipe)' /\ ~Tells(Pipe', "PUBLISH", m)
    BY <1>3, <2>2, <2>5, PipeGrows DEF Records
  <2>. QED BY <1>1, <1>2, <2>2, <2>4, <2>6 DEF Tracked
<1>4. ASSUME Completes(m) PROVE Single(Pipe)' /\ Tracked(m)'
  <2>1. outgoing'[m] = IF outgoing[m] = "rel" THEN "done" ELSE outgoing[m]
    BY <1>4, StepOf DEF Completes
  <2>2. /\ outgoing[m] = "pub" => outgoing'[m] = "pub"
        /\ outgoing[m] \in {"rel", "done"} => outgoing'[m] \in {"rel", "done"}
        /\ outgoing[m] # "new" => outgoing'[m] # "new"
    BY <2>1
  <2>3. Single(Pipe)' /\ \A t : Tells(Pipe', t, m) => Tells(Pipe, t, m)
    BY <1>4 DEF Completes, Arrivals, Single, Reliable
  <2>4. /\ Tells(Pipe', "PUBLISH", m) =>
              outgoing'[m] = "pub" /\ ~Tells(to_server', "PUBREC", m)
        /\ Tells(Pipe', "PUBREL", m) => outgoing'[m] \in {"rel", "done"}
        /\ Tells(to_server', "PUBREC", m) => outgoing'[m] # "new"
        /\ ~Tells(to_server', "PUBACK", m)
        /\ arrived'[m] = 1 =>
              outgoing'[m] \in {"rel", "done"} /\ m \notin receivedMessages'
    BY <1>1, <1>2, <2>2, <2>3 DEF Tracked
  <2>. QED BY <1>1, <1>2, <2>3, <2>4 DEF Tracked
<1>5. Single(Pipe)' /\ Tracked(m)'
  BY <1>3, <1>4
<1>6. \A n \in Reliable \ {m} : Tracked(n)'
  BY OthersQuiet, TrackedStays DEF Arrivals
<1>. QED BY <1>1, <1>2, <1>5, <1>6 DEF Arrivals, Reliable

LEMMA RenewsTracked ==
    ASSUME ClientInv, Arrivals, Renews
    PROVE  Arrivals'
<1>1. /\ outgoing \in [Arriving -> {"new", "pub", "rel", "done"}]
      /\ arrived \in [Arriving -> Nat] /\ UNCHANGED <<arrived, receivedMessages>>
  BY DEF ClientInv, ServerTypes, Arrivals, Renews
<1>2. ASSUME NEW m \in Reliable
      PROVE  Tracked(m)'
  <2>1. m \in Arriving /\ Tracked(m)
    BY DEF Arrivals, Reliable
  <2>2. \A type \in Receipt : ~Tells(to_server', type, m)
    BY DEF Renews, OpeningOnly, Opening, Receipt, Tells
  <2>3. /\ Tells(Pipe', "PUBLISH", m) => outgoing'[m] = "pub"
        /\ Tells(Pipe', "PUBREL", m) => outgoing'[m] = "rel"
    BY DEF Renews, Tells
  <2>4. outgoing[m] \in {"rel", "done"} => outgoing'[m] \in {"rel", "done"}
    BY <1>1, <2>1 DEF Renews
  <2>5. ~Tells(to_server', "PUBREC", m) /\ ~Tells(to_server', "PUBACK", m)
    BY <2>2 DEF Receipt
  <2>6. /\ arrived'[m] <= 1
        /\ arrived'[m] = 1 => outgoing'[m] \in {"rel", "done"} /\ m \notin receivedMessages'
    BY <1>1, <2>1, <2>4 DEF Tracked
  <2>. QED BY <2>3, <2>5, <2>6 DEF Tracked
<1>. QED BY <1>1, <1>2 DEF Arrivals, Renews, Reliable

LEMMA ArrivalsKept ==
    ASSUME ClientInv, Arrivals, ReceiverStep
    PROVE  Arrivals'
<1>1. CASE Idles
  BY <1>1, IdlesQuiet, TrackedStays DEF Arrivals, Reliable
<1>2. CASE Renews
  BY <1>2, RenewsTracked
<1>3. ASSUME NEW m \in Reliable,
             Announces(m) \/ Stores(m) \/ Hands(m) \/ Records(m) \/ Completes(m)
      PROVE  Arrivals'
  BY <1>3, AnnouncesTracked, StoresTracked, HandsTracked, TakenTracked
<1>. QED BY <1>1, <1>2, <1>3 DEF ReceiverStep

LEMMA ArrivesKept ==
    ASSUME ~CleanSession, ClientInv, Arrivals, Arrives, ReceiverStep
    PROVE  Arrives'
<1>1. CASE Idles
  BY <1>1, IdlesQuiet, SafelyStays DEF Arrives, Reliable
<1>2. CASE Renews
  <2>1. ASSUME NEW m \in Reliable
        PROVE  Safely(m)'
    <3>1. \A type \in Receipt : ~Tells(to_server', type, m)
      BY <1>2 DEF Renews, OpeningOnly, Opening, Receipt, Tells
    <3>2. ~Tells(to_server', "PUBREC", m) /\ ~Tells(to_server', "PUBCOMP", m)
      BY <3>1 DEF Receipt
    <3>3. UNCHANGED <<outgoing, arrived, receivedMessages>> /\ Safely(m)
      BY <1>2 DEF Renews, Arrives
    <3>. QED BY <3>2, <3>3 DEF Safely, Held
  <2>. QED BY <2>1 DEF Arrives, Reliable
<1>3. ASSUME NEW m \in Reliable,
             Announces(m) \/ Stores(m) \/ Hands(m) \/ Records(m) \/ Completes(m)
      PROVE  Arrives'
  <2>1. /\ outgoing \in [Arriving -> {"new", "pub", "rel", "done"}]
        /\ m \in Arriving /\ Safely(m) /\ Tracked(m)
    BY DEF ClientInv, ServerTypes, Arrivals, Arrives, Reliable
  <2>2. \A n \in Reliable \ {m} : Safely(n)'
    BY <1>3, OthersQuiet, SafelyStays DEF Arrives
  <2>3. Safely(m)'
    <3>1. CASE Announces(m)
      <4>1. /\ outgoing'[m] = "pub" /\ UNCHANGED <<arrived, receivedMessages, to_server>>
        BY <2>1, <3>1 DEF Announces
      <4>. QED BY <2>1, <4>1 DEF Safely, Held
    <3>2. CASE Stores(m)
      <4>1. /\ outgoing' = outgoing /\ arrived' = arrived /\ m \in receivedMessages'
            /\ Tells(to_server', "PUBCOMP", m) => Tells(to_server, "PUBCOMP", m)
        BY <3>2, HandledPipe DEF Stores, Handled
      <4>. QED BY <2>1, <4>1 DEF Safely, Held
    <3>3. CASE Hands(m)
      <4>1. Tells(Pipe, "PUBREL", m)
        BY <3>3, HandledPipe DEF Hands
      <4>2. outgoing[m] \in {"rel", "done"}
        BY <2>1, <4>1 DEF Tracked
      <4>3. arrived'[m] = 1
        BY <2>1, <3>3, <4>2, HandsTracked DEF Safely, Held
      <4>. QED BY <4>3 DEF Safely, Held
    <3>4. CASE Records(m)
      <4>1. /\ Tells(to_server, "PUBREC", m)
            /\ Tells(to_server', "PUBCOMP", m) => Tells(to_server, "PUBCOMP", m)
        BY <3>4, TakenTells DEF Records
      <4>2. outgoing'[m] = "done" => outgoing[m] = "done"
        BY <3>4, StepOf DEF Records
      <4>3. UNCHANGED <<arrived, receivedMessages>>
        BY <3>4 DEF Records, Taken
      <4>. QED BY <2>1, <4>1, <4>2, <4>3 DEF Safely, Held
    <3>5. CASE Completes(m)
      <4>0. UNCHANGED <<arrived, receivedMessages>>
        BY <3>5 DEF Completes, Taken
      <4>1. Tells(to_server, "PUBACK", m) \/ Tells(to_server, "PUBCOMP", m)
        BY <3>5, TakenTells DEF Completes
      <4>2. arrived[m] = 1
        BY <2>1, <4>1 DEF Tracked, Safely
      <4>. QED BY <4>0, <4>2 DEF Safely, Held
    <3>. QED BY <1>3, <3>1, <3>2, <3>3, <3>4, <3>5
  <2>. QED BY <2>2, <2>3 DEF Arrives, Reliable
<1>. QED BY <1>1, <1>2, <1>3 DEF ReceiverStep

-----------------------------------------------------------------------------
(* The invariants hold *)

LEMMA OrderedKept ==
    ASSUME ~CleanSession, Subscription \cup Unsubscription = {},
           ClientInv, SenderInv, reloads = 0 => Ordered, SenderStep
    PROVE  (reloads = 0 => Ordered)'
<1> SUFFICES ASSUME reloads' = 0 PROVE Ordered'
  OBVIOUS
<1>1. reloads \in Nat
  BY DEF SenderInv, Counters
<1>2. CASE Passes
  <2>1. reloads' = reloads
    BY <1>1, <1>2 DEF Passes, PageKept
  <2>. QED BY <1>1, <1>2, <2>1, PassesOrdered
<1>3. CASE Resumes
  BY <1>3, ResumesOrdered DEF Resumes, PageKept
<1>4. CASE Takes
  BY <1>4, TakesOrdered DEF Takes, Served, PageKept
<1>5. CASE Releases
  BY <1>5, ReleasesOrdered DEF Releases, Served, PageKept
<1>6. CASE Starts
  BY <1>6, StartsOrdered DEF Starts, Served, PageKept
<1>7. ASSUME NEW m \in Message, Sends(m) PROVE Ordered'
  BY <1>7, SendsOrdered DEF Sends
<1>8. ASSUME NEW a \in DOMAIN Store, Marks(a) PROVE Ordered'
  BY <1>8, MarksOrdered DEF Marks, Acknowledged, PageKept
<1>9. ASSUME NEW a \in DOMAIN Store, Finishes(a) PROVE Ordered'
  BY <1>9, FinishesOrdered DEF Finishes, Acknowledged, PageKept
<1>. QED BY <1>2, <1>3, <1>4, <1>5, <1>6, <1>7, <1>8, <1>9 DEF SenderStep, Forgets

LEMMA DeliveryInit ==
    ASSUME Few, Init
    PROVE  SenderInv /\ Ordered /\ Arrivals /\ Arrives
<1>1. /\ sent = <<>> /\ localStorage = EmptyStorage
      /\ connected = FALSE /\ frame = <<>>
      /\ to_server = <<>> /\ to_client = <<>> /\ online = FALSE /\ got = <<>>
      /\ incoming = {} /\ outgoing = [m \in Arriving |-> "new"] /\ reloads = 0
      /\ delivered = [m \in Message |-> 0] /\ arrived = [m \in Arriving |-> 0]
  BY DEF Init, ClientInit
<1>2. /\ DOMAIN Store = {} /\ Pipe = <<>> /\ ToSet(Pipe) = {} /\ ToSet(to_server) = {}
      /\ Known = {} /\ ToSet(sent) = {} /\ DOMAIN sent = {} /\ DOMAIN to_server = {}
  BY <1>1, EmptyRefs DEF Store, EmptyStorage, NoEntries, Pipe, Known
<1>3. Book /\ Counters
  BY <1>1, <1>2 DEF Book, Counters
<1>4. Once
  <2>1. ASSUME NEW m \in Message
        PROVE  Count(m) = 0
    <3>1. DOMAIN got = {}
      BY <1>1
    <3>2. {i \in DOMAIN got : got[i] = m} = {}
      BY <3>1
    <3>. QED BY <3>2, FS_EmptySet DEF Count
  <2>. QED BY <1>2, <2>1 DEF Once
<1>5. Safe /\ Accounts
  BY <1>1, <1>2 DEF Safe, Accounts
<1>6. Ordered
  BY <1>1, <1>2 DEF Ordered
<1>7. Arrivals /\ Arrives
  <2>1. \A m \in Reliable : m \in Arriving /\ outgoing[m] = "new" /\ arrived[m] = 0
    BY <1>1 DEF Reliable
  <2>2. \A m, type : ~Tells(Pipe, type, m) /\ ~Tells(to_server, type, m)
    BY <1>2 DEF Tells
  <2>3. \A m \in Reliable : Tracked(m) /\ Safely(m)
    BY <2>1, <2>2 DEF Tracked, Safely
  <2>. QED BY <1>1, <1>2, <2>3, SingleEmpty DEF Arrivals, Arrives
<1>. QED BY <1>3, <1>4, <1>5, <1>6, <1>7 DEF SenderInv

LEMMA SenderInvariance == Calm /\ Few => (Spec => []SenderInv)
<1> SUFFICES ASSUME Calm, Few PROVE Spec => []SenderInv
  OBVIOUS
<1>1. Init => SenderInv
  BY DeliveryInit
<1>2. ClientInv /\ SenderInv /\ [Next]_vars => SenderInv'
  <2> SUFFICES ASSUME ClientInv, SenderInv, [Next]_vars PROVE SenderInv'
    OBVIOUS
  <2>1. ClientInv' /\ Book
    BY NextInv DEF SenderInv
  <2>2. SenderStep
    BY <2>1, StepSends
  <2>. QED BY <2>2, SenderKept
<1>. QED BY <1>1, <1>2, ClientInvariance, PTL DEF Spec

LEMMA ArrivalsInvariance == Calm /\ Few => (Spec => []Arrivals)
<1> SUFFICES ASSUME Calm, Few PROVE Spec => []Arrivals
  OBVIOUS
<1>1. Init => Arrivals
  BY DeliveryInit
<1>2. ClientInv /\ Arrivals /\ [Next]_vars => Arrivals'
  BY NextInv, StepReceives, ArrivalsKept
<1>. QED BY <1>1, <1>2, ClientInvariance, PTL DEF Spec

LEMMA ArrivesInvariance == Calm /\ Few /\ ~CleanSession => (Spec => []Arrives)
<1> SUFFICES ASSUME Calm, Few, ~CleanSession PROVE Spec => []Arrives
  OBVIOUS
<1>1. Init => Arrives
  BY DeliveryInit
<1>2. ClientInv /\ Arrivals /\ Arrives /\ [Next]_vars => Arrives'
  BY NextInv, StepReceives, ArrivesKept
<1>. QED BY <1>1, <1>2, ClientInvariance, ArrivalsInvariance, PTL DEF Spec

(***************************************************************************)
(* The theorems.  Nobody gets a QoS 2 message twice, in either direction:  *)
(* the identifier of a message that is sent again (_process_queue and the  *)
(* CONNACK case of _handleMessage) is one the server still remembers, and  *)
(* _receivePublish and the PUBREL case hand a message over once.           *)
(***************************************************************************)
THEOREM DeliveredAtMostOnce == Calm /\ Few => (Spec => []AtMostOnce)
<1> SUFFICES ASSUME Calm, Few PROVE Spec => []AtMostOnce
  OBVIOUS
<1>1. SenderInv /\ Arrivals => AtMostOnce
  BY DEF SenderInv, Once, Arrivals, Tracked, Reliable, AtMostOnce
<1>. QED BY <1>1, SenderInvariance, ArrivalsInvariance, PTL

(***************************************************************************)
(* In a session that outlives its connections every message that send()    *)
(* accepted has been reported delivered, once and with the server having   *)
(* it, or is in localStorage for the next connection; and what the server  *)
(* was told is safe has reached the page or is kept.                       *)
(***************************************************************************)
THEOREM MessagesKept == Calm /\ Few /\ ~CleanSession => (Spec => []NothingLost)
<1> SUFFICES ASSUME Calm, Few, ~CleanSession PROVE Spec => []NothingLost
  OBVIOUS
<1>1. ASSUME SenderInv, Arrivals, Arrives
      PROVE  NothingLost
  <2>1. \A m \in ToSet(sent) : QoS[m] > 0 =>
           \/ delivered[m] = 1 /\ m \in ToSet(got) /\ ~Pending(m)
           \/ delivered[m] = 0 /\ Pending(m)
    BY <1>1 DEF SenderInv, Accounts, Known
  <2>2. ASSUME NEW m \in Arriving, QoS[m] = 2
        PROVE  /\ outgoing[m] = "rel" => (arrived[m] = 1) # (m \in receivedMessages)
               /\ outgoing[m] = "done" => arrived[m] = 1
    <3>1. Tracked(m) /\ Safely(m)
      BY <1>1, <2>2 DEF Arrivals, Arrives, Reliable
    <3>2. outgoing[m] = "rel" => arrived[m] = 1 \/ m \in receivedMessages
      BY <3>1 DEF Safely, Held
    <3>3. ~(arrived[m] = 1 /\ m \in receivedMessages)
      BY <3>1 DEF Tracked
    <3>. QED BY <3>1, <3>2, <3>3 DEF Safely
  <2>. QED BY <2>1, <2>2 DEF NothingLost
<1>2. SenderInv /\ Arrivals /\ Arrives => NothingLost
  BY <1>1
<1>. QED BY <1>2, SenderInvariance, ArrivalsInvariance, ArrivesInvariance, PTL

(***************************************************************************)
(* Until the page is loaded again, and with no subscription on its way, no *)
(* message that is acknowledged overtakes another: what is sent again is   *)
(* sorted by the sequence numbers ("Sort sentMessages into the original    *)
(* sent order"), and what is sent then goes behind it.                     *)
(***************************************************************************)
THEOREM SentOrderKept ==
    Calm /\ Few /\ ~CleanSession /\ Subscription \cup Unsubscription = {} =>
        (Spec => []InSentOrder)
<1> SUFFICES ASSUME Calm, Few, ~CleanSession, Subscription \cup Unsubscription = {}
             PROVE  Spec => []InSentOrder
  OBVIOUS
<1> DEFINE Sorts == reloads = 0 => Ordered
<1>1. Init => Sorts
  BY DeliveryInit
<1>2. ClientInv /\ SenderInv /\ Sorts /\ [Next]_vars => Sorts'
  <2> SUFFICES ASSUME ClientInv, SenderInv, Sorts, [Next]_vars PROVE Sorts'
    OBVIOUS
  <2>1. ClientInv' /\ Book
    BY NextInv DEF SenderInv
  <2>2. SenderStep
    BY <2>1, StepSends
  <2>. QED BY <2>2, OrderedKept
<1>3. ClientInv /\ Sorts => InSentOrder
  <2> SUFFICES ASSUME ClientInv, Sorts, reloads = 0,
                      NEW i \in DOMAIN sent, NEW j \in DOMAIN sent,
                      i < j, QoS[sent[i]] > 0, QoS[sent[j]] > 0, sent[j] \in ToSet(got)
               PROVE  sent[i] \in ToSet(got)
    BY DEF InSentOrder
  <2>1. sent[i] \in Message /\ sent[j] \in Message
    BY QueueTypes, ElementOfSeq
  <2>2. Before(sent[i], sent[j])
    BY DEF Before
  <2>. QED BY <2>1, <2>2 DEF Ordered, Known
<1>. HIDE DEF Sorts
<1>. QED BY <1>1, <1>2, <1>3, ClientInvariance, SenderInvariance, PTL DEF Spec
=============================================================================
