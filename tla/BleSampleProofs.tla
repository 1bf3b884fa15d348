-------------------------- MODULE BleSampleProofs --------------------------
(***************************************************************************)
(* Proofs about the sample program (BleSample): one process plays both     *)
(* roles, for every size of messages and every MTU.                        *)
(***************************************************************************)
EXTENDS BleSample, BleEndpointProofs

NoneStarted(q) == \A i \in 1..Len(q) : ~Started(q[i])

\* Between runs nothing is queued and nothing is reassembled.
AtRest(s) ==
    /\ outbox[Echo][s] = <<>> /\ outbox[Gadget][s] = <<>>
    /\ Buffer(Gadget, s) = NULL

\* While one role receives, the one reassembly there is for a stream is its.
GadgetReceives(s) ==
    /\ Mirrors(outbox[Echo][s], Buffer(Gadget, s))
    /\ NoneStarted(outbox[Gadget][s])

EchoReceives(s) ==
    /\ outbox[Echo][s] = <<>>
    /\ Mirrors(outbox[Gadget][s], Buffer(Echo, s))

(***************************************************************************)
(* The inductive invariant.  That the roles can share a reassembly needs   *)
(* to know whose it is: the phase says who receives, the sender's queue    *)
(* what has left of its head, and the other queue that nothing has left of *)
(* it yet.  That the Echo device returns nothing needs to know what it was *)
(* sent.                                                                   *)
(***************************************************************************)
StreamInv(s) ==
    /\ Exchange(s) /\ Ordered(Echo, s) /\ Ordered(Gadget, s)
    /\ phase = "main" => AtRest(s)
    /\ phase = Gadget => GadgetReceives(s)
    /\ phase = Echo => EchoReceives(s)

SampleInv ==
    /\ EndpointTypeOK
    /\ phase \in Roles \cup {"main"}
    /\ NoAssertionFails
    /\ sent[Echo]["OTA_STREAM"] = <<>>
    /\ \A s \in Streams : StreamInv(s)

LEMMA Phases ==
    /\ Roles = {Echo, Gadget}
    /\ Echo # Gadget /\ Echo # "main" /\ Gadget # "main"
    /\ Peer(Echo) = Gadget /\ Peer(Gadget) = Echo
    /\ HostOf[Echo] = HostOf[Gadget]
    /\ Processes = {HostOf[Echo]}
  BY SampleAssumption DEF Roles, Echo, Gadget, Peer, Processes

LEMMA OneBuffer == \A s \in Streams : Buffer(Echo, s) = Buffer(Gadget, s)
  BY Phases DEF Buffer

LEMMA QueueTypes ==
    ASSUME EndpointTypeOK, NEW x \in Roles, NEW s \in Streams
    PROVE  /\ outbox[x][s] \in Seq(Item)
           /\ sent[x][s] \in Seq(Record)
           /\ delivered[x][s] \in Seq(Nat)
<1>1. outbox \in [Roles -> [Streams -> Seq(Item)]]
  BY DEF EndpointTypeOK, Item
<1>2. sent \in [Roles -> [Streams -> Seq(Record)]]
  BY DEF EndpointTypeOK, Record
<1>3. delivered \in [Roles -> [Streams -> Seq(Nat)]]
  BY DEF EndpointTypeOK
<1> QED
  BY <1>1, <1>2, <1>3, Zenon

LEMMA ConcatNotStarted ==
    ASSUME NEW q \in Seq(Item), NEW items \in Seq(Item),
           NoneStarted(q), NoneStarted(items)
    PROVE  NoneStarted(q \o items)
  BY DEF NoneStarted

\* A queue none of which has left stays so with a new transaction.
LEMMA CreatedOrdered ==
    ASSUME NEW x \in Roles, NEW q \in Seq(Item), NEW S \in Seq(Record),
           NEW D \in Seq(Nat), ChannelInOrder(x, q, S, D), NoneStarted(q),
           NEW id \in TransactionIds, NEW m \in Messages, NEW ack \in BOOLEAN
    PROVE  LET t == Transaction(x, Len(S) + 1, id, m, ack)
           IN  /\ t \in Item
               /\ Append(q, t) \in Seq(Item) /\ NoneStarted(Append(q, t))
               /\ ChannelInOrder(x, Append(q, t),
                                 Append(S, [message |-> m, ack |-> ack]), D)
<1> DEFINE t == Transaction(x, Len(S) + 1, id, m, ack)
<1>1. t \in Item /\ ~Started(t)
  <2>1. 0 \in SeqNums /\ 0 < Size[m] /\ Len(S) + 1 \in Nat
    BY PacketAssumption, EndpointAssumption DEF SeqNums
  <2> QED
    BY <2>1 DEF Transaction, Item, TransactionItem, Started
<1>2. ChannelInOrder(x, Append(q, t), Append(S, [message |-> m, ack |-> ack]), D)
  BY ChannelCreate
<1> HIDE DEF t
<1>3. Append(q, t) \in Seq(Item) /\ NoneStarted(Append(q, t))
  BY <1>1 DEF NoneStarted
<1> QED
  BY <1>1, <1>2, <1>3 DEF t

\* main has handed a run's packets to the gadget.
LEMMA RunStarted ==
    ASSUME SampleInv, phase = "main", phase' = Gadget, EndpointTypeOK',
           UNCHANGED <<rxBuffers, aborted, delivered>>,
           NEW s \in Streams, s # "OTA_STREAM",
           NEW q, NEW C, NoneStarted(q),
           outbox' = [outbox EXCEPT ![Echo][s] = q],
           sent' = [sent EXCEPT ![Echo][s] = C],
           ChannelInOrder(Echo, q, C, delivered[Gadget][s]),
           Answering(s, C, sent[Gadget][s], delivered[Gadget][s])
    PROVE  SampleInv'
<1>1. /\ EndpointTypeOK /\ NoAssertionFails /\ sent[Echo]["OTA_STREAM"] = <<>>
      /\ \A z \in Streams : StreamInv(z) /\ AtRest(z)
  BY DEF SampleInv, StreamInv
<1>2. /\ outbox'[Echo][s] = q /\ sent'[Echo][s] = C
      /\ outbox'[Gadget] = outbox[Gadget] /\ sent'[Gadget] = sent[Gadget]
      /\ \A z \in Streams \ {s} :
           outbox'[Echo][z] = outbox[Echo][z] /\ sent'[Echo][z] = sent[Echo][z]
  BY <1>1, Phases DEF EndpointTypeOK
<1>3. \A z \in Streams : Buffer(Gadget, z)' = NULL
  BY <1>1 DEF AtRest, Buffer
<1>4. ASSUME NEW z \in Streams
      PROVE  StreamInv(z)'
  <2>1. Exchange(z)'
    BY <1>1, <1>2 DEF StreamInv, Exchange
  <2>2. Ordered(Echo, z)' /\ Ordered(Gadget, z)'
    BY <1>1, <1>2, Phases DEF StreamInv, Ordered
  <2>3. NoneStarted(outbox'[Echo][z])
    BY <1>1, <1>2 DEF AtRest, NoneStarted
  <2>4. Mirrors(outbox'[Echo][z], NULL)
    <3>1. outbox'[Echo][z] \in Seq(Item)
      BY Phases DEF EndpointTypeOK, Item
    <3>2. outbox'[Echo][z] # <<>> => 1 \in 1..Len(outbox'[Echo][z])
      BY <3>1
    <3> QED
      BY <2>3, <3>2 DEF NoneStarted, Mirrors
  <2>5. NoneStarted(outbox'[Gadget][z])
    BY <1>1, <1>2 DEF AtRest, NoneStarted
  <2>6. GadgetReceives(z)'
    BY <1>3, <2>4, <2>5 DEF GadgetReceives
  <2> QED
    BY <2>1, <2>2, <2>6, Phases DEF StreamInv
<1>5. sent'[Echo]["OTA_STREAM"] = <<>>
  BY <1>1, <1>2 DEF Streams
<1>6. NoAssertionFails'
  BY <1>1 DEF NoAssertionFails
<1> QED
  BY <1>4, <1>5, <1>6, Phases DEF SampleInv

LEMMA StartRunInv ==
    ASSUME SampleInv, NEW run \in Runs, StartRun(run)
    PROVE  SampleInv'
<1> DEFINE s == StreamOf(run)
           m == MessageOf(run)
<1>1. PICK ack \in BOOLEAN : Create(Echo, s, m, ack)
  BY DEF StartRun, AckFlags
<1>2. /\ s \in Streams /\ s # "OTA_STREAM"
      /\ m \in Messages /\ m \in EchoMessages(s)
  BY DEF StartRun, Runs, StreamOf, MessageOf, Streams, EchoMessages, Messages, Commands
<1>3. EndpointTypeOK /\ AtRest(s) /\ Ordered(Echo, s) /\ Exchange(s)
  BY <1>2 DEF SampleInv, StreamInv, StartRun
<1> HIDE DEF s, m
<1> DEFINE C == sent[Echo][s]
           q == outbox[Echo][s]
           e == [message |-> m, ack |-> ack]
           id == NextTransactionId(lastTransactionId[HostOf[Echo]][s])
           t == Transaction(Echo, Len(C) + 1, id, m, ack)
<1>4. EndpointTypeOK'
  BY <1>1, <1>2, <1>3, Phases, CreateEffect
<1>5. /\ outbox' = [outbox EXCEPT ![Echo][s] = Append(q, t)]
      /\ sent' = [sent EXCEPT ![Echo][s] = Append(C, e)]
      /\ UNCHANGED <<rxBuffers, aborted, delivered>>
  BY <1>1 DEF Create, CreateTransaction, NewTransaction
<1>6. /\ q \in Seq(Item) /\ C \in Seq(Record) /\ delivered[Gadget][s] \in Seq(Nat)
      /\ id \in TransactionIds /\ e \in Record /\ e.message = m
  <2>1. /\ q \in Seq(Item) /\ C \in Seq(Record) /\ delivered[Gadget][s] \in Seq(Nat)
    BY <1>2, <1>3, Phases, QueueTypes
  <2>2. lastTransactionId[HostOf[Echo]][s] \in TransactionIds
    BY <1>2, <1>3, Phases DEF EndpointTypeOK
  <2>3. e \in Record /\ e.message = m
    BY <1>2 DEF Record
  <2> QED
    BY <2>1, <2>2, <2>3, NextTransactionIdType
<1>7. ChannelInOrder(Echo, q, C, delivered[Gadget][s]) /\ NoneStarted(q)
  BY <1>2, <1>3, Phases DEF Ordered, AtRest, NoneStarted
<1> HIDE DEF q, C, id
<1>8. /\ ChannelInOrder(Echo, Append(q, t), Append(C, e), delivered[Gadget][s])
      /\ NoneStarted(Append(q, t))
  BY <1>2, <1>6, <1>7, Phases, CreatedOrdered
<1> HIDE DEF e, t
<1>9. Answering(s, Append(C, e), sent[Gadget][s], delivered[Gadget][s])
  BY <1>2, <1>3, <1>6, CreatedAnswering DEF Exchange, C
<1>10. phase = "main" /\ phase' = Gadget
  BY DEF StartRun
<1> QED
  BY <1>2, <1>4, <1>5, <1>8, <1>9, <1>10, RunStarted

LEMMA CapturesInv ==
    ASSUME SampleInv, StartCaptures
    PROVE  SampleInv'
<1> DEFINE s == "CONTROL_STREAM"
           C == sent[Echo][s]
           q == outbox[Echo][s]
           m1 == Command("GET_DEVICE_INFORMATION")
           m2 == Command("GET_DEVICE_FEATURES")
           e1 == [message |-> m1, ack |-> FALSE]
           e2 == [message |-> m2, ack |-> FALSE]
           t1 == Transaction(Echo, Len(C) + 1, 0, m1, FALSE)
           t2 == Transaction(Echo, Len(C) + 2, 2, m2, FALSE)
           D == delivered[Gadget][s]
<1>1. /\ phase = "main" /\ phase' = Gadget
      /\ sent' = [sent EXCEPT ![Echo][s] = C \o <<e1, e2>>]
      /\ outbox' = [outbox EXCEPT ![Echo][s] = q \o <<t1, t2>>]
      /\ UNCHANGED <<rxBuffers, lastTransactionId, aborted, delivered, verdicts>>
  BY Zenon DEF StartCaptures
<1>2. s \in Streams /\ s # "OTA_STREAM" /\ Echo \in Roles
  BY Phases DEF Streams
<1>3. EndpointTypeOK /\ AtRest(s) /\ Ordered(Echo, s) /\ Exchange(s)
  BY <1>1, <1>2 DEF SampleInv, StreamInv
<1>4. /\ m1 \in EchoMessages(s) /\ m2 \in EchoMessages(s)
      /\ m1 \in Messages /\ m2 \in Messages
      /\ 0 \in TransactionIds /\ 2 \in TransactionIds
  BY SampleAssumption DEF EchoMessages, Messages, Commands
<1>5. /\ q \in Seq(Item) /\ C \in Seq(Record) /\ D \in Seq(Nat)
      /\ ChannelInOrder(Echo, q, C, D) /\ NoneStarted(q)
      /\ Answering(s, C, sent[Gadget][s], D)
  <2>1. /\ q \in Seq(Item) /\ C \in Seq(Record) /\ D \in Seq(Nat)
    BY <1>2, <1>3, Phases, QueueTypes
  <2>2. NoneStarted(q)
    BY <1>3 DEF AtRest, NoneStarted
  <2>3. ChannelInOrder(Echo, q, C, D) /\ Answering(s, C, sent[Gadget][s], D)
    BY <1>3, Phases DEF Ordered, Exchange
  <2> QED
    BY <2>1, <2>2, <2>3
<1> HIDE DEF s, m1, m2
<1>6. /\ e1 \in Record /\ e1.message = m1
      /\ e2 \in Record /\ e2.message = m2
  BY <1>4 DEF Record
<1> HIDE DEF e1, e2, q, C, D
<1>7. /\ t1 \in Item /\ Append(q, t1) \in Seq(Item) /\ NoneStarted(Append(q, t1))
      /\ ChannelInOrder(Echo, Append(q, t1), Append(C, e1), D)
  BY <1>2, <1>4, <1>5, CreatedOrdered DEF e1
<1>8. Append(C, e1) \in Seq(Record) /\ Len(Append(C, e1)) + 1 = Len(C) + 2
  BY <1>5, <1>6
<1>9. /\ t2 \in Item /\ NoneStarted(Append(Append(q, t1), t2))
      /\ ChannelInOrder(Echo, Append(Append(q, t1), t2),
                        Append(Append(C, e1), e2), D)
  <2> DEFINE p == Append(q, t1)
             B == Append(C, e1)
             t == Transaction(Echo, Len(B) + 1, 2, m2, FALSE)
  <2>1. t2 = t
    BY <1>8
  <2>2. /\ p \in Seq(Item) /\ NoneStarted(p) /\ ChannelInOrder(Echo, p, B, D)
        /\ B \in Seq(Record)
    BY <1>7, <1>8
  <2> HIDE DEF p, B, t2
  <2>3. /\ t \in Item /\ NoneStarted(Append(p, t))
        /\ ChannelInOrder(Echo, Append(p, t), Append(B, e2), D)
    BY <1>2, <1>4, <1>5, <2>2, CreatedOrdered DEF e2
  <2> QED
    BY <2>1, <2>3 DEF p, B
<1>10. Answering(s, Append(Append(C, e1), e2), sent[Gadget][s], D)
  <2>1. Answering(s, Append(C, e1), sent[Gadget][s], D)
    BY <1>2, <1>4, <1>5, <1>6, CreatedAnswering
  <2> QED
    BY <1>2, <1>4, <1>6, <1>8, <2>1, CreatedAnswering
<1> HIDE DEF t1, t2
<1>11. /\ q \o <<t1, t2>> = Append(Append(q, t1), t2) /\ q \o <<t1, t2>> \in Seq(Item)
       /\ C \o <<e1, e2>> = Append(Append(C, e1), e2) /\ C \o <<e1, e2>> \in Seq(Record)
  BY <1>5, <1>6, <1>7, <1>9
<1>12. EndpointTypeOK'
  <2>1. /\ outbox \in [Roles -> [Streams -> Seq(Item)]]
        /\ sent \in [Roles -> [Streams -> Seq(Record)]]
    BY <1>3 DEF EndpointTypeOK, Item, Record
  <2>2. /\ outbox' \in [Roles -> [Streams -> Seq(Item)]]
        /\ sent' \in [Roles -> [Streams -> Seq(Record)]]
    BY <1>1, <1>2, <1>11, <2>1
  <2> QED
    BY <1>1, <1>3, <2>2 DEF EndpointTypeOK, Item, Record
<1> QED
  BY <1>1, <1>2, <1>9, <1>10, <1>11, <1>12, RunStarted DEF D

\* A packet is received: the other streams are as they were, and in this one
\* the receiver keeps in step.
LEMMA ReceivesInv ==
    ASSUME SampleInv, NEW r \in Roles, Receives(r)
    PROVE  SampleInv'
<1>1. PICK s \in Streams : DecodePacket(r, s)
  BY DEF Receives
<1>2. /\ phase = r /\ phase' = r /\ EndpointTypeOK /\ NoAssertionFails
      /\ sent[Echo]["OTA_STREAM"] = <<>>
      /\ \A z \in Streams : StreamInv(z) /\ Exchange(z)
  BY DEF SampleInv, StreamInv, Receives
<1>3. \A z \in Streams : Ordered(r, z) /\ Channel(Peer(r), z)
  <2> SUFFICES ASSUME NEW z \in Streams
               PROVE  Ordered(r, z) /\ Channel(Peer(r), z)
    OBVIOUS
  <2>1. StreamInv(z)
    BY <1>2
  <2> QED
    BY <1>2, <2>1, Phases DEF StreamInv, GadgetReceives, EchoReceives, Channel
<1>4. PICK items : ReceivedInStep(r, s, items) /\ UNCHANGED aborted
  BY <1>1, <1>2, <1>3, PacketInStep
<1>5. /\ \A z \in Streams : Exchange(z)'
      /\ r = Echo => outbox'[Echo] = outbox[Echo] /\ UNCHANGED sent
  <2>1. DecodeCompletes(r, s) =>
           Origin(r, s, Appended(Arriving(r, s),
                                 Opened(Arriving(r, s), Buffer(r, s))).data) # 0
    BY <1>1, <1>2, <1>3, CompletesWhole
  <2> QED
    BY <1>1, <1>2, <2>1, PacketExchange
<1>6. EndpointTypeOK'
  BY <1>1, <1>2, PacketType
<1>7. /\ items \in Seq(Item) /\ NoneStarted(items)
      /\ outbox'[r][s] = outbox[r][s] \o items
      /\ Ordered(r, s)' /\ Channel(Peer(r), s)'
      /\ \A x \in Roles, z \in Streams \ {s} :
           /\ outbox'[x][z] = outbox[x][z] /\ sent'[x][z] = sent[x][z]
           /\ delivered'[x][z] = delivered[x][z]
           /\ Buffer(x, z)' = Buffer(x, z)
      /\ sent'[Peer(r)][s] = sent[Peer(r)][s]
  BY <1>4, Peers DEF ReceivedInStep, NoneStarted, Buffer
<1>8. ASSUME NEW x \in Roles, NEW z \in Streams
      PROVE  Ordered(x, z)'
  <2>1. CASE z = s
    BY <1>7, <2>1, Phases DEF Channel
  <2>2. CASE z # s
    <3>1. Ordered(x, z)
      BY <1>2, Phases DEF StreamInv
    <3>2. /\ outbox'[x][z] = outbox[x][z] /\ sent'[x][z] = sent[x][z]
          /\ delivered'[Peer(x)][z] = delivered[Peer(x)][z]
      BY <1>7, <2>2, Peers
    <3> QED
      BY <3>1, <3>2 DEF Ordered
  <2> QED
    BY <2>1, <2>2
<1>9. ASSUME r = Gadget, NEW z \in Streams
      PROVE  GadgetReceives(z)'
  <2>1. GadgetReceives(z)
    BY <1>2, <1>9 DEF StreamInv
  <2>2. CASE z = s
    <3>1. Mirrors(outbox'[Echo][s], Buffer(Gadget, s)')
      BY <1>7, <1>9, Phases DEF Channel
    <3>2. NoneStarted(outbox[Gadget][s] \o items)
      <4>1. outbox[Gadget][s] \in Seq(Item) /\ NoneStarted(outbox[Gadget][s])
        BY <1>2, <2>1, <2>2, Phases DEF EndpointTypeOK, Item, GadgetReceives
      <4>2. items \in Seq(Item) /\ NoneStarted(items)
        BY <1>7
      <4> QED
        BY <4>1, <4>2, ConcatNotStarted
    <3> QED
      BY <1>7, <1>9, <2>2, <3>1, <3>2 DEF GadgetReceives
  <2>3. CASE z # s
    <3>1. /\ outbox'[Echo][z] = outbox[Echo][z] /\ outbox'[Gadget][z] = outbox[Gadget][z]
          /\ Buffer(Gadget, z)' = Buffer(Gadget, z)
      BY <1>7, <2>3, Phases
    <3> QED
      BY <2>1, <3>1 DEF GadgetReceives, NoneStarted
  <2> QED
    BY <2>2, <2>3
<1>10. ASSUME r = Echo, NEW z \in Streams
       PROVE  EchoReceives(z)'
  <2>1. EchoReceives(z)
    BY <1>2, <1>10 DEF StreamInv
  <2>2. outbox'[Echo][z] = <<>>
    BY <1>5, <1>10, <2>1 DEF EchoReceives
  <2>3. CASE z = s
    BY <1>7, <1>10, <2>2, <2>3, Phases DEF Channel, EchoReceives
  <2>4. CASE z # s
    <3>1. /\ outbox'[Gadget][z] = outbox[Gadget][z]
          /\ Buffer(Echo, z)' = Buffer(Echo, z)
      BY <1>7, <2>4, Phases
    <3> QED
      BY <2>1, <2>2, <3>1 DEF EchoReceives
  <2> QED
    BY <2>3, <2>4
<1>11. sent'[Echo]["OTA_STREAM"] = <<>>
  <2>1. CASE r = Echo
    BY <1>2, <1>5, <2>1
  <2>2. CASE r = Gadget
    BY <1>2, <1>7, <2>2, Phases DEF Streams
  <2> QED
    BY <2>1, <2>2, Phases
<1>12. \A z \in Streams : StreamInv(z)'
  <2> SUFFICES ASSUME NEW z \in Streams
               PROVE  StreamInv(z)'
    OBVIOUS
  <2>1. phase' # "main" /\ (phase' = Gadget => r = Gadget) /\ (phase' = Echo => r = Echo)
    BY <1>2, Phases
  <2> QED
    BY <1>5, <1>8, <1>9, <1>10, <2>1, Phases DEF StreamInv
<1> QED
  BY <1>2, <1>4, <1>6, <1>11, <1>12 DEF SampleInv, NoAssertionFails

LEMMA SwitchInv ==
    ASSUME SampleInv, SwitchToEcho
    PROVE  SampleInv'
<1>1. /\ phase = Gadget /\ phase' = Echo /\ UNCHANGED endpointVars
      /\ \A s \in Streams : outbox[Echo][s] = <<>>
  BY Phases DEF SwitchToEcho, ListDone
<1>2. UNCHANGED <<outbox, rxBuffers, lastTransactionId, aborted,
                  sent, delivered, verdicts>>
  BY <1>1 DEF endpointVars
<1>3. ASSUME NEW s \in Streams
      PROVE  StreamInv(s)'
  <2>1. /\ Exchange(s) /\ Ordered(Echo, s) /\ Ordered(Gadget, s)
        /\ Mirrors(<<>>, Buffer(Gadget, s)) /\ NoneStarted(outbox[Gadget][s])
    BY <1>1 DEF SampleInv, StreamInv, GadgetReceives
  <2>2. Buffer(Echo, s) = NULL
    BY <2>1, OneBuffer DEF Mirrors
  <2>3. Mirrors(outbox[Gadget][s], NULL)
    <3>1. outbox[Gadget][s] \in Seq(Item)
      BY Phases DEF SampleInv, EndpointTypeOK, Item
    <3>2. outbox[Gadget][s] # <<>> => 1 \in 1..Len(outbox[Gadget][s])
      BY <3>1
    <3> QED
      BY <2>1, <3>2 DEF NoneStarted, Mirrors
  <2>4. Exchange(s)' /\ Ordered(Echo, s)' /\ Ordered(Gadget, s)'
    BY <1>2, <2>1 DEF Exchange, Ordered
  <2>5. EchoReceives(s)'
    BY <1>1, <1>2, <2>2, <2>3 DEF EchoReceives, Buffer
  <2> QED
    BY <1>1, <2>4, <2>5, Phases DEF StreamInv
<1> QED
  BY <1>1, <1>2, <1>3, Phases DEF SampleInv, EndpointTypeOK, NoAssertionFails

\* The assertion on what the Echo device returned holds.
LEMMA FinishInv ==
    ASSUME SampleInv, FinishRun
    PROVE  SampleInv'
<1>1. /\ phase = Echo /\ phase' = "main" /\ ListDone(Echo)
      /\ aborted' = [aborted EXCEPT ![HostOf[Echo]] = ~ListDone(Gadget)]
      /\ UNCHANGED <<outbox, rxBuffers, lastTransactionId, sent, delivered, verdicts>>
  BY DEF FinishRun
<1>2. /\ EndpointTypeOK /\ NoAssertionFails
      /\ \A s \in Streams : StreamInv(s) /\ EchoReceives(s)
  BY <1>1 DEF SampleInv, StreamInv
<1>3. aborted' = aborted
  <2>1. ListDone(Gadget)
    BY <1>2, Phases DEF ListDone, EchoReceives
  <2>2. aborted \in [Processes -> BOOLEAN] /\ ~aborted[HostOf[Echo]]
    BY <1>2, Phases DEF EndpointTypeOK, NoAssertionFails
  <2> QED
    BY <1>1, <2>1, <2>2
<1>4. ASSUME NEW s \in Streams
      PROVE  StreamInv(s)'
  <2>1. outbox[Gadget][s] = <<>> /\ outbox[Echo][s] = <<>>
    BY <1>1, <1>2, Phases DEF ListDone, EchoReceives
  <2>2. Buffer(Gadget, s) = NULL
    BY <1>2, <2>1, OneBuffer DEF EchoReceives, Mirrors
  <2>3. Exchange(s) /\ Ordered(Echo, s) /\ Ordered(Gadget, s)
    BY <1>2 DEF StreamInv
  <2>4. Exchange(s)' /\ Ordered(Echo, s)' /\ Ordered(Gadget, s)'
    BY <1>1, <2>3 DEF Exchange, Ordered
  <2>5. AtRest(s)'
    BY <1>1, <2>1, <2>2 DEF AtRest, Buffer
  <2> QED
    BY <1>1, <2>4, <2>5, Phases DEF StreamInv
<1> QED
  BY <1>1, <1>2, <1>3, <1>4 DEF SampleInv, EndpointTypeOK, NoAssertionFails

LEMMA StutterInv ==
    ASSUME SampleInv, UNCHANGED vars
    PROVE  SampleInv'
<1>1. UNCHANGED <<outbox, rxBuffers, lastTransactionId, aborted,
                  sent, delivered, verdicts, phase>>
  BY DEF vars, endpointVars
<1>2. ASSUME NEW s \in Streams
      PROVE  StreamInv(s)'
  <2>1. StreamInv(s)
    BY DEF SampleInv
  <2>2. /\ Exchange(s)' <=> Exchange(s)
        /\ Ordered(Echo, s)' <=> Ordered(Echo, s)
        /\ Ordered(Gadget, s)' <=> Ordered(Gadget, s)
    BY <1>1 DEF Exchange, Ordered
  <2>3. /\ AtRest(s)' <=> AtRest(s)
        /\ GadgetReceives(s)' <=> GadgetReceives(s)
        /\ EchoReceives(s)' <=> EchoReceives(s)
    BY <1>1 DEF AtRest, GadgetReceives, EchoReceives, Buffer
  <2> QED
    BY <1>1, <2>1, <2>2, <2>3 DEF StreamInv
<1> QED
  BY <1>1, <1>2 DEF SampleInv, EndpointTypeOK, NoAssertionFails

LEMMA InitInv ==
    ASSUME Init
    PROVE  SampleInv
<1>1. /\ InitEndpoints /\ phase = "main" /\ EndpointTypeOK
      /\ \A s \in Streams : Exchange(s)
  BY InitType, InitExchange DEF Init
<1>2. ASSUME NEW s \in Streams
      PROVE  StreamInv(s)
  <2>1. \A x \in Roles : Ordered(x, s)
    <3> SUFFICES ASSUME NEW x \in Roles
                 PROVE  Ordered(x, s)
      OBVIOUS
    <3>1. /\ outbox[x][s] = <<>> /\ sent[x][s] = <<>> /\ delivered[Peer(x)][s] = <<>>
      BY <1>1, Peers DEF InitEndpoints
    <3> QED
      BY <3>1 DEF Ordered, ChannelInOrder
  <2>2. AtRest(s)
    BY <1>1, Phases DEF InitEndpoints, AtRest, Buffer
  <2> QED
    BY <1>1, <2>1, <2>2, Phases DEF StreamInv
<1>3. sent[Echo]["OTA_STREAM"] = <<>> /\ NoAssertionFails
  BY <1>1, Phases DEF InitEndpoints, Streams, NoAssertionFails
<1> QED
  BY <1>1, <1>2, <1>3 DEF SampleInv

LEMMA SampleInductive == Spec => []SampleInv
<1>1. Init => SampleInv
  BY InitInv
<1>2. SampleInv /\ [Next]_vars => SampleInv'
  BY StartRunInv, CapturesInv, ReceivesInv, SwitchInv, FinishInv, StutterInv DEF Next
<1> QED
  BY <1>1, <1>2, PTL DEF Spec

-----------------------------------------------------------------------------
(***************************************************************************)
(* No assertion of the program fails, whatever the order of its runs.      *)
(***************************************************************************)
THEOREM SampleNeverAborts == Spec => []NoAssertionFails
<1>1. SampleInv => NoAssertionFails
  BY DEF SampleInv
<1> QED
  BY <1>1, SampleInductive, PTL

(***************************************************************************)
(* One process can play both roles: a reassembly is under way only in the  *)
(* phase of the role that receives, and the first packet of its list       *)
(* continues it.                                                           *)
(***************************************************************************)
THEOREM SampleSharesBuffers == Spec => []ReassemblyBelongsToPhase
<1>1. ASSUME SampleInv, NEW s \in Streams, Buffer(Gadget, s) # NULL
      PROVE  /\ phase \in Roles
             /\ outbox[Peer(phase)][s] # <<>>
             /\ Arriving(phase, s).transactionId = Buffer(phase, s).transactionId
             /\ Arriving(phase, s).type # "INITIAL"
  <2>1. phase \in Roles /\ Mirrors(outbox[Peer(phase)][s], Buffer(phase, s))
    BY <1>1, OneBuffer, Phases
       DEF SampleInv, StreamInv, AtRest, GadgetReceives, EchoReceives
  <2> DEFINE q == outbox[Peer(phase)][s]
  <2>2. q # <<>> /\ Started(q[1]) /\ Buffer(phase, s) = Reassembly(q[1])
    BY <1>1, <2>1, OneBuffer, Phases DEF Mirrors
  <2>3. q[1] \in TransactionItem
    <3>1. q \in Seq(Item)
      BY <1>1, <2>1, Peers DEF SampleInv, EndpointTypeOK, Item
    <3> HIDE DEF q
    <3>2. q[1] \in Item
      BY <2>2, <3>1
    <3> QED
      BY <2>2, <3>2, ItemCases DEF Started
  <2>4. ~IsInitial(Packet(q[1])) /\ Packet(q[1]).transactionId = q[1].transactionId
    BY <2>2, <2>3, PacketFields DEF Started
  <2> QED
    BY <2>1, <2>2, <2>4 DEF Arriving, IsInitial, Reassembly
<1>2. SampleInv => ReassemblyBelongsToPhase
  BY <1>1 DEF ReassemblyBelongsToPhase
<1> QED
  BY <1>2, SampleInductive, PTL

(***************************************************************************)
(* Between runs everything that was sent was delivered, in order, and      *)
(* answered, and the answers were delivered too.                           *)
(***************************************************************************)
THEOREM SampleRunsAreAnswered == Spec => []RunsAreAnswered
<1>1. ASSUME SampleInv, phase = "main", NEW s \in Streams
      PROVE  /\ Len(sent[Echo][s]) = Len(sent[Gadget][s])
             /\ \A r \in Roles :
                  delivered[r][s] = [i \in 1..Len(sent[Peer(r)][s]) |-> i]
             /\ s = "CONTROL_STREAM" =>
                  \A i \in 1..Len(sent[Gadget][s]) :
                     sent[Gadget][s][i].message
                        = Response(sent[Echo][s][i].message.command)
  <2>1. /\ EndpointTypeOK /\ AtRest(s) /\ Exchange(s)
        /\ Ordered(Echo, s) /\ Ordered(Gadget, s)
        /\ sent[Echo]["OTA_STREAM"] = <<>>
    BY <1>1 DEF SampleInv, StreamInv
  <2>2. ASSUME NEW r \in Roles
        PROVE  /\ delivered[r][s] \in Seq(Nat)
               /\ Len(delivered[r][s]) = Len(sent[Peer(r)][s])
               /\ \A i \in 1..Len(delivered[r][s]) : delivered[r][s][i] = i
    <3>1. Ordered(Peer(r), s) /\ outbox[Peer(r)][s] = <<>> /\ Peer(Peer(r)) = r
      BY <2>1, Phases DEF AtRest
    <3>2. delivered[r][s] \in Seq(Nat)
      BY <2>1 DEF EndpointTypeOK
    <3> QED
      BY <3>1, <3>2 DEF Ordered, ChannelInOrder
  <2>3. ASSUME NEW r \in Roles
        PROVE  delivered[r][s] = [i \in 1..Len(sent[Peer(r)][s]) |-> i]
    <3> DEFINE D == delivered[r][s]
    <3>1. D \in Seq(Nat) /\ \A i \in 1..Len(D) : D[i] = i
      BY <2>2
    <3>2. Len(D) = Len(sent[Peer(r)][s])
      BY <2>2
    <3> HIDE DEF D
    <3>3. D = [i \in 1..Len(D) |-> i]
      BY <3>1
    <3> QED
      BY <3>2, <3>3, Zenon DEF D
  <2>4. Len(sent[Echo][s]) = Len(sent[Gadget][s])
    <3>1. CASE s = "OTA_STREAM"
      BY <2>1, <3>1 DEF Exchange, Answering
    <3>2. CASE s # "OTA_STREAM"
      BY <2>1, <2>2, <3>2, Phases DEF Exchange, Answering
    <3> QED
      BY <3>1, <3>2
  <2>5. ASSUME s = "CONTROL_STREAM", NEW i \in 1..Len(sent[Gadget][s])
        PROVE  sent[Gadget][s][i].message = Response(sent[Echo][s][i].message.command)
    <3>1. /\ Len(sent[Gadget][s]) = Len(delivered[Gadget][s])
          /\ sent[Gadget][s][i].message =
               AnswerTo(s, sent[Echo][s][delivered[Gadget][s][i]].message)
      BY <2>1, <2>5 DEF Exchange, Answering
    <3>2. delivered[Gadget][s][i] = i
      BY <2>2, <3>1, Phases
    <3> QED
      BY <2>5, <3>1, <3>2 DEF AnswerTo
  <2> QED
    BY <2>3, <2>4, <2>5
<1>2. SampleInv => RunsAreAnswered
  BY <1>1 DEF RunsAreAnswered
<1> QED
  BY <1>2, SampleInductive, PTL
==============================================================================
