--------------------------- MODULE BleLinkProofs ---------------------------
(***************************************************************************)
(* Proofs about the BLE link (BleLink), for every size of messages, every  *)
(* MTU, and any number of messages in flight on the three streams: first   *)
(* on a link that loses nothing, then with packets lost on either side,    *)
(* allocations that fail and processes that abort, for every number of     *)
(* faults that the sequence numbers and the transaction ids can tell       *)
(* apart.                                                                  *)
(***************************************************************************)
EXTENDS BleLink, BleEndpointProofs

LEMMA DistinctHosts ==
    ASSUME NEW x \in Roles, NEW r \in Roles, x # r
    PROVE  HostOf[x] # HostOf[r]
  BY LinkAssumption DEF Roles

\* With two processes, a role that sets its buffer leaves the other's alone.
LEMMA SetOneBuffer ==
    ASSUME EndpointTypeOK, NEW r \in Roles, NEW s \in Streams,
           NEW b \in RxBuffer \cup {NULL}, SetBuffer(r, s, b)
    PROVE  /\ Buffer(r, s)' = b
           /\ \A x \in Roles, z \in Streams :
                x # r \/ z # s => Buffer(x, z)' = Buffer(x, z)
<1>1. /\ Buffer(r, s)' = b
      /\ \A h \in Processes, z \in Streams :
           h # HostOf[r] \/ z # s => rxBuffers'[h][z] = rxBuffers[h][z]
  BY SetBufferEffect
<1>2. \A x \in Roles : HostOf[x] \in Processes /\ (x # r => HostOf[x] # HostOf[r])
  BY Peers, DistinctHosts
<1> QED
  BY <1>1, <1>2 DEF Buffer

LEMMA EchoSendsCreates ==
    ASSUME NEW s \in Streams, EchoSends(s)
    PROVE  \E m \in Messages, ack \in BOOLEAN : Create(Echo, s, m, ack)
<1>1. PICK m \in EchoMessages(s) : \E ack \in AckFlags(m) : Create(Echo, s, m, ack)
  BY DEF EchoSends
<1>2. m \in Messages
  BY DEF EchoMessages, Streams, Messages
<1>3. \A ack \in AckFlags(m) : ack \in BOOLEAN
  BY DEF AckFlags
<1> QED
  BY <1>1, <1>2, <1>3

\* Every step keeps the types.
LEMMA StepType ==
    ASSUME TypeOK, [Next]_vars
    PROVE  TypeOK'
<1>1. faults \in 0..MaxFaults /\ EndpointTypeOK
  BY DEF TypeOK
<1>2. ASSUME NEW s \in Streams, EchoSends(s)
      PROVE  TypeOK'
  <2>1. Echo \in Roles /\ UNCHANGED faults
    BY <1>2 DEF Roles, EchoSends
  <2>2. EndpointTypeOK'
    BY <1>1, <1>2, <2>1, EchoSendsCreates, CreateEffect
  <2> QED
    BY <1>1, <2>1, <2>2 DEF TypeOK
<1>3. ASSUME NEW r \in Roles, NEW s \in Streams, Deliver(r, s)
      PROVE  TypeOK'
  <2>1. EndpointTypeOK'
    BY <1>1, <1>3, PacketType DEF Deliver
  <2> QED
    BY <1>1, <1>3, <2>1 DEF Deliver, TypeOK
<1>4. ASSUME NEW r \in Roles, NEW s \in Streams,
             Lose(r, s) \/ OutOfMemory(r, s)
      PROVE  TypeOK'
  <2>1. faults' \in 0..MaxFaults
    BY <1>1, <1>4, LinkAssumption DEF Lose, OutOfMemory, Fault
  <2>2. EndpointTypeOK'
    <3>1. aborted' \in [Processes -> BOOLEAN]
      BY <1>1, <1>4 DEF Lose, OutOfMemory, DecodeOutOfMemory, EndpointTypeOK
    <3> QED
      BY <1>1, <1>4, <3>1, DropType
         DEF Lose, OutOfMemory, DecodeOutOfMemory, TransactionArrives, Arrives
  <2> QED
    BY <2>1, <2>2 DEF TypeOK
<1>5. CASE UNCHANGED vars
  BY <1>1, <1>5 DEF TypeOK, EndpointTypeOK, vars, endpointVars
<1> QED
  BY <1>2, <1>3, <1>4, <1>5 DEF Next

(***************************************************************************)
(* Faults or not, the variables keep to their ranges: sequence numbers and *)
(* transaction ids stay within their four bits, and no transaction is left *)
(* in a queue with nothing to send.                                        *)
(***************************************************************************)
THEOREM LinkTypeCorrect == Spec => []TypeOK
<1>1. Init => TypeOK
  BY InitType, LinkAssumption DEF Init, TypeOK
<1>2. TypeOK /\ [Next]_vars => TypeOK'
  BY StepType
<1> QED
  BY <1>1, <1>2, PTL DEF Spec

-----------------------------------------------------------------------------
(***************************************************************************)
(* In step: as long as nothing is lost, every packet finds the receiver    *)
(* where its sender expects it.                                            *)
(***************************************************************************)
InStep == \A x \in Roles, s \in Streams : Channel(x, s)

Running == \A p \in Processes : ~aborted[p]

(***************************************************************************)
(* The inductive invariant.  NoAbortWithoutFaults is not inductive alone:  *)
(* that an assertion holds depends on where the receiver's buffer stands   *)
(* relative to the head of the sender's queue, and that on the order of    *)
(* everything queued behind it.                                            *)
(***************************************************************************)
LinkInv == TypeOK /\ (faults = 0 => Running /\ InStep)

\* A packet received in step disturbs neither its channel, nor that of the
\* receiver's answers, nor any other.
LEMMA ReceivedKeepsStep ==
    ASSUME EndpointTypeOK, InStep, NEW r \in Roles, NEW s \in Streams, NEW items,
           ReceivedInStep(r, s, items)
    PROVE  InStep'
<1>1. /\ items \in Seq(Item) /\ \A i \in 1..Len(items) : ~Started(items[i])
      /\ outbox'[r][s] = outbox[r][s] \o items
      /\ Ordered(r, s)' /\ Channel(Peer(r), s)'
  BY DEF ReceivedInStep
<1>2. /\ Peer(r) \in Roles /\ Peer(r) # r /\ Peer(Peer(r)) = r
      /\ \A x \in Roles : x = r \/ x = Peer(r)
      /\ \A x \in Roles : HostOf[x] \in Processes /\ (x # r => HostOf[x] # HostOf[r])
  BY Peers, DistinctHosts
<1>3. \A x \in Roles, z \in Streams : x # r \/ z # s => Buffer(x, z)' = Buffer(x, z)
  BY <1>2 DEF ReceivedInStep, Buffer
<1>4. ASSUME NEW x \in Roles, NEW z \in Streams
      PROVE  Channel(x, z)'
  <2>1. CASE z # s
    <3>1. /\ outbox'[x][z] = outbox[x][z] /\ sent'[x][z] = sent[x][z]
          /\ delivered'[Peer(x)][z] = delivered[Peer(x)][z]
          /\ Buffer(Peer(x), z)' = Buffer(Peer(x), z)
      BY <1>3, <2>1, Peers DEF ReceivedInStep
    <3> QED
      BY <3>1 DEF InStep, Channel, Ordered
  <2>2. CASE z = s /\ x = r
    <3>1. Mirrors(outbox[r][s], Buffer(Peer(r), s)) /\ outbox[r][s] \in Seq(Item)
      BY DEF InStep, Channel, EndpointTypeOK, Item
    <3>2. Mirrors(outbox'[r][s], Buffer(Peer(r), s))
      BY <1>1, <3>1, MirrorsConcat
    <3>3. Buffer(Peer(r), s)' = Buffer(Peer(r), s)
      BY <1>2, <1>3
    <3> QED
      BY <1>1, <2>2, <3>2, <3>3 DEF Channel
  <2>3. CASE z = s /\ x = Peer(r)
    BY <1>1, <2>3
  <2> QED
    BY <1>2, <2>1, <2>2, <2>3
<1> QED
  BY <1>4 DEF InStep

LEMMA SendInStep ==
    ASSUME EndpointTypeOK, InStep, NEW s \in Streams, EchoSends(s)
    PROVE  InStep'
<1>1. PICK m \in Messages, ack \in BOOLEAN : Create(Echo, s, m, ack)
  BY EchoSendsCreates
<1>2. Echo \in Roles
  BY DEF Roles
<1> DEFINE q == outbox[Echo][s]
           S == sent[Echo][s]
           new == NewTransaction(Echo, s, m, ack)
<1>3. /\ outbox'[Echo][s] = Append(q, new)
      /\ sent'[Echo][s] = Append(S, [message |-> m, ack |-> ack])
      /\ \A x \in Roles, z \in Streams :
           x # Echo \/ z # s => /\ outbox'[x][z] = outbox[x][z]
                                /\ sent'[x][z] = sent[x][z]
  BY <1>1, <1>2, CreateEffect
<1>4. UNCHANGED <<rxBuffers, delivered>>
  BY <1>1 DEF Create
<1>5. /\ q \in Seq(Item) /\ S \in Seq(Record)
      /\ delivered[Peer(Echo)][s] \in Seq(Nat)
  BY <1>2, Peers DEF EndpointTypeOK, Item, Record
<1>6. /\ ChannelInOrder(Echo, q, S, delivered[Peer(Echo)][s])
      /\ Mirrors(q, Buffer(Peer(Echo), s))
  BY <1>2 DEF InStep, Channel, Ordered
<1> HIDE DEF q, S
<1>7. ChannelInOrder(Echo, Append(q, new), Append(S, [message |-> m, ack |-> ack]),
                     delivered[Peer(Echo)][s])
  BY <1>2, <1>5, <1>6, ChannelCreate DEF NewTransaction, S
<1>8. Mirrors(Append(q, new), Buffer(Peer(Echo), s))
  <2>1. ~Started(new)
    BY DEF NewTransaction, Transaction, Started
  <2> QED
    BY <1>5, <1>6, <2>1, MirrorsAppend
<1> HIDE DEF new
<1>9. \A x \in Roles, z \in Streams : Buffer(x, z)' = Buffer(x, z)
  BY <1>4 DEF Buffer
<1>10. ASSUME NEW x \in Roles, NEW z \in Streams
       PROVE  /\ ChannelInOrder(x, outbox'[x][z], sent'[x][z], delivered'[Peer(x)][z])
              /\ Mirrors(outbox'[x][z], Buffer(Peer(x), z)')
  <2>0. /\ delivered'[Peer(x)][z] = delivered[Peer(x)][z]
        /\ Buffer(Peer(x), z)' = Buffer(Peer(x), z)
    BY <1>4, <1>9, Peers
  <2>1. CASE x = Echo /\ z = s
    BY <1>3, <1>7, <1>8, <2>0, <2>1
  <2>2. CASE x # Echo \/ z # s
    BY <1>3, <2>0, <2>2 DEF InStep, Channel, Ordered
  <2> QED
    BY <2>1, <2>2
<1> QED
  BY <1>10 DEF InStep, Channel, Ordered

LEMMA InitInStep ==
    ASSUME InitEndpoints
    PROVE  Running /\ InStep
<1>1. ASSUME NEW x \in Roles, NEW s \in Streams
      PROVE  Channel(x, s)
  <2>1. /\ outbox[x][s] = <<>> /\ sent[x][s] = <<>>
        /\ delivered[Peer(x)][s] = <<>> /\ Buffer(Peer(x), s) = NULL
    BY Peers DEF InitEndpoints, Buffer
  <2> QED
    BY <2>1 DEF Channel, Ordered, ChannelInOrder, Mirrors
<1> QED
  BY <1>1 DEF InitEndpoints, Running, InStep

LEMMA StepInv ==
    ASSUME LinkInv, [Next]_vars
    PROVE  LinkInv'
<1>1. TypeOK' /\ EndpointTypeOK /\ faults \in Nat
  BY StepType, LinkAssumption DEF LinkInv, TypeOK
<1> SUFFICES ASSUME faults' = 0
             PROVE  Running' /\ InStep'
  BY <1>1 DEF LinkInv
<1>2. ASSUME NEW s \in Streams, EchoSends(s)
      PROVE  Running' /\ InStep'
  <2>1. UNCHANGED faults /\ UNCHANGED aborted
    BY <1>2 DEF EchoSends, Create
  <2>2. Running /\ InStep
    BY <2>1 DEF LinkInv
  <2> QED
    BY <1>1, <1>2, <2>1, <2>2, SendInStep DEF Running
<1>3. ASSUME NEW r \in Roles, NEW s \in Streams, Deliver(r, s)
      PROVE  Running' /\ InStep'
  <2>1. Running /\ InStep
    BY <1>3 DEF LinkInv, Deliver
  <2>2. Channel(Peer(r), s) /\ Ordered(r, s) /\ DecodePacket(r, s)
    BY <1>3, <2>1, Peers DEF InStep, Channel, Deliver
  <2>3. PICK items : ReceivedInStep(r, s, items) /\ UNCHANGED aborted
    BY <1>1, <2>2, PacketInStep
  <2> QED
    BY <1>1, <2>1, <2>3, ReceivedKeepsStep DEF Running
<1>4. ASSUME NEW r \in Roles, NEW s \in Streams, Lose(r, s) \/ OutOfMemory(r, s)
      PROVE  FALSE
  BY <1>1, <1>4 DEF Lose, OutOfMemory, Fault
<1>5. CASE UNCHANGED vars
  <2>1. Running /\ InStep
    BY <1>5 DEF LinkInv, vars
  <2> QED
    BY <1>5, <2>1
       DEF vars, endpointVars, Running, InStep, Channel, Ordered, Buffer
<1> QED
  BY <1>2, <1>3, <1>4, <1>5 DEF Next

LEMMA LinkInductive == Spec => []LinkInv
<1>1. Init => LinkInv
  BY InitType, InitInStep, LinkAssumption DEF Init, LinkInv, TypeOK
<1>2. LinkInv /\ [Next]_vars => LinkInv'
  BY StepInv
<1> QED
  BY <1>1, <1>2, PTL DEF Spec

(***************************************************************************)
(* Without faults the two ends stay in step packet by packet, and every    *)
(* transaction ever created is delivered or still queued, in order: the    *)
(* run BleLinkReliable on a small instance, here for every MTU, size of    *)
(* messages, modulus of the sequence numbers and number of messages.       *)
(***************************************************************************)
THEOREM LinkInStep == Spec => []InStepWithoutFaults
<1>1. LinkInv => InStepWithoutFaults
  BY DEF LinkInv, InStep, Channel, Ordered, InStepWithoutFaults
<1> QED
  BY <1>1, LinkInductive, PTL

(***************************************************************************)
(* Without faults no assertion of decodePacket ever fails.                 *)
(***************************************************************************)
THEOREM LinkNeverAborts == Spec => []NoAbortWithoutFaults
<1>1. LinkInv => NoAbortWithoutFaults
  BY DEF LinkInv, Running, NoAbortWithoutFaults
<1> QED
  BY <1>1, LinkInductive, PTL
-----------------------------------------------------------------------------
(***************************************************************************)
(* The refinement: on a link that loses nothing (MaxFaults = 0) messages   *)
(* are delivered like those of StreamDelivery.  EchoSends is Accept; the   *)
(* packet that completes a transaction is Hand, with Accept of the answer  *)
(* if there is one; every other packet is a stutter.                       *)
(***************************************************************************)
\* What the mapped variables say of a channel.
LEMMA Mapped ==
    ASSUME NEW x \in Roles, NEW s \in Streams
    PROVE  LET accepted == [c \in Roles \X Streams |-> Len(sent[c[1]][c[2]])]
               handed == [c \in Roles \X Streams |-> delivered[Peer(c[1])][c[2]]]
           IN  /\ accepted[<<x, s>>] = Len(sent[x][s])
               /\ handed[<<x, s>>] = delivered[Peer(x)][s]
               /\ accepted'[<<x, s>>] = Len(sent'[x][s])
               /\ handed'[<<x, s>>] = delivered'[Peer(x)][s]
  OBVIOUS

\* Role x has created a transaction on stream s.
LEMMA CreationAccepts ==
    ASSUME NEW x \in Roles, NEW s \in Streams, NEW e,
           sent[x][s] \in Seq(Record),
           sent'[x][s] = Append(sent[x][s], e),
           \A y \in Roles, z \in Streams :
               y # x \/ z # s => sent'[y][z] = sent[y][z]
    PROVE  Delivery!Accept(<<x, s>>)
<1> DEFINE accepted == [c \in Roles \X Streams |-> Len(sent[c[1]][c[2]])]
           later == [c \in Roles \X Streams |-> Len(sent'[c[1]][c[2]])]
<1>1. later[<<x, s>>] = accepted[<<x, s>>] + 1
  BY DEF Record
<1>2. ASSUME NEW c \in Roles \X Streams, c # <<x, s>>
      PROVE  later[c] = accepted[c]
  <2>1. PICK y \in Roles, z \in Streams : c = <<y, z>>
    BY <1>2
  <2>2. y # x \/ z # s
    BY <1>2, <2>1
  <2> QED
    BY <2>1, <2>2
<1>3. later = [accepted EXCEPT ![<<x, s>>] = @ + 1]
  BY <1>1, <1>2
<1> QED
  BY <1>3 DEF Delivery!Accept

\* The step of a role that was handed nothing and created nothing.
LEMMA NothingHanded ==
    ASSUME UNCHANGED <<sent, delivered>>
    PROVE  UNCHANGED Delivery!vars
  BY DEF Delivery!vars

\* The two forms of a step of StreamDelivery.
LEMMA AcceptsOnly ==
    ASSUME NEW c \in Roles \X Streams, Delivery!Accept(c), UNCHANGED delivered
    PROVE  Delivery!Next
  BY DEF Delivery!Next, Delivery!Channels

LEMMA Hands ==
    ASSUME NEW c \in Roles \X Streams, NEW n \in 1..Len(sent[c[1]][c[2]]),
           Delivery!Hand(c, n),
           UNCHANGED sent \/ \E d \in (Roles \X Streams) \ {c} : Delivery!Accept(d)
    PROVE  Delivery!Next
  BY DEF Delivery!Next, Delivery!Channels

\* Role r is handed the n-th transaction of stream s, in order.
LastHanded(r, s) ==
    IF delivered[r][s] = <<>> THEN 0 ELSE delivered[r][s][Len(delivered[r][s])]

HandedOverNext(r, s, n) ==
    /\ n \in 1..Len(sent[Peer(r)][s])
    /\ delivered' = [delivered EXCEPT ![r][s] = Append(@, n)]
    /\ LastHanded(r, s) \in Nat /\ LastHanded(r, s) < n
    /\ MaxFaults > 0 \/ n = LastHanded(r, s) + 1

\* A completed transaction is handed over, and perhaps answered.
LEMMA HandingRefines ==
    ASSUME EndpointTypeOK, NEW r \in Roles, NEW s \in Streams, DecodeCompletes(r, s),
           NEW n, HandedOverNext(r, s, n)
    PROVE  Delivery!Next
<1> DEFINE c == <<Peer(r), s>>
           accepted == [d \in Roles \X Streams |-> Len(sent[d[1]][d[2]])]
           handed == [d \in Roles \X Streams |-> delivered[Peer(d[1])][d[2]]]
           later == [d \in Roles \X Streams |-> delivered'[Peer(d[1])][d[2]]]
<1>0. /\ n \in 1..Len(sent[Peer(r)][s])
      /\ delivered' = [delivered EXCEPT ![r][s] = Append(@, n)]
      /\ LastHanded(r, s) \in Nat /\ LastHanded(r, s) < n
      /\ MaxFaults > 0 \/ n = LastHanded(r, s) + 1
  BY DEF HandedOverNext
<1>1. /\ Peer(r) \in Roles /\ Peer(r) # r /\ Peer(Peer(r)) = r
      /\ delivered \in [Roles -> [Streams -> Seq(Nat)]]
      /\ \A x \in Roles : sent[x][s] \in Seq(Record)
  BY Peers DEF EndpointTypeOK, Record
<1>2. /\ c \in Roles \X Streams
      /\ accepted[c] = Len(sent[Peer(r)][s])
      /\ handed[c] = delivered[r][s]
  BY <1>1
<1>3. Delivery!LastHanded(c) = LastHanded(r, s)
  BY <1>2 DEF Delivery!LastHanded, LastHanded
<1>4. later = [handed EXCEPT ![c] = Append(@, n)]
  <2>1. later[c] = Append(handed[c], n)
    BY <1>0, <1>1, <1>2
  <2>2. ASSUME NEW d \in Roles \X Streams, d # c
        PROVE  later[d] = handed[d]
    <3>1. PICK x \in Roles, z \in Streams : d = <<x, z>>
      BY <2>2
    <3>2. Peer(x) \in Roles /\ (Peer(x) # r \/ z # s)
      BY <2>2, <3>1, Peers
    <3> QED
      BY <1>0, <1>1, <3>1, <3>2
  <2> QED
    BY <2>1, <2>2
<1>5. Delivery!Hand(c, n)
  BY <1>0, <1>1, <1>2, <1>3, <1>4 DEF Delivery!Hand
<1>6. n \in 1..Len(sent[c[1]][c[2]])
  BY <1>0
<1>7. \/ UNCHANGED sent
      \/ \E a \in Messages : CreateTransaction(r, s, a, FALSE)
  BY CompletesCases
<1>8. CASE UNCHANGED sent
  <2> HIDE DEF c
  <2> QED
    BY <1>2, <1>5, <1>6, <1>8, Hands
<1>9. ASSUME NEW a \in Messages, CreateTransaction(r, s, a, FALSE)
      PROVE  Delivery!Next
  <2>1. Delivery!Accept(<<r, s>>)
    <3>1. /\ sent'[r][s] = Append(sent[r][s], [message |-> a, ack |-> FALSE])
          /\ \A y \in Roles, z \in Streams :
               y # r \/ z # s => sent'[y][z] = sent[y][z]
      BY <1>9, CreateTransactionEffect
    <3>2. sent[r][s] \in Seq(Record)
      BY <1>1
    <3> QED
      BY <3>1, <3>2, CreationAccepts
  <2>2. <<r, s>> \in (Roles \X Streams) \ {c}
    BY <1>1
  <2> HIDE DEF c
  <2> QED
    BY <1>2, <1>5, <1>6, <2>1, <2>2, Hands
<1> QED
  BY <1>7, <1>8, <1>9

\* Every other step is Accept or a stutter.
LEMMA StepRefines ==
    ASSUME EndpointTypeOK, [Next]_vars,
           \A r \in Roles, s \in Streams : DecodeCompletes(r, s) => Delivery!Next
    PROVE  [Delivery!Next]_Delivery!vars
<1>1. ASSUME NEW s \in Streams, EchoSends(s)
      PROVE  Delivery!Next
  <2>1. PICK m \in Messages, ack \in BOOLEAN : Create(Echo, s, m, ack)
    BY <1>1, EchoSendsCreates
  <2>2. Echo \in Roles /\ sent[Echo][s] \in Seq(Record)
    BY DEF Roles, EndpointTypeOK, Record
  <2>3. Delivery!Accept(<<Echo, s>>)
    <3>1. /\ sent'[Echo][s] = Append(sent[Echo][s], [message |-> m, ack |-> ack])
          /\ \A x \in Roles, z \in Streams :
               x # Echo \/ z # s => sent'[x][z] = sent[x][z]
      BY <2>1, <2>2, CreateEffect
    <3> QED
      BY <2>2, <3>1, CreationAccepts
  <2>4. UNCHANGED delivered
    BY <2>1 DEF Create
  <2> QED
    BY <2>2, <2>3, <2>4, AcceptsOnly
<1>2. ASSUME NEW r \in Roles, NEW s \in Streams, Deliver(r, s)
      PROVE  [Delivery!Next]_Delivery!vars
  <2>1. \/ DecodeCompletes(r, s)
        \/ UNCHANGED <<sent, delivered>>
    BY <1>2 DEF Deliver, DecodePacket, DecodeControlPacket, DecodeStray,
                DecodeAborts, DecodeRejects, DecodeAppends
  <2> QED
    BY <2>1, NothingHanded
<1>3. ASSUME NEW r \in Roles, NEW s \in Streams, Lose(r, s) \/ OutOfMemory(r, s)
      PROVE  UNCHANGED Delivery!vars
  BY <1>3, NothingHanded DEF Lose, OutOfMemory, DecodeOutOfMemory
<1>4. CASE UNCHANGED vars
  BY <1>4, NothingHanded DEF vars, endpointVars
<1> QED
  BY <1>1, <1>2, <1>3, <1>4 DEF Next

\* In step, what is handed over is the next transaction of the channel.
LEMMA CompletesHands ==
    ASSUME EndpointTypeOK, InStep, NEW r \in Roles, NEW s \in Streams,
           DecodeCompletes(r, s)
    PROVE  LET n == Len(delivered[r][s]) + 1
           IN  /\ n \in 1..Len(sent[Peer(r)][s])
               /\ outbox[Peer(r)][s][1].number = n
               /\ delivered' = [delivered EXCEPT ![r][s] = Append(@, n)]
               /\ \A i \in 1..Len(delivered[r][s]) : delivered[r][s][i] = i
<1> DEFINE t == outbox[Peer(r)][s][1]
           b == Appended(Arriving(r, s), Opened(Arriving(r, s), Buffer(r, s)))
<1>0. Channel(Peer(r), s)
  BY Peers DEF InStep
<1>1. /\ TransactionArrives(r, s) /\ IsComplete(b)
      /\ delivered' = [delivered EXCEPT ![r][s] = Append(@, Origin(r, s, b.data))]
  BY CompletesCases DEF Reassembles
<1>2. b = Appended(Packet(t), Reassembly(t)) /\ t.number \in 1..Len(sent[Peer(r)][s])
  BY <1>0, <1>1, HeadInStep
<1>3. Origin(r, s, b.data) = t.number
  BY <1>0, <1>1, <1>2, OriginInStep
<1>4. outbox[Peer(r)][s] # <<>> /\ IsTransaction(t)
  BY <1>1, ArrivalType
<1>5. /\ t.number = Len(delivered[r][s]) + 1
      /\ \A i \in 1..Len(delivered[r][s]) : delivered[r][s][i] = i
  BY <1>0, <1>4, Peers DEF Channel, Ordered, ChannelInOrder, Stride
<1> QED
  BY <1>1, <1>2, <1>3, <1>5

LEMMA InStepRefines ==
    ASSUME MaxFaults = 0, LinkInv, [Next]_vars
    PROVE  [Delivery!Next]_Delivery!vars
<1>1. EndpointTypeOK /\ InStep
  BY DEF LinkInv, TypeOK
<1>2. ASSUME NEW r \in Roles, NEW s \in Streams, DecodeCompletes(r, s)
      PROVE  Delivery!Next
  <2> DEFINE D == delivered[r][s]
             n == Len(D) + 1
  <2>1. /\ n \in 1..Len(sent[Peer(r)][s])
        /\ delivered' = [delivered EXCEPT ![r][s] = Append(@, n)]
        /\ \A i \in 1..Len(D) : D[i] = i
    BY <1>1, <1>2, CompletesHands
  <2>2. D \in Seq(Nat)
    BY <1>1 DEF EndpointTypeOK
  <2>3. LastHanded(r, s) = Len(D) /\ Len(D) \in Nat
    <3>1. LastHanded(r, s) = IF D = <<>> THEN 0 ELSE D[Len(D)]
      BY DEF LastHanded
    <3>2. \A i \in 1..Len(D) : D[i] = i
      BY <2>1
    <3> HIDE DEF D
    <3> QED
      BY <2>2, <3>1, <3>2
  <2>4. HandedOverNext(r, s, n)
    BY <2>1, <2>3 DEF HandedOverNext
  <2> HIDE DEF n
  <2> QED
    BY <1>1, <1>2, <2>4, HandingRefines
<1> QED
  BY <1>1, <1>2, StepRefines

LEMMA InitRefines == Init => Delivery!Init
<1> SUFFICES ASSUME InitEndpoints
             PROVE  Delivery!Init
  BY DEF Init
<1>1. ASSUME NEW c \in Roles \X Streams
      PROVE  Len(sent[c[1]][c[2]]) = 0 /\ delivered[Peer(c[1])][c[2]] = <<>>
  <2>1. PICK x \in Roles, s \in Streams : c = <<x, s>>
    OBVIOUS
  <2> QED
    BY <2>1, Peers DEF InitEndpoints
<1> QED
  BY <1>1 DEF Delivery!Init, Delivery!Channels

(***************************************************************************)
(* On a link that loses nothing the packet layer hands over every message  *)
(* that was created, once and in order, for each role and each stream:     *)
(* packets, sequence numbers and reassembly (tx.c, rx.c) implement         *)
(* StreamDelivery without skipped numbers.                                 *)
(***************************************************************************)
THEOREM LinkImplementsDelivery == MaxFaults = 0 => (Spec => ImplementsDelivery)
<1> SUFFICES ASSUME MaxFaults = 0
             PROVE  Spec => ImplementsDelivery
  OBVIOUS
<1>1. LinkInv /\ [Next]_vars => [Delivery!Next]_Delivery!vars
  BY InStepRefines
<1> QED
  BY <1>1, InitRefines, LinkInductive, PTL DEF Spec, ImplementsDelivery, Delivery!Spec

-----------------------------------------------------------------------------

(***************************************************************************)
(* A gap of as many packets as there are sequence numbers looks like none; *)
(* so does a gap of as many transactions as there are ids, which takes the *)
(* end of one, all between, and the INITIAL packet of the last.            *)
(***************************************************************************)
FewFaults == MaxFaults < SeqNumModulus /\ MaxFaults <= TransactionIdModulus

-----------------------------------------------------------------------------
(***************************************************************************)
(* A channel with faults.  G are the transactions that are wholly gone     *)
(* from the sender's queue, delivered or not.                              *)
(***************************************************************************)
\* The id that the n-th transaction of a channel is created with.
IdOf(n) == (n + (TransactionIdModulus - 1)) % TransactionIdModulus

Numbered(q) ==
    \A i \in 1..Len(q) : IsTransaction(q[i]) => q[i].transactionId = IdOf(q[i].number)

HeadStarted(q) == q # <<>> /\ Started(q[1])

\* The last transaction of which a packet has left.
LastBegun(q, G) == IF HeadStarted(q) THEN q[1].number ELSE Len(G)

\* The reassembly has all that has left of the transaction at the head.
Whole(q, b) == HeadStarted(q) /\ b = Reassembly(q[1])

\* It misses g packets of it, g at most the number of faults f.
Gap(q, b, f) ==
    /\ HeadStarted(q)
    /\ b.transactionId = q[1].transactionId
    /\ \E g \in 1..f : q[1].seqNum = (b.seqNum + g) % SeqNumModulus

\* It is of a transaction that has gone; of each one begun since, a packet
\* is lost.
Stale(q, G, b, f) ==
    \E n \in 1..Len(G) : b.transactionId = IdOf(n) /\ LastBegun(q, G) - n < f

Held(q, G, b, f) == b # NULL => Whole(q, b) \/ Gap(q, b, f) \/ Stale(q, G, b, f)

\* What was handed to the handlers, D.
HandedOver(G, D) ==
    /\ \A i \in 1..Len(D) : D[i] \in 1..Len(G)
    /\ \A i \in 1..Len(D) - 1 : D[i] < D[i + 1]

\* The verdicts, V.
Judged(q, G, D, b, V) ==
    /\ \A i, j \in 1..Len(V) : i < j => V[i].number < V[j].number
    /\ \A i \in 1..Len(V) :
         /\ V[i].number \in 1..LastBegun(q, G)
         /\ V[i].number > Len(G) => b = NULL
         /\ V[i].result = "SUCCESS" <=> \E k \in 1..Len(D) : D[k] = V[i].number

\* One channel, where the receiver's process is alive or has aborted.
Sound(x, q, S, G, D, b, V, alive, f) ==
    /\ ChannelInOrder(x, q, S, G)
    /\ Numbered(q)
    /\ HandedOver(G, D)
    /\ alive => Held(q, G, b, f)
    /\ Judged(q, G, D, b, V)

-----------------------------------------------------------------------------
(***************************************************************************)
(* Numbers.                                                                *)
(***************************************************************************)
LEMMA IdAfter ==
    ASSUME NEW n \in Nat
    PROVE  NextTransactionId(IdOf(n)) = IdOf(n + 1)
<1> DEFINE k == n + (TransactionIdModulus - 1)
<1>1. /\ k \in Nat /\ k + 1 = n + 1 + (TransactionIdModulus - 1)
      /\ TransactionIdModulus \in Nat /\ TransactionIdModulus > 0
  BY PacketAssumption
<1> HIDE DEF k
<1>2. ((k % TransactionIdModulus) + 1) % TransactionIdModulus
         = (k + 1) % TransactionIdModulus
  BY <1>1, ModSuccessor
<1> QED
  BY <1>1, <1>2 DEF NextTransactionId, IdOf, k

LEMMA FirstId == IdOf(0) = TransactionIdModulus - 1
<1>1. TransactionIdModulus - 1 \in 0..TransactionIdModulus - 1
  BY PacketAssumption
<1> QED
  BY <1>1, PacketAssumption DEF IdOf

\* Transactions less than the modulus apart have different ids.
LEMMA IdsDiffer ==
    ASSUME NEW n \in Nat, NEW m \in Nat, n < m, m - n < TransactionIdModulus
    PROVE  IdOf(n) # IdOf(m)
<1> DEFINE k == n + (TransactionIdModulus - 1)
           d == m - n
<1>1. /\ k \in Nat /\ d \in Nat /\ 0 < d /\ d < TransactionIdModulus
      /\ TransactionIdModulus \in Nat
      /\ k + d = m + (TransactionIdModulus - 1)
  BY PacketAssumption
<1> HIDE DEF k, d
<1>2. k % TransactionIdModulus # (k + d) % TransactionIdModulus
  BY <1>1, ModDiffer
<1> QED
  BY <1>1, <1>2 DEF IdOf, k

LEMMA NoGap ==
    ASSUME NEW n \in SeqNums
    PROVE  n = (n + 0) % SeqNumModulus
<1>1. n + 0 = n /\ n \in 0..SeqNumModulus - 1 /\ SeqNumModulus \in Nat
  BY PacketAssumption DEF SeqNums
<1> QED
  BY <1>1

LEMMA SeqNumAfterGap ==
    ASSUME NEW n \in SeqNums, NEW g \in Nat
    PROVE  /\ NextSeqNum((n + g) % SeqNumModulus) = (n + (g + 1)) % SeqNumModulus
           /\ 0 < g /\ g < SeqNumModulus => (n + g) % SeqNumModulus # n
<1>1. /\ n \in Nat /\ n + g \in Nat /\ SeqNumModulus \in Nat /\ SeqNumModulus > 0
      /\ n < SeqNumModulus
  BY PacketAssumption DEF SeqNums
<1>2. (((n + g) % SeqNumModulus) + 1) % SeqNumModulus = (n + g + 1) % SeqNumModulus
  BY <1>1, ModSuccessor
<1>3. n % SeqNumModulus = n
  BY <1>1
<1>4. 0 < g /\ g < SeqNumModulus => n % SeqNumModulus # (n + g) % SeqNumModulus
  BY <1>1, ModDiffer
<1>5. n + g + 1 = n + (g + 1)
  BY <1>1
<1> QED
  BY <1>2, <1>3, <1>4, <1>5 DEF NextSeqNum

-----------------------------------------------------------------------------
(***************************************************************************)
(* A packet leaves its queue, whatever becomes of it.                      *)
(***************************************************************************)
\* The head of a queue in order.
LEMMA HeadFields ==
    ASSUME NEW x \in Roles, NEW q \in Seq(Item), NEW S \in Seq(Record),
           NEW G \in Seq(Nat), ChannelInOrder(x, q, S, G), Numbered(q), q # <<>>,
           IsTransaction(q[1])
    PROVE  /\ q[1] \in TransactionItem
           /\ q[1].from = x /\ q[1].number = Len(G) + 1
           /\ q[1].number \in 1..Len(S)
           /\ q[1].message = S[q[1].number].message
           /\ q[1].transactionId = IdOf(q[1].number)
           /\ q[1].srcIndex = 0 => q[1].seqNum = 0
           /\ HeadStarted(q) <=> q[1].srcIndex # 0
<1>1. 1 \in 1..Len(q) /\ q[1] \in Item /\ Len(G) \in Nat
  OBVIOUS
<1>2. q[1] \in TransactionItem
  BY <1>1, ItemCases
<1>3. q[1].srcIndex \in Nat
  BY <1>2 DEF TransactionItem
<1>4. ItemInOrder(x, q, S, 1) /\ q[1].number = Len(G) + Stride(q[1])
  BY <1>1 DEF ChannelInOrder
<1>5. q[1].transactionId = IdOf(q[1].number)
  BY <1>1 DEF Numbered
<1>6. /\ q[1].from = x /\ q[1].number = Len(G) + 1
      /\ q[1].number \in 0..Len(S)
      /\ q[1].message = S[q[1].number].message
      /\ q[1].srcIndex = 0 => q[1].seqNum = 0
  BY <1>4 DEF ItemInOrder, Stride
<1>7. q[1].number \in 1..Len(S)
  <2>1. Len(S) \in Nat
    OBVIOUS
  <2> QED
    BY <1>1, <1>6, <2>1
<1>8. HeadStarted(q) <=> q[1].srcIndex # 0
  BY <1>3 DEF HeadStarted, Started
<1> QED
  BY <1>2, <1>5, <1>6, <1>7, <1>8

\* Behind the head nothing has started.
LEMMA NextNotStarted ==
    ASSUME NEW x \in Roles, NEW q \in Seq(Item), NEW S, NEW G \in Seq(Nat),
           ChannelInOrder(x, q, S, G), q # <<>>, LastPacket(q)
    PROVE  ~HeadStarted(Departed(q))
<1> SUFFICES ASSUME Departed(q) # <<>>
             PROVE  ~Started(Departed(q)[1])
  BY DEF HeadStarted
<1>1. /\ Departed(q) \in Seq(Item) /\ Len(Departed(q)) = Len(q) - 1
      /\ \A i \in 1..Len(q) - 1 : Departed(q)[i] = q[i + 1]
  BY DepartedLast
<1>2. 1 \in 1..Len(q) - 1 /\ 2 \in 1..Len(q)
  BY <1>1
<1>3. Departed(q)[1] = q[2]
  BY <1>1, <1>2
<1>4. ItemInOrder(x, q, S, 2)
  BY <1>2 DEF ChannelInOrder
<1> QED
  BY <1>3, <1>4 DEF ItemInOrder, Started

LEMMA TailNumbered ==
    ASSUME NEW q \in Seq(Item), Numbered(q), q # <<>>, LastPacket(q)
    PROVE  Numbered(Departed(q))
<1>1. /\ Len(q) \in Nat /\ Len(Departed(q)) = Len(q) - 1
      /\ \A i \in 1..Len(q) - 1 : Departed(q)[i] = q[i + 1]
  BY DepartedLast
<1> SUFFICES ASSUME NEW i \in 1..Len(Departed(q)), IsTransaction(Departed(q)[i])
             PROVE  Departed(q)[i].transactionId = IdOf(Departed(q)[i].number)
  BY DEF Numbered
<1>2. i + 1 \in 1..Len(q) /\ Departed(q)[i] = q[i + 1]
  BY <1>1
<1> QED
  BY <1>2 DEF Numbered

\* What the departure of a packet makes of a queue q and of G.
Moved(q, G, H) ==
    /\ ~IsTransaction(q[1]) =>
         /\ Len(H) = Len(G)
         /\ ~HeadStarted(q) /\ ~HeadStarted(Departed(q))
    /\ IsTransaction(q[1]) /\ LastPacket(q) =>
         /\ Len(H) = q[1].number
         /\ ~HeadStarted(Departed(q))
    /\ IsTransaction(q[1]) /\ ~LastPacket(q) =>
         /\ Len(H) = Len(G)
         /\ HeadStarted(Departed(q))
         /\ Departed(q)[1] = Advanced(q[1])

LEMMA Leaves ==
    ASSUME NEW x \in Roles, NEW q \in Seq(Item), NEW S \in Seq(Record),
           NEW G \in Seq(Nat), ChannelInOrder(x, q, S, G), Numbered(q), q # <<>>
    PROVE  \E H \in Seq(Nat) :
             /\ ChannelInOrder(x, Departed(q), S, H)
             /\ Numbered(Departed(q))
             /\ Moved(q, G, H)
<1>1. CASE ~IsTransaction(q[1])
  <2>1. LastPacket(q)
    BY <1>1 DEF LastPacket
  <2>2. ChannelInOrder(x, Departed(q), S, G)
    BY <1>1, <2>1, ChannelTail
  <2>3. Numbered(Departed(q))
    BY <2>1, TailNumbered
  <2>4. Moved(q, G, G)
    BY <1>1, <2>1, NextNotStarted DEF Moved, HeadStarted, Started
  <2> QED
    BY <2>2, <2>3, <2>4
<1>2. CASE IsTransaction(q[1]) /\ LastPacket(q)
  <2> DEFINE H == Append(G, q[1].number)
  <2>1. q[1].number = Len(G) + 1 /\ q[1].number \in Nat
    BY <1>2, HeadFields
  <2>2. H \in Seq(Nat) /\ Len(H) = q[1].number
    BY <2>1
  <2> HIDE DEF H
  <2>3. ChannelInOrder(x, Departed(q), S, H)
    BY <1>2, <2>2, ChannelTail DEF H
  <2>4. Numbered(Departed(q))
    BY <1>2, TailNumbered
  <2>5. Moved(q, G, H)
    BY <1>2, <2>2, NextNotStarted DEF Moved
  <2> QED
    BY <2>2, <2>3, <2>4, <2>5
<1>3. CASE IsTransaction(q[1]) /\ ~LastPacket(q)
  <2>1. /\ Departed(q) \in Seq(Item) /\ Len(Departed(q)) = Len(q)
        /\ Departed(q)[1] = Advanced(q[1])
        /\ PayloadOf(q[1]) # RemainingSize(q[1])
        /\ \A i \in 2..Len(q) : Departed(q)[i] = q[i]
    BY <1>3, DepartedMore
  <2>2. ChannelInOrder(x, Departed(q), S, G)
    BY <1>3, ChannelAdvance
  <2>3. q[1] \in TransactionItem /\ q[1].transactionId = IdOf(q[1].number)
    BY <1>3, HeadFields
  <2>4. /\ Advanced(q[1]).number = q[1].number
        /\ Advanced(q[1]).transactionId = q[1].transactionId
        /\ Started(Advanced(q[1]))
    BY <2>1, <2>3, AdvancedType DEF Started
  <2>5. Numbered(Departed(q))
    BY <2>1, <2>3, <2>4 DEF Numbered
  <2>6. Moved(q, G, G)
    BY <1>3, <2>1, <2>4 DEF Moved, HeadStarted
  <2> QED
    BY <2>2, <2>5, <2>6
<1> QED
  BY <1>1, <1>2, <1>3

\* The last begun transaction after a packet has left.
LEMMA MovedBegun ==
    ASSUME NEW x \in Roles, NEW q \in Seq(Item), NEW S \in Seq(Record),
           NEW G \in Seq(Nat), ChannelInOrder(x, q, S, G), Numbered(q), q # <<>>,
           NEW H \in Seq(Nat), Moved(q, G, H)
    PROVE  /\ LastBegun(q, G) \in Nat /\ LastBegun(Departed(q), H) \in Nat
           /\ Len(G) <= Len(H) /\ Len(G) <= LastBegun(q, G)
           /\ IsTransaction(q[1]) => LastBegun(Departed(q), H) = Len(G) + 1
           /\ ~IsTransaction(q[1]) => LastBegun(Departed(q), H) = LastBegun(q, G)
           /\ LastBegun(q, G) <= LastBegun(Departed(q), H)
           /\ LastBegun(Departed(q), H) <= LastBegun(q, G) + 1
<1>1. CASE ~IsTransaction(q[1])
  BY <1>1 DEF Moved, LastBegun
<1>2. CASE IsTransaction(q[1])
  <2>1. /\ q[1].number = Len(G) + 1 /\ q[1] \in TransactionItem
        /\ LastBegun(q, G) \in {Len(G), Len(G) + 1}
    BY <1>2, HeadFields DEF LastBegun
  <2>2. ~LastPacket(q) => Advanced(q[1]).number = q[1].number
    BY <1>2, <2>1, AdvancedType DEF LastPacket
  <2> QED
    BY <1>2, <2>1, <2>2 DEF Moved, LastBegun
<1> QED
  BY <1>1, <1>2

\* Two facts of arithmetic, for steps that have much else in view.
LEMMA Below ==
    ASSUME NEW n \in Nat, NEW k \in 1..n
    PROVE  k \in 1..n + 1 /\ k < n + 1 /\ k # n + 1
  OBVIOUS

LEMMA OneLater ==
    ASSUME NEW g \in Nat, NEW h \in Nat, NEW a \in Nat, NEW b \in Nat, NEW f \in Nat,
           NEW n \in 1..g, g <= h, b <= a + 1, a - n < f
    PROVE  n \in 1..h /\ b - n < f + 1
  OBVIOUS

\* What was handed over and judged stays so.
LEMMA HandedLater ==
    ASSUME NEW G \in Seq(Nat), NEW H \in Seq(Nat), Len(G) <= Len(H),
           NEW D \in Seq(Nat), HandedOver(G, D)
    PROVE  HandedOver(H, D)
  BY DEF HandedOver

LEMMA JudgedLater ==
    ASSUME NEW q, NEW r, NEW G \in Seq(Nat), NEW H \in Seq(Nat),
           Len(G) <= Len(H), LastBegun(q, G) \in Nat, LastBegun(r, H) \in Nat,
           LastBegun(q, G) <= LastBegun(r, H),
           NEW D, NEW b, NEW c, NEW V \in Seq(Verdict), Judged(q, G, D, b, V),
           c = b \/ c = NULL \/ \A i \in 1..Len(V) : V[i].number <= Len(G)
    PROVE  Judged(r, H, D, c, V)
<1>1. /\ \A i, j \in 1..Len(V) : i < j => V[i].number < V[j].number
      /\ \A i \in 1..Len(V) : V[i].result = "SUCCESS" <=> \E k \in 1..Len(D) : D[k] = V[i].number
  BY Zenon DEF Judged
<1>2. ASSUME NEW i \in 1..Len(V)
      PROVE  V[i].number \in 1..LastBegun(r, H) /\ (V[i].number > Len(H) => c = NULL)
  <2>1. V[i].number \in 1..LastBegun(q, G) /\ (V[i].number > Len(G) => b = NULL)
    BY DEF Judged
  <2>2. V[i].number \in Nat /\ V[i].number <= LastBegun(q, G)
    BY <2>1
  <2>3. V[i].number \in 1..LastBegun(r, H)
    BY <2>1, <2>2
  <2>4. ASSUME V[i].number > Len(H) PROVE c = NULL
    <3>1. V[i].number > Len(G)
      BY <2>2, <2>4
    <3> QED
      BY <2>1, <2>2, <3>1
  <2> QED
    BY <2>3, <2>4
<1> QED
  BY <1>1, <1>2, Zenon DEF Judged

\* A fault: the packet at the head is lost.
LEMMA HeldLost ==
    ASSUME NEW x \in Roles, NEW q \in Seq(Item), NEW S \in Seq(Record),
           NEW G \in Seq(Nat), ChannelInOrder(x, q, S, G), Numbered(q), q # <<>>,
           NEW H \in Seq(Nat), Moved(q, G, H),
           NEW b \in RxBuffer \cup {NULL}, NEW f \in Nat, Held(q, G, b, f)
    PROVE  Held(Departed(q), H, b, f + 1)
<1> SUFFICES ASSUME b # NULL
             PROVE  \/ Gap(Departed(q), b, f + 1)
                    \/ Stale(Departed(q), H, b, f + 1)
  BY DEF Held
<1>1. /\ LastBegun(q, G) \in Nat /\ LastBegun(Departed(q), H) \in Nat
      /\ Len(G) <= Len(H)
      /\ LastBegun(Departed(q), H) <= LastBegun(q, G) + 1
  BY MovedBegun
<1>2. CASE Stale(q, G, b, f)
  <2>1. PICK n \in 1..Len(G) : b.transactionId = IdOf(n) /\ LastBegun(q, G) - n < f
    BY <1>2 DEF Stale
  <2>2. n \in 1..Len(H) /\ LastBegun(Departed(q), H) - n < f + 1
    <3>1. Len(G) \in Nat /\ Len(H) \in Nat
      OBVIOUS
    <3> QED
      BY <1>1, <2>1, <3>1, OneLater, Zenon
  <2> QED
    BY <2>1, <2>2 DEF Stale
<1>3. CASE HeadStarted(q) /\ b.seqNum \in SeqNums
            /\ b.transactionId = q[1].transactionId
            /\ \E g \in 0..f : q[1].seqNum = (b.seqNum + g) % SeqNumModulus
  <2>0. IsTransaction(q[1])
    BY <1>3 DEF HeadStarted, Started
  <2>1. /\ q[1] \in TransactionItem /\ q[1].number = Len(G) + 1
        /\ q[1].transactionId = IdOf(q[1].number)
    BY <2>0, HeadFields
  <2>2. CASE LastPacket(q)
    <3>1. /\ LastBegun(Departed(q), H) = Len(G) + 1
          /\ Len(H) = q[1].number
      BY <2>0, <2>2, MovedBegun DEF Moved
    <3>2. /\ Len(G) + 1 \in 1..Len(H)
          /\ LastBegun(Departed(q), H) - (Len(G) + 1) < f + 1
      BY <2>1, <3>1
    <3> QED
      BY <1>3, <2>1, <3>2 DEF Stale
  <2>3. CASE ~LastPacket(q)
    <3>1. PICK g \in 0..f : q[1].seqNum = (b.seqNum + g) % SeqNumModulus
      BY <1>3
    <3>2. HeadStarted(Departed(q)) /\ Departed(q)[1] = Advanced(q[1])
      BY <2>0, <2>3 DEF Moved
    <3>3. /\ Advanced(q[1]).transactionId = q[1].transactionId
          /\ Advanced(q[1]).seqNum = NextSeqNum(q[1].seqNum)
      BY <2>0, <2>1, <2>3, AdvancedType DEF LastPacket
    <3>4. NextSeqNum(q[1].seqNum) = (b.seqNum + (g + 1)) % SeqNumModulus
      BY <1>3, <3>1, SeqNumAfterGap
    <3>5. g + 1 \in 1..f + 1
      OBVIOUS
    <3> QED
      BY <1>3, <3>2, <3>3, <3>4, <3>5 DEF Gap
  <2> QED
    BY <2>2, <2>3
<1>4. CASE Whole(q, b)
  <2>1. IsTransaction(q[1]) /\ HeadStarted(q)
    BY <1>4 DEF Whole, HeadStarted, Started
  <2>2. q[1] \in TransactionItem
    BY <2>1, HeadFields
  <2>3. /\ b.seqNum = q[1].seqNum /\ b.transactionId = q[1].transactionId
        /\ q[1].seqNum \in SeqNums
    BY <1>4, <2>2 DEF Whole, Reassembly, TransactionItem
  <2>4. q[1].seqNum = (b.seqNum + 0) % SeqNumModulus
    BY <2>3, NoGap
  <2> QED
    BY <1>3, <2>1, <2>3, <2>4
<1>5. CASE Gap(q, b, f)
  <2>1. b.seqNum \in SeqNums
    BY DEF RxBuffer
  <2>2. 1..f \subseteq 0..f
    OBVIOUS
  <2> QED
    BY <1>3, <1>5, <2>1, <2>2 DEF Gap
<1> QED
  BY <1>2, <1>4, <1>5 DEF Held

LEMMA HeldMonotone ==
    ASSUME NEW q, NEW G, NEW b, NEW f \in Nat, NEW g \in Nat, f <= g,
           LastBegun(q, G) \in Nat, G \in Seq(Nat), Held(q, G, b, f)
    PROVE  Held(q, G, b, g)
<1>1. Gap(q, b, f) => Gap(q, b, g)
  BY DEF Gap
<1>2. Stale(q, G, b, f) => Stale(q, G, b, g)
  BY DEF Stale
<1> QED
  BY <1>1, <1>2 DEF Held

LEMMA SoundLost ==
    ASSUME NEW x \in Roles, NEW q \in Seq(Item), NEW S \in Seq(Record),
           NEW G \in Seq(Nat), NEW D \in Seq(Nat), NEW b \in RxBuffer \cup {NULL},
           NEW V \in Seq(Verdict), NEW alive \in BOOLEAN, NEW f \in Nat,
           Sound(x, q, S, G, D, b, V, alive, f), q # <<>>
    PROVE  \E H \in Seq(Nat) : Sound(x, Departed(q), S, H, D, b, V, alive, f + 1)
<1>1. PICK H \in Seq(Nat) : /\ ChannelInOrder(x, Departed(q), S, H)
                            /\ Numbered(Departed(q))
                            /\ Moved(q, G, H)
  BY Leaves DEF Sound
<1>2. /\ LastBegun(q, G) \in Nat /\ LastBegun(Departed(q), H) \in Nat
      /\ Len(G) <= Len(H) /\ LastBegun(q, G) <= LastBegun(Departed(q), H)
  BY <1>1, MovedBegun DEF Sound
<1>3. HandedOver(H, D) /\ Judged(Departed(q), H, D, b, V)
  BY <1>2, HandedLater, JudgedLater DEF Sound
<1>4. alive => Held(Departed(q), H, b, f + 1)
  BY <1>1, HeldLost DEF Sound
<1> QED
  BY <1>1, <1>3, <1>4 DEF Sound

\* No fault: the packet is received and changes no reassembly, because there
\* is none, because it is a control packet, or because the receiver aborts.
Unheeded(q, b, alive, after) ==
    after => alive /\ (b = NULL \/ ~IsTransaction(q[1]))

LEMMA SoundDropped ==
    ASSUME NEW x \in Roles, NEW q \in Seq(Item), NEW S \in Seq(Record),
           NEW G \in Seq(Nat), NEW D \in Seq(Nat), NEW b \in RxBuffer \cup {NULL},
           NEW V \in Seq(Verdict), NEW alive \in BOOLEAN, NEW f \in Nat,
           Sound(x, q, S, G, D, b, V, alive, f), q # <<>>,
           NEW after \in BOOLEAN, Unheeded(q, b, alive, after)
    PROVE  \E H \in Seq(Nat) : Sound(x, Departed(q), S, H, D, b, V, after, f)
<1>1. PICK H \in Seq(Nat) : /\ ChannelInOrder(x, Departed(q), S, H)
                            /\ Numbered(Departed(q))
                            /\ Moved(q, G, H)
  BY Leaves DEF Sound
<1>2. /\ LastBegun(q, G) \in Nat /\ LastBegun(Departed(q), H) \in Nat
      /\ Len(G) <= Len(H) /\ LastBegun(q, G) <= LastBegun(Departed(q), H)
      /\ ~IsTransaction(q[1]) => LastBegun(Departed(q), H) = LastBegun(q, G)
  BY <1>1, MovedBegun DEF Sound
<1>3. HandedOver(H, D) /\ Judged(Departed(q), H, D, b, V)
  BY <1>2, HandedLater, JudgedLater DEF Sound
<1>4. ASSUME after, b # NULL
      PROVE  Stale(Departed(q), H, b, f)
  <2>1. ~HeadStarted(q) /\ ~IsTransaction(q[1]) /\ Held(q, G, b, f)
    BY <1>1, <1>4 DEF Moved, Sound, Unheeded
  <2>2. Stale(q, G, b, f)
    BY <1>4, <2>1 DEF Held, Whole, Gap
  <2> QED
    BY <1>2, <2>1, <2>2 DEF Stale
<1> QED
  BY <1>1, <1>3, <1>4 DEF Sound, Held

-----------------------------------------------------------------------------
(***************************************************************************)
(* A packet is received and belongs to a reassembly.                       *)
(***************************************************************************)
\* The head of q is a packet that is given to a reassembly.
Received(q, b) ==
    /\ q # <<>> /\ IsTransaction(q[1])
    /\ AssertionHolds(Packet(q[1]), b)
    /\ ~IsStray(Packet(q[1]), b)

\* All verdicts so far are on transactions that have gone: a transaction is
\* judged once its reassembly is freed, and the rest of it is stray.
LEMMA JudgedGone ==
    ASSUME NEW x \in Roles, NEW q \in Seq(Item), NEW S \in Seq(Record),
           NEW G \in Seq(Nat), NEW D, NEW b \in RxBuffer \cup {NULL},
           NEW V \in Seq(Verdict), NEW alive, NEW f,
           Sound(x, q, S, G, D, b, V, alive, f), Received(q, b)
    PROVE  \A i \in 1..Len(V) : V[i].number <= Len(G)
<1>1. /\ q[1] \in TransactionItem
      /\ HeadStarted(q) <=> q[1].srcIndex # 0
  BY HeadFields DEF Sound, Received
<1>2. IsInitial(Packet(q[1])) <=> q[1].srcIndex = 0
  BY <1>1, PacketFields
<1>3. b = NULL => ~HeadStarted(q)
  BY <1>1, <1>2 DEF Received, IsStray
<1>4. ASSUME NEW i \in 1..Len(V)
      PROVE  V[i].number <= Len(G)
  <2>1. /\ V[i].number \in 1..LastBegun(q, G)
        /\ V[i].number > Len(G) => b = NULL
    BY DEF Sound, Judged
  <2>2. V[i].number \in Nat /\ Len(G) \in Nat
    <3>1. V[i] \in Verdict
      OBVIOUS
    <3> QED
      BY <3>1 DEF Verdict
  <2>3. CASE b = NULL
    BY <1>3, <2>1, <2>3 DEF LastBegun
  <2>4. CASE b # NULL
    BY <2>1, <2>2, <2>4
  <2> QED
    BY <2>3, <2>4
<1> QED
  BY <1>4

\* What fits is in step: with few faults nothing else looks like it.
LEMMA FittingInStep ==
    ASSUME NEW x \in Roles, NEW q \in Seq(Item), NEW S \in Seq(Record),
           NEW G \in Seq(Nat), NEW D, NEW b \in RxBuffer \cup {NULL},
           NEW V, NEW f \in Nat, f < SeqNumModulus, f <= TransactionIdModulus,
           Sound(x, q, S, G, D, b, V, TRUE, f), Received(q, b),
           Fits(Packet(q[1]), Opened(Packet(q[1]), b))
    PROVE  Opened(Packet(q[1]), b) = Reassembly(q[1])
<1> DEFINE t == q[1]
<1>1. /\ t \in TransactionItem /\ t.number = Len(G) + 1
      /\ t.transactionId = IdOf(t.number)
      /\ t.srcIndex = 0 => t.seqNum = 0
      /\ HeadStarted(q) <=> t.srcIndex # 0
  BY HeadFields DEF Sound, Received
<1> HIDE DEF t
<1>2. /\ IsInitial(Packet(t)) <=> t.srcIndex = 0
      /\ Packet(t).transactionId = t.transactionId
      /\ Packet(t).seqNum = t.seqNum
      /\ t.srcIndex \in Nat
  BY <1>1, PacketFields DEF TransactionItem
<1>3. CASE t.srcIndex = 0
  <2>1. b = NULL
    BY <1>2, <1>3 DEF Received, AssertionHolds, t
  <2> QED
    BY <1>1, <1>2, <1>3, <2>1, OpenedInStep DEF t
<1>4. CASE t.srcIndex # 0
  <2>1. /\ b # NULL /\ Opened(Packet(t), b) = b
        /\ b.transactionId = t.transactionId /\ b.seqNum = t.seqNum
    BY <1>2, <1>4 DEF Received, IsStray, AssertionHolds, Opened, Fits, t
  <2>2. ~Gap(q, b, f)
    <3> SUFFICES ASSUME NEW g \in 1..f,
                        t.seqNum = (b.seqNum + g) % SeqNumModulus
                 PROVE  FALSE
      BY DEF Gap, t
    <3>1. b.seqNum \in SeqNums
      BY <2>1 DEF RxBuffer
    <3>2. g \in Nat /\ 0 < g /\ g < SeqNumModulus
      BY PacketAssumption
    <3> QED
      BY <2>1, <3>1, <3>2, SeqNumAfterGap
  <2>3. ~Stale(q, G, b, f)
    <3> SUFFICES ASSUME NEW n \in 1..Len(G), b.transactionId = IdOf(n),
                        LastBegun(q, G) - n < f
                 PROVE  FALSE
      BY DEF Stale
    <3>1. LastBegun(q, G) = t.number
      BY <1>1, <1>4 DEF LastBegun, t
    <3>2. /\ n \in Nat /\ t.number \in Nat /\ n < t.number
          /\ t.number - n < TransactionIdModulus
      BY <1>1, <3>1, PacketAssumption
    <3> QED
      BY <1>1, <2>1, <3>2, IdsDiffer
  <2>4. Whole(q, b)
    BY <2>1, <2>2, <2>3 DEF Sound, Held
  <2> QED
    BY <2>1, <2>4 DEF Whole, t
<1> QED
  BY <1>3, <1>4 DEF t

\* A verdict on the transaction at the head.
LEMMA JudgedNow ==
    ASSUME NEW x \in Roles, NEW q \in Seq(Item), NEW S \in Seq(Record),
           NEW G \in Seq(Nat), NEW D \in Seq(Nat), NEW b \in RxBuffer \cup {NULL},
           NEW V \in Seq(Verdict), NEW alive \in BOOLEAN, NEW f \in Nat,
           Sound(x, q, S, G, D, b, V, alive, f), Received(q, b),
           NEW H \in Seq(Nat), Moved(q, G, H),
           NEW E \in Seq(Nat), NEW v \in Verdict, NEW W \in Seq(Verdict),
           v.number = q[1].number,
           \/ v.result = "FAILURE" /\ E = D /\ W = Append(V, v)
           \/ v.result = "SUCCESS" /\ E = Append(D, v.number) /\ W = Append(V, v)
           \/ E = D /\ W = V
           \/ E = Append(D, v.number) /\ W = V
    PROVE  Judged(Departed(q), H, E, NULL, W)
<1> DEFINE n == Len(G)
<1>1. /\ v.number = n + 1 /\ n \in Nat /\ IsTransaction(q[1]) /\ q # <<>>
  BY HeadFields DEF Sound, Received
<1>2. LastBegun(Departed(q), H) = n + 1 /\ LastBegun(q, G) \in Nat /\ Len(H) \in Nat
  BY <1>1, MovedBegun DEF Sound
<1>3. \A i \in 1..Len(V) : V[i] \in Verdict /\ V[i].number \in 1..n
  <2>1. \A i \in 1..Len(V) : V[i].number <= Len(G)
    BY JudgedGone
  <2>2. \A i \in 1..Len(V) : V[i].number \in 1..LastBegun(q, G)
    BY DEF Sound, Judged
  <2> QED
    <3> SUFFICES ASSUME NEW i \in 1..Len(V)
                 PROVE  V[i] \in Verdict /\ V[i].number \in 1..n
      OBVIOUS
    <3>1. V[i].number <= Len(G) /\ V[i].number \in 1..LastBegun(q, G)
      BY <2>1, <2>2
    <3>2. V[i].number \in Nat /\ V[i].number >= 1
      BY <1>2, <3>1
    <3>3. V[i].number \in 1..n
      BY <1>1, <3>1, <3>2
    <3> QED
      BY <3>3
<1> HIDE DEF n
<1>4. \A i, j \in 1..Len(V) : i < j => V[i].number < V[j].number
  BY DEF Sound, Judged
<1>5. ASSUME NEW i \in 1..Len(V)
      PROVE  V[i].result = "SUCCESS" <=> \E k \in 1..Len(E) : E[k] = V[i].number
  <2>1. V[i].result = "SUCCESS" <=> \E k \in 1..Len(D) : D[k] = V[i].number
    BY DEF Sound, Judged
  <2>2. V[i].number # v.number
    <3>1. V[i].number \in 1..n
      BY <1>3
    <3> QED
      BY <1>1, <3>1, Below, Zenon
  <2>3. CASE E = D
    BY <2>1, <2>3
  <2>4. CASE E = Append(D, v.number)
    <3>1. Len(E) = Len(D) + 1 /\ E[Len(D) + 1] = v.number /\ Len(D) \in Nat
          /\ \A k \in 1..Len(D) : E[k] = D[k]
      BY <1>1, <1>2, <2>4
    <3>2. ASSUME NEW k \in 1..Len(E)
          PROVE  \/ k \in 1..Len(D) /\ E[k] = D[k]
                 \/ E[k] = v.number
      <4>1. k \in 1..Len(D) \/ k = Len(D) + 1
        BY <3>1
      <4> QED
        BY <3>1, <4>1
    <3>3. \A k \in 1..Len(D) : k \in 1..Len(E)
      BY <3>1
    <3> QED
      BY <2>1, <2>2, <3>1, <3>2, <3>3
  <2> QED
    BY <2>3, <2>4
<1>6. CASE W = V
  <2>1. \A i \in 1..Len(V) : V[i].number \in 1..LastBegun(Departed(q), H)
    <3> SUFFICES ASSUME NEW i \in 1..Len(V)
                 PROVE  V[i].number \in 1..n + 1
      BY <1>2
    <3>1. V[i].number \in 1..n
      BY <1>3
    <3> QED
      BY <1>1, <3>1, Below, Zenon
  <2> QED
    BY <1>4, <1>5, <1>6, <2>1 DEF Judged
<1>7. CASE W = Append(V, v)
  <2>1. /\ Len(W) = Len(V) + 1 /\ W[Len(V) + 1] = v /\ Len(V) \in Nat
        /\ \A i \in 1..Len(V) : W[i] = V[i]
    BY <1>7
  <2>2. v.result = "SUCCESS" <=> \E k \in 1..Len(E) : E[k] = v.number
    <3>1. \A k \in 1..Len(D) : D[k] \in 1..n
      BY DEF Sound, HandedOver, n
    <3>2. CASE E = D /\ v.result = "FAILURE"
      BY <1>1, <1>2, <3>1, <3>2
    <3>3. CASE E = Append(D, v.number) /\ v.result = "SUCCESS"
      <4>1. Len(E) = Len(D) + 1 /\ E[Len(D) + 1] = v.number /\ Len(D) \in Nat
        BY <1>1, <1>2, <3>3
      <4>2. Len(D) + 1 \in 1..Len(E)
        BY <4>1
      <4> QED
        BY <3>3, <4>1, <4>2
    <3>4. W # V
      BY <2>1
    <3> QED
      BY <3>2, <3>3, <3>4
  <2>3. ASSUME NEW i \in 1..Len(W), NEW j \in 1..Len(W), i < j
        PROVE  W[i].number < W[j].number
    <3>1. i \in 1..Len(V) /\ (j \in 1..Len(V) \/ j = Len(V) + 1)
      BY <2>1, <2>3
    <3>2. CASE j \in 1..Len(V)
      BY <1>4, <2>1, <2>3, <3>1, <3>2
    <3>3. CASE j = Len(V) + 1
      <4>1. W[i] = V[i] /\ W[j] = v /\ V[i].number \in 1..n
        BY <1>3, <2>1, <3>1, <3>3
      <4> QED
        <5>1. W[i].number \in 1..n
          BY <4>1, Zenon
        <5>2. W[i].number < n + 1
          BY <1>1, <5>1, Below, Zenon
        <5>3. W[j].number = n + 1
          BY <1>1, <4>1, Zenon
        <5> QED
          BY <5>2, <5>3, Zenon
    <3> QED
      BY <3>1, <3>2, <3>3
  <2>4. ASSUME NEW i \in 1..Len(W)
        PROVE  /\ W[i].number \in 1..n + 1
               /\ W[i].result = "SUCCESS" <=> \E k \in 1..Len(E) : E[k] = W[i].number
    <3>1. CASE i \in 1..Len(V)
      <4>1. W[i] = V[i] /\ V[i].number \in 1..n
        BY <1>3, <2>1, <3>1
      <4> QED
        <5>1. V[i].number \in 1..n + 1
          BY <1>1, <4>1, Below, Zenon
        <5>2. V[i].result = "SUCCESS" <=> \E k \in 1..Len(E) : E[k] = V[i].number
          BY <1>5, <3>1, Zenon
        <5> QED
          BY <4>1, <5>1, <5>2, Zenon
    <3>2. CASE i = Len(V) + 1
      <4>1. W[i] = v
        BY <2>1, <3>2
      <4>2. W[i].number \in 1..n + 1
        BY <1>1, <4>1
      <4>3. W[i].result = "SUCCESS" <=> \E k \in 1..Len(E) : E[k] = W[i].number
        BY <2>2, <4>1, Zenon
      <4> QED
        BY <4>2, <4>3
    <3> QED
      BY <2>1, <3>1, <3>2
  <2> QED
    BY <1>2, <2>3, <2>4 DEF Judged
<1> QED
  BY <1>6, <1>7

\* The next transaction is handed over.
LEMMA HandedNext ==
    ASSUME NEW G \in Seq(Nat), NEW H \in Seq(Nat), NEW D \in Seq(Nat),
           HandedOver(G, D), Len(H) = Len(G) + 1
    PROVE  HandedOver(H, Append(D, Len(G) + 1))
<1> DEFINE n == Len(G)
           E == Append(D, n + 1)
<1>1. n \in Nat /\ Len(H) = n + 1
  OBVIOUS
<1>2. \A k \in 1..Len(D) : D[k] \in 1..n
  BY DEF HandedOver
<1>3. /\ Len(E) = Len(D) + 1 /\ E[Len(D) + 1] = n + 1 /\ Len(D) \in Nat
      /\ \A k \in 1..Len(D) : E[k] = D[k]
  BY <1>1
<1>4. \A k \in 1..Len(D) - 1 : D[k] < D[k + 1]
  BY DEF HandedOver
<1> HIDE DEF n, E
<1>5. ASSUME NEW k \in 1..Len(E)
      PROVE  E[k] \in 1..Len(H)
  <2>1. k \in 1..Len(D) \/ k = Len(D) + 1
    BY <1>3
  <2> QED
    <3>1. CASE k \in 1..Len(D)
      <4>1. E[k] = D[k] /\ D[k] \in 1..n
        BY <1>2, <1>3, <3>1
      <4> QED
        BY <1>1, <4>1
    <3>2. CASE k = Len(D) + 1
      BY <1>1, <1>3, <3>2
    <3> QED
      BY <2>1, <3>1, <3>2
<1>6. ASSUME NEW k \in 1..Len(E) - 1
      PROVE  E[k] < E[k + 1]
  <2>1. CASE k \in 1..Len(D) - 1
    BY <1>3, <1>4, <2>1
  <2>2. CASE k = Len(D)
    <3>1. E[k] = D[k] /\ D[k] \in 1..n /\ E[k + 1] = n + 1
      BY <1>2, <1>3, <2>2
    <3> QED
      BY <1>1, <3>1
  <2> QED
    BY <1>3, <2>1, <2>2
<1> QED
  BY <1>5, <1>6 DEF HandedOver, E, n

\* The reassembly is freed with the packet at the head of q, which was
\* refused, or was the last: what is handed over and judged then.
Outcome(q, D, E, V, W) ==
    LET n == q[1].number
    IN  /\ n \in Nat /\ E \in Seq(Nat) /\ W \in Seq(Verdict)
        /\ \/ /\ E = D
              /\ W = V \/ W = Append(V, [number |-> n, result |-> "FAILURE"])
           \/ /\ LastPacket(q) /\ E = Append(D, n)
              /\ W = V \/ W = Append(V, [number |-> n, result |-> "SUCCESS"])

LEMMA SoundFreed ==
    ASSUME NEW x \in Roles, NEW q \in Seq(Item), NEW S \in Seq(Record),
           NEW G \in Seq(Nat), NEW D \in Seq(Nat), NEW b \in RxBuffer \cup {NULL},
           NEW V \in Seq(Verdict), NEW alive \in BOOLEAN, NEW f \in Nat,
           Sound(x, q, S, G, D, b, V, alive, f), Received(q, b),
           NEW E, NEW W, Outcome(q, D, E, V, W)
    PROVE  \E H \in Seq(Nat) : Sound(x, Departed(q), S, H, E, NULL, W, alive, f)
<1> DEFINE n == q[1].number
<1>0. n \in Nat /\ E \in Seq(Nat) /\ W \in Seq(Verdict)
  BY DEF Outcome
<1> HIDE DEF n
<1>1. PICK H \in Seq(Nat) : /\ ChannelInOrder(x, Departed(q), S, H)
                            /\ Numbered(Departed(q))
                            /\ Moved(q, G, H)
  BY Leaves DEF Sound, Received
<1>2. Len(G) <= Len(H)
  BY <1>1, MovedBegun DEF Sound, Received
<1>3. Judged(Departed(q), H, E, NULL, W)
  <2>1. \E v \in Verdict : v.number = n /\
           (\/ v.result = "FAILURE" /\ E = D /\ W = Append(V, v)
            \/ v.result = "SUCCESS" /\ E = Append(D, v.number) /\ W = Append(V, v)
            \/ E = D /\ W = V
            \/ E = Append(D, v.number) /\ W = V)
    <3>1. /\ [number |-> n, result |-> "FAILURE"] \in Verdict
          /\ [number |-> n, result |-> "SUCCESS"] \in Verdict
      BY <1>0 DEF Verdict, Results
    <3>2. CASE W = Append(V, [number |-> n, result |-> "FAILURE"]) /\ E = D
      BY <3>1, <3>2
    <3>3. CASE ~(W = Append(V, [number |-> n, result |-> "FAILURE"]) /\ E = D)
      BY <3>1, <3>3 DEF Outcome, n
    <3> QED
      BY <3>2, <3>3
  <2> QED
    BY <1>0, <1>1, <2>1, JudgedNow DEF n
<1>4. HandedOver(H, E)
  <2>1. CASE E = D
    BY <1>2, <2>1, HandedLater DEF Sound
  <2>2. CASE LastPacket(q) /\ E = Append(D, n)
    <3>1. n = Len(G) + 1 /\ Len(H) = Len(G) + 1
      BY <1>1, <2>2, HeadFields DEF Moved, Sound, Received, n
    <3>2. HandedOver(G, D)
      BY DEF Sound
    <3> QED
      BY <2>2, <3>1, <3>2, HandedNext
  <2> QED
    BY <2>1, <2>2 DEF Outcome, n
<1> QED
  BY <1>1, <1>3, <1>4 DEF Sound, Held

\* The packet is appended, and the transaction goes on.
LEMMA SoundAppended ==
    ASSUME NEW x \in Roles, NEW q \in Seq(Item), NEW S \in Seq(Record),
           NEW G \in Seq(Nat), NEW D \in Seq(Nat), NEW b \in RxBuffer \cup {NULL},
           NEW V \in Seq(Verdict), NEW f \in Nat,
           f < SeqNumModulus, f <= TransactionIdModulus,
           Sound(x, q, S, G, D, b, V, TRUE, f), Received(q, b),
           Fits(Packet(q[1]), Opened(Packet(q[1]), b)),
           NEW c, c = Appended(Packet(q[1]), Opened(Packet(q[1]), b)),
           ~IsComplete(c)
    PROVE  \E H \in Seq(Nat) : Sound(x, Departed(q), S, H, D, c, V, TRUE, f)
<1>1. PICK H \in Seq(Nat) : /\ ChannelInOrder(x, Departed(q), S, H)
                            /\ Numbered(Departed(q))
                            /\ Moved(q, G, H)
  BY Leaves DEF Sound, Received
<1>2. /\ q # <<>> /\ IsTransaction(q[1])
      /\ LastBegun(q, G) \in Nat /\ LastBegun(Departed(q), H) \in Nat
      /\ Len(G) <= Len(H) /\ LastBegun(q, G) <= LastBegun(Departed(q), H)
  BY <1>1, MovedBegun DEF Sound, Received
<1>3. \A i \in 1..Len(V) : V[i].number <= Len(G)
  BY JudgedGone
<1>4. HandedOver(H, D) /\ Judged(Departed(q), H, D, c, V)
  BY <1>2, <1>3, HandedLater, JudgedLater DEF Sound
<1>5. q[1] \in TransactionItem /\ c = Appended(Packet(q[1]), Reassembly(q[1]))
  <2>1. q[1] \in TransactionItem
    BY <1>2, HeadFields DEF Sound
  <2>2. Opened(Packet(q[1]), b) = Reassembly(q[1])
    BY FittingInStep
  <2> QED
    BY <2>1, <2>2
<1>6. PayloadOf(q[1]) # RemainingSize(q[1])
  BY <1>5, AppendedInStep
<1>7. c = Reassembly(Advanced(q[1]))
  BY <1>5, <1>6, AppendedMirrors
<1>8. ~LastPacket(q)
  BY <1>2, <1>6 DEF LastPacket
<1>9. Whole(Departed(q), c)
  BY <1>1, <1>2, <1>7, <1>8 DEF Moved, Whole
<1> QED
  BY <1>1, <1>4, <1>9 DEF Sound, Held

\* The packet at the head of q makes the reassembly b the complete c.
Completing(q, b, c) ==
    /\ Received(q, b)
    /\ Fits(Packet(q[1]), Opened(Packet(q[1]), b))
    /\ c = Appended(Packet(q[1]), Opened(Packet(q[1]), b))
    /\ IsComplete(c)

\* What is handed over is the transaction at the head.
LEMMA FittingOrigin ==
    ASSUME NEW r \in Roles, NEW s \in Streams, EndpointTypeOK,
           NEW G \in Seq(Nat), NEW D, NEW b \in RxBuffer \cup {NULL},
           NEW V, NEW f \in Nat, f < SeqNumModulus, f <= TransactionIdModulus,
           Sound(Peer(r), outbox[Peer(r)][s], sent[Peer(r)][s], G, D, b, V, TRUE, f),
           NEW c, Completing(outbox[Peer(r)][s], b, c)
    PROVE  LET q == outbox[Peer(r)][s]
           IN  /\ LastPacket(q) /\ q[1] \in TransactionItem
               /\ Origin(r, s, c.data) = q[1].number
               /\ q[1].number \in 1..Len(sent[Peer(r)][s])
               /\ q[1].number = Len(G) + 1
<1> DEFINE q == outbox[Peer(r)][s]
<1>0. /\ Received(q, b)
      /\ Fits(Packet(q[1]), Opened(Packet(q[1]), b))
      /\ c = Appended(Packet(q[1]), Opened(Packet(q[1]), b))
      /\ IsComplete(c)
      /\ Sound(Peer(r), q, sent[Peer(r)][s], G, D, b, V, TRUE, f)
  BY DEF Completing
<1> DEFINE t == q[1]
<1>1. /\ q \in Seq(Item) /\ sent[Peer(r)][s] \in Seq(Record) /\ Peer(r) \in Roles
  BY Peers DEF EndpointTypeOK, Item, Record
<1>2. /\ t \in TransactionItem /\ t.from = Peer(r)
      /\ t.number \in 1..Len(sent[Peer(r)][s])
      /\ t.message = sent[Peer(r)][s][t.number].message
      /\ t.number = Len(G) + 1
  <2> DEFINE x == Peer(r)
             S == sent[Peer(r)][s]
  <2>1. /\ ChannelInOrder(x, q, S, G) /\ Numbered(q)
        /\ q # <<>> /\ IsTransaction(q[1])
        /\ x \in Roles /\ S \in Seq(Record)
    BY <1>0, <1>1 DEF Sound, Received
  <2> HIDE DEF x, S
  <2>2. /\ q[1] \in TransactionItem /\ q[1].from = x
        /\ q[1].number \in 1..Len(S) /\ q[1].message = S[q[1].number].message
        /\ q[1].number = Len(G) + 1
    BY <1>1, <2>1, HeadFields
  <2> QED
    BY <2>2 DEF t, x, S
<1>3. c = Appended(Packet(t), Reassembly(t))
  <2> DEFINE S == sent[Peer(r)][s]
  <2>1. /\ Received(q, b) /\ Fits(Packet(q[1]), Opened(Packet(q[1]), b))
        /\ Sound(Peer(r), q, S, G, D, b, V, TRUE, f)
        /\ q \in Seq(Item) /\ S \in Seq(Record) /\ Peer(r) \in Roles
    BY <1>0, <1>1
  <2> HIDE DEF q, S
  <2>2. Opened(Packet(q[1]), b) = Reassembly(q[1])
    BY <2>1, FittingInStep
  <2> QED
    BY <1>0, <2>2
<1> HIDE DEF t
<1>4. PayloadOf(t) = RemainingSize(t)
  BY <1>0, <1>2, <1>3, AppendedInStep
<1>5. /\ Size[t.message] \in Nat /\ Size[t.message] >= 1
      /\ t.srcIndex + PayloadOf(t) = Size[t.message]
  <2>1. /\ Size[t.message] \in Nat /\ RemainingSize(t) = Size[t.message] - t.srcIndex
        /\ RemainingSize(t) \in Nat /\ RemainingSize(t) > 0
    BY <1>2, ItemPayload
  <2>2. t.srcIndex \in Nat
    BY <1>2 DEF TransactionItem
  <2> QED
    BY <1>4, <2>1, <2>2
<1>6. c.data = Fragment(Peer(r), t.number, 0, Size[t.message])
  BY <1>2, <1>3, <1>5, AppendedInStep
<1>7. c.data[1][2] = t.number
  <2>1. 1 \in 1..Size[t.message]
    BY <1>5
  <2> QED
    BY <1>6, <2>1 DEF Fragment
<1>8. Origin(r, s, c.data) = t.number
  BY <1>2, <1>6, <1>7 DEF Origin
<1>9. LastPacket(q)
  BY <1>4 DEF LastPacket, t
<1> QED
  BY <1>2, <1>8, <1>9 DEF t

-----------------------------------------------------------------------------
(***************************************************************************)
(* Something is queued behind.                                             *)
(***************************************************************************)
\* The head, and all that is said of it, stays.
LEMMA HeadStays ==
    ASSUME NEW q \in Seq(Item), NEW item, ~Started(item)
    PROVE  LET r == Append(q, item)
           IN  /\ HeadStarted(r) <=> HeadStarted(q)
               /\ HeadStarted(q) => r[1] = q[1]
<1>1. CASE q = <<>>
  BY <1>1 DEF HeadStarted
<1>2. CASE q # <<>>
  BY <1>2 DEF HeadStarted
<1> QED
  BY <1>1, <1>2

LEMMA SoundAppend ==
    ASSUME NEW x \in Roles, NEW q \in Seq(Item), NEW S \in Seq(Record),
           NEW G \in Seq(Nat), NEW D, NEW b, NEW V, NEW alive \in BOOLEAN, NEW f,
           Sound(x, q, S, G, D, b, V, alive, f),
           NEW item \in Item, ~Started(item), NEW T,
           ChannelInOrder(x, Append(q, item), T, G),
           IsTransaction(item) => item.transactionId = IdOf(item.number)
    PROVE  Sound(x, Append(q, item), T, G, D, b, V, alive, f)
<1> DEFINE r == Append(q, item)
<1>1. /\ HeadStarted(r) <=> HeadStarted(q)
      /\ HeadStarted(q) => r[1] = q[1]
  BY HeadStays
<1>2. /\ Len(r) = Len(q) + 1 /\ r[Len(q) + 1] = item /\ Len(q) \in Nat
      /\ \A i \in 1..Len(q) : r[i] = q[i]
  OBVIOUS
<1> HIDE DEF r
<1>3. Numbered(r)
  <2> SUFFICES ASSUME NEW i \in 1..Len(r), IsTransaction(r[i])
               PROVE  r[i].transactionId = IdOf(r[i].number)
    BY DEF Numbered
  <2>1. i \in 1..Len(q) \/ i = Len(q) + 1
    BY <1>2
  <2> QED
    BY <1>2, <2>1 DEF Sound, Numbered
<1>4. LastBegun(r, G) = LastBegun(q, G)
  BY <1>1 DEF LastBegun
<1>5. alive => Held(r, G, b, f)
  BY <1>1, <1>4 DEF Sound, Held, Whole, Gap, Stale
<1>6. Judged(r, G, D, b, V)
  BY <1>4 DEF Sound, Judged
<1> QED
  BY <1>3, <1>5, <1>6 DEF Sound, r

LEMMA SoundAck ==
    ASSUME NEW x \in Roles, NEW q \in Seq(Item), NEW S \in Seq(Record),
           NEW G \in Seq(Nat), NEW D, NEW b, NEW V, NEW alive \in BOOLEAN, NEW f,
           Sound(x, q, S, G, D, b, V, alive, f),
           NEW id \in TransactionIds, NEW result \in Results
    PROVE  /\ ControlAck(Len(S), id, result) \in Item
           /\ Sound(x, Append(q, ControlAck(Len(S), id, result)), S, G,
                    D, b, V, alive, f)
<1> DEFINE a == ControlAck(Len(S), id, result)
<1>1. a \in Item /\ ~Started(a) /\ ~IsTransaction(a)
  <2>1. Len(S) \in Nat
    OBVIOUS
  <2> QED
    BY <2>1 DEF ControlAck, Item, AckItem, Started, IsTransaction
<1>2. ChannelInOrder(x, Append(q, a), S, G)
  BY ChannelAck DEF Sound
<1> HIDE DEF a
<1>3. Sound(x, Append(q, a), S, G, D, b, V, alive, f)
  BY <1>1, <1>2, SoundAppend
<1> QED
  BY <1>1, <1>3 DEF a

LEMMA SoundCreate ==
    ASSUME NEW x \in Roles, NEW q \in Seq(Item), NEW S \in Seq(Record),
           NEW G \in Seq(Nat), NEW D, NEW b, NEW V, NEW alive \in BOOLEAN, NEW f,
           Sound(x, q, S, G, D, b, V, alive, f),
           NEW m \in Messages, NEW ack \in BOOLEAN,
           NEW t, t = Transaction(x, Len(S) + 1, IdOf(Len(S) + 1), m, ack), t \in Item
    PROVE  Sound(x, Append(q, t), Append(S, [message |-> m, ack |-> ack]), G,
                 D, b, V, alive, f)
<1>1. /\ ~Started(t) /\ t.transactionId = IdOf(t.number)
  BY DEF Transaction, Started
<1>2. ChannelInOrder(x, Append(q, t), Append(S, [message |-> m, ack |-> ack]), G)
  BY ChannelCreate DEF Sound
<1> QED
  BY <1>1, <1>2, SoundAppend

\* Faults elsewhere leave what is said of a channel true.
LEMMA SoundMonotone ==
    ASSUME NEW x, NEW q \in Seq(Item), NEW S, NEW G \in Seq(Nat), NEW D, NEW b, NEW V,
           NEW alive \in BOOLEAN, NEW f \in Nat, NEW g \in Nat, f <= g,
           Sound(x, q, S, G, D, b, V, alive, f)
    PROVE  Sound(x, q, S, G, D, b, V, alive, g)
<1>1. LastBegun(q, G) \in Nat
  <2>1. q # <<>> => 1 \in 1..Len(q)
    OBVIOUS
  <2> QED
    BY <2>1, ItemNumber DEF LastBegun, HeadStarted
<1> QED
  BY <1>1, HeldMonotone DEF Sound

-----------------------------------------------------------------------------
(***************************************************************************)
(* The inductive invariant of the link: every channel is sound.            *)
(***************************************************************************)
Alive(r) == ~aborted[HostOf[r]]

SoundIn(x, s, G) ==
    Sound(x, outbox[x][s], sent[x][s], G, delivered[Peer(x)][s],
          Buffer(Peer(x), s), verdicts[Peer(x)][s], Alive(Peer(x)), faults)

ChannelSound(x, s) ==
    /\ lastTransactionId[HostOf[x]][s] = IdOf(Len(sent[x][s]))
    /\ \E G \in Seq(Nat) : SoundIn(x, s, G)

LinkSound == \A x \in Roles, s \in Streams : ChannelSound(x, s)

LossInv == TypeOK /\ LinkSound

\* The values that a channel consists of.
LEMMA ChannelTypes ==
    ASSUME TypeOK, NEW x \in Roles, NEW s \in Streams
    PROVE  /\ outbox[x][s] \in Seq(Item)
           /\ sent[x][s] \in Seq(Record)
           /\ delivered[x][s] \in Seq(Nat)
           /\ Buffer(x, s) \in RxBuffer \cup {NULL}
           /\ verdicts[x][s] \in Seq(Verdict)
           /\ Alive(x) \in BOOLEAN
           /\ faults \in Nat /\ faults <= MaxFaults
<1>1. faults \in Nat /\ faults <= MaxFaults /\ EndpointTypeOK
  BY LinkAssumption DEF TypeOK
<1>2. HostOf[x] \in Processes
  BY Peers
<1>3. /\ outbox[x][s] \in Seq(Item)
      /\ sent[x][s] \in Seq(Record)
      /\ delivered[x][s] \in Seq(Nat)
      /\ verdicts[x][s] \in Seq(Verdict)
  BY <1>1 DEF EndpointTypeOK, Item, Record, Verdict
<1>4. Buffer(x, s) \in RxBuffer \cup {NULL}
  BY <1>1, <1>2 DEF EndpointTypeOK, Buffer
<1> QED
  BY <1>1, <1>3, <1>4 DEF Alive

LEMMA SoundDead ==
    ASSUME NEW x, NEW q, NEW S, NEW G, NEW D, NEW b, NEW V, NEW alive \in BOOLEAN, NEW f,
           NEW after \in BOOLEAN, after => alive,
           Sound(x, q, S, G, D, b, V, alive, f)
    PROVE  Sound(x, q, S, G, D, b, V, after, f)
  BY DEF Sound

\* Role r does something on stream s, and nothing elsewhere.
OthersUntouched(r, s) ==
    \A x \in Roles, z \in Streams : x # r \/ z # s =>
       /\ sent'[x][z] = sent[x][z]
       /\ lastTransactionId'[HostOf[x]][z] = lastTransactionId[HostOf[x]][z]
       /\ delivered'[x][z] = delivered[x][z]
       /\ verdicts'[x][z] = verdicts[x][z]
       /\ Buffer(x, z)' = Buffer(x, z)

\* The channel on which r has received, and the one on which it has queued.
ReceivedSound(r, s) ==
    \E H \in Seq(Nat) :
       Sound(Peer(r), Departed(outbox[Peer(r)][s]), sent[Peer(r)][s], H,
             delivered'[r][s], Buffer(r, s)', verdicts'[r][s], Alive(r)', faults')

QueuedSound(r, s, items, S) ==
    \E H \in Seq(Nat) :
       Sound(r, outbox[r][s] \o items, S, H, delivered[Peer(r)][s],
             Buffer(Peer(r), s), verdicts[Peer(r)][s], Alive(Peer(r)), faults)

\* What a step that takes a packet of stream s from the peer of r, and queues
\* items for it, has to establish.
LEMMA ReceiveSound ==
    ASSUME TypeOK, LinkSound, NEW r \in Roles, NEW s \in Streams,
           NEW items \in Seq(Item), outbox[Peer(r)][s] # <<>>,
           TakeAndQueue(r, s, items),
           OthersUntouched(r, s),
           Alive(r)' => Alive(r), Alive(Peer(r))' = Alive(Peer(r)),
           Alive(r)' \in BOOLEAN, faults' \in Nat, faults <= faults',
           lastTransactionId'[HostOf[r]][s] = IdOf(Len(sent'[r][s])),
           ReceivedSound(r, s), QueuedSound(r, s, items, sent'[r][s])
    PROVE  LinkSound'
<1>1. /\ Peer(r) \in Roles /\ Peer(r) # r /\ Peer(Peer(r)) = r
      /\ \A x \in Roles : x = r \/ x = Peer(r)
      /\ \A x \in Roles : Peer(x) \in Roles /\ Peer(Peer(x)) = x
  BY Peers
<1>2. EndpointTypeOK
  BY DEF TypeOK
<1>3. /\ outbox'[r][s] = outbox[r][s] \o items
      /\ outbox'[Peer(r)][s] = Departed(outbox[Peer(r)][s])
      /\ \A x \in Roles, z \in Streams \ {s} : outbox'[x][z] = outbox[x][z]
  BY <1>2, TakeAndQueueEffect
<1>4. outbox[r][s] \o items \in Seq(Item)
  BY ChannelTypes
<1>5. \A x \in Roles : Alive(x)' => Alive(x)
  BY <1>1
<1>6. \A x \in Roles : Alive(x) \in BOOLEAN /\ Alive(x)' \in BOOLEAN
  BY <1>1 DEF Alive
<1>7. faults \in Nat
  BY LinkAssumption DEF TypeOK
<1>8. ASSUME NEW x \in Roles, NEW z \in Streams \ {s}
      PROVE  ChannelSound(x, z)'
  <2>1. PICK G \in Seq(Nat) : SoundIn(x, z, G)
    BY DEF LinkSound, ChannelSound
  <2>2. outbox[x][z] \in Seq(Item)
    BY ChannelTypes
  <2>3. Sound(x, outbox[x][z], sent[x][z], G, delivered[Peer(x)][z],
              Buffer(Peer(x), z), verdicts[Peer(x)][z], Alive(Peer(x)), faults')
    BY <1>6, <1>7, <1>1, <2>1, <2>2, SoundMonotone DEF SoundIn
  <2>4. Sound(x, outbox[x][z], sent[x][z], G, delivered[Peer(x)][z],
              Buffer(Peer(x), z), verdicts[Peer(x)][z], Alive(Peer(x))', faults')
    BY <1>1, <1>5, <1>6, <2>3, SoundDead
  <2>5. /\ outbox'[x][z] = outbox[x][z] /\ sent'[x][z] = sent[x][z]
        /\ lastTransactionId'[HostOf[x]][z] = lastTransactionId[HostOf[x]][z]
        /\ delivered'[Peer(x)][z] = delivered[Peer(x)][z]
        /\ verdicts'[Peer(x)][z] = verdicts[Peer(x)][z]
        /\ Buffer(Peer(x), z)' = Buffer(Peer(x), z)
    BY <1>1, <1>3 DEF OthersUntouched
  <2>6. SoundIn(x, z, G)'
    BY <2>4, <2>5 DEF SoundIn
  <2> QED
    BY <2>1, <2>5, <2>6 DEF LinkSound, ChannelSound
<1>9. ChannelSound(Peer(r), s)'
  <2>1. PICK H \in Seq(Nat) :
           Sound(Peer(r), Departed(outbox[Peer(r)][s]), sent[Peer(r)][s], H,
                 delivered'[r][s], Buffer(r, s)', verdicts'[r][s],
                 Alive(r)', faults')
    BY DEF ReceivedSound
  <2>2. /\ sent'[Peer(r)][s] = sent[Peer(r)][s]
        /\ lastTransactionId'[HostOf[Peer(r)]][s] = lastTransactionId[HostOf[Peer(r)]][s]
    BY <1>1 DEF OthersUntouched
  <2>3. SoundIn(Peer(r), s, H)'
    BY <1>1, <1>3, <2>1, <2>2 DEF SoundIn
  <2> QED
    BY <1>1, <2>2, <2>3 DEF LinkSound, ChannelSound
<1>10. ChannelSound(r, s)'
  <2>1. PICK H \in Seq(Nat) :
           Sound(r, outbox[r][s] \o items, sent'[r][s], H,
                 delivered[Peer(r)][s], Buffer(Peer(r), s), verdicts[Peer(r)][s],
                 Alive(Peer(r)), faults)
    BY DEF QueuedSound
  <2>2. Sound(r, outbox[r][s] \o items, sent'[r][s], H,
              delivered[Peer(r)][s], Buffer(Peer(r), s), verdicts[Peer(r)][s],
              Alive(Peer(r)), faults')
    <3> DEFINE q == outbox[r][s] \o items
               S == sent'[r][s]
    <3>1. q \in Seq(Item) /\ Alive(Peer(r)) \in BOOLEAN
      BY <1>1, <1>4, <1>6
    <3>2. Sound(r, q, S, H, delivered[Peer(r)][s],
                Buffer(Peer(r), s), verdicts[Peer(r)][s], Alive(Peer(r)), faults)
      BY <2>1
    <3> HIDE DEF q, S
    <3>3. Sound(r, q, S, H, delivered[Peer(r)][s],
                Buffer(Peer(r), s), verdicts[Peer(r)][s], Alive(Peer(r)), faults')
      BY <1>7, <3>1, <3>2, SoundMonotone
    <3> QED
      BY <3>3 DEF q, S
  <2>3. /\ delivered'[Peer(r)][s] = delivered[Peer(r)][s]
        /\ verdicts'[Peer(r)][s] = verdicts[Peer(r)][s]
        /\ Buffer(Peer(r), s)' = Buffer(Peer(r), s)
    BY <1>1 DEF OthersUntouched
  <2>4. SoundIn(r, s, H)'
    BY <1>3, <2>2, <2>3 DEF SoundIn
  <2> QED
    BY <2>4 DEF ChannelSound
<1> QED
  BY <1>1, <1>8, <1>9, <1>10 DEF LinkSound

\* A control ack, or nothing, is queued.
LEMMA AckSound ==
    ASSUME TypeOK, LinkSound, NEW r \in Roles, NEW s \in Streams, NEW p,
           p.transactionId \in TransactionIds, NEW result \in Results,
           NEW items, items = <<>> \/ items = AckItems(r, s, p, result)
    PROVE  /\ items \in Seq(Item)
           /\ QueuedSound(r, s, items, sent[r][s])
<1> DEFINE q == outbox[r][s]
           a == ControlAck(Len(sent[r][s]), p.transactionId, result)
<1>1. PICK H \in Seq(Nat) :
         Sound(r, q, sent[r][s], H, delivered[Peer(r)][s],
               Buffer(Peer(r), s), verdicts[Peer(r)][s], Alive(Peer(r)), faults)
  BY DEF LinkSound, ChannelSound, SoundIn
<1>2. q \in Seq(Item) /\ sent[r][s] \in Seq(Record) /\ Alive(Peer(r)) \in BOOLEAN
  BY ChannelTypes, Peers
<1>3. /\ a \in Item
      /\ Sound(r, Append(q, a), sent[r][s], H, delivered[Peer(r)][s],
               Buffer(Peer(r), s), verdicts[Peer(r)][s], Alive(Peer(r)), faults)
  BY <1>1, <1>2, SoundAck
<1>4. items = <<>> \/ items = <<a>>
  BY DEF AckItems
<1> HIDE DEF q, a
<1>5. q \o <<>> = q /\ q \o <<a>> = Append(q, a)
  BY <1>2, <1>3
<1>6. items \in Seq(Item)
  <2>1. <<>> \in Seq(Item) /\ <<a>> \in Seq(Item)
    BY <1>3
  <2> QED
    BY <1>4, <2>1, Zenon
<1>7. Sound(r, q \o items, sent[r][s], H, delivered[Peer(r)][s],
            Buffer(Peer(r), s), verdicts[Peer(r)][s], Alive(Peer(r)), faults)
  BY <1>1, <1>3, <1>4, <1>5
<1> QED
  BY <1>6, <1>7 DEF q, QueuedSound

-----------------------------------------------------------------------------
(***************************************************************************)
(* Every action keeps the channels sound.                                  *)
(***************************************************************************)
\* The channel on which r receives.
LEMMA Receiving ==
    ASSUME TypeOK, LinkSound, NEW r \in Roles, NEW s \in Streams
    PROVE  /\ outbox[Peer(r)][s] \in Seq(Item) /\ sent[Peer(r)][s] \in Seq(Record)
           /\ delivered[r][s] \in Seq(Nat) /\ Buffer(r, s) \in RxBuffer \cup {NULL}
           /\ verdicts[r][s] \in Seq(Verdict) /\ Alive(r) \in BOOLEAN
           /\ faults \in Nat /\ Peer(r) \in Roles
           /\ \E G \in Seq(Nat) :
                Sound(Peer(r), outbox[Peer(r)][s], sent[Peer(r)][s], G, delivered[r][s],
                      Buffer(r, s), verdicts[r][s], Alive(r), faults)
<1>1. Peer(r) \in Roles /\ Peer(Peer(r)) = r
  BY Peers
<1>2. ChannelSound(Peer(r), s)
  BY <1>1 DEF LinkSound
<1>3. PICK G \in Seq(Nat) : SoundIn(Peer(r), s, G)
  BY <1>2 DEF ChannelSound
<1>4. Sound(Peer(r), outbox[Peer(r)][s], sent[Peer(r)][s], G, delivered[r][s],
            Buffer(r, s), verdicts[r][s], Alive(r), faults)
  BY <1>1, <1>3 DEF SoundIn
<1> QED
  BY <1>1, <1>4, ChannelTypes

\* A packet is taken and nothing else changes, but for the fault or the abort.
LEMMA TakenSound ==
    ASSUME TypeOK, LinkSound, NEW r \in Roles, NEW s \in Streams,
           outbox[Peer(r)][s] # <<>>, TakeAndQueue(r, s, <<>>),
           UNCHANGED <<rxBuffers, lastTransactionId, sent, delivered, verdicts>>,
           Alive(r)' => Alive(r), Alive(Peer(r))' = Alive(Peer(r)),
           Alive(r)' \in BOOLEAN, faults' \in Nat, faults <= faults',
           \E H \in Seq(Nat) :
              Sound(Peer(r), Departed(outbox[Peer(r)][s]), sent[Peer(r)][s], H,
                    delivered[r][s], Buffer(r, s), verdicts[r][s], Alive(r)', faults')
    PROVE  LinkSound'
<1>1. /\ OthersUntouched(r, s)
      /\ lastTransactionId'[HostOf[r]][s] = IdOf(Len(sent'[r][s]))
      /\ sent'[r][s] = sent[r][s] /\ delivered'[r][s] = delivered[r][s]
      /\ verdicts'[r][s] = verdicts[r][s] /\ Buffer(r, s)' = Buffer(r, s)
  BY DEF OthersUntouched, Buffer, LinkSound, ChannelSound
<1>2. <<>> \in Seq(Item) /\ outbox[r][s] \o <<>> = outbox[r][s]
  BY ChannelTypes
<1>3. QueuedSound(r, s, <<>>, sent'[r][s])
  BY <1>1, <1>2 DEF LinkSound, ChannelSound, SoundIn, QueuedSound
<1>4. ReceivedSound(r, s)
  BY <1>1 DEF ReceivedSound
<1> QED
  BY <1>1, <1>2, <1>3, <1>4, ReceiveSound

\* Faults.
LEMMA FaultSound ==
    ASSUME TypeOK, LinkSound, NEW r \in Roles, NEW s \in Streams,
           Lose(r, s) \/ OutOfMemory(r, s)
    PROVE  LinkSound'
<1>1. /\ outbox[Peer(r)][s] # <<>> /\ TakeAndQueue(r, s, <<>>)
      /\ faults' = faults + 1
      /\ UNCHANGED <<rxBuffers, lastTransactionId, aborted, sent, delivered, verdicts>>
  BY DEF Lose, OutOfMemory, Fault, DecodeOutOfMemory, TransactionArrives, Arrives
<1>2. Alive(r)' = Alive(r) /\ Alive(Peer(r))' = Alive(Peer(r))
  BY <1>1 DEF Alive
<1>3. \E H \in Seq(Nat) :
         Sound(Peer(r), Departed(outbox[Peer(r)][s]), sent[Peer(r)][s], H,
               delivered[r][s], Buffer(r, s), verdicts[r][s], Alive(r), faults + 1)
  <2> DEFINE q == outbox[Peer(r)][s]
             S == sent[Peer(r)][s]
             D == delivered[r][s]
             b == Buffer(r, s)
             V == verdicts[r][s]
             alive == Alive(r)
  <2>1. /\ q \in Seq(Item) /\ S \in Seq(Record) /\ D \in Seq(Nat) /\ q # <<>>
        /\ b \in RxBuffer \cup {NULL} /\ V \in Seq(Verdict)
        /\ alive \in BOOLEAN /\ faults \in Nat /\ Peer(r) \in Roles
        /\ \E G \in Seq(Nat) : Sound(Peer(r), q, S, G, D, b, V, alive, faults)
    BY <1>1, Receiving
  <2> HIDE DEF q, S, D, b, V, alive
  <2>2. \E H \in Seq(Nat) :
           Sound(Peer(r), Departed(q), S, H, D, b, V, alive, faults + 1)
    BY <2>1, SoundLost
  <2> QED
    BY <2>2 DEF q, S, D, b, V, alive
<1>4. faults \in Nat /\ Alive(r) \in BOOLEAN
  BY Receiving
<1> QED
  BY <1>1, <1>2, <1>3, <1>4, TakenSound

\* Control packets, stray packets and packets at which an assertion fails.
LEMMA UnheededSound ==
    ASSUME TypeOK, LinkSound, NEW r \in Roles, NEW s \in Streams, UNCHANGED faults,
           DecodeControlPacket(r, s) \/ DecodeStray(r, s) \/ DecodeAborts(r, s)
    PROVE  LinkSound'
<1>1. /\ outbox[Peer(r)][s] # <<>> /\ TakeAndQueue(r, s, <<>>) /\ Alive(r)
      /\ UNCHANGED <<rxBuffers, lastTransactionId, sent, delivered, verdicts>>
  BY DEF DecodeControlPacket, DecodeStray, DecodeAborts, TransactionArrives, Arrives, Alive
<1>2. /\ HostOf[r] # HostOf[Peer(r)]
      /\ HostOf[r] \in Processes /\ HostOf[Peer(r)] \in Processes
      /\ aborted \in [Processes -> BOOLEAN] /\ faults \in Nat
      /\ Alive(r) \in BOOLEAN
  BY Peers, DistinctHosts, Receiving DEF TypeOK, EndpointTypeOK
<1>3. /\ Alive(Peer(r))' = Alive(Peer(r)) /\ Alive(r)' \in BOOLEAN
      /\ Alive(r)' => Buffer(r, s) = NULL \/ ~IsTransaction(outbox[Peer(r)][s][1])
  <2>1. CASE DecodeControlPacket(r, s) \/ DecodeStray(r, s)
    BY <1>2, <2>1 DEF DecodeControlPacket, DecodeStray, Alive, IsStray
  <2>2. CASE DecodeAborts(r, s)
    BY <1>2, <2>2 DEF DecodeAborts, Alive
  <2> QED
    BY <2>1, <2>2
<1>4. \E H \in Seq(Nat) :
         Sound(Peer(r), Departed(outbox[Peer(r)][s]), sent[Peer(r)][s], H,
               delivered[r][s], Buffer(r, s), verdicts[r][s], Alive(r)', faults)
  <2> DEFINE q == outbox[Peer(r)][s]
             S == sent[Peer(r)][s]
             D == delivered[r][s]
             b == Buffer(r, s)
             V == verdicts[r][s]
             alive == Alive(r)
             after == Alive(r)'
  <2>1. /\ q \in Seq(Item) /\ S \in Seq(Record) /\ D \in Seq(Nat) /\ q # <<>>
        /\ b \in RxBuffer \cup {NULL} /\ V \in Seq(Verdict)
        /\ alive \in BOOLEAN /\ faults \in Nat /\ Peer(r) \in Roles
    BY <1>1, Receiving
  <2>2. PICK G \in Seq(Nat) : Sound(Peer(r), q, S, G, D, b, V, alive, faults)
    BY Receiving
  <2>3. after \in BOOLEAN /\ Unheeded(q, b, alive, after)
    BY <1>1, <1>3 DEF Unheeded
  <2> HIDE DEF q, S, D, b, V, alive, after
  <2>4. \E H \in Seq(Nat) :
           Sound(Peer(r), Departed(q), S, H, D, b, V, after, faults)
    BY <2>1, <2>3, <2>2, SoundDropped
  <2> QED
    BY <2>4 DEF q, S, D, b, V, after
<1> QED
  BY <1>1, <1>2, <1>3, <1>4, TakenSound

\* A packet that is given to a reassembly.
LEMMA ReassemblesReceived ==
    ASSUME TypeOK, NEW r \in Roles, NEW s \in Streams, Reassembles(r, s)
    PROVE  LET q == outbox[Peer(r)][s]
           IN  /\ Received(q, Buffer(r, s)) /\ q # <<>> /\ Alive(r)
               /\ Arriving(r, s) = Packet(q[1])
               /\ Arriving(r, s).number = q[1].number
               /\ Arriving(r, s).number \in Nat
               /\ Arriving(r, s).transactionId \in TransactionIds
<1>1. TransactionArrives(r, s) /\ EndpointTypeOK
  BY DEF Reassembles, TypeOK
<1>2. /\ Arriving(r, s) = Packet(outbox[Peer(r)][s][1])
      /\ outbox[Peer(r)][s] # <<>> /\ IsTransaction(outbox[Peer(r)][s][1])
      /\ Arriving(r, s).number \in Nat
      /\ Arriving(r, s).transactionId \in TransactionIds
  BY <1>1, ArrivalType
<1>3. Arriving(r, s).number = outbox[Peer(r)][s][1].number
  BY <1>2 DEF Packet
<1> QED
  BY <1>1, <1>2, <1>3 DEF Received, Reassembles, TransactionArrives, Arrives, Alive

\* The verdict it may be given.
LEMMA RecordVerdictEffect ==
    ASSUME TypeOK, NEW r \in Roles, NEW s \in Streams, NEW p, p.number \in Nat,
           NEW result \in Results, RecordVerdict(r, s, p, result)
    PROVE  /\ [number |-> p.number, result |-> result] \in Verdict
           /\ \/ verdicts'[r][s] = verdicts[r][s]
              \/ verdicts'[r][s] = Append(verdicts[r][s],
                                          [number |-> p.number, result |-> result])
           /\ verdicts'[r][s] \in Seq(Verdict)
           /\ \A x \in Roles, z \in Streams :
                x # r \/ z # s => verdicts'[x][z] = verdicts[x][z]
<1> DEFINE v == [number |-> p.number, result |-> result]
<1>1. verdicts \in [Roles -> [Streams -> Seq(Verdict)]]
  BY DEF TypeOK, EndpointTypeOK, Verdict
<1>2. v \in Verdict
  BY DEF Verdict
<1>3. verdicts' = IF p.ack THEN [verdicts EXCEPT ![r][s] = Append(@, v)] ELSE verdicts
  BY DEF RecordVerdict
<1> HIDE DEF v
<1>4. Append(verdicts[r][s], v) \in Seq(Verdict)
  BY <1>1, <1>2
<1>5. /\ verdicts'[r][s] = verdicts[r][s] \/ verdicts'[r][s] = Append(verdicts[r][s], v)
      /\ \A x \in Roles, z \in Streams :
           x # r \/ z # s => verdicts'[x][z] = verdicts[x][z]
  BY <1>1, <1>3
<1>6. verdicts'[r][s] \in Seq(Verdict)
  BY <1>1, <1>4, <1>5
<1> QED
  BY <1>2, <1>5, <1>6 DEF v

\* A transaction is refused or completed, and items are queued.
Frees(r, s) ==
    Outcome(outbox[Peer(r)][s], delivered[r][s], delivered'[r][s],
            verdicts[r][s], verdicts'[r][s])

LEMMA FreedReceived ==
    ASSUME TypeOK, LinkSound, NEW r \in Roles, NEW s \in Streams,
           UNCHANGED faults, Alive(r)' = Alive(r), Reassembles(r, s),
           Frees(r, s), Buffer(r, s)' = NULL
    PROVE  ReceivedSound(r, s)
<1> DEFINE q == outbox[Peer(r)][s]
           D == delivered[r][s]
           E == delivered'[r][s]
           V == verdicts[r][s]
           W == verdicts'[r][s]
           S == sent[Peer(r)][s]
           b == Buffer(r, s)
           alive == Alive(r)
<1>1. Received(q, b)
  BY ReassemblesReceived
<1>2. /\ q \in Seq(Item) /\ S \in Seq(Record) /\ D \in Seq(Nat)
      /\ b \in RxBuffer \cup {NULL} /\ V \in Seq(Verdict)
      /\ alive \in BOOLEAN /\ faults \in Nat /\ Peer(r) \in Roles
  BY Receiving
<1>3. PICK G \in Seq(Nat) : Sound(Peer(r), q, S, G, D, b, V, alive, faults)
  BY Receiving
<1>4. Outcome(q, D, E, V, W)
  BY DEF Frees
<1> HIDE DEF q, D, E, V, W, S, b, alive
<1>5. \E H \in Seq(Nat) :
         Sound(Peer(r), Departed(q), S, H, E, NULL, W, alive, faults)
  BY <1>1, <1>2, <1>3, <1>4, SoundFreed
<1> QED
  BY <1>5 DEF q, S, E, W, alive, ReceivedSound

LEMMA FreedSound ==
    ASSUME TypeOK, LinkSound, NEW r \in Roles, NEW s \in Streams,
           UNCHANGED <<faults, aborted>>, NEW items \in Seq(Item),
           TakeAndQueue(r, s, items), Reassembles(r, s), Buffer(r, s)' = NULL,
           OthersUntouched(r, s), Frees(r, s), QueuedSound(r, s, items, sent'[r][s]),
           lastTransactionId'[HostOf[r]][s] = IdOf(Len(sent'[r][s]))
    PROVE  LinkSound'
<1>1. Alive(r)' = Alive(r) /\ Alive(Peer(r))' = Alive(Peer(r))
  BY DEF Alive
<1>2. ReceivedSound(r, s)
  BY <1>1, FreedReceived
<1>3. /\ outbox[Peer(r)][s] # <<>> /\ faults' \in Nat /\ faults <= faults'
      /\ (Alive(r)' => Alive(r)) /\ Alive(r)' \in BOOLEAN
  BY <1>1, Receiving, ReassemblesReceived
<1> QED
  BY <1>1, <1>2, <1>3, ReceiveSound

\* A packet is refused.
LEMMA RejectsSound ==
    ASSUME TypeOK, LinkSound, NEW r \in Roles, NEW s \in Streams, UNCHANGED faults,
           DecodeRejects(r, s)
    PROVE  LinkSound'
<1> DEFINE p == Arriving(r, s)
           q == outbox[Peer(r)][s]
           items == AckItems(r, s, p, "FAILURE")
<1>1. /\ Reassembles(r, s) /\ TakeAndQueue(r, s, items)
      /\ RecordVerdict(r, s, p, "FAILURE") /\ SetBuffer(r, s, NULL)
      /\ UNCHANGED <<lastTransactionId, aborted, sent, delivered>>
      /\ "FAILURE" \in Results
  BY DEF DecodeRejects, Results
<1>2. /\ Received(q, Buffer(r, s)) /\ q # <<>> /\ p.number = q[1].number
      /\ p.number \in Nat /\ p.transactionId \in TransactionIds
  BY <1>1, ReassemblesReceived
<1> HIDE DEF p
<1>3. /\ items \in Seq(Item)
      /\ QueuedSound(r, s, items, sent[r][s])
  BY <1>1, <1>2, AckSound
<1> HIDE DEF items
<1>4. /\ Buffer(r, s)' = NULL
      /\ \A x \in Roles, z \in Streams :
           x # r \/ z # s => Buffer(x, z)' = Buffer(x, z)
  BY <1>1, SetOneBuffer DEF TypeOK
<1>5. /\ verdicts'[r][s] \in Seq(Verdict)
      /\ \/ verdicts'[r][s] = verdicts[r][s]
         \/ verdicts'[r][s] = Append(verdicts[r][s],
                                     [number |-> p.number, result |-> "FAILURE"])
      /\ \A x \in Roles, z \in Streams :
           x # r \/ z # s => verdicts'[x][z] = verdicts[x][z]
  BY <1>1, <1>2, RecordVerdictEffect
<1>6. Frees(r, s)
  <2>1. delivered'[r][s] = delivered[r][s] /\ delivered[r][s] \in Seq(Nat)
    BY <1>1, Receiving
  <2> QED
    BY <1>2, <1>5, <2>1 DEF Outcome, Frees
<1>7. /\ OthersUntouched(r, s) /\ sent'[r][s] = sent[r][s]
      /\ lastTransactionId'[HostOf[r]][s] = IdOf(Len(sent'[r][s]))
  BY <1>1, <1>4, <1>5 DEF OthersUntouched, LinkSound, ChannelSound
<1> QED
  BY <1>1, <1>3, <1>4, <1>6, <1>7, FreedSound

\* A packet is appended to its reassembly.
LEMMA AppendsSound ==
    ASSUME TypeOK, LinkSound, NEW r \in Roles, NEW s \in Streams, FewFaults,
           UNCHANGED faults, DecodeAppends(r, s)
    PROVE  LinkSound'
<1> DEFINE q == outbox[Peer(r)][s]
           D == delivered[r][s]
           V == verdicts[r][s]
           S == sent[Peer(r)][s]
           b == Buffer(r, s)
           p == Packet(q[1])
           c == Appended(p, Opened(p, b))
<1>1. /\ Reassembles(r, s) /\ TakeAndQueue(r, s, <<>>)
      /\ Fits(Arriving(r, s), Opened(Arriving(r, s), b))
      /\ ~IsComplete(Appended(Arriving(r, s), Opened(Arriving(r, s), b)))
      /\ SetBuffer(r, s, Appended(Arriving(r, s), Opened(Arriving(r, s), b)))
      /\ UNCHANGED <<lastTransactionId, aborted, sent, delivered, verdicts>>
  BY DEF DecodeAppends
<1>2. /\ Received(q, b) /\ q # <<>> /\ Alive(r) /\ Arriving(r, s) = p
  BY <1>1, ReassemblesReceived
<1>3. Appended(Arriving(r, s), Opened(Arriving(r, s), b)) \in RxBuffer
  BY <1>1, BufferType DEF TypeOK
<1>4. /\ q \in Seq(Item) /\ S \in Seq(Record) /\ D \in Seq(Nat)
      /\ b \in RxBuffer \cup {NULL} /\ V \in Seq(Verdict)
      /\ faults \in Nat /\ Peer(r) \in Roles
      /\ Alive(r) = TRUE
  BY <1>2, Receiving
<1>5. faults < SeqNumModulus /\ faults <= TransactionIdModulus
  BY ChannelTypes, PacketAssumption, LinkAssumption DEF FewFaults
<1>6. PICK G \in Seq(Nat) : Sound(Peer(r), q, S, G, D, b, V, TRUE, faults)
  BY <1>4, Receiving
<1>7. Fits(p, Opened(p, b)) /\ ~IsComplete(c) /\ SetBuffer(r, s, c) /\ c \in RxBuffer
  BY <1>1, <1>2, <1>3, Zenon
<1> HIDE DEF c
<1>8. /\ Buffer(r, s)' = c
      /\ \A x \in Roles, z \in Streams :
           x # r \/ z # s => Buffer(x, z)' = Buffer(x, z)
  BY <1>7, SetOneBuffer DEF TypeOK
<1>9. /\ OthersUntouched(r, s) /\ sent'[r][s] = sent[r][s]
      /\ delivered'[r][s] = D /\ verdicts'[r][s] = V
      /\ lastTransactionId'[HostOf[r]][s] = IdOf(Len(sent'[r][s]))
      /\ Alive(r)' = Alive(r) /\ Alive(Peer(r))' = Alive(Peer(r))
  BY <1>1, <1>8 DEF OthersUntouched, LinkSound, ChannelSound, Alive
<1>10. c = Appended(Packet(q[1]), Opened(Packet(q[1]), b))
  BY DEF c
<1> HIDE DEF q, D, V, S, b
<1>11. \E H \in Seq(Nat) :
          Sound(Peer(r), Departed(q), S, H, D, c, V, TRUE, faults)
  BY <1>2, <1>4, <1>5, <1>6, <1>7, <1>10, SoundAppended
<1>12. ReceivedSound(r, s)
  BY <1>4, <1>8, <1>9, <1>11 DEF ReceivedSound, q, S, D, V
<1>13. <<>> \in Seq(Item) /\ QueuedSound(r, s, <<>>, sent'[r][s])
  <2>1. <<>> \in Seq(Item) /\ outbox[r][s] \o <<>> = outbox[r][s]
    BY ChannelTypes
  <2> QED
    BY <1>9, <2>1 DEF LinkSound, ChannelSound, SoundIn, QueuedSound
<1>14. /\ outbox[Peer(r)][s] # <<>> /\ faults' \in Nat /\ faults <= faults'
       /\ (Alive(r)' => Alive(r)) /\ Alive(Peer(r))' = Alive(Peer(r))
       /\ Alive(r)' \in BOOLEAN
  BY <1>2, <1>4, <1>9 DEF q
<1> QED
  BY <1>1, <1>9, <1>12, <1>13, <1>14, ReceiveSound

\* Role r creates a transaction behind what it has queued.
LEMMA CreationIds ==
    ASSUME TypeOK, LinkSound, NEW r \in Roles, NEW s \in Streams,
           NEW m \in Messages, NEW ack \in BOOLEAN, CreateTransaction(r, s, m, ack)
    PROVE  /\ lastTransactionId'[HostOf[r]][s] = IdOf(Len(sent'[r][s]))
           /\ \A x \in Roles, z \in Streams : x # r \/ z # s =>
                lastTransactionId'[HostOf[x]][z] = lastTransactionId[HostOf[x]][z]
           /\ NewTransaction(r, s, m, ack) =
                Transaction(r, Len(sent[r][s]) + 1, IdOf(Len(sent[r][s]) + 1), m, ack)
<1>1. /\ lastTransactionId \in [Processes -> [Streams -> TransactionIds]]
      /\ \A x \in Roles : HostOf[x] \in Processes
      /\ sent[r][s] \in Seq(Record)
  BY ChannelTypes, Peers DEF TypeOK, EndpointTypeOK
<1>2. NextTransactionId(lastTransactionId[HostOf[r]][s]) = IdOf(Len(sent[r][s]) + 1)
  <2>1. Len(sent[r][s]) \in Nat
    BY <1>1
  <2>2. lastTransactionId[HostOf[r]][s] = IdOf(Len(sent[r][s]))
    BY DEF LinkSound, ChannelSound
  <2> QED
    BY <2>1, <2>2, IdAfter
<1>3. Len(sent'[r][s]) = Len(sent[r][s]) + 1
  <2>1. sent'[r][s] = Append(sent[r][s], [message |-> m, ack |-> ack])
    BY CreateTransactionEffect DEF TypeOK
  <2>2. [message |-> m, ack |-> ack] \in Record
    BY DEF Record
  <2> QED
    BY <1>1, <2>1, <2>2
<1>4. lastTransactionId' = [lastTransactionId EXCEPT ![HostOf[r]][s] =
                              NextTransactionId(lastTransactionId[HostOf[r]][s])]
  BY DEF CreateTransaction
<1>5. lastTransactionId'[HostOf[r]][s] = IdOf(Len(sent'[r][s]))
  BY <1>1, <1>2, <1>3, <1>4
<1>6. ASSUME NEW x \in Roles, NEW z \in Streams, x # r \/ z # s
      PROVE  lastTransactionId'[HostOf[x]][z] = lastTransactionId[HostOf[x]][z]
  <2>1. HostOf[x] # HostOf[r] \/ z # s
    BY <1>6, DistinctHosts
  <2> QED
    BY <1>1, <1>4, <2>1
<1> QED
  BY <1>2, <1>5, <1>6 DEF NewTransaction

LEMMA CreatedSound ==
    ASSUME TypeOK, LinkSound, NEW r \in Roles, NEW s \in Streams,
           NEW m \in Messages, NEW ack \in BOOLEAN, CreateTransaction(r, s, m, ack),
           NEW items \in Seq(Item), QueuedSound(r, s, items, sent[r][s])
    PROVE  /\ Append(items, NewTransaction(r, s, m, ack)) \in Seq(Item)
           /\ QueuedSound(r, s, Append(items, NewTransaction(r, s, m, ack)), sent'[r][s])
<1> DEFINE q == outbox[r][s] \o items
           S == sent[r][s]
           t == NewTransaction(r, s, m, ack)
           D == delivered[Peer(r)][s]
           b == Buffer(Peer(r), s)
           V == verdicts[Peer(r)][s]
           alive == Alive(Peer(r))
<1>1. PICK H \in Seq(Nat) : Sound(r, q, S, H, D, b, V, alive, faults)
  BY DEF QueuedSound
<1>2. /\ t \in Item
      /\ t = Transaction(r, Len(S) + 1, IdOf(Len(S) + 1), m, ack)
      /\ sent'[r][s] = Append(S, [message |-> m, ack |-> ack])
  BY CreationIds, CreateTransactionEffect DEF TypeOK, Item
<1>3. /\ outbox[r][s] \in Seq(Item) /\ q \in Seq(Item)
      /\ S \in Seq(Record) /\ alive \in BOOLEAN
  BY ChannelTypes, Peers
<1> HIDE DEF t
<1>4. Append(items, t) \in Seq(Item) /\ outbox[r][s] \o Append(items, t) = Append(q, t)
  <2> DEFINE Q == outbox[r][s]
  <2>1. Q \in Seq(Item) /\ t \in Item /\ q = Q \o items
    BY <1>2, <1>3
  <2> HIDE DEF q, Q
  <2>2. Append(items, t) \in Seq(Item) /\ Q \o Append(items, t) = Append(Q \o items, t)
    BY <2>1
  <2> QED
    BY <2>1, <2>2 DEF Q
<1> HIDE DEF q, S, D, b, V, alive
<1>5. Sound(r, Append(q, t), Append(S, [message |-> m, ack |-> ack]), H,
            D, b, V, alive, faults)
  BY <1>1, <1>2, <1>3, SoundCreate
<1> QED
  BY <1>1, <1>2, <1>4, <1>5 DEF QueuedSound, t, D, b, V, alive

\* A transaction is complete: what is handed over is the one at the head.
LEMMA CompletesOrigin ==
    ASSUME TypeOK, LinkSound, NEW r \in Roles, NEW s \in Streams, FewFaults,
           DecodeCompletes(r, s)
    PROVE  LET q == outbox[Peer(r)][s]
               p == Arriving(r, s)
               n == q[1].number
           IN  /\ LastPacket(q) /\ n \in Nat /\ n \in 1..Len(sent[Peer(r)][s])
               /\ Origin(r, s, Appended(p, Opened(p, Buffer(r, s))).data) = n
               /\ \E G \in Seq(Nat) :
                    /\ SoundIn(Peer(r), s, G)
                    /\ n = Len(G) + 1
<1> DEFINE q == outbox[Peer(r)][s]
           D == delivered[r][s]
           V == verdicts[r][s]
           S == sent[Peer(r)][s]
           b == Buffer(r, s)
           p == Packet(q[1])
           c == Appended(p, Opened(p, b))
<1>1. /\ Reassembles(r, s)
      /\ Fits(Arriving(r, s), Opened(Arriving(r, s), b))
      /\ IsComplete(Appended(Arriving(r, s), Opened(Arriving(r, s), b)))
  BY CompletesCases
<1>2. /\ Received(q, b) /\ q # <<>> /\ Alive(r) /\ Arriving(r, s) = p
  BY <1>1, ReassemblesReceived
<1>3. /\ q \in Seq(Item) /\ S \in Seq(Record)
      /\ b \in RxBuffer \cup {NULL}
      /\ faults \in Nat /\ Peer(r) \in Roles /\ Peer(Peer(r)) = r
      /\ Alive(r) = TRUE /\ EndpointTypeOK
  BY <1>2, Receiving, Peers DEF TypeOK
<1>4. faults < SeqNumModulus /\ faults <= TransactionIdModulus
  BY ChannelTypes, PacketAssumption, LinkAssumption DEF FewFaults
<1>5. PICK G \in Seq(Nat) : SoundIn(Peer(r), s, G)
  BY <1>3 DEF LinkSound, ChannelSound
<1>6. Sound(Peer(r), q, sent[Peer(r)][s], G, D, b, V, TRUE, faults)
  BY <1>3, <1>5 DEF SoundIn
<1>7. Completing(q, b, c)
  BY <1>1, <1>2 DEF Completing
<1>8. /\ Sound(Peer(r), outbox[Peer(r)][s], sent[Peer(r)][s], G, D, b, V, TRUE, faults)
      /\ Completing(outbox[Peer(r)][s], b, c)
  BY <1>6, <1>7
<1>9. Appended(Arriving(r, s), Opened(Arriving(r, s), b)) = c
  BY <1>2
<1> HIDE DEF D, V, S, b, p, c
<1>10. /\ LastPacket(q) /\ q[1] \in TransactionItem
       /\ Origin(r, s, c.data) = q[1].number
       /\ q[1].number \in 1..Len(sent[Peer(r)][s])
       /\ q[1].number = Len(G) + 1
  BY <1>3, <1>4, <1>8, FittingOrigin
<1> HIDE DEF q
<1>11. q[1].number \in Nat
  BY <1>10 DEF TransactionItem
<1>12. Origin(r, s, Appended(Arriving(r, s), Opened(Arriving(r, s), b)).data) = q[1].number
  BY <1>9, <1>10
<1> QED
  BY <1>5, <1>10, <1>11, <1>12 DEF q, b

LEMMA CompletesSound ==
    ASSUME TypeOK, LinkSound, NEW r \in Roles, NEW s \in Streams, FewFaults,
           UNCHANGED faults, DecodeCompletes(r, s)
    PROVE  LinkSound'
<1> DEFINE p == Arriving(r, s)
           b == Appended(p, Opened(p, Buffer(r, s)))
           n == outbox[Peer(r)][s][1].number
           acks == SuccessAck(r, s, p)
<1>1. /\ Reassembles(r, s) /\ SetBuffer(r, s, NULL) /\ RecordSuccess(r, s, p)
      /\ delivered' = [delivered EXCEPT ![r][s] = Append(@, Origin(r, s, b.data))]
      /\ UNCHANGED aborted
      /\ \/ TakeAndQueue(r, s, acks) /\ UNCHANGED <<lastTransactionId, sent>>
         \/ \E a \in Messages :
              /\ CreateTransaction(r, s, a, FALSE)
              /\ TakeAndQueue(r, s, Append(acks, NewTransaction(r, s, a, FALSE)))
  BY CompletesCases
<1>2. /\ LastPacket(outbox[Peer(r)][s]) /\ n \in Nat /\ Origin(r, s, b.data) = n
  BY CompletesOrigin
<1>3. p.number = n /\ p.transactionId \in TransactionIds /\ "SUCCESS" \in Results
  BY <1>1, ReassemblesReceived DEF Results
<1>4. acks = <<>> \/ acks = AckItems(r, s, p, "SUCCESS")
  BY DEF SuccessAck
<1> HIDE DEF p, b, n, acks
<1>5. acks \in Seq(Item) /\ QueuedSound(r, s, acks, sent[r][s])
  BY <1>3, <1>4, AckSound
<1>6. /\ verdicts'[r][s] \in Seq(Verdict)
      /\ \/ verdicts'[r][s] = verdicts[r][s]
         \/ verdicts'[r][s] = Append(verdicts[r][s],
                                     [number |-> n, result |-> "SUCCESS"])
      /\ \A x \in Roles, z \in Streams :
           x # r \/ z # s => verdicts'[x][z] = verdicts[x][z]
  <2>1. CASE UNCHANGED verdicts
    BY <2>1, Receiving
  <2>2. CASE RecordVerdict(r, s, p, "SUCCESS")
    BY <1>2, <1>3, <2>2, RecordVerdictEffect
  <2> QED
    BY <1>1, <2>1, <2>2 DEF RecordSuccess
<1>7. /\ delivered'[r][s] = Append(delivered[r][s], n)
      /\ delivered'[r][s] \in Seq(Nat)
      /\ \A x \in Roles, z \in Streams :
           x # r \/ z # s => delivered'[x][z] = delivered[x][z]
  <2>1. delivered \in [Roles -> [Streams -> Seq(Nat)]]
    BY DEF TypeOK, EndpointTypeOK
  <2>2. Append(delivered[r][s], n) \in Seq(Nat)
    BY <1>2, <2>1
  <2> QED
    BY <1>1, <1>2, <2>1, <2>2
<1>8. Frees(r, s)
  BY <1>2, <1>6, <1>7 DEF Outcome, Frees, n
<1>9. /\ Buffer(r, s)' = NULL
      /\ \A x \in Roles, z \in Streams :
           x # r \/ z # s => Buffer(x, z)' = Buffer(x, z)
  BY <1>1, SetOneBuffer DEF TypeOK
<1>10. CASE TakeAndQueue(r, s, acks) /\ UNCHANGED <<lastTransactionId, sent>>
  <2>1. /\ OthersUntouched(r, s)
        /\ lastTransactionId'[HostOf[r]][s] = IdOf(Len(sent'[r][s]))
        /\ QueuedSound(r, s, acks, sent'[r][s])
    BY <1>5, <1>6, <1>7, <1>9, <1>10 DEF OthersUntouched, LinkSound, ChannelSound
  <2> QED
    BY <1>1, <1>5, <1>8, <1>9, <1>10, <2>1, FreedSound
<1>11. ASSUME NEW a \in Messages, CreateTransaction(r, s, a, FALSE),
              TakeAndQueue(r, s, Append(acks, NewTransaction(r, s, a, FALSE)))
       PROVE  LinkSound'
  <2> DEFINE items == Append(acks, NewTransaction(r, s, a, FALSE))
  <2>1. items \in Seq(Item) /\ QueuedSound(r, s, items, sent'[r][s])
    BY <1>5, <1>11, CreatedSound
  <2>2. lastTransactionId'[HostOf[r]][s] = IdOf(Len(sent'[r][s]))
    BY <1>11, CreationIds
  <2>3. OthersUntouched(r, s)
    <3>1. \A x \in Roles, z \in Streams :
             x # r \/ z # s => sent'[x][z] = sent[x][z]
      BY <1>11, CreateTransactionEffect DEF TypeOK
    <3>2. \A x \in Roles, z \in Streams : x # r \/ z # s =>
             lastTransactionId'[HostOf[x]][z] = lastTransactionId[HostOf[x]][z]
      BY <1>11, CreationIds
    <3> QED
      BY <1>6, <1>7, <1>9, <3>1, <3>2 DEF OthersUntouched
  <2>4. TakeAndQueue(r, s, items)
    BY <1>11
  <2> HIDE DEF items
  <2> QED
    BY <1>1, <1>8, <1>9, <2>1, <2>2, <2>3, <2>4, FreedSound
<1> QED
  BY <1>1, <1>10, <1>11

LEMMA CreateSound ==
    ASSUME TypeOK, LinkSound, NEW r \in Roles, NEW s \in Streams, UNCHANGED faults,
           NEW m \in Messages, NEW ack \in BOOLEAN, Create(r, s, m, ack)
    PROVE  LinkSound'
<1>1. EndpointTypeOK /\ CreateTransaction(r, s, m, ack)
  BY DEF TypeOK, Create
<1>2. UNCHANGED <<rxBuffers, aborted, delivered, verdicts, faults>>
  BY DEF Create
<1> DEFINE new == NewTransaction(r, s, m, ack)
<1>3. /\ outbox'[r][s] = Append(outbox[r][s], new)
      /\ \A x \in Roles, z \in Streams :
           x # r \/ z # s => /\ outbox'[x][z] = outbox[x][z]
                             /\ sent'[x][z] = sent[x][z]
  <2>1. /\ outbox \in [Roles -> [Streams -> Seq(TransactionItem \cup AckItem)]]
        /\ outbox' = [outbox EXCEPT ![r][s] = Append(outbox[r][s], new)]
    BY <1>1 DEF EndpointTypeOK, Create
  <2>2. \A x \in Roles, z \in Streams :
           x # r \/ z # s => sent'[x][z] = sent[x][z]
    BY <1>1 DEF EndpointTypeOK, CreateTransaction
  <2> HIDE DEF new
  <2> QED
    BY <2>1, <2>2
<1>4. /\ lastTransactionId'[HostOf[r]][s] = IdOf(Len(sent'[r][s]))
      /\ \A x \in Roles, z \in Streams : x # r \/ z # s =>
           lastTransactionId'[HostOf[x]][z] = lastTransactionId[HostOf[x]][z]
  BY <1>1, CreationIds
<1>5. /\ <<>> \in Seq(Item) /\ outbox[r][s] \o <<>> = outbox[r][s]
      /\ Append(<<>>, new) = <<new>> /\ outbox[r][s] \in Seq(Item)
  BY ChannelTypes
<1>6. QueuedSound(r, s, <<>>, sent[r][s])
  BY <1>5 DEF LinkSound, ChannelSound, SoundIn, QueuedSound
<1>7. new \in Item
  BY <1>1, CreateTransactionEffect DEF Item
<1>8. QueuedSound(r, s, <<new>>, sent'[r][s])
  <2>1. QueuedSound(r, s, Append(<<>>, new), sent'[r][s])
    BY <1>1, <1>5, <1>6, CreatedSound
  <2> QED
    BY <1>5, <2>1
<1> HIDE DEF new
<1>9. outbox[r][s] \o <<new>> = outbox'[r][s]
  BY <1>3, <1>5, <1>7
<1>10. /\ \A x \in Roles, z \in Streams :
            /\ delivered'[Peer(x)][z] = delivered[Peer(x)][z]
            /\ Buffer(Peer(x), z)' = Buffer(Peer(x), z)
            /\ verdicts'[Peer(x)][z] = verdicts[Peer(x)][z]
            /\ Alive(Peer(x))' = Alive(Peer(x))
       /\ faults' = faults
  BY <1>2 DEF Buffer, Alive
<1>11. ASSUME NEW x \in Roles, NEW z \in Streams
       PROVE  ChannelSound(x, z)'
  <2>1. CASE x = r /\ z = s
    <3>1. PICK H \in Seq(Nat) :
             Sound(r, outbox'[r][s], sent'[r][s], H, delivered[Peer(r)][s],
                   Buffer(Peer(r), s), verdicts[Peer(r)][s],
                   Alive(Peer(r)), faults)
      BY <1>8, <1>9 DEF QueuedSound
    <3>2. SoundIn(r, s, H)'
      BY <1>10, <3>1 DEF SoundIn
    <3> QED
      BY <1>4, <2>1, <3>2 DEF ChannelSound
  <2>2. CASE x # r \/ z # s
    <3>1. PICK H \in Seq(Nat) : SoundIn(x, z, H)
      BY DEF LinkSound, ChannelSound
    <3>2. SoundIn(x, z, H)'
      BY <1>3, <1>10, <2>2, <3>1 DEF SoundIn
    <3>3. /\ lastTransactionId[HostOf[x]][z] = IdOf(Len(sent[x][z]))
          /\ sent'[x][z] = sent[x][z]
          /\ lastTransactionId'[HostOf[x]][z] = lastTransactionId[HostOf[x]][z]
      BY <1>3, <1>4, <2>2 DEF LinkSound, ChannelSound
    <3> QED
      BY <3>2, <3>3 DEF ChannelSound
  <2> QED
    BY <2>1, <2>2
<1> QED
  BY <1>11 DEF LinkSound

LEMMA SendsSound ==
    ASSUME TypeOK, LinkSound, NEW s \in Streams, EchoSends(s)
    PROVE  LinkSound'
<1>1. PICK m \in Messages, ack \in BOOLEAN : Create(Echo, s, m, ack)
  BY EchoSendsCreates
<1>2. Echo \in Roles /\ UNCHANGED faults
  BY DEF Roles, EchoSends
<1> QED
  BY <1>1, <1>2, CreateSound

LEMMA InitSound ==
    ASSUME Init
    PROVE  LinkSound
<1> SUFFICES ASSUME NEW x \in Roles, NEW s \in Streams
             PROVE  ChannelSound(x, s)
  BY DEF LinkSound
<1>1. /\ outbox[x][s] = <<>> /\ sent[x][s] = <<>> /\ delivered[Peer(x)][s] = <<>>
      /\ Buffer(Peer(x), s) = NULL /\ verdicts[Peer(x)][s] = <<>>
      /\ lastTransactionId[HostOf[x]][s] = TransactionIdModulus - 1
  BY Peers DEF Init, InitEndpoints, Buffer
<1>2. Sound(x, <<>>, <<>>, <<>>, <<>>, NULL, <<>>, Alive(Peer(x)), faults)
  BY DEF Sound, ChannelInOrder, Numbered, HandedOver, Held, Judged
<1>3. <<>> \in Seq(Nat) /\ Len(<<>>) = 0
  OBVIOUS
<1>4. SoundIn(x, s, <<>>)
  BY <1>1, <1>2 DEF SoundIn
<1>5. lastTransactionId[HostOf[x]][s] = IdOf(Len(sent[x][s]))
  BY <1>1, <1>3, FirstId
<1> QED
  BY <1>3, <1>4, <1>5 DEF ChannelSound

LEMMA StepSound ==
    ASSUME FewFaults, LossInv, [Next]_vars
    PROVE  LossInv'
<1>1. TypeOK /\ LinkSound /\ TypeOK'
  BY StepType DEF LossInv
<1>2. ASSUME NEW s \in Streams, EchoSends(s)
      PROVE  LinkSound'
  BY <1>1, <1>2, SendsSound
<1>3. ASSUME NEW r \in Roles, NEW s \in Streams, Deliver(r, s)
      PROVE  LinkSound'
  BY <1>1, <1>3, UnheededSound, RejectsSound, AppendsSound, CompletesSound
     DEF Deliver, DecodePacket
<1>4. ASSUME NEW r \in Roles, NEW s \in Streams, Lose(r, s) \/ OutOfMemory(r, s)
      PROVE  LinkSound'
  BY <1>1, <1>4, FaultSound
<1>5. CASE UNCHANGED vars
  <2>1. UNCHANGED <<outbox, rxBuffers, lastTransactionId, aborted,
                    sent, delivered, verdicts, faults>>
    BY <1>5 DEF vars, endpointVars
  <2>2. ASSUME NEW x \in Roles, NEW z \in Streams
        PROVE  ChannelSound(x, z)'
    <3>1. PICK G \in Seq(Nat) : SoundIn(x, z, G)
      BY <1>1 DEF LinkSound, ChannelSound
    <3>2. Buffer(Peer(x), z)' = Buffer(Peer(x), z) /\ Alive(Peer(x))' = Alive(Peer(x))
      BY <2>1 DEF Buffer, Alive
    <3>3. SoundIn(x, z, G)'
      BY <2>1, <3>1, <3>2 DEF SoundIn
    <3> QED
      BY <1>1, <2>1, <3>3 DEF LinkSound, ChannelSound
  <2> QED
    BY <1>1, <2>2 DEF LinkSound, LossInv
<1> QED
  BY <1>1, <1>2, <1>3, <1>4, <1>5 DEF Next, LossInv

LEMMA LossInductive == FewFaults => (Spec => []LossInv)
<1> SUFFICES ASSUME FewFaults
             PROVE  Spec => []LossInv
  OBVIOUS
<1>1. Init => LossInv
  BY InitType, InitSound, LinkAssumption DEF Init, LossInv, TypeOK
<1>2. LossInv /\ [Next]_vars => LossInv'
  BY StepSound
<1> QED
  BY <1>1, <1>2, PTL DEF Spec

-----------------------------------------------------------------------------
(***************************************************************************)
(* What follows.                                                           *)
(***************************************************************************)
(***************************************************************************)
(* Few faults: the handlers are given whole transactions of the peer, each *)
(* at most once and in the order they were created; the bytes of two are   *)
(* never joined.                                                           *)
(***************************************************************************)
THEOREM LossyDeliveredWhole == FewFaults => (Spec => []DeliveredWhole)
<1> SUFFICES ASSUME FewFaults
             PROVE  Spec => []DeliveredWhole
  OBVIOUS
<1>1. LossInv => DeliveredWhole
  <2> SUFFICES ASSUME LossInv, NEW r \in Roles, NEW s \in Streams
               PROVE  LET D == delivered[r][s]
                      IN  /\ \A i \in 1..Len(D) : D[i] # 0
                          /\ \A i \in 1..Len(D) - 1 : D[i] < D[i + 1]
    BY DEF DeliveredWhole
  <2>1. PICK G \in Seq(Nat) : HandedOver(G, delivered[r][s])
    BY Receiving DEF LossInv, Sound
  <2> QED
    BY <2>1 DEF HandedOver
<1> QED
  BY <1>1, LossInductive, PTL

(***************************************************************************)
(* Few faults: a control ack tells the truth, and there is at most one.    *)
(***************************************************************************)
THEOREM LossyVerdictsTruthful == FewFaults => (Spec => []VerdictsTruthful)
<1> SUFFICES ASSUME FewFaults
             PROVE  Spec => []VerdictsTruthful
  OBVIOUS
<1>1. LossInv => VerdictsTruthful
  <2> SUFFICES ASSUME LossInv, NEW r \in Roles, NEW s \in Streams, NEW n
               PROVE  /\ \A i, j \in VerdictsOn(r, s, n) : i = j
                      /\ \A i \in VerdictsOn(r, s, n) :
                            (verdicts[r][s][i].result = "SUCCESS")
                              <=> (\E k \in 1..Len(delivered[r][s]) :
                                      delivered[r][s][k] = n)
    BY DEF VerdictsTruthful
  <2> DEFINE V == verdicts[r][s]
             D == delivered[r][s]
  <2>1. V \in Seq(Verdict)
    BY Receiving DEF LossInv
  <2>2. /\ \A i, j \in 1..Len(V) : i < j => V[i].number < V[j].number
        /\ \A i \in 1..Len(V) :
             V[i].result = "SUCCESS" <=> \E k \in 1..Len(D) : D[k] = V[i].number
    BY Receiving DEF LossInv, Sound, Judged
  <2>3. \A i \in VerdictsOn(r, s, n) : i \in 1..Len(V) /\ V[i].number = n
    BY DEF VerdictsOn
  <2>4. \A i \in 1..Len(V) : V[i].number \in Nat
    <3>1. \A i \in 1..Len(V) : V[i] \in Verdict
      BY <2>1
    <3> QED
      BY <3>1 DEF Verdict
  <2> HIDE DEF V, D
  <2>5. ASSUME NEW i \in VerdictsOn(r, s, n), NEW j \in VerdictsOn(r, s, n), i # j
        PROVE  FALSE
    <3>1. /\ i \in 1..Len(V) /\ j \in 1..Len(V) /\ Len(V) \in Nat
          /\ V[i].number = n /\ V[j].number = n /\ n \in Nat
      BY <2>1, <2>3, <2>4
    <3>2. i < j \/ j < i
      BY <2>5, <3>1
    <3>3. n < n
      BY <2>2, <3>1, <3>2
    <3> QED
      BY <3>1, <3>3
  <2> QED
    BY <2>2, <2>3, <2>5 DEF V, D
<1> QED
  BY <1>1, LossInductive, PTL

\* With few faults the last packet of a transaction is never appended to an
\* unfinished reassembly.
LEMMA LastCompletes ==
    ASSUME TypeOK, LinkSound, NEW r \in Roles, NEW s \in Streams, FewFaults,
           LastPacket(outbox[Peer(r)][s])
    PROVE  ~DecodeAppends(r, s)
<1> SUFFICES ASSUME DecodeAppends(r, s)
             PROVE  FALSE
  OBVIOUS
<1> DEFINE q == outbox[Peer(r)][s]
           S == sent[Peer(r)][s]
           D == delivered[r][s]
           V == verdicts[r][s]
           b == Buffer(r, s)
<1>1. /\ Reassembles(r, s)
      /\ Fits(Arriving(r, s), Opened(Arriving(r, s), b))
      /\ ~IsComplete(Appended(Arriving(r, s), Opened(Arriving(r, s), b)))
  BY DEF DecodeAppends
<1>2. /\ Received(q, b) /\ q # <<>> /\ Alive(r) /\ Arriving(r, s) = Packet(q[1])
  BY <1>1, ReassemblesReceived
<1>3. /\ q \in Seq(Item) /\ S \in Seq(Record)
      /\ b \in RxBuffer \cup {NULL} /\ faults \in Nat /\ Peer(r) \in Roles
      /\ Alive(r) = TRUE
  BY <1>2, Receiving
<1>4. faults < SeqNumModulus /\ faults <= TransactionIdModulus
  BY ChannelTypes, PacketAssumption, LinkAssumption DEF FewFaults
<1>5. PICK G \in Seq(Nat) : Sound(Peer(r), q, S, G, D, b, V, TRUE, faults)
  BY <1>3, Receiving
<1>6. /\ Fits(Packet(q[1]), Opened(Packet(q[1]), b))
      /\ ~IsComplete(Appended(Packet(q[1]), Opened(Packet(q[1]), b)))
  BY <1>1, <1>2
<1>7. LastPacket(q)
  OBVIOUS
<1> HIDE DEF q, S, D, V, b
<1>8. Opened(Packet(q[1]), b) = Reassembly(q[1])
  BY <1>2, <1>3, <1>4, <1>5, <1>6, FittingInStep
<1>9. q[1] \in TransactionItem /\ PayloadOf(q[1]) = RemainingSize(q[1])
  <2>1. IsTransaction(q[1]) /\ q[1] \in Item
    BY <1>2, <1>3 DEF Received
  <2> QED
    BY <1>7, <2>1, ItemCases DEF LastPacket
<1> QED
  BY <1>6, <1>8, <1>9, AppendedInStep

(***************************************************************************)
(* Few faults: although decodePacket never looks at the type FINAL, the    *)
(* last packet of a transaction leaves no reassembly behind.               *)
(***************************************************************************)
THEOREM LossyLastPacketFrees == FewFaults => (Spec => LastPacketFrees)
<1> SUFFICES ASSUME FewFaults
             PROVE  Spec => LastPacketFrees
  OBVIOUS
<1> DEFINE Freed(r, s) == LastPacketArrives(r, s) /\ ~aborted'[HostOf[r]]
                            => rxBuffers'[HostOf[r]][s] = NULL
<1>1. ASSUME LossInv, NEW r \in Roles, NEW s \in Streams
      PROVE  Freed(r, s)
  <2> SUFFICES ASSUME LastPacketArrives(r, s), ~aborted'[HostOf[r]]
               PROVE  rxBuffers'[HostOf[r]][s] = NULL
    OBVIOUS
  <2>1. /\ TypeOK /\ LinkSound /\ EndpointTypeOK /\ HostOf[r] \in Processes
        /\ DecodePacket(r, s) /\ IsTransaction(outbox[Peer(r)][s][1])
        /\ LastPacket(outbox[Peer(r)][s])
    <3>1. EndpointTypeOK /\ TypeOK /\ LinkSound
      BY <1>1 DEF LossInv, TypeOK
    <3>2. /\ DecodePacket(r, s) /\ IsTransaction(outbox[Peer(r)][s][1])
          /\ LastPacket(outbox[Peer(r)][s])
      BY DEF LastPacketArrives, Deliver
    <3> QED
      BY <3>1, <3>2, Peers
  <2>2. ~DecodeControlPacket(r, s) /\ ~DecodeAppends(r, s)
    BY <2>1, LastCompletes DEF DecodeControlPacket
  <2>3. CASE DecodeStray(r, s)
    BY <2>3 DEF DecodeStray, IsStray, Buffer
  <2>4. CASE DecodeAborts(r, s)
    BY <2>1, <2>4 DEF DecodeAborts, EndpointTypeOK
  <2>5. CASE DecodeRejects(r, s) \/ DecodeCompletes(r, s)
    <3>1. SetBuffer(r, s, NULL)
      BY <2>5, CompletesCases DEF DecodeRejects
    <3>2. Buffer(r, s)' = NULL
      BY <2>1, <3>1, SetOneBuffer
    <3> QED
      BY <3>2 DEF Buffer
  <2> QED
    BY <2>1, <2>2, <2>3, <2>4, <2>5 DEF DecodePacket
<1>2. LossInv => [\A r \in Roles, s \in Streams : Freed(r, s)]_vars
  BY <1>1
<1> QED
  BY <1>2, LossInductive, PTL DEF LastPacketFrees

-----------------------------------------------------------------------------
(***************************************************************************)
(* The refinement with faults: what is handed over comes after all that    *)
(* was handed over before, numbers are skipped for what was lost.          *)
(***************************************************************************)
LEMMA CompletesInOrder ==
    ASSUME MaxFaults > 0, FewFaults, TypeOK, LinkSound,
           NEW r \in Roles, NEW s \in Streams, DecodeCompletes(r, s)
    PROVE  HandedOverNext(r, s, outbox[Peer(r)][s][1].number)
<1> DEFINE n == outbox[Peer(r)][s][1].number
           D == delivered[r][s]
<1>1. /\ n \in 1..Len(sent[Peer(r)][s])
      /\ Origin(r, s, Appended(Arriving(r, s),
                               Opened(Arriving(r, s), Buffer(r, s))).data) = n
  BY CompletesOrigin
<1>2. PICK G \in Seq(Nat) : SoundIn(Peer(r), s, G) /\ n = Len(G) + 1
  BY CompletesOrigin
<1>3. HandedOver(G, D) /\ D \in Seq(Nat)
  BY <1>2, Peers, Receiving DEF SoundIn, Sound
<1>4. delivered' = [delivered EXCEPT ![r][s] = Append(@, n)]
  BY <1>1, CompletesCases
<1>5. LastHanded(r, s) = IF D = <<>> THEN 0 ELSE D[Len(D)]
  BY DEF LastHanded
<1> HIDE DEF n, D
<1>6. LastHanded(r, s) \in Nat /\ LastHanded(r, s) < n
  BY <1>2, <1>3, <1>5 DEF HandedOver
<1> QED
  BY <1>1, <1>4, <1>6 DEF HandedOverNext, n

(***************************************************************************)
(* Few faults, some or none: the packet layer (tx.c, rx.c) implements      *)
(* StreamDelivery, each role is handed messages of the other in the order  *)
(* of their creation, none twice, and skips some only if packets may be    *)
(* lost.                                                                   *)
(***************************************************************************)
THEOREM LossyImplementsDelivery == FewFaults => (Spec => ImplementsDelivery)
<1> SUFFICES ASSUME FewFaults
             PROVE  Spec => ImplementsDelivery
  OBVIOUS
<1>1. CASE MaxFaults = 0
  BY <1>1, LinkImplementsDelivery
<1>2. CASE MaxFaults > 0
  <2>1. ASSUME LossInv, [Next]_vars
        PROVE  [Delivery!Next]_Delivery!vars
    <3>1. EndpointTypeOK /\ TypeOK /\ LinkSound
      BY <2>1 DEF LossInv, TypeOK
    <3>2. ASSUME NEW r \in Roles, NEW s \in Streams, DecodeCompletes(r, s)
          PROVE  Delivery!Next
      <4>1. HandedOverNext(r, s, outbox[Peer(r)][s][1].number)
        BY <1>2, <3>1, <3>2, CompletesInOrder
      <4> QED
        BY <3>1, <3>2, <4>1, HandingRefines
    <3> QED
      BY <2>1, <3>1, <3>2, StepRefines
  <2> QED
    BY <2>1, InitRefines, LossInductive, PTL
       DEF Spec, ImplementsDelivery, Delivery!Spec
<1>3. MaxFaults = 0 \/ MaxFaults > 0
  BY LinkAssumption
<1> QED
  BY <1>1, <1>2, <1>3

-----------------------------------------------------------------------------
(***************************************************************************)
(* Answers: lost or not, what is handed over is whole, so that each role   *)
(* makes of it what the other meant.                                       *)
(***************************************************************************)
AnswerInv == LossInv /\ \A s \in Streams : Exchange(s)

LEMMA PacketAnswers ==
    ASSUME FewFaults, AnswerInv, NEW r \in Roles, NEW s \in Streams,
           DecodePacket(r, s)
    PROVE  /\ \A z \in Streams : Exchange(z)'
           /\ r = Echo => outbox'[Echo] = outbox[Echo] /\ UNCHANGED sent
<1>1. TypeOK /\ LinkSound /\ EndpointTypeOK /\ \A z \in Streams : Exchange(z)
  BY DEF AnswerInv, LossInv, TypeOK
<1>2. ASSUME DecodeCompletes(r, s)
      PROVE  Origin(r, s, Appended(Arriving(r, s),
                                   Opened(Arriving(r, s), Buffer(r, s))).data) # 0
  <2>1. \E n \in 1..Len(sent[Peer(r)][s]) :
           Origin(r, s, Appended(Arriving(r, s),
                                 Opened(Arriving(r, s), Buffer(r, s))).data) = n
    BY <1>1, <1>2, CompletesOrigin
  <2> QED
    BY <2>1
<1> QED
  BY <1>1, <1>2, PacketExchange

LEMMA StepAnswers ==
    ASSUME FewFaults, AnswerInv, [Next]_vars
    PROVE  AnswerInv'
<1>1. /\ EndpointTypeOK /\ LossInv' /\ \A z \in Streams : Exchange(z)
  BY StepSound DEF AnswerInv, LossInv, TypeOK
<1>2. ASSUME NEW s \in Streams, EchoSends(s)
      PROVE  \A z \in Streams : Exchange(z)'
  <2>1. PICK m \in EchoMessages(s), ack \in BOOLEAN : Create(Echo, s, m, ack)
    BY <1>2 DEF EchoSends, AckFlags
  <2>2. m \in Messages
    BY DEF EchoMessages, Streams, Messages
  <2> QED
    BY <1>1, <2>1, <2>2, CreateExchange
<1>3. ASSUME NEW r \in Roles, NEW s \in Streams, Deliver(r, s)
      PROVE  \A z \in Streams : Exchange(z)'
  BY <1>3, PacketAnswers DEF Deliver
<1>4. ASSUME NEW r \in Roles, NEW s \in Streams, Lose(r, s) \/ OutOfMemory(r, s)
      PROVE  \A z \in Streams : Exchange(z)'
  <2>1. /\ outbox[Peer(r)][s] # <<>> /\ TakeAndQueue(r, s, <<>>)
        /\ UNCHANGED <<sent, delivered>>
    BY <1>4 DEF Lose, OutOfMemory, DecodeOutOfMemory, TransactionArrives, Arrives
  <2> QED
    BY <1>1, <2>1, NothingQueued, NoneAsksNoAck, TakenExchange
<1>5. CASE UNCHANGED vars
  <2>1. UNCHANGED <<outbox, sent, delivered>>
    BY <1>5 DEF vars, endpointVars
  <2> QED
    BY <1>1, <2>1 DEF Exchange, AnswerInv
<1> QED
  BY <1>1, <1>2, <1>3, <1>4, <1>5 DEF Next, AnswerInv

LEMMA AnswersInductive == FewFaults => (Spec => []AnswerInv)
<1> SUFFICES ASSUME FewFaults
             PROVE  Spec => []AnswerInv
  OBVIOUS
<1>1. Init => AnswerInv
  BY InitType, InitSound, InitExchange, LinkAssumption
     DEF Init, AnswerInv, LossInv, TypeOK
<1>2. AnswerInv /\ [Next]_vars => AnswerInv'
  BY StepAnswers
<1> QED
  BY <1>1, <1>2, PTL DEF Spec

(***************************************************************************)
(* Few faults: the gadget's k-th message of a stream answers the k-th      *)
(* message it was handed there, whatever was lost between.                 *)
(***************************************************************************)
THEOREM LossyAnswersMatch == FewFaults => (Spec => []AnswersMatch)
<1> SUFFICES ASSUME FewFaults
             PROVE  Spec => []AnswersMatch
  OBVIOUS
<1>1. AnswerInv => AnswersMatch
  BY DEF AnswerInv, Exchange, Answering, AnswerTo, AnswersMatch
<1> QED
  BY <1>1, AnswersInductive, PTL

(***************************************************************************)
(* Few faults: no packet of the gadget makes the Echo device answer.       *)
(***************************************************************************)
THEOREM LossyEchoNeverAnswers == FewFaults => (Spec => EchoNeverAnswers)
<1> SUFFICES ASSUME FewFaults
             PROVE  Spec => EchoNeverAnswers
  OBVIOUS
<1>1. AnswerInv => [\A r \in Roles, s \in Streams :
                       Deliver(Echo, s) => outbox'[Echo] = outbox[Echo]]_vars
  BY PacketAnswers, TheRoles DEF Deliver
<1> QED
  BY <1>1, AnswersInductive, PTL DEF EchoNeverAnswers
==============================================================================
