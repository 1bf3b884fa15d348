------------------------------ MODULE BleLink ------------------------------
(***************************************************************************)
(* An Echo device and a gadget, each a BleEndpoint, joined by a BLE link.  *)
(* The link keeps the order of the packets of one stream, interleaves the  *)
(* streams freely (rx.c keeps one reassembly per stream for that reason)   *)
(* and may lose up to MaxFaults packets.  A failed malloc of a list node   *)
(* (PacketList_addToTail) or of a control ack loses one packet as well, so *)
(* that losing a packet stands for those too; a failed malloc of a         *)
(* reassembly buffer is a fault with an action of its own.                 *)
(***************************************************************************)
EXTENDS BleEndpoint

CONSTANTS
    MaxSent,    \* MaxSent[s]: bound on what the Echo device sends on stream s
    MaxFaults   \* bound on lost packets and failed allocations

VARIABLES faults    \* how many there were so far

vars == <<endpointVars, faults>>

ASSUME LinkAssumption ==
    /\ HostOf[Echo] # HostOf[Gadget]
    /\ MaxSent \in [Streams -> Nat]
    /\ MaxFaults \in Nat

Init == InitEndpoints /\ faults = 0

EchoSends(s) ==
    /\ Len(sent[Echo][s]) < MaxSent[s]
    /\ \E m \in EchoMessages(s) : \E ack \in AckFlags(m) : Create(Echo, s, m, ack)
    /\ UNCHANGED faults

Deliver(r, s) == DecodePacket(r, s) /\ UNCHANGED faults

Fault == faults < MaxFaults /\ faults' = faults + 1

\* The next packet on its way to r never arrives.
Lose(r, s) ==
    /\ Fault
    /\ outbox[Peer(r)][s] # <<>>
    /\ TakeAndQueue(r, s, <<>>)
    /\ UNCHANGED <<rxBuffers, lastTransactionId, aborted,
                   sent, delivered, verdicts>>

OutOfMemory(r, s) == Fault /\ DecodeOutOfMemory(r, s)

Next ==
    \/ \E s \in Streams : EchoSends(s)
    \/ \E r \in Roles, s \in Streams :
         Deliver(r, s) \/ Lose(r, s) \/ OutOfMemory(r, s)

Spec == Init /\ [][Next]_vars

(***************************************************************************)
(* receivePackets decodes every packet it is given: as long as packets are *)
(* there to be received, one of them is received sooner or later.  Nothing *)
(* obliges the Echo device to send, or the link to lose.                   *)
(***************************************************************************)
FairSpec == Spec /\ WF_vars(\E r \in Roles, s \in Streams : Deliver(r, s))

-----------------------------------------------------------------------------
TypeOK == EndpointTypeOK /\ faults \in 0..MaxFaults

(***************************************************************************)
(* Without faults no assertion of decodePacket fails, whatever the order   *)
(* in which streams interleave (rx.c:262-263, 288-289).                    *)
(***************************************************************************)
NoAbortWithoutFaults == faults = 0 => \A p \in Processes : ~aborted[p]

(***************************************************************************)
(* Without faults the two ends stay in step, packet by packet: each        *)
(* reassembly holds exactly what has left of the transaction at the head   *)
(* of the sender's queue, under its id and with its sequence number, and   *)
(* is freed with its last packet; every transaction ever created is        *)
(* delivered or still queued, in order (rx.c:263-276, 322-351 against      *)
(* tx.c:129-208).                                                          *)
(***************************************************************************)
InStepWithoutFaults ==
    faults = 0 =>
        \A x \in Roles, s \in Streams :
            /\ ChannelInOrder(x, outbox[x][s], sent[x][s], delivered[Peer(x)][s])
            /\ Mirrors(outbox[x][s], Buffer(Peer(x), s))

(***************************************************************************)
(* Faults or not, what the handlers are given are whole transactions of    *)
(* the peer, each at most once and in the order they were created: parts   *)
(* of two transactions are never joined (the sequence number, length and   *)
(* transaction id checks, rx.c:263, 288, 322, 331).                        *)
(***************************************************************************)
DeliveredWhole ==
    \A r \in Roles, s \in Streams :
        /\ \A i \in 1..Len(delivered[r][s]) : delivered[r][s][i] # 0
        /\ \A i \in 1..Len(delivered[r][s]) - 1 :
              delivered[r][s][i] < delivered[r][s][i + 1]

\* The verdicts that role r gave on transaction n of stream s.
VerdictsOn(r, s, n) ==
    {i \in 1..Len(verdicts[r][s]) : verdicts[r][s][i].number = n}

(***************************************************************************)
(* A control ack tells the truth: at most one is created per transaction,  *)
(* SUCCESS only for a transaction that was handed to the handlers, FAILURE *)
(* only for one that was not and, after it, never is (rx.c:174, 187, 324,  *)
(* 334).                                                                   *)
(***************************************************************************)
VerdictsTruthful ==
    \A r \in Roles, s \in Streams : \A n \in 1..Len(sent[Peer(r)][s]) :
        /\ \A i, j \in VerdictsOn(r, s, n) : i = j
        /\ \A i \in VerdictsOn(r, s, n) :
              (verdicts[r][s][i].result = "SUCCESS")
                <=> (\E k \in 1..Len(delivered[r][s]) : delivered[r][s][k] = n)

(***************************************************************************)
(* The gadget's k-th message on a stream answers the k-th message it was   *)
(* handed there, and nothing else: that is all the Echo device can use to  *)
(* pair them, a response carries no transaction id of its command          *)
(* (rx.c:108-131, 148-157).                                                *)
(***************************************************************************)
AnswersMatch ==
    \A s \in Streams \ {"OTA_STREAM"} :
        /\ Len(sent[Gadget][s]) = Len(delivered[Gadget][s])
        /\ \A k \in 1..Len(sent[Gadget][s]) :
             LET asked == sent[Echo][s][delivered[Gadget][s][k]].message
             IN  sent[Gadget][s][k].message =
                   IF s = "ALEXA_STREAM" THEN Event ELSE Response(asked.command)

\* Role r has just been given the last packet of a transaction of stream s.
LastPacketArrives(r, s) ==
    /\ Deliver(r, s)
    /\ IsTransaction(outbox[Peer(r)][s][1])
    /\ LastPacket(outbox[Peer(r)][s])

(***************************************************************************)
(* decodePacket never looks at TRANSACTION_TYPE_FINAL: it frees the        *)
(* reassembly when the bytes are complete or a check fails.  Even so, with *)
(* fewer losses than there are sequence numbers, the last packet of a      *)
(* transaction never leaves a reassembly behind.                           *)
(***************************************************************************)
LastPacketFrees ==
    [][\A r \in Roles, s \in Streams :
          LastPacketArrives(r, s) /\ ~aborted'[HostOf[r]]
             => rxBuffers'[HostOf[r]][s] = NULL]_vars

(***************************************************************************)
(* The Echo device only ever sends what it was told to send: no packet of  *)
(* the gadget makes it answer (sample.c:68 "No further responses sent from *)
(* Echo device."), although handleControlMessage would answer a command in *)
(* either role.                                                            *)
(***************************************************************************)
EchoNeverAnswers ==
    [][\A r \in Roles, s \in Streams :
          Deliver(Echo, s) => outbox'[Echo] = outbox[Echo]]_vars

\* Everything was done about the n-th message of the Echo device on stream s that
\* the gadget has code for.  On the OTA stream that is the delivery alone: also a
\* message that asks for an acknowledgement gets none (rx.c:181 to 184).
Answered(s, n) ==
    IF s = "OTA_STREAM"
    THEN Len(delivered[Gadget][s]) >= n /\ VerdictsOn(Gadget, s, n) = {}
    ELSE /\ Len(delivered[Echo][s]) >= n
         /\ sent[Echo][s][n].ack =>
              \E i \in VerdictsOn(Gadget, s, n) :
                 verdicts[Gadget][s][i].result = "SUCCESS"

AllAnswered == \A s \in Streams : \A n \in 1..Len(sent[Echo][s]) : Answered(s, n)

(***************************************************************************)
(* On a link without faults every message of the Echo device is delivered. *)
(* On the control and the Alexa stream its answer comes back, and it is    *)
(* acknowledged with SUCCESS if it asks for that; on the OTA stream no     *)
(* message is answered or acknowledged, also if it asks (rx.c:181-184).    *)
(* Whatever was sent, there comes a time when nothing is left to answer.   *)
(***************************************************************************)
EveryMessageAnswered == []<>AllAnswered

(***************************************************************************)
(* The packet layer implements ordered delivery of whole messages.         *)
(***************************************************************************)
Delivery == INSTANCE StreamDelivery WITH
    Senders <- Roles,
    MayLose <- MaxFaults > 0,
    accepted <- [c \in Roles \X Streams |-> Len(sent[c[1]][c[2]])],
    handed <- [c \in Roles \X Streams |-> delivered[Peer(c[1])][c[2]]]

ImplementsDelivery == Delivery!Spec

\* rx.c:262: "Ensure that this packet does not exist and then create it."
NoAssertionFails == \A p \in Processes : ~aborted[p]
=============================================================================
