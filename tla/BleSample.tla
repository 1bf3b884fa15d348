----------------------------- MODULE BleSample -----------------------------
(***************************************************************************)
(* The program of sample.c: main makes a few runs, and a run lets the      *)
(* gadget receive what the Echo device created and then the Echo device    *)
(* what the gadget answered.  Both roles are played in one process, so     *)
(* that they share the reassembly buffers of rx.c and the transaction ids  *)
(* of tx.c.                                                                *)
(*                                                                         *)
(* main has a fixed order of runs that its user is invited to change; the  *)
(* model makes the same runs in every order.                               *)
(***************************************************************************)
EXTENDS BleEndpoint

VARIABLES
    phase,  \* "main", or whose receivePackets is running
    done    \* the runs main has started

vars == <<endpointVars, phase, done>>

ASSUME SampleAssumption ==
    /\ HostOf[Echo] = HostOf[Gadget]
    /\ {0, 2} \subseteq TransactionIds     \* those of the captured packets

\* The runs of main and what the Echo device sends in each.
Runs == {"GetDeviceInformation", "GetDeviceFeatures", "UpdateComponentSegment",
         "ApplyFirmware", "AlexaDiscovery", "TestMyPacketCaptures"}

StreamOf(run) ==
    IF run = "AlexaDiscovery" THEN "ALEXA_STREAM" ELSE "CONTROL_STREAM"

MessageOf(run) ==
    CASE run = "GetDeviceInformation" -> Command("GET_DEVICE_INFORMATION")
      [] run = "GetDeviceFeatures" -> Command("GET_DEVICE_FEATURES")
      [] run = "UpdateComponentSegment" -> Command("UPDATE_COMPONENT_SEGMENT")
      [] run = "ApplyFirmware" -> Command("APPLY_FIRMWARE")
      [] run = "AlexaDiscovery" -> Directive

Init == InitEndpoints /\ phase = "main" /\ done = {}

\* main calls a create function and hands its packets to runSample.
StartRun(run) ==
    /\ phase = "main" /\ run \in Runs \ (done \cup {"TestMyPacketCaptures"})
    /\ \E ack \in AckFlags(MessageOf(run)) :
         Create(Echo, StreamOf(run), MessageOf(run), ack)
    /\ phase' = Gadget
    /\ done' = done \cup {run}

(***************************************************************************)
(* The captured packets are two one-packet commands with the transaction   *)
(* ids 0 and 2, whatever getNextTransactionId has come to.                 *)
(***************************************************************************)
StartCaptures ==
    LET s == "CONTROL_STREAM"
        n == Len(sent[Echo][s])
        first == Command("GET_DEVICE_INFORMATION")
        second == Command("GET_DEVICE_FEATURES")
    IN  /\ phase = "main" /\ "TestMyPacketCaptures" \notin done
        /\ ~aborted[HostOf[Echo]]
        /\ sent' = [sent EXCEPT ![Echo][s] =
                      @ \o <<[message |-> first, ack |-> FALSE],
                             [message |-> second, ack |-> FALSE]>>]
        /\ outbox' = [outbox EXCEPT ![Echo][s] =
                        @ \o <<Transaction(Echo, n + 1, 0, first, FALSE),
                               Transaction(Echo, n + 2, 2, second, FALSE)>>]
        /\ phase' = Gadget
        /\ done' = done \cup {"TestMyPacketCaptures"}
        /\ UNCHANGED <<rxBuffers, lastTransactionId, aborted, delivered, verdicts>>

\* receivePackets in role r decodes the next packet of its list.
Receives(r) ==
    /\ phase = r
    /\ \E s \in Streams : DecodePacket(r, s)
    /\ UNCHANGED <<phase, done>>

ListDone(r) == \A s \in Streams : outbox[Peer(r)][s] = <<>>

\* Mutant: the roles switch with the first answer.
SwitchToEchoAtOnce ==
    /\ phase = Gadget /\ ~aborted[HostOf[Gadget]]
    /\ phase' = Echo
    /\ UNCHANGED <<endpointVars, done>>

\* The gadget's list is done; the Echo device receives what it returned.
SwitchToEcho ==
    /\ phase = Gadget /\ ListDone(Gadget) /\ ~aborted[HostOf[Gadget]]
    /\ phase' = Echo
    /\ UNCHANGED <<endpointVars, done>>

\* Mutant: the run returns before the Echo device has received everything.
FinishRunAtOnce ==
    /\ phase = Echo /\ ~aborted[HostOf[Echo]]
    /\ aborted' = [aborted EXCEPT ![HostOf[Echo]] = ~ListDone(Gadget)]
    /\ phase' = "main"
    /\ UNCHANGED <<outbox, rxBuffers, lastTransactionId, sent, delivered,
                   verdicts, done>>

\* runSample asserts that the Echo device returned nothing, and returns.
FinishRun ==
    /\ phase = Echo /\ ListDone(Echo) /\ ~aborted[HostOf[Echo]]
    /\ aborted' = [aborted EXCEPT ![HostOf[Echo]] = ~ListDone(Gadget)]
    /\ phase' = "main"
    /\ UNCHANGED <<outbox, rxBuffers, lastTransactionId, sent, delivered,
                   verdicts, done>>

Next ==
    \/ \E run \in Runs : StartRun(run)
    \/ StartCaptures
    \/ \E r \in Roles : Receives(r)
    \/ SwitchToEcho
    \/ FinishRun

Spec == Init /\ [][Next]_vars

-----------------------------------------------------------------------------
(***************************************************************************)
(* No assertion of the program fails, neither those of decodePacket, with  *)
(* the buffers of both roles in one place (rx.c:263, 288), nor the one on  *)
(* what the Echo device returned (sample.c:69).                            *)
(***************************************************************************)
NoAssertionFails == \A p \in Processes : ~aborted[p]

(***************************************************************************)
(* One process can play both roles because they never reassemble at the    *)
(* same time: a reassembly of a stream is under way only in the phase of   *)
(* the role that receives, and the first packet of its list continues it.  *)
(***************************************************************************)
ReassemblyBelongsToPhase ==
    \A s \in Streams :
        Buffer(Gadget, s) # NULL =>
            /\ phase \in Roles
            /\ outbox[Peer(phase)][s] # <<>>
            /\ Arriving(phase, s).transactionId = Buffer(phase, s).transactionId
            /\ Arriving(phase, s).type # "INITIAL"

(***************************************************************************)
(* A run is over only when everything it sent was answered, in order, and  *)
(* the Echo device has been handed the answers: between runs every         *)
(* transaction ever created has reached its peer (sample.c:57-69).         *)
(***************************************************************************)
RunsAreAnswered ==
    phase = "main" =>
        \A s \in Streams :
            /\ Len(sent[Echo][s]) = Len(sent[Gadget][s])
            /\ \A r \in Roles :
                 delivered[r][s] = [i \in 1..Len(sent[Peer(r)][s]) |-> i]
            /\ s = "CONTROL_STREAM" =>
                 \A i \in 1..Len(sent[Gadget][s]) :
                    sent[Gadget][s][i].message
                       = Response(sent[Echo][s][i].message.command)
=============================================================================
