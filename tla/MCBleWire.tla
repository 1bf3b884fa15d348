----------------------------- MODULE MCBleWire -----------------------------
(***************************************************************************)
(* Instances of BleWire, of which a behaviour is one: packets that are     *)
(* joined, packets that are cut, and packets that are cut so short that    *)
(* they count for lost.  Bytes of a payload differ from their neighbours.  *)
(***************************************************************************)
EXTENDS BleWire

CONSTANT Instances  \* those that are explored

VARIABLE instance

Message(first, length, ack) ==
    [payload |-> [i \in 1..length |-> (first + i) % 251], ack |-> ack]

\* Packets of ten bytes: one to three a message.
MCSent == <<
    <<Message(1, 9, FALSE), Message(20, 9, TRUE), Message(30, 4, TRUE)>>,
    <<Message(40, 11, TRUE)>>,
    <<Message(60, 6, TRUE)>>,
    <<Message(70, 3, TRUE)>> >>
MCAnswer == <<Message(80, 5, FALSE).payload, Message(100, 3, FALSE).payload>>

\* Around the packets of 264 bytes that need two bytes for their length.
MCSentLong == <<
    <<Message(1, 600, TRUE), Message(20, 255, TRUE)>>,
    <<Message(40, 257, FALSE), Message(70, 258, TRUE)>>,
    <<Message(60, 256, TRUE)>> >>
MCAnswerLong == <<Message(80, 518, FALSE).payload, Message(100, 1, FALSE).payload>>

\* At least the header's fields that name stream and transaction are left
\* ("cut"), with the constants of the configuration.

Joined == INSTANCE BleWire WITH
    MTU <- 264, Sent <- MCSentLong, Answer <- MCAnswerLong,
    MaxCuts <- 0, MaxJoins <- 2

Lost == INSTANCE BleWire WITH
    ShortestInitial <- 1, ShortestOther <- 1, MaxJoins <- 1

ASSUME WireAssumptions ==
    WireAssumption /\ Joined!WireAssumption /\ Lost!WireAssumption

MCInit ==
    /\ instance \in Instances
    /\ \/ instance = "joined" /\ Joined!WireInit
       \/ instance = "cut" /\ WireInit
       \/ instance = "lost" /\ Lost!WireInit

MCNext ==
    \/ instance = "joined" /\ Joined!WireNext /\ UNCHANGED instance
    \/ instance = "cut" /\ WireNext /\ UNCHANGED instance
    \/ instance = "lost" /\ Lost!WireNext /\ UNCHANGED instance

MCSpec == MCInit /\ [][MCNext]_<<instance, wireVars>>

-----------------------------------------------------------------------------
\* Joined or cut, but not below the header's fields: every message is handed
\* over once, in order and as it was packed into bytes, but for those of which
\* a packet was cut, and every answer comes back.
MCOnlyCutIsLost ==
    /\ instance = "joined" => Joined!OnlyCutIsLost
    /\ instance = "cut" => OnlyCutIsLost

\* However short the packets are cut, and whatever they were joined to: what
\* is handed over is whole, in order, and nothing that was cut.
MCNothingCutIsDelivered == instance = "lost" => Lost!NothingCutIsDelivered

\* However the packets are joined and cut, no message is answered twice, and
\* SUCCESS is given to what was handed over alone; while no header is cut, those
\* that ask and are cut all get a FAILURE.
MCAnsweredOnce ==
    /\ instance = "joined" => Joined!AnsweredOnce /\ Joined!CutIsRefused
    /\ instance = "cut" => AnsweredOnce /\ CutIsRefused
    /\ instance = "lost" => Lost!AnsweredOnce
=============================================================================
