---------------------------- MODULE MCReceivers ----------------------------
(***************************************************************************)
(* The receivers of bytes of both transports: the framer of the serial     *)
(* port, and decodePacket in the instances of MCBleWire.  In a behaviour   *)
(* one of them receives, and the other stays as it is.                     *)
(***************************************************************************)
EXTENDS MCSppFramer, MCBleWire

CONSTANT Receivers  \* those that are explored

ReceiverInit ==
    /\ Init
    /\ \/ "framer" \in Receivers /\ instance = "framer" /\ WireInit
       \/ "decoder" \in Receivers /\ MCInit

ReceiverNext ==
    \/ instance = "framer" /\ Next /\ UNCHANGED <<instance, wireVars>>
    \/ MCNext /\ UNCHANGED vars

ReceiverSpec == ReceiverInit /\ [][ReceiverNext]_<<instance, vars, wireVars>>
=============================================================================
