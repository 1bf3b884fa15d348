---------------------------- MODULE MCBleSample ----------------------------
(***************************************************************************)
(* sample.c for TLC, with the sizes of the real program: those of the      *)
(* nanopb encoding of each message that tx.c builds, which is one packet   *)
(* each except two for ApplyFirmware and for Discover.Response.            *)
(***************************************************************************)
EXTENDS BleSample

MCSize == [m \in Messages |->
    CASE m = Command("UPDATE_COMPONENT_SEGMENT") -> 89
      [] m = Command("APPLY_FIRMWARE") -> 126
      [] m.which = "command" -> 2
      [] m = Response("GET_DEVICE_INFORMATION") -> 36
      [] m = Response("GET_DEVICE_FEATURES") -> 9
      [] m = Response("OTHER") -> 6
      [] m.which = "response" -> 4
      [] m = Directive -> 31
      [] m = Event -> 245
      [] m = Data -> 1]

MCHostOf == [r \in Roles |-> "sample"]
=============================================================================
