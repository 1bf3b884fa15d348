----------------------------- MODULE MCBleLink -----------------------------
(***************************************************************************)
(* Instances of BleLink for TLC: two processes, messages of one to four    *)
(* packets.                                                                *)
(***************************************************************************)
EXTENDS BleLink

\* With MTU 10 an INITIAL packet carries 3 bytes and a later one 6, with
\* MTU 8 they carry 2 and 4, and a length of one byte when little is left.
MCSize == [m \in Messages |->
    CASE m = Command("UPDATE_COMPONENT_SEGMENT") -> 3
      [] m = Command("APPLY_FIRMWARE") -> 11
      [] m.which = "command" -> 2
      [] m = Response("GET_DEVICE_INFORMATION") -> 9
      [] m.which = "response" -> 3
      [] m = Directive -> 4
      [] m = Event -> 13
      [] m = Data -> 7]

\* A gadget and an Echo device are two processes.
MCHostOf == [r \in Roles |-> r]

\* All streams at once, and three directives in a row.
MCMaxSent == [s \in Streams |-> IF s = "ALEXA_STREAM" THEN 3 ELSE 1]

\* Three commands in a row.
MCMaxSentControl == [s \in Streams |-> IF s = "CONTROL_STREAM" THEN 3 ELSE 0]
=============================================================================
