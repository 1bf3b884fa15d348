--------------------------- MODULE StreamDelivery ---------------------------
(***************************************************************************)
(* What the packet layer of the handshake promises to the two roles, with  *)
(* packets, sequence numbers and buffers left out: on each channel the     *)
(* messages sent so far are numbered, and the receiver is handed numbers   *)
(* of sent messages in increasing order.  A link that loses nothing skips  *)
(* no number.                                                              *)
(***************************************************************************)
EXTENDS Naturals, Sequences

CONSTANTS
    Senders, Streams,       \* a channel is a sender and a stream
    MayLose                 \* MayLose: numbers may be skipped

VARIABLES
    accepted,   \* accepted[c]: how many messages were sent on channel c
    handed      \* handed[c]: the numbers the receiver was handed

vars == <<accepted, handed>>

Channels == Senders \X Streams

Init ==
    /\ accepted = [c \in Channels |-> 0]
    /\ handed = [c \in Channels |-> <<>>]

\* The last number handed over on channel c.
LastHanded(c) == IF handed[c] = <<>> THEN 0 ELSE handed[c][Len(handed[c])]

Accept(c) == accepted' = [accepted EXCEPT ![c] = @ + 1]

Hand(c, n) ==
    /\ n \in LastHanded(c) + 1 .. accepted[c]
    /\ MayLose \/ n = LastHanded(c) + 1
    /\ handed' = [handed EXCEPT ![c] = Append(@, n)]

\* The receiver of one message may at once send its answer on another channel.
Next ==
    \/ \E c \in Channels : Accept(c) /\ UNCHANGED handed
    \/ \E c \in Channels : \E n \in 1..accepted[c] :
         /\ Hand(c, n)
         /\ UNCHANGED accepted \/ \E d \in Channels \ {c} : Accept(d)

Spec == Init /\ [][Next]_vars
=============================================================================
