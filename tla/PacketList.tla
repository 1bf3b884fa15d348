----------------------------- MODULE PacketList -----------------------------
(***************************************************************************)
(* The lists of helpers.c as they are in memory, and the program that they *)
(* are for: runSample (sample.c) creates a list of packets, receivePackets *)
(* (rx.c) walks through it and gathers acknowledgements and answers in a   *)
(* second one, and both are freed.  A node owns the next node and the      *)
(* buffer of its packet; neither says so anywhere but in freeList.         *)
(*                                                                         *)
(* A pointer is a number, NULL is 0.  malloc gives the lowest address that *)
(* is free, so that a pointer to what was freed soon points to something   *)
(* else.                                                                   *)
(***************************************************************************)
EXTENDS Integers, Sequences, SequencesExt

CONSTANTS
    Nodes, Buffers,  \* addresses for list nodes and for packet data
    MaxPackets,      \* bound: packets of a message
    MaxResponse,     \* bound: packets in the gadget's list
    MaxRuns,         \* bound: runs of main
    MaxLost          \* bound: nodes that malloc cannot give

NULL == 0

ASSUME HeapAssumption ==
    /\ Nodes \subseteq Nat \ {NULL} /\ Buffers \subseteq Nat \ {NULL}
    /\ IsFiniteSet(Nodes) /\ IsFiniteSet(Buffers)
    /\ MaxPackets \in Nat /\ MaxResponse \in Nat /\ MaxRuns \in Nat /\ MaxLost \in Nat

VARIABLES
    nodes, buffers,       \* what is allocated
    next, data,           \* of a node, allocated or not
    phase,
    txPackets, response,  \* of runSample; of receivePackets
    created,              \* packetListHead in buildStreamPacket
    node,                 \* where receivePackets is
    left,                 \* how many packets buildStreamPacket still makes
    runs, lost,
    undefined,            \* memory was freed twice, or read after it was freed
    serial, expected      \* history: what is in a buffer; what the response holds

heap == <<nodes, buffers, next, data>>
vars == <<heap, phase, txPackets, response, created, node, left, runs, lost,
          undefined, serial, expected>>

\* The lowest address that is free.
Free(all, used) == CHOOSE a \in all \ used : \A b \in all \ used : a <= b

\* The nodes from head on, one more than there are at most, with what nx says
\* of the next one.
Walk(nx, head) ==
    LET From[n \in Nat] ==
            [at \in Nodes \cup {NULL} |->
                IF n = 0 \/ at = NULL THEN <<>> ELSE <<at>> \o From[n - 1][nx[at]]]
    IN  From[Cardinality(Nodes) + 1][head]

Chain(head) == Walk(next, head)

-----------------------------------------------------------------------------
\* malloc has memory for a node, or for the data of a packet, and gives it.
NodeLeft == Nodes \ nodes # {}
BufferLeft == Buffers \ buffers # {}
NewNode == Free(Nodes, nodes)
NewBuffer == Free(Buffers, buffers)

\* Mutant: the walk begins, and ends, at the head.
LinkAtHead(list, added) ==
    IF list = NULL THEN next ELSE [next EXCEPT ![list] = added]

\* The last node of the list is made to point at what is added.
Link(list, added) ==
    IF list = NULL THEN next ELSE [next EXCEPT ![Last(Chain(list))] = added]

\* The packet with data b gets a node at the end of the list, which is
\* `list' afterwards: the head for an empty list.
PacketList_addToTail(list, b) ==
    /\ NodeLeft
    /\ nodes' = nodes \cup {NewNode}
    /\ next' = [Link(list, NewNode) EXCEPT ![NewNode] = NULL]
    /\ data' = [data EXCEPT ![NewNode] = b]

Head1(list, added) == IF list = NULL THEN added ELSE list

PacketList_appendList(dst, src) ==
    IF src = NULL THEN UNCHANGED next ELSE next' = Link(dst, src)

\* Mutant: the data are left to freePacket.
FreedNodesOnly(list) == [nodes |-> ToSet(Chain(list)), buffers |-> {}]

\* What freeList frees.
Freed(list) ==
    [nodes |-> ToSet(Chain(list)), buffers |-> {data[n] : n \in ToSet(Chain(list))}]

PacketList_freeList(list) ==
    /\ nodes' = nodes \ Freed(list).nodes
    /\ buffers' = buffers \ Freed(list).buffers
    /\ undefined' = \/ undefined
                    \/ ~IsInjective(Chain(list))
                    \/ ~(Freed(list).nodes \subseteq nodes)
                    \/ ~(Freed(list).buffers \subseteq buffers)
    /\ UNCHANGED <<next, data>>

-----------------------------------------------------------------------------
Init ==
    /\ nodes = {} /\ buffers = {}
    /\ next = [n \in Nodes |-> NULL] /\ data = [n \in Nodes |-> NULL]
    /\ phase = "main" /\ runs = 0
    /\ txPackets = NULL /\ response = NULL /\ created = NULL /\ node = NULL
    /\ left = 0 /\ lost = 0 /\ undefined = FALSE
    /\ serial = [b \in Buffers |-> 0] /\ expected = <<>>

\* A create function calls buildStreamPacket.
StartRun ==
    /\ phase = "main" /\ runs < MaxRuns
    /\ runs' = runs + 1
    /\ left' \in 1..MaxPackets
    /\ phase' = "create"
    /\ UNCHANGED <<heap, txPackets, response, created, node, lost, undefined,
                   serial, expected>>

\* One iteration of buildStreamPacket.
BuildPacket ==
    /\ phase \in {"create", "answer"} /\ left > 0 /\ BufferLeft
    /\ left' = left - 1
    /\ buffers' = buffers \cup {NewBuffer}
    /\ PacketList_addToTail(created, NewBuffer)
    /\ created' = Head1(created, NewNode)
    /\ serial' = [serial EXCEPT ![NewBuffer] = left]
    /\ expected' = IF phase = "answer" THEN Append(expected, left) ELSE expected
    /\ UNCHANGED <<phase, txPackets, response, node, runs, lost, undefined>>

\* addToTail finds no memory for the node: the data stay allocated.
BuildPacketLost ==
    /\ phase \in {"create", "answer"} /\ left > 0 /\ lost < MaxLost /\ BufferLeft
    /\ left' = left - 1 /\ lost' = lost + 1
    /\ buffers' = buffers \cup {NewBuffer}
    /\ serial' = [serial EXCEPT ![NewBuffer] = left]
    /\ UNCHANGED <<nodes, next, data, phase, txPackets, response, created, node,
                   runs, undefined, expected>>

\* malloc finds no memory for the data: the program exits.
BuildPacketExits ==
    /\ phase \in {"create", "answer"} /\ left > 0
    /\ phase' = "exited"
    /\ UNCHANGED <<heap, txPackets, response, created, node, left, runs, lost,
                   undefined, serial, expected>>

\* runSample exits when it is given no list, and has the gadget receive it else.
ReceiveAsGadget ==
    /\ phase = "create" /\ left = 0
    /\ phase' = IF created = NULL THEN "exited" ELSE "gadget"
    /\ txPackets' = created /\ node' = created /\ created' = NULL
    /\ expected' = <<>>
    /\ UNCHANGED <<heap, response, left, runs, lost, undefined, serial>>

Room == Len(expected) < MaxResponse

\* decodePacket puts an acknowledgement at the end of the response, or nothing,
\* where none was asked for or its data could not be allocated, or loses it for
\* want of a node; and it may have an answer built.
DecodePacket ==
    /\ phase = "gadget" /\ node # NULL
    /\ undefined' = (undefined \/ node \notin nodes \/ data[node] \notin buffers)
    /\ \/ UNCHANGED <<heap, response, serial, expected, lost>>
       \/ /\ Room /\ BufferLeft
          /\ buffers' = buffers \cup {NewBuffer}
          /\ PacketList_addToTail(response, NewBuffer)
          /\ response' = Head1(response, NewNode)
          /\ serial' = [serial EXCEPT ![NewBuffer] = MaxPackets + 1]
          /\ expected' = Append(expected, MaxPackets + 1)
          /\ UNCHANGED lost
       \/ /\ lost < MaxLost /\ lost' = lost + 1 /\ BufferLeft
          /\ buffers' = buffers \cup {NewBuffer}
          /\ UNCHANGED <<nodes, next, data, response, serial, expected>>
    /\ left' \in {n \in 0..MaxPackets : Len(expected') + n <= MaxResponse}
    /\ phase' = "answer"
    /\ UNCHANGED <<txPackets, created, node, runs>>

\* The answer is appended, and receivePackets goes on with the next packet.
AppendAnswer ==
    /\ phase = "answer" /\ left = 0
    /\ PacketList_appendList(response, created)
    /\ response' = IF created = NULL THEN response ELSE Head1(response, created)
    /\ created' = NULL
    /\ node' = next'[node]
    /\ phase' = "gadget"
    /\ UNCHANGED <<nodes, buffers, data, txPackets, left, runs, lost, undefined,
                   serial, expected>>

\* Mutant: the Echo device receives the list that was just freed.
FreedListReceived ==
    /\ phase = "gadget" /\ node = NULL
    /\ PacketList_freeList(txPackets)
    /\ node' = txPackets /\ response' = NULL /\ UNCHANGED txPackets
    /\ phase' = "echo"
    /\ UNCHANGED <<created, left, runs, lost, serial, expected>>

\* The list is freed, and the response takes its place.
ReceiveAsEcho ==
    /\ phase = "gadget" /\ node = NULL
    /\ PacketList_freeList(txPackets)
    /\ txPackets' = response /\ node' = response /\ response' = NULL
    /\ phase' = "echo"
    /\ UNCHANGED <<created, left, runs, lost, serial, expected>>

\* The Echo device answers nothing.
DecodeResponse ==
    /\ phase = "echo" /\ node # NULL
    /\ undefined' = (undefined \/ node \notin nodes \/ data[node] \notin buffers)
    /\ node' = next[node]
    /\ UNCHANGED <<heap, phase, txPackets, response, created, left, runs, lost,
                   serial, expected>>

FinishRun ==
    /\ phase = "echo" /\ node = NULL
    /\ PacketList_freeList(txPackets)
    /\ txPackets' = NULL
    /\ phase' = "main"
    /\ UNCHANGED <<response, created, node, left, runs, lost, serial, expected>>

Next ==
    \/ StartRun
    \/ BuildPacket \/ BuildPacketLost \/ BuildPacketExits
    \/ ReceiveAsGadget
    \/ DecodePacket \/ AppendAnswer
    \/ ReceiveAsEcho \/ DecodeResponse
    \/ FinishRun

Spec == Init /\ [][Next]_vars

-----------------------------------------------------------------------------
Listed == Chain(txPackets) \o Chain(response) \o Chain(created)
Contents(list) == [i \in DOMAIN list |-> serial[data[list[i]]]]

\* Every node that is allocated is on one list, once, and is the only one with
\* its buffer: no call ever links a list into one that shares a node with it
\* (helpers.c:70 does not look), and none into itself.  What has been freed is
\* on no list.  Of the buffers those are on no list, and never freed, whose
\* node could not be allocated, and no others.
EachOwnedOnce ==
    /\ IsInjective(Listed) /\ ToSet(Listed) = nodes
    /\ IsInjective([i \in DOMAIN Listed |-> data[Listed[i]]])
    /\ {data[n] : n \in nodes} \subseteq buffers
    /\ Cardinality(buffers \ {data[n] : n \in nodes}) = lost

\* Nothing is freed twice, or read after it was freed, while main makes its
\* runs and the addresses that were freed are given out again.
NothingFreedIsUsed == ~undefined

\* The response holds what was put into it, in order: its acknowledgements
\* where they were added, each answer where it was appended.
ResponseInOrder ==
    /\ phase \in {"gadget", "answer"} =>
          Contents(Chain(response) \o Chain(created)) = expected
    /\ phase = "echo" =>
          Contents(Chain(txPackets)) = expected
=============================================================================
