---------------------------- MODULE BleAnnounce ----------------------------
(***************************************************************************)
(* The two packets with which a gadget makes itself known (tx.c): the      *)
(* advertising data, structures of a length, a type and a value, and the   *)
(* protocol version packet, which tells the Echo device the MTU and the    *)
(* longest transaction.  main (sample.c) creates both, or exits when there *)
(* is no memory.  What is on the other side is external: a scanner goes    *)
(* from structure to structure, and an Echo device takes its numbers from  *)
(* where the packet has them.                                              *)
(***************************************************************************)
EXTENDS Integers, Sequences, SequencesExt

CONSTANTS
    Mtus, TransactionSizes  \* what config.h may define

\* The packet has two bytes for each.
ConfigAssumption == \A n \in Mtus \cup TransactionSizes : n \in Nat /\ n < 65536

VARIABLES
    SAMPLE_NEGOTIATED_MTU, SAMPLE_MAX_TRANSACTION_SIZE,
    stage,  \* "advertise", "scan", "version", "connect", "done" or "exited"
    packet,
    at, structures,  \* the scanner: where it is and what it has read
    told             \* the MTU and the size that the Echo device has read

config == <<SAMPLE_NEGOTIATED_MTU, SAMPLE_MAX_TRANSACTION_SIZE>>
vars == <<config, stage, packet, at, structures, told>>

ADV_DATA_LEN == 31
PROTOCOL_VERSION_PACKET_SIZE == 20
BLE_AD_TYPE == 6
PROTOCOL_IDENTIFIER == 65027
SERVICE_UUID == 65027
VENDOR_ID == 369

Zeros(n) == [i \in 1..n |-> 0]
BigEndian(n) == <<n \div 256, n % 256>>
LittleEndian(n) == <<n % 256, n \div 256>>

-----------------------------------------------------------------------------
Flags == <<2, 1, BLE_AD_TYPE>>
ServiceUuid == <<3, 3>> \o LittleEndian(SERVICE_UUID)

\* Mutant: a length that counts itself.
ServiceDataLengthOverAll == 24

ServiceDataLength == 23
ServiceData ==
    <<ServiceDataLength, 22>> \o LittleEndian(SERVICE_UUID) \o LittleEndian(VENDOR_ID)
    \o <<0, 255>> \o Zeros(16)

Exit == stage' = "exited" /\ UNCHANGED packet

createAdvertisingPacket ==
    /\ stage = "advertise"
    /\ \/ packet' = Flags \o ServiceUuid \o ServiceData /\ stage' = "scan"
       \/ Exit
    /\ UNCHANGED <<config, at, structures, told>>

\* Mutant: the numbers as they are in the advertising data.
VersionLittleEndian ==
    LittleEndian(PROTOCOL_IDENTIFIER) \o <<3, 0>>
    \o LittleEndian(SAMPLE_NEGOTIATED_MTU) \o LittleEndian(SAMPLE_MAX_TRANSACTION_SIZE)

Version ==
    BigEndian(PROTOCOL_IDENTIFIER) \o <<3, 0>>
    \o BigEndian(SAMPLE_NEGOTIATED_MTU) \o BigEndian(SAMPLE_MAX_TRANSACTION_SIZE)

createProtocolVersionPacket ==
    /\ stage = "version"
    /\ \/ /\ packet' = Version \o Zeros(PROTOCOL_VERSION_PACKET_SIZE - Len(Version))
          /\ stage' = "connect"
       \/ Exit
    /\ UNCHANGED <<config, at, structures, told>>

-----------------------------------------------------------------------------
\* There is a structure, and it does not lead out of the packet.
Readable ==
    at < Len(packet) /\ packet[at + 1] \in 1..(Len(packet) - at - 1)

ScanStructure ==
    /\ stage = "scan" /\ Readable
    /\ structures' = Append(structures, SubSeq(packet, at + 2, at + 1 + packet[at + 1]))
    /\ at' = at + 1 + packet[at + 1]
    /\ UNCHANGED <<config, stage, packet, told>>

EndScan ==
    /\ stage = "scan" /\ ~Readable
    /\ stage' = "version"
    /\ UNCHANGED <<config, packet, at, structures, told>>

Connect ==
    /\ stage = "connect" /\ stage' = "done"
    /\ told' = <<256 * packet[5] + packet[6], 256 * packet[7] + packet[8]>>
    /\ UNCHANGED <<config, packet, at, structures>>

Init ==
    /\ SAMPLE_NEGOTIATED_MTU \in Mtus /\ SAMPLE_MAX_TRANSACTION_SIZE \in TransactionSizes
    /\ stage = "advertise" /\ packet = <<>>
    /\ at = 0 /\ structures = <<>> /\ told = <<>>

Next ==
    \/ createAdvertisingPacket \/ ScanStructure \/ EndScan
    \/ createProtocolVersionPacket \/ Connect

Spec == Init /\ [][Next]_vars

-----------------------------------------------------------------------------
\* A scanner reads all of the advertising data, by lengths that are written by
\* hand: the flags, the service it looks for, and data of that same service,
\* which end where the 31 bytes end.
ServiceIsFound ==
    stage = "version" =>
        /\ at = ADV_DATA_LEN /\ Len(packet) = ADV_DATA_LEN
        /\ [s \in DOMAIN structures |-> structures[s][1]] = <<1, 3, 22>>
        /\ Tail(structures[2]) = SubSeq(structures[3], 2, 3)

\* The Echo device is told the MTU that buildStreamPacket cuts packets by, and
\* the longest transaction, whatever config.h makes of them.
ConfigIsTold == stage = "done" => told = config
=============================================================================
