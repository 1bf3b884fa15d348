# A verification project for the Alexa Gadgets embedded sample code

TLA+ models of the packet handling in this repository, model-checked with TLC,
and theorems about them checked with TLAPS. All paths below are relative to
`src/`; `BLE/`, `BT/` and `DeviceSecret/` stand for the directories of that name
in `ConnectionHelpers/`.

## The system

The repository is sample code for makers of Alexa gadgets: C programs, each a
single thread, that show how a gadget talks to an Echo device. None of them has
a radio; what they share is the code that builds and takes apart packets.

| component | state it keeps | operations | who calls it | what is hard |
|---|---|---|---|---|
| BLE packet builder, `BLE/Handshake/tx.c` | the last transaction id of each stream | one create function per message, all through `buildStreamPacket` | the sample, and the handlers of `rx.c` for answers | boundaries of packet and length-field sizes, wrapping ids, failed allocations in mid-transaction |
| BLE packet decoder, `BLE/Handshake/rx.c` | one reassembly buffer per stream | `receivePackets`, `decodePacket`, the message handlers | the sample | streams that interleave, lost packets, failed allocations, ids that repeat, assertions on what the peer sent |
| BLE packet lists, `BLE/Handshake/helpers.c` | heap nodes | add to tail, append list, free, size | both of the above | a failed allocation is silent; lists share nodes |
| BLE sample, `BLE/Handshake/sample.c` | none of its own | `main`, `runSample` | | both roles in one process, on the same statics |
| BT SPP framer, `BT/PacketHelper/packet_helper.c` | frame buffer, escape, start, end and error flags | `read_packet_from_buffer`, `verify_packet`, `cleanup` | its own `main` | resynchronising after an error, frames split over buffers, frames too short or too long |
| BT checksum, `BT/Checksum/checksum.c` | none | unescape, `compute_checksum` | its own `main` | what the length includes |
| BT service discovery database, `BT/SDP/sdp_db.c` | the table | `set_sdp_db` patches ids | a Bluetooth stack | lengths written by hand |
| BT extended inquiry response, `BT/EIR/bluetooth_eir.c` | the buffer and its length | three appends | its own `main` | eight-bit lengths |
| device secret, `DeviceSecret/create_secret.c` | none | concatenate, hash, print as hex | its own `main` | an eight-bit length |
| SHA-256, `DeviceSecret/sha256.c` | hash contexts | `starts`, `update`, `finish`, `clone`, the self test; vendored from mbed TLS | the device secret | a message in pieces of any lengths, counters that carry, a buffer that is never cleared, two builds of the compression |
| platform layer, `DeviceSecret/platform.c`, `mbedtls/platform.h`, `config.h`, `check_config.h` | function pointers, the seed file | setters, default functions; which of them exist is configured | mbed TLS, the self test | thousands of configurations, none but one of which is built here; a seed file that is written when the process crashes |
| protobuf example, `AlexaGadgetsProtobuf/examples/proto_sample.c` | none | decode twice: parse the header, dispatch, decode the message; encode and print | its own `main` | results that are ignored, an eight-bit loop index |
| protobuf schemas, `AlexaGadgetsProtobuf/*`, `BLE/Proto` | | data | | |

What makes each of the modelled parts correct:

* builder: every packet fits what was negotiated; together the packets are the
  payload; every number can be read back; a packet that is missing can be
  noticed by its receiver;
* decoder and link: what is handed to a handler is a whole message of the peer,
  once and in order; acknowledgements are true; answers can be paired with
  commands; without faults nothing aborts and everything is answered that there is code
  to answer;
* sample: the two roles do not disturb each other, and every run is answered;
* framer: on a good line every frame that fits is found; after lost bytes the
  framer finds its way back, and at what cost is known; its buffer is never
  overrun;
* extended inquiry response, advertising data, service discovery table: a reader
  that goes by the lengths finds what was written, and the end;
* checksum: an intact frame is accepted with its data, a changed one is not (neither is
  quite so, see below);
* packet lists: every node and every packet has one owner, and is freed once,
  after its last use;
* device secret: all of id and secret is hashed, and the text is the digest;
* SHA-256: the digest depends on the message alone, not on how it was cut, and
  is the one FIPS 180 defines;
* platform layer: what is configured is what is called; a seed that is read is
  whole and the newest;
* protobuf example: every message fits, is dispatched to its own parser and is
  printed as it was filled in.

## Modules

| module | models | uses |
|---|---|---|
| `BlePackets` | the sizes, types and numbers computed by one iteration of `buildStreamPacket`, as pure operators | |
| `BleTx` | one call of `buildStreamPacket`, one loop iteration per step, with both allocations failing | `BlePackets` |
| `BleEndpoint` | the state and the operations of the two roles: queues of packets (`tx.c`), reassembly and handlers (`rx.c`) | `BlePackets` |
| `BleLink` | two processes with one role each, joined by a link that interleaves streams and may lose packets | `BleEndpoint`, `StreamDelivery` |
| `StreamDelivery` | the abstract promise: numbered messages, handed over in increasing order, none skipped unless the link may lose | |
| `BleSample` | `sample.c`: both roles in one process, run after run | `BleEndpoint` |
| `SppFramer` | the framer of the serial port, byte by byte, behind a line that may lose bytes | |
| `Eir` | the extended inquiry response, append by append | |
| `BleWire` | the packets as bytes: packing in `tx.c`, unpacking in `rx.c`, with packets that end too early or hold several segments | `BlePackets` |
| `BleAnnounce` | the advertising data and the protocol version packet, with who reads them | |
| `PacketList` | the lists of `helpers.c` as nodes in memory, under the program that uses them | |
| `SppChecksum` | `checksum.c`, byte by byte | |
| `SdpDb` | the service discovery table and `set_sdp_db`, read by a peer | |
| `Sha256Context` | the functions on a hash context, as pure operators | |
| `Sha256` | contexts as callers use them | `Sha256Context` |
| `Sha256SelfTest` | the compression function, round by round, and the self test | `Sha256Context` |
| `DeviceSecret` | `create_secret.c` | `Sha256Context` |
| `MbedtlsPlatform` | the configuration of the platform layer and the setters | |
| `NvSeed` | the default functions for the seed file | |
| `ProtoSample` | `proto_sample.c` | |
| `MCBleLink`, `MCBleTx`, `MCBleSample`, `MCBleWire`, `MCSppFramer` | instances for TLC of the module in their name | |
| `MCReceivers` | the instances of the last two, side by side | these |
| `Programs` | the programs that run for themselves, side by side: `Eir`, `BleAnnounce`, `SdpDb`, `SppChecksum`, `ProtoSample`, `DeviceSecret`, `Sha256SelfTest` | these |
| `MCPrograms` | an instance of `Programs` for TLC | `Programs` |
| `MCLibrary` | the code that keeps state for callers, side by side: `PacketList`, `Sha256`, `MbedtlsPlatform`, `NvSeed`, all of which it extends | these |
| `SharedLemmas` | lemmas about numbers, sequences, folds and bytes, for the proof modules below | |
| `BleEndpointProofs`, `BleLinkProofs`, `BleSampleProofs` | the theorems about the two roles: what both have in common, the link, the sample | |
| `WireProofs` | the theorems about bytes that are received: `SppFramer`, `BleWire` and `SppChecksum` | |
| `BuiltDataProofs` | the theorems about `BleTx` and, in `Programs`, `Eir`, `BleAnnounce`, `SdpDb` and `DeviceSecret` | |
| `Sha256ContextProofs` | lemmas about the functions on a context, up to what they compute | |
| `LibraryProofs` | the theorems about `PacketList`, `Sha256`, `MbedtlsPlatform` and `NvSeed` | |

How state and actions correspond to the code:

* `rxBuffers[p][s]` is `rxBuffers[streamToIndex(s)]` in process `p` (`rx.c:208`);
  `lastTransactionId[p][s]` is the static of `getNextTransactionId`. They belong
  to a process, not to a role: `HostOf` says which process plays which role, and
  that is the whole difference between a real gadget and the sample program.
* `outbox[r][s]` is what the packet lists made by role `r` still hold for stream
  `s`. A transaction in it is kept as the variables of the loop of
  `buildStreamPacket` (`srcIndex`, `seqNum`), of which the next packet is a
  function; `BleTx` checks that loop iteration by iteration, with the wire
  fields. An acknowledgement is an item of its own.
* Each way through `decodePacket` is one action: `DecodeControlPacket`,
  `DecodeStray` (no reassembly), `DecodeOutOfMemory`, `DecodeAborts` (an
  assertion fails and the process is gone), `DecodeRejects` (wrong sequence
  number or too much payload: FAILURE acknowledgement, reassembly freed),
  `DecodeAppends`, `DecodeCompletes` (acknowledge, handle, answer, free: one
  call in the code, one action here).
* A payload byte is the token `<<sender, transaction, position>>`, so that bytes
  of different transactions are told apart; a message is a record that has what
  the handlers switch on. `Size` gives each its encoded length.
* `sent`, `delivered` and `verdicts` are history variables: what was created,
  which transaction numbers were handed to handlers (0: bytes that are nobody's
  message), which acknowledgements were created.

* `SppFramer` has the statics of `packet_helper.c` as variables. One iteration of
  the loop of `read_packet_from_buffer` is one action, one for each way through
  it: `DropByte`, `Resynchronize`, `RejectSop`, `StartPacket`, `StartEscape`,
  `StoreByte`, `RejectEop`, `FinishPacket` (`verify_packet` and `cleanup`) and
  `Abort`. `packet_buffer` is the part of the array in use;
  `packet_buffer_len` and `packet_size`, which always change together, are its
  length. Nothing but the statics survives a call, so that the division of the
  bytes into buffers is not modelled: it cannot matter. The sender, which
  escapes its bytes, is the external part; `sent`, `position` and `escaped` are
  its state.
* `Eir` has one action per append of `construct_gadget_eir` and keeps of each
  structure where it is, its length byte and its type.

* `BleWire` has the packet in `decodePacket` as bytes, with `offset`. A segment is
  taken by one action, one for each way through the body of the loop: `DropSegment`
  (the returns that answer nothing), `DecodeControlAck`, `AssertionFails`,
  `ReadPastEnd`, `DecodeRefused` (the five returns that answer FAILURE and free the
  reassembly), `DecodeAppended` and `DecodeCompletes`. `TakePacket` is a turn of
  the loop of `receivePackets`; `TakeCut` and `TakeJoined` are what a capture, which
  `sample.c:75` invites the user to put in, may have made of a packet.
* `PacketList` keeps `next` and `data` of every address, allocated or not, and
  `malloc` gives the lowest free address, so that a dangling pointer soon points
  to something else. `nodes` and `buffers` are what is allocated. The loops of
  `helpers.c` that follow `next` to the end are `Walk`, a recursive function. When no
  memory is left for a packet's bytes, `BuildPacketExits` ends the program as
  `tx.c:202` does; when none is left for a node, `BuildPacketLost` loses the packet.
* `Sha256Context` takes the compression of a block, the sizes of block and word
  and the modulus of a counter as parameters. `Sha256` instantiates the compression
  so that it keeps the blocks it is given, `DeviceSecret` likewise, and
  `Sha256SelfTest` feeds the blocks to the real one, in which a word is the set of
  its bits and one step is one round.
* `MbedtlsPlatform`: `options` and `macros` are what config.h defines, an action
  `ChangeOption` or `ChangeMacro` is an edit of it, `Refuse` and `Compile` are
  `check_config.h`, and `pointer` has the function pointers of `platform.c`. The
  setters are one action, `mbedtls_platform_set`; `Called` is what a call ends in.
* `NvSeed` splits a write at its calls of the C library, between which the process
  may crash; a read, which changes no file, is one action.
* `SppChecksum`, `DeviceSecret` and `ProtoSample` have the locals of the loops as
  variables and one action for a turn of a loop; `SdpDb` and `BleAnnounce` have
  one for a function.

* `Programs` and `MCLibrary` check modules that have nothing to do with each other
  in one run. In `Programs` the variable `program` says which of them a behaviour
  belongs to, `stage` is its control, and `s1` to `s8` stand for the variables of that
  one: the INSTANCE of each module names them. A property is that of the instance, for
  the behaviours that are its own. `MCLibrary` extends its modules, which keep their
  variables under their own names.

Definitions marked `Mutant` in the modules are plausible bugs. They are used by
no other definition; substituted for the definition that follows them they make
a property fail, which shows that the property has something to say.

## Runs

| run | asks | bounds |
|---|---|---|
| `link_reliable` | Do the two ends stay in step when all three streams interleave and nothing is lost? Do they implement `StreamDelivery`? Is every message delivered, and on two of the streams acknowledged and answered? | three directives in a row, one command, one OTA transfer; 10 150 states |
| `link_lossy` | What survives when packets are lost or allocations fail, anywhere? | three commands, two faults; 83 971 states |
| `link_tail_lost` | Does the assertion at an INITIAL packet hold when the end of a transaction is lost? It does not (see Findings). | three commands, one fault |
| `tx` | Is every payload cut into packets that fit, cover it and read back? | payloads of 0 to 17 bytes around every boundary, four stream ids, any starting id, one failed allocation |
| `sample` | Does the sample program, with its real constants, run through in every order of its runs? | none: the real sizes of its messages, MTU 128, four-bit numbers |
| `receivers` | What do the receivers of both transports make of bytes that were lost, cut or joined? | below; 694 581 states |
| `framer_short_frame` | Do the assertions of `verify_packet` hold when a byte is lost? They do not (see Findings). | three frames, one lost byte |
| `wire_short_initial` | Does the check of an INITIAL packet's length protect what follows it? It does not (see Findings). | one cut packet |
| `programs` | Can what the small programs write be read by those it is for, and do they end? | below; 187 562 states |
| `library` | Does state that is kept for callers survive whatever they call, and failures? | below; 501 524 states |
| `checksum_escapes` | Does every intact frame pass the assertions of `checksum.c`? It does not (see Findings). | the frames of `SppChecksum` |
| `sdp_length` | Is the service table as long as its records? It says it is four bytes longer (see Findings). | seven ids |

Parts of `receivers`:

| module | asks | bounds |
|---|---|---|
| `SppFramer` | Does the framer find every frame, what do lost bytes cost, and does it never write past its buffer? | three frames, of contents that are short, full of escapes, of the size of the buffer and one byte longer, up to two lost bytes |
| `BleWire`, as `Joined` | Do the bytes unpack to what was packed? | MTU 264, payloads around the second length byte, two joined packets |
| `BleWire` ("cut") | What does a packet cost that ends too early? | MTU 10, six messages on four streams, two cut packets, INITIAL headers whole |
| `BleWire`, as `Lost` | And one that ends anywhere? | the same, and one joined packet |

Parts of `programs`:

| module | asks | bounds |
|---|---|---|
| `Eir` | Can the response be read back? | every name that one byte of length can count |
| `BleAnnounce` | Are the service and the configuration found where readers look for them? | MTUs and sizes at the limits of a byte |
| `SdpDb` | Does a peer find the ids that were set, and the ends of the records? | seven ids at the limits of a byte |
| `SppChecksum` | Is an intact frame accepted, and a changed one found out? | all data of up to three bytes over special values, a sum of more than 16 bits, headers and sums with and without special bytes, any one byte of the frame changed |
| `ProtoSample` | Does each message fit, reach its parser whole, and end its dump? | shortest and longest arguments |
| `DeviceSecret` | Is the secret hashed whole, and the text the digest? | 25 pairs of lengths around blocks and buffer, every value of a byte |
| `Sha256SelfTest` | Are the digests those of FIPS 180-2? | the real sizes, the tests of one and of two blocks, both builds |

Parts of `library`:

| module | asks | bounds |
|---|---|---|
| `PacketList` | Has every node and every packet one owner, and no use after it is freed? | two runs of main, three packets a message, four in the response, one failed allocation |
| `Sha256` | Is the digest that of the message, however it was cut and whatever was hashed before? | blocks of 8 bytes, counters modulo 32, six lengths of pieces, two messages of up to 69 bytes |
| `Sha256`, as `Clone` | Do a context and its clone stay apart? | two contexts, two pieces of five bytes each |
| `MbedtlsPlatform` | Does a configuration that is not refused do what it says? | three edits of two configurations, two calls of setters |
| `NvSeed` | Is a seed that is read whole, and the newest? | three bytes, three writes, two faults or crashes |

Bounds of the framer runs. The buffer is cut down so that packets that overrun
it are short: to thirteen bytes, which is what two shortest packets take when the
byte between them is lost, and in `framer_short_frame` to nine, two more than the
shortest packet. The bytes are the three special ones, what they are escaped to, and
two ordinary ones. Two lost bytes are the fewest that can join two frames (an EOP and
the SOP after it); three frames are one that is damaged, one that the damage may cost
and one that must be found.

Bounds of the link runs. The constants of the protocol are shrunk together so
that every case is met with short messages: with MTU 10 and one-byte lengths up
to 3, an INITIAL packet carries 3 bytes and later ones 6, so that messages of 2
to 13 bytes take one, two or three packets, with and without the second length
byte; in `link_lossy`, with MTU 8, four packets. Three sequence numbers make the
number wrap within one transaction; two transaction ids make ids wrap in the
life of a link. Two faults are the fewest that can lose the end of one
transaction and the beginning of the next, which is what it takes to join parts
of two. With as many faults as there are sequence numbers a whole cycle may be
lost unnoticed, in the model as on the wire, where the cycle has sixteen.

In `link_reliable` three directives in a row make the ids of a stream come round and
a reassembly start three times; a command makes both ends send on one stream; the OTA
transfer goes the other way than its acknowledgements.

Bounds of the other runs. `BleWire`: a message needs three packets for one to be
lost in the middle and one at its end, a second transaction for the leftovers of
the first to matter, and a packet of another stream to be joined to it. One of the
streams is one that the program does not know. `PacketList` needs two runs for an
address to be used again, and three packets for a list to have a middle. `Sha256`:
with a length of two bytes in blocks of eight, pieces of 1, 7, 8 and 20 bytes fill
the buffer partly, exactly, and over several blocks; 31 is the longest that a
counter modulo 32 takes, and messages of up to 69 bytes make the second counter
carry twice. `MbedtlsPlatform` needs three edits to turn from one of the ways to give a
function (default, pointer, macro) to another with what that requires; two calls of
setters for the last to win. `NvSeed` has a byte in the middle of a seed, and one
seed more than faults. The data of `SppChecksum` are made of the special bytes, what
they are escaped to, the limit of a byte, and the one byte that makes up in the sum for an
escape that is lost (EE for F0).

Deadlock is not checked by these runs, because everything here may stop: a link on which
everything is answered, a line on which all frames are out, a process that has aborted,
a call that has returned, a `main` that has returned, and callers that have made the
calls they are allowed. That nothing stops before it should is what the liveness
properties say.

### What the runs show

`link_reliable`: `TypeOK`; `NoAbortWithoutFaults`; `InStepWithoutFaults`, which
says packet by packet that the reassembly is exactly what has left the sender,
under its id, at its sequence number, and that every transaction is delivered or
queued in order, also when ids come round again; `EchoNeverAnswers` (`sample.c:68`),
although the decoder would answer a command in either role; `ImplementsDelivery`, the
refinement of `StreamDelivery`; `EveryMessageAnswered`: again and again everything that was
created is delivered, and on the control and the Alexa stream answered, and acknowledged
if it asks for that. Messages of the OTA stream may ask too, and are delivered without any
acknowledgement: `rx.c:181` has a comment where the handler would be. The property says so of
them.

`link_lossy`: `DeliveredWhole`, no handler is ever given parts of two messages,
or one message twice or late; `VerdictsTruthful`, a message is acknowledged once
at most and SUCCESS means that it was handed over; `AnswersMatch`, the k-th
answer belongs to the k-th message handed over; `LastPacketFrees`, a
transaction's last packet never leaves a reassembly behind, although
`decodePacket` ignores the FINAL type.

`tx`: `TypeOK`, `PacketsFitMtu`, `PacketsCoverPayload`, `LengthsReadBack`, and
`GapsShow`: a packet dropped by a failed list node (`helpers.c:43`) leaves a gap in the
sequence numbers.

`sample`: `NoAssertionFails`; `ReassemblyBelongsToPhase`, the buffers the two
roles share are never in use by both; `RunsAreAnswered`.

`receivers`, on `SppFramer`: `TypeOK`, with the bound of the buffer; `FramesArriveIntact`,
which says that, as long as nothing is lost, `verify_packet` is given exactly the
frames that fit, unescaped and in order, and that a packet that overruns the buffer
costs no other; `FramesNotJoined`; `RecoversAfterOneFrame`: the SOP that shows an
error is itself dropped (`packet_helper.c:84`), so that one undamaged frame may
go with the damaged one, but never a second. The framer never compares the
checksum, so a frame that lost a byte of its data is handed over like any other.

`receivers`, on `BleWire`: `MCOnlyCutIsLost`, joined and cut every message arrives whole, with its
stream, id, ack flag and payload, except those of which a packet was cut, and every
answer arrives. That includes `assert(length == 2)` (`rx.c:235`), which the
program's own control packets never fail. (`Joined` has no stream that the program does not
know; a segment behind one of those is lost, `rx.c:260`, and only
`MCNothingCutIsDelivered` speaks of it.) `ResultsReadBack`: the Echo device prints
the results that the gadget gave, and as many of them are SUCCESS as messages that asked
were handed over on the control and the Alexa stream. `MCAnsweredOnce` says which message each
result is about, which the wire does not: no two are about the same, SUCCESS is for just those
messages, and in `Joined` and "cut" FAILURE is for just those, of the OTA stream too, that
asked and of which a packet was cut. `MCNothingCutIsDelivered`: in `Lost` a packet that ends
within its first bytes counts for lost, and takes with it what it was joined to (`rx.c:286`),
so that the assertions of `decodePacket` can fail, as in `link_tail_lost`; what was handed over
by then is whole.

`programs`: `ReadsBack`, of the extended inquiry response; `AnnouncementsRead`, the
service is found in the advertising data, to the last byte of the 31, and the
configuration in the protocol version packet; `TableIsRead`, of the service table;
`OnlyIntactAccepted`, of frames in whose header and checksum nothing is escaped: the intact
ones are accepted with their data (`IntactAccepted`), and of those with one byte changed only
some in which the seqId is another, which is not summed up, or an ESP came or went in the data
(`ChangeDetected`, `Overlooks`): of F0 03 00 01 EE 02 00 F3 F1, with EE turned into F2, the
program reads F0, and the sum is the same. What it does to the other frames is the finding
of `checksum_escapes`;
`MessagesReadBack`, every dump of `proto_sample.c` prints what
was filled in, and the binary in its `main` is what the encoder writes for it;
`TokenOfWholeSecret`: the secret is hashed whole although its length is an `uint8_t`,
because the buffer of 200 characters is shorter than what that can count;
`ProgramsSucceed`: `proto_sample.c` returns, and the self test passes, and with that the
two builds of the compression compute the same.

`library`: `EachOwnedOnce`, which also says what leaks: the data of a packet
whose node could not be allocated (`helpers.c:43`), and nothing else;
`NothingFreedIsUsed`; `ResponseInOrder`. `DigestOfMessage`, the blocks processed are
those that FIPS 180 makes of the whole message. `ConfiguredIsCalled` and
`FreedWhereAllocated`, with the exceptions as part of the properties: one macro for the seed
file without the other is ignored (`NoMacroIgnored`); `CallsEndSomewhere` lists exactly the
names that are left without a definition; and the buffer of the self test goes
back to another allocator exactly where calloc and free are called through pointers with
different defaults and nothing was set. `WholeSeedOrNone`.

### Fairness

`BleLink!FairSpec` has weak fairness of receiving: `receivePackets` is a loop
over the packets it is given, so as long as there is a packet some packet is
received. Which one is left open. Nothing is assumed of sending, or of faults.
In `Programs`, `ProtoSample` and the self test of `Sha256SelfTest` have weak fairness of
their next step: each is one thread of sequential code without waits. No other property depends on fairness.

## Proofs

The theorems about the BLE packets hold for every MTU above 6, every width of the length fields,
every modulus of sequence numbers and ids, every size of messages and any
number of messages, under the named assumptions of the modules
(`PacketAssumption`, `TxAssumption`, `EndpointAssumption`, `NullAssumption`,
`LinkAssumption`, and `SampleAssumption`: one process, and ids wide enough for those of
the captured packets). TLC evaluates these on its instances; the constants of
`config.h` and `common.h` satisfy them. The links' theorems that allow faults have
`FewFaults` as their hypothesis. Those about the framer rest on
`BytesAssumption` (what the escape does to a byte) and `FramerAssumption` (a
buffer of at least seven bytes, frames of at least seven); those about the lists on
`HeapAssumption` (the addresses of a finite heap, `NULL` not among them). Those about the
small programs rest on `ProgramAssumptions`, the conjunction of what each of them is run
with: `EirAssumption` (a name whose length the byte for it can count), `ConfigAssumption`
(an MTU and a size of a transaction in two bytes), `IdsAssumption` (ids in two bytes),
and `SecretAssumption` (id and secret are strings that the
buffer has room for). The theorems about `SppChecksum`, `BleWire`, `Sha256`, `MbedtlsPlatform`
and `NvSeed` have their assumptions as hypotheses: `InputAssumption` (header, data and what a
byte is changed to are bytes, and what `BytesAssumption` says; `ProgramAssumptions` has it
too); `WireAssumption` (the fields have the widths of the header,
payloads are bytes and no more than a length can count, fewer than sixteen messages on a
stream, and at least the first byte of a packet is left), `SizesAssumption` (the two words of the length fit a
block and leave room for a byte, and the modulus of a word is a multiple of eight and of
the size of a block) and `PiecesAssumption` (the length of a piece fits a word);
`StartAssumption` (configurations are made of the options and macros that the headers know,
and no function given to a setter is a standard one); `SeedAssumption` (a seed has at
least one byte). `MCBleWire` and `MCLibrary` assume all of them
of their instances.

* `SharedLemmas`: when two numbers, counted round a modulus, are equal (`ModDiffer`,
  `ModSuccessor`), that quotient and remainder are the only ones there are
  (`DivisionUnique`), and what a sequence is that others were appended to (`Joined`,
  `Piece`). And induction: the provers do none over data, nor can they
  instantiate the library's induction theorems, which have operators as parameters; but
  the theorem that the order of the numbers is well founded has none, and from it follows
  induction over a set of numbers (`SetInduction`), which is all that the folds of `Sha256`
  and the walks of `PacketList` need. A fold takes the indices of a sequence as a set,
  greatest first; `FoldOneMore` and `FoldConcat` say that it takes a sequence from the
  front. A sum taken by halves, as `SppChecksum` does it for TLC, is the same as a fold if
  the operation is associative (`HalvedIsFold`). The operation is a constant of the
  module, which is instantiated once for each.
* `BuiltDataProofs`, on `BleTx`: `TxTypeCorrect`, `TxPacketsFitMtu`, `TxPacketsCoverPayload`,
  `TxLengthsReadBack`. What a packet takes lies between one byte and what remains, and a
  packet of that payload fits the MTU (`PayloadBounds`); a length with one byte is at most
  what a byte holds (`ShortPayload`). The inductive invariant `TxInv` adds to the properties
  that the two loop variables sum up to the payload and that, as long as no node
  was lost, the packets in the list reach exactly to `srcIndex`. `TxGapsShow` needs
  more (`GapInv`): before each packet in the list some number of packets are missing, at
  most as many as nodes were lost, and the packet's number is that of its predecessor
  advanced by one more than these. As there are more sequence numbers than lost nodes,
  none missing and some missing cannot look the same.
* `BleEndpointProofs`: lemmas on the two roles that do not depend on which process plays
  which, for the link and for the sample. The lemmas on
  queues (`ChannelTail`, `ChannelAdvance`, `ChannelAck`, `ChannelCreate`) say
  what the four things that can happen to a queue do to its order; the lemmas on
  reassembly (`OpenedInStep`, `AppendedInStep`, `AppendedMirrors`) that an
  arriving packet finds the buffer it expects and leaves it where the sender is.
  Every way through `decodePacket` is a combination of these, and the refusing ones cannot
  happen on a channel that is in step (`NothingRefused`, `PacketInStep`). `Exchange`
  says that the gadget has sent the answers to the commands handed over to it, and no
  more, and never asks for an acknowledgement of its own data; `PacketExchange` and
  `CreateExchange` that a packet and a creation keep it.
* `BleLinkProofs`, on a link that loses nothing: `LinkTypeCorrect`, which holds with
  faults as well; `LinkInStep` and `LinkNeverAborts`. That no assertion fails is not inductive:
  it depends on where the receiver's buffer stands relative to the queue of its
  peer. `LinkInv` therefore says of every channel that its queue is in order
  between what was delivered and what was created (`ChannelInOrder`), and that
  the buffer mirrors the transaction at its head (`Mirrors`).
  `LinkImplementsDelivery` is the refinement of `StreamDelivery`: a step that completes a
  transaction hands over the one after the last (`CompletesHands`), which is the abstract
  step; a transaction created is a message sent; everything else is a stutter.
* `BleLinkProofs`, with packets lost, allocations that fail and processes that abort:
  `LossyDeliveredWhole`, `LossyVerdictsTruthful`,
  `LossyLastPacketFrees` and `LossyImplementsDelivery`. `LossInv` says of every channel (`Sound`) that its
  queue is in order behind the transactions that are wholly gone from it, each with the
  id that its number gives it; that the reassembly, if there is one, is either `Whole`
  (all that has left of the transaction at the head), or has a `Gap` of some packets,
  no more than there were faults, or is `Stale` (left by a transaction that is gone);
  and that what was handed over is whole, increasing, and just what the verdicts say
  was a success. A `Gap` cannot close, because no next packet has the expected number;
  a `Stale` reassembly cannot be added to, because the next packet has another id. Both
  are arguments about counting round a modulus, and both fail when enough is lost: a gap
  of as many packets as there are sequence numbers is invisible, and so is one of as many
  transactions as there are ids. `FewFaults` excludes just these. A stale reassembly
  stays only as long as what was begun since is lost as well (the first packet to arrive
  fails an assertion), besides its own last packet, so that as many faults as there are
  ids are not yet enough. That `LossInv` holds was first seen with
  TLC on the instance of `link_lossy`, of which `FewFaults` is true.
  `LossyAnswersMatch` and `LossyEchoNeverAnswers` are about what is in the messages.
  `AnswerInv` adds `Exchange` to `LossInv`, which it needs: only because what is handed
  over is a whole message of the peer is an answer made of the command that was sent.
* `BleSampleProofs`: `SampleNeverAborts`, `SampleSharesBuffers` and
  `SampleRunsAreAnswered`, for messages of any size. With both roles on one set of
  buffers an assertion holds only because a buffer is never between two
  packets of one role when the other receives. `SampleInv` therefore says for each phase of
  `runSample` which of the queues may hold something: in `main` none, while the
  gadget receives what the Echo device sent and the answers made so far, while the Echo
  device receives those answers; and that the shared buffer mirrors the one queue that
  is being received.
* `WireProofs`, on `SppFramer`: `FramerTypeCorrect`, `FramerArriveIntact` and
  `FramerRecovers`, for every alphabet in which the escape is its own inverse,
  every set of contents of at least five bytes, and any number of frames and of
  lost bytes. One invariant carries all three. `SyncInv` says what is known of
  the framer although bytes were lost: when an intact frame is out the framer is
  ready for a SOP, whatever state it was in when that frame began, and an intact
  frame that found it ready is mirrored byte by byte (`InStep`) or too long. On a
  line without losses every frame is such a frame, which gives
  `FramesArriveIntact`; `RecoversAfterOneFrame` needs two in a row.
  `FramerNotJoined` adds `JoinInv` for lines that lose at most one
  byte: a packet in the buffer that is not in error is of the frame on the line, except
  that what is left of a frame whose EOP was lost stays until the next SOP, which then
  is not lost as well.
* `WireProofs`, on `BleWire`: `PacketReadsBack`, for every MTU, both forms of the length and
  payloads of any size: whatever is in front of a packet and behind it, each field that
  `decodePacket` takes out of its bytes is the one that `buildStreamPacket` put in. From it
  `PacketReassembled`: a reassembly that holds what is in front of a packet takes it. And
  `WireResultsReadBack`, with cuts and joins anywhere. The gadget may be given anything
  that its capture has made of the packets (`WireInv`: whole packets, or the beginning of
  one), and of its part of the run nothing is needed but that each result it notes is an
  acknowledgement in `response`. The Echo device, which is given `response` whole, has to
  read it all: an assertion that failed there, or a segment taken for another, would leave
  a result unread. So the invariant has the list of what was responded, a control packet
  for each result and the packets of each answer, says that the Echo device is in the middle of
  it at a packet's beginning, that its reassemblies hold what is in front of it, and that it
  has printed the results before it.
* `WireProofs`, on `SppChecksum`: `OnlyIntactFramesAccepted`, for every header and
  all data of any length if header and checksum need no escape, every table of escapes and
  every byte that takes the place of another. Which bytes the program reads depends on where
  the escapes are, so that the invariant is about positions: `Laid` says of a function `at`
  that value `k` of the data is the byte at `at[k]`, or an ESP there and what it stands for
  behind it. A frame is laid so as it was sent (`FrameFacts`, by induction over the data,
  `EscapedEncoded`), and with one byte changed unless an ESP comes or goes
  (`ChangedFacts`), whether in the header, the checksum or the data, where the byte may have
  been the second of an escape. It agrees with its checksum if and only if it is `whole`: one
  value that differs changes the sum, also in 16 bits (`SumDiffers`). `Progress` says what
  was read at each step, and that the assertion fails just for a frame that is not whole.
* `LibraryProofs`, on `PacketList`: `ListsOwnedOnce`, `ListsUseNothingFreed` and `ListsInOrder`, for
  every heap, any number of packets and of runs, and any number of lost nodes. That no
  freed node is used depends on where the pointers lead, which the properties do not say.
  `ListInv` says that from each of the three variables that hold a list a path of
  distinct nodes leads to the null pointer (`Reached`), that no two paths meet and that
  together they are all that is allocated, and what is on them in each phase of `main`
  (`InPhase`, `Filled`). One lemma per use of a list says what it does to a path: a node put
  at its tail (`AddedPath`), a list appended (`AppendedPath`), its head taken off
  (`PathStep`, `FreeList`), and that the others stay (`OtherPath`).
  The loops that follow `next` to the end are a recursive function. That it exists and is
  the path takes induction over the length of the path, from which follow the existence of
  a function defined by iteration (`Iteration`) and what a walk does (`WalkFollows`,
  `WalkIsPath`).
* `LibraryProofs`, on `Sha256`: `HashIsDigestOfMessage`, for every size of a block and of a
  word, any compression, any number of contexts, and messages of any length in pieces of any
  lengths. `HashInv` says of a context that was started that its two words count the
  message (`Counts`) and that its state and buffer hold it (`Holds`): some number of whole
  blocks is in the state, and the rest is at the beginning of the buffer, whatever is behind
  it. `sha256_update_ret` does three things to that: it fills the block that was begun
  (`FillsBlock`), takes the whole blocks of the piece from where they are (`TakesBlocks`),
  and stores what is left (`StoresPiece`); `FinishHolds` appends the mark, the zeros and the
  length, with one block or two, and is left with nothing in the buffer, so that the state
  is that of the blocks of the padded message. That the length is in bits and over both
  words is `BitsCounted`, and that the first word alone says where in the buffer the
  message ends is why its modulus has to be a multiple of the block (`LeftIs`). These are
  lemmas of `Sha256ContextProofs`, about operators without state; with them the invariant
  takes one step for each function (`UpdateSound`, `FinishSound`).
* `LibraryProofs`, on the platform layer: `PlatformConfigured` and `PlatformFreesWhereAllocated`, for every
  configuration that is not refused, with the exceptions that are named in the properties, of which TLC checks those a few edits from two, and
  any number of calls of setters. `PlatformInv` says that what was compiled is
  what was checked, corrected as the headers correct it, and that a pointer no setter was called for
  is the default; the rest are cases on how a function can be given.
  `SeedWholeOrNone`: `SeedInv` says that whatever was cut off, the
  file has the beginning of the newest seed, and nothing of an older one, because a
  write truncates it first; a read accepts the full length only.

* `BuiltDataProofs`, on `Eir` and `BleAnnounce`: `EirReadsBack`, for every name that the
  byte of its length can count, and `AnnouncementsAreRead`, for every MTU and size of a
  transaction. `EirInv` and `AnnounceInv` say at each call what was appended and where the
  next byte goes; `construct_gadget_eir` never writes behind the 255 bytes its length
  can count, because the longest name leaves just enough.
* `BuiltDataProofs`, on `SdpDb`: `TableReadByLengths`, for every product and vendor id.
  A peer that starts behind the header and skips what each length says meets four
  records (`TableLength` and the lemmas around it), and `set_sdp_db` changes four bytes
  none of which is a length: the table `Agrees` with the one of the source outside of them.
* `BuiltDataProofs`, on `DeviceSecret`: `TokenIsOfWholeSecret`, for every id and secret that
  the buffer holds. The blocks that come out of the three functions on a context are those
  of the padded message because `UpdateSound` and `FinishSound` of `Sha256ContextProofs`,
  instantiated with the sizes of SHA-256, hold of a message in one piece (`OnePiece`), for a
  compression that keeps its blocks; and blocks that are kept, joined, are the padded
  message (`BlocksFlattened`). `SecretInv` says that the text is the digest as far as
  `convert_to_utf8` got.

Only model-checked, and why:

* `BleWire`, with `OnlyCutIsLost`, `NothingCutIsDelivered` and `AnsweredOnce`, and that a run
  ends at all. The gadget's packets are cut anywhere and joined; an invariant would have to
  say of every packet which bytes of which segment it ends in, and the
  instances, with all cuts of all packets, are small enough for TLC.
  That single packets read back is proved (`PacketReassembled`), and so is what they do
  without their bytes (`BleTx`, `BleLink`).
* `MessagesReadBack`, of the protobuf example: its messages have strings as fields, of
  which the provers know no length.
* What the compression of SHA-256 computes, which `HashIsDigestOfMessage` leaves open, and
  that the self test passes.
* Everything about liveness, which is out of the prover's reach:
  `EveryMessageAnswered`, `ProgramsSucceed`.

## Findings

`link_tail_lost`: one packet lost at the end of a transaction makes the next
transaction of that stream abort the receiver at `BLE/Handshake/rx.c:263`, whose
comment says "Ensure that this packet does not exist and then create it." Within
this repository a packet is lost when `PacketList_addToTail` cannot allocate its
node (`helpers.c:43`), which nobody is told of.

`framer_short_frame`: the framer expects bytes to go missing ("packet too big or
0xf1 is dropped", `BT/PacketHelper/packet_helper.c:65`) and resynchronises, but a
packet left with fewer than seven bytes goes to `verify_packet`, which seeks the
trailer behind it and fails its assertion (`packet_helper.c:51`).

`wire_short_initial`: an INITIAL packet of fewer than five bytes is reported
(`BLE/Handshake/rx.c:246`) and, unlike after every other such check, not dropped: its
length is read from behind its end. Only a packet that was cut off, as in a capture,
does this.

`checksum_escapes`: `checksum.c:48` leaves "the last 3 bytes for checksum and EOF", which is
wrong when a byte of the checksum is F0, F1 or F2 and therefore escaped, as everything
between SOP and EOP is (`packet_helper.c:105` undoes it everywhere). The intact frame
F0 02 00 01 EE 00 F2 02 F1 fails the assertion at `checksum.c:78`. The same goes for the
header, which `checksum.c:37` to 44 reads as it comes.

`sdp_length`: the length in front of the table, "the sum of all records"
(`BT/SDP/sdp_db.c:14`), is 278; the records, with their headers, are 274 bytes.

Noticed while modelling, without a run of its own:

* `compute_checksum` (`BT/Checksum/checksum.c:15`) says that it subtracts the checksum
  from the length, and does not. The caller has done so, so the sum is right and the
  comment is not.
* With `MBEDTLS_PLATFORM_MEMORY` and the macros for calloc and free, which
  `config.h:163` offers, `platform.c:57` defines functions under the names that the
  macros stand for.
* Only one of the two macros for the seed file passes the checks, and is ignored
  (`platform.h:299`), as `NoMacroIgnored` says.
* A default of its own for only one of calloc and free passes the checks too
  (`platform.c:52`), and the self test then frees with one what it has from the other, as
  `FreedWhereAllocated` says. No configuration in the repository is like this.
* Messages of the OTA stream that ask for an acknowledgement get none (`rx.c:181`), while
  those that are cut get FAILURE.
* Two transactions of a stream that are sixteen apart carry the same id (`tx.c:28`);
  the receiver has finished with the first long before.
* Nothing resets the reassemblies or the ids when a connection ends (`rx.c:208`); no
  code of the repository ends one.
* The seed file is written in text mode and read in binary mode (`platform.c:260`),
  which differs on systems that translate line ends.

## Not modelled

* Bytes of any form: `BleWire` has those that the program's own packets become when
  they are cut or joined. The protocol has no other source of packets in this
  repository.
* The protobuf encoding of messages: nanopb is a library, and a message is what
  its handler reads out of it. Complete bytes decode to the message that was
  encoded; bytes that are nobody's message decode to anything, or fail.
* A failed allocation of a packet of the sample's own lists: covered where its
  list is built (`BleTx`, `PacketList`).
* Printing and formatting, `mbedtls_platform_win32_snprintf` among it.
* The options and rules of config.h and check_config.h that belong to mbed TLS
  modules whose code is not in the repository, and the placeholders for setup and
  teardown, which do nothing.
* The two tests of the SHA-256 self test with a million bytes: 15 625 blocks are more
  than TLC can compress bit by bit.
* The C library and the file system beyond what `NvSeed` assumes of them: text mode
  on systems where it changes bytes, and writes that the system itself loses.
* The schemas (`*.proto`, `*.options`), which are data, and the code generated from
  them, which is not in the repository.

## What could come next

A module for every component with code in the repository is done, and so are proofs of
all safety properties but those above. Left is what the gadget's part of `BleWire` loses to
cuts, which would need an invariant about every position in a packet.
