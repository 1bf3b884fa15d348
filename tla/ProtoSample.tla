---------------------------- MODULE ProtoSample ----------------------------
(***************************************************************************)
(* examples/proto_sample.c: main decodes a sample directive, then calls    *)
(* five functions one after the other.  Each fills a message, encodes it   *)
(* into a buffer of 256 bytes, prints the bytes with an index of one byte  *)
(* and, all but the first, hands the buffer to a decoder, which looks at   *)
(* the header, decodes the buffer again with the message the header names, *)
(* and prints it.                                                          *)
(*                                                                         *)
(* The encoding itself is nanopb's and the generated structures', which    *)
(* are not part of the repository: of an encoded message the model keeps   *)
(* its size, which follows from the wire format, and what it carries.      *)
(***************************************************************************)
EXTENDS Integers, Sequences, SequencesExt

CONSTANTS
    AssetIds, Urls  \* what encode_set_indicator_directive is called with

\* The fields have max_size 64 and strcpy does not look.
ArgumentsFit == \A s \in AssetIds \cup Urls : Len(s) < 64

VARIABLES
    args,     \* the arguments of encode_set_indicator_directive
    call,     \* which of main's calls runs
    stage,    \* where in it
    wire,     \* the encoded message
    bytes_written, index,
    printed   \* what each call's decoder has printed

vars == <<args, call, stage, wire, bytes_written, index, printed>>

BufferSize == 256

-----------------------------------------------------------------------------
(***************************************************************************)
(* The wire format: a field is a tag and a value; strings and messages     *)
(* have their length first.  What has its default value is left out, but   *)
(* not the elements of an array, of which as many are written as its count *)
(* says.                                                                   *)
(***************************************************************************)
VarintSize(n) == IF n < 128 THEN 1 ELSE 2
Delimited(n) == 1 + VarintSize(n) + n
Field(length) == IF length = 0 THEN 0 ELSE Delimited(length)
StringField(s) == Field(Len(s))
BoolField(b) == IF b THEN 2 ELSE 0
IntField(n) == IF n = 0 THEN 0 ELSE 1 + VarintSize(n)
ArrayField(sizes) == FoldLeft(LAMBDA sum, n : sum + Delimited(n), 0, sizes)

\* Mutant: the array is filled, its count is not set.
EncodedUncounted(array, count) == <<>>

Encoded(array, count) == SubSeq(array, 1, count)

EnvelopeSize(m) ==
    Field(Field(StringField(m.namespace) + StringField(m.name)) + Field(m.size))

-----------------------------------------------------------------------------
(***************************************************************************)
(* What the functions fill in, and the size of its payload on the wire.    *)
(***************************************************************************)
\* Mutant: one of the two arguments is not taken over.
SetIndicatorWithoutVisual(audio, visual, assetId, url) ==
    [namespace |-> "Notifications", name |-> "SetIndicator",
     payload |-> <<FALSE, audio, assetId, url>>,
     size |-> BoolField(audio) + Field(StringField(assetId) + StringField(url))]

SetIndicator(audio, visual, assetId, url) ==
    [namespace |-> "Notifications", name |-> "SetIndicator",
     payload |-> <<visual, audio, assetId, url>>,
     size |-> BoolField(visual) + BoolField(audio)
              + Field(StringField(assetId) + StringField(url))]

Strings(seq) == FoldLeft(LAMBDA sum, s : sum + StringField(s), 0, seq)
Sizes(messages) == [i \in DOMAIN messages |-> Strings(messages[i])]

\* The endpoint has neither a description nor a manufacturerName.
Endpoint == [
    ids |-> <<"test id", "friendly name", "", "">>,
    capabilities |-> Encoded(<<
        <<"test type 1", "Test interface 1", "1.0">>,
        <<"test type 2", "Test interface 2", "1.0">>,
        <<"test type 3", "Test interface 3", "1.1">>>>, 3),
    additionalIdentification |->
        <<"19", "xxxxxxxxx", "yyy", "aabbccd", "mock model name", "1234567890">>]

DiscoverResponse ==
    LET endpoints == Encoded(<<Endpoint>>, 1)
        SizeOf(e) == Strings(e.ids) + ArrayField(Sizes(e.capabilities))
                     + Field(Strings(e.additionalIdentification))
    IN  [namespace |-> "Alexa.Discovery", name |-> "Discover.Response",
         payload |-> endpoints,
         size |-> ArrayField([i \in DOMAIN endpoints |-> SizeOf(endpoints[i])])]

Discover ==
    [namespace |-> "Alexa.Discovery", name |-> "Discover",
     payload |-> <<"", "">>, size |-> 0]

StateUpdate ==
    LET states == Encoded(<< <<"timers", "active">> >>, 1)
    IN  [namespace |-> "Alexa.Gadget.StateListener", name |-> "StateUpdate",
         payload |-> states, size |-> ArrayField(Sizes(states))]

Speechmarks ==
    LET data == Encoded(<<[type |-> "viseme", value |-> "s", start |-> 130]>>, 1)
        SizeOf(d) == StringField(d.type) + StringField(d.value) + IntField(d.start)
    IN  [namespace |-> "Alexa.Gadget.SpeechData", name |-> "Speechmarks",
         payload |-> [playerOffset |-> 0, speechmarksData |-> data],
         size |-> IntField(0) + ArrayField([i \in DOMAIN data |-> SizeOf(data[i])])]

Filled(c) ==
    CASE c = "set_indicator" ->
             SetIndicator(args.audio, args.visual, args.assetId, args.url)
      [] c = "discover_response" -> DiscoverResponse
      [] c = "discover" -> Discover
      [] c = "state_update" -> StateUpdate
      [] c = "speechmarks" -> Speechmarks

\* The 57 bytes in main; 22 of them are the payload.
notification_binary ==
    [namespace |-> "Notifications", name |-> "SetIndicator",
     payload |-> <<TRUE, TRUE, "assetID1", "url1">>, size |-> 22]
SizeOfNotificationBinary == 57

-----------------------------------------------------------------------------
(***************************************************************************)
(* The decoders: a parser per name and namespace.                          *)
(***************************************************************************)
Is(m, namespace, name) == m.namespace = namespace /\ m.name = name

decode_directive(m) ==
    CASE Is(m, "Notifications", "SetIndicator") -> m.payload
      [] Is(m, "Alexa.Discovery", "Discover") -> m.payload
      [] Is(m, "Alexa.Gadget.StateListener", "StateUpdate") -> FlattenSeq(m.payload)
      [] Is(m, "Alexa.Gadget.SpeechData", "Speechmarks") ->
             <<m.payload.playerOffset>> \o
             FlattenSeq([i \in DOMAIN m.payload.speechmarksData |->
                 LET d == m.payload.speechmarksData[i]
                 IN  <<d.type, d.value, d.start>>])
      [] OTHER -> <<"Error">>

decode_event(m) ==
    IF Is(m, "Alexa.Discovery", "Discover.Response")
    THEN FlattenSeq([i \in DOMAIN m.payload |->
             m.payload[i].ids \o FlattenSeq(m.payload[i].capabilities)
             \o m.payload[i].additionalIdentification])
    ELSE <<>>

Decoded(c, m) == IF c = "discover_response" THEN decode_event(m)
                                            ELSE decode_directive(m)

-----------------------------------------------------------------------------
Calls == <<"notification_binary", "set_indicator", "discover_response",
           "discover", "state_update", "speechmarks">>

Return ==
    /\ call' = call + 1
    /\ stage' = IF call = Len(Calls) THEN "returned" ELSE "encode"

DecodeBinary ==
    /\ stage = "encode" /\ Calls[call] = "notification_binary"
    /\ printed' = [printed EXCEPT ![call] = decode_directive(notification_binary)]
    /\ Return
    /\ UNCHANGED <<args, wire, bytes_written, index>>

\* pb_encode into the buffer: when it is too small the call ends with a line.
Encode ==
    /\ stage = "encode" /\ Calls[call] # "notification_binary"
    /\ LET m == Filled(Calls[call])
       IN  IF EnvelopeSize(m) > BufferSize
           THEN Return /\ UNCHANGED <<wire, bytes_written, index>>
           ELSE /\ wire' = m /\ bytes_written' = EnvelopeSize(m)
                /\ index' = 0
                /\ stage' = "dump" /\ UNCHANGED call
    /\ UNCHANGED <<args, printed>>

\* Mutant: a signed char.
SignedIndex(i) == (i + 1) % 128

NextIndex(i) == (i + 1) % 256

DumpByte ==
    /\ stage = "dump" /\ index < bytes_written
    /\ index' = NextIndex(index)
    /\ UNCHANGED <<args, call, stage, wire, bytes_written, printed>>

Decode ==
    /\ stage = "dump" /\ index >= bytes_written
    /\ printed' = IF Calls[call] = "set_indicator" THEN printed
                  ELSE [printed EXCEPT ![call] = Decoded(Calls[call], wire)]
    /\ Return
    /\ UNCHANGED <<args, wire, bytes_written, index>>

Init ==
    /\ args \in [audio : BOOLEAN, visual : BOOLEAN, assetId : AssetIds, url : Urls]
    /\ call = 1 /\ stage = "encode"
    /\ wire = Discover /\ bytes_written = 0 /\ index = 0
    /\ printed = [c \in DOMAIN Calls |-> <<>>]

Next == DecodeBinary \/ Encode \/ DumpByte \/ Decode

Spec == Init /\ [][Next]_vars

\* One thread that nothing stops.
LiveSpec == Spec /\ WF_vars(Next)

-----------------------------------------------------------------------------
\* The messages that the comments in the functions show.
Comments == [
    notification_binary |-> <<TRUE, TRUE, "assetID1", "url1">>,
    set_indicator |-> <<>>,
    discover_response |->
        <<"test id", "friendly name", "", "",
          "test type 1", "Test interface 1", "1.0",
          "test type 2", "Test interface 2", "1.0",
          "test type 3", "Test interface 3", "1.1",
          "19", "xxxxxxxxx", "yyy", "aabbccd", "mock model name", "1234567890">>,
    discover |-> <<"", "">>,
    state_update |-> <<"timers", "active">>,
    speechmarks |-> <<0, "viseme", "s", 130>>]

\* Each message fits the buffer, is handed over with all its array elements,
\* and reaches the parser it was written with: a call that has returned has
\* printed the message that the comment in its encoder shows.
CommentsPrinted ==
    \A c \in DOMAIN Calls : c < call => printed[c] = Comments[Calls[c]]

\* Called with the arguments that main uses, encode_set_indicator_directive
\* writes the message that the binary in main is, in as many bytes.
BinaryIsEncoded ==
    (/\ stage = "dump" /\ Calls[call] = "set_indicator"
     /\ args = [audio |-> TRUE, visual |-> TRUE, assetId |-> "assetID1", url |-> "url1"])
        => /\ wire = notification_binary
           /\ bytes_written = SizeOfNotificationBinary

\* Every dump ends, although its index has one byte and the buffer is as long
\* as an index of one byte can count: main returns.
MainReturns == <>(stage = "returned")
=============================================================================
