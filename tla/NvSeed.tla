------------------------------- MODULE NvSeed -------------------------------
(***************************************************************************)
(* The default functions of DeviceSecret/platform.c for the seed of the    *)
(* entropy source, which is kept in a file.  The entropy source is not     *)
(* part of the repository; config.h (lines 1061 to 1069) says of it that   *)
(* the file must have at least the size of a seed, that its first bytes    *)
(* are used, and that a new seed is written before entropy is given away.  *)
(*                                                                         *)
(* The file is that of the C library: what is written is buffered, and is  *)
(* in the file at the latest when it is closed, unless closing fails, or   *)
(* the process crashes before.  Text mode, in which it is written, is      *)
(* taken to be that of POSIX, which changes no byte.                       *)
(***************************************************************************)
EXTENDS Integers, Sequences

CONSTANTS
    Size,       \* buf_len: MBEDTLS_ENTROPY_BLOCK_SIZE
    MaxWrites,  \* bound: seeds that are written
    MaxFaults   \* bound: failures of the file system and crashes

SeedAssumption == Size \in Nat \ {0} /\ MaxWrites \in Nat /\ MaxFaults \in Nat

VARIABLES
    file,     \* the bytes in it
    exists,
    progress,    \* "idle", "opened" or "written", the latter two in a write
    pending,  \* what fwrite has accepted
    buf,      \* of the caller of read
    ret,      \* what the last function returned, or will return
    called,   \* history: "read" or "write"
    seeds,    \* history: how many writes there were
    newest,   \* history: the seed of the last write that could open the file
    faults

seedVars == <<file, exists, progress, pending, buf, ret, called, seeds, newest, faults>>

\* A byte of a seed is told apart from every other; seed 0 was there before.
Seed(k) == [i \in 1..Size |-> <<k, i>>]
Cleared == [i \in 1..Size |-> <<-1, 0>>]

Fault == faults < MaxFaults /\ faults' = faults + 1

-----------------------------------------------------------------------------
\* Mutant: the file is opened as it is.
OpenForUpdate ==
    /\ progress = "idle" /\ seeds < MaxWrites
    /\ seeds' = seeds + 1 /\ called' = "write"
    /\ \/ /\ exists' = TRUE /\ UNCHANGED file /\ newest' = seeds'
          /\ progress' = "opened" /\ UNCHANGED <<ret, faults>>
       \/ Fault /\ ret' = -1 /\ UNCHANGED <<file, exists, progress, newest>>
    /\ UNCHANGED <<pending, buf>>

\* fopen for writing: what was in the file is gone, or, with an error,
\* everything stays.
OpenToWrite ==
    /\ progress = "idle" /\ seeds < MaxWrites
    /\ seeds' = seeds + 1 /\ called' = "write"
    /\ \/ /\ exists' = TRUE /\ file' = <<>> /\ newest' = seeds'
          /\ progress' = "opened" /\ UNCHANGED <<ret, faults>>
       \/ Fault /\ ret' = -1 /\ UNCHANGED <<file, exists, progress, newest>>
    /\ UNCHANGED <<pending, buf>>

\* fwrite takes all, or, with an error, less.
Write ==
    /\ progress = "opened" /\ progress' = "written"
    /\ \E n \in 0..Size :
          /\ pending' = SubSeq(Seed(newest), 1, n)
          /\ IF n = Size THEN ret' = Size /\ UNCHANGED faults ELSE ret' = -1 /\ Fault
    /\ UNCHANGED <<file, exists, buf, called, seeds, newest>>

\* The first n bytes that were written are in the file, in front of what is
\* left of what it had before.
Stored(n) == SubSeq(pending, 1, n) \o SubSeq(file, n + 1, Len(file))

\* Nobody looks at what fclose returns.
Close ==
    /\ progress = "written" /\ progress' = "idle"
    /\ \/ file' = Stored(Len(pending)) /\ UNCHANGED faults
       \/ Fault /\ \E n \in 0..(Len(pending) - 1) : file' = Stored(n)
    /\ pending' = <<>>
    /\ UNCHANGED <<exists, buf, ret, called, seeds, newest>>

\* In the middle of a write; the caller and its buffer are gone.
Crash ==
    /\ progress # "idle" /\ progress' = "idle"
    /\ Fault
    /\ \E n \in 0..Len(pending) : file' = Stored(n)
    /\ pending' = <<>> /\ buf' = Cleared /\ ret' = -1
    /\ UNCHANGED <<exists, called, seeds, newest>>

-----------------------------------------------------------------------------
\* Each read has a new buffer.  The file cannot be opened.
ReadNothing ==
    /\ progress = "idle" /\ buf = Cleared /\ called' = "read"
    /\ IF exists THEN Fault ELSE UNCHANGED faults
    /\ ret' = -1
    /\ UNCHANGED <<file, exists, progress, pending, buf, seeds, newest>>

\* Mutant: what was read stays in the buffer.
KeptShort(read) == read \o SubSeq(Cleared, Len(read) + 1, Size)

\* What is left in the buffer when less was read than asked for.
Short(read) == Cleared

\* fread takes as much as there is, or, with an error, less.
Read ==
    /\ progress = "idle" /\ buf = Cleared /\ exists /\ called' = "read"
    /\ LET there == IF Len(file) < Size THEN Len(file) ELSE Size
       IN  \E n \in 0..there :
              /\ IF n = there THEN UNCHANGED faults ELSE Fault
              /\ LET read == SubSeq(file, 1, n)
                 IN  IF n = Size THEN buf' = read /\ ret' = n
                                 ELSE buf' = Short(read) /\ ret' = -1
    /\ UNCHANGED <<file, exists, progress, pending, seeds, newest>>

\* The caller takes what it was given, and clears its buffer.
Clear ==
    /\ progress = "idle" /\ buf # Cleared
    /\ buf' = Cleared /\ called' = "none"
    /\ UNCHANGED <<file, exists, progress, pending, ret, seeds, newest, faults>>

SeedInit ==
    /\ \/ exists = FALSE /\ file = <<>>
       \/ exists = TRUE /\ file \in {SubSeq(Seed(0), 1, Size - 1), Seed(0),
                                     Append(Seed(0), <<0, 0>>)}
    /\ progress = "idle" /\ pending = <<>> /\ buf = Cleared /\ ret = 0
    /\ called = "none" /\ seeds = 0 /\ newest = 0 /\ faults = 0

SeedNext == OpenToWrite \/ Write \/ Close \/ Crash \/ ReadNothing \/ Read \/ Clear

SeedSpec == SeedInit /\ [][SeedNext]_seedVars

-----------------------------------------------------------------------------
ReadReturned == progress = "idle" /\ called = "read"

\* A read that reports success has the whole of one seed, and the one that was
\* written last: whatever failed, and wherever a write was cut off, no bytes of
\* two seeds are joined and no seed comes back that was replaced, or that a
\* write began to replace.  One that reports failure leaves no byte behind.
WholeSeedOrNone ==
    /\ ReadReturned /\ ret = Size => buf = Seed(newest)
    /\ ReadReturned /\ ret = -1 => buf = Cleared
=============================================================================
