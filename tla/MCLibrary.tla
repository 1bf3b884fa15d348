----------------------------- MODULE MCLibrary -----------------------------
(***************************************************************************)
(* Code that keeps state for callers, who call it in any order: the        *)
(* packet lists, the contexts of SHA-256, the platform layer and the seed  *)
(* file.  None takes notice of another: in a behaviour one of them is      *)
(* called, and the others stay as they are.                                *)
(***************************************************************************)
EXTENDS PacketList, Sha256, MbedtlsPlatform, NvSeed

CONSTANT Libraries  \* those that are explored

VARIABLE library

MCvars == <<library, vars, sha256Vars, platformVars, seedVars>>

-----------------------------------------------------------------------------
\* Instead of being compressed the blocks are kept, so that digests are equal
\* only if the blocks are.
MCCompress(state, block0) == Append(state, block0)
MCInitialState(is224) == <<is224>>
MCLeading(state) == <<"224">> \o state

\* Edits of config.h, and of a configuration for a device without a standard
\* library.
Bare == [options |-> {"PLATFORM_C", "PLATFORM_MEMORY", "PLATFORM_NO_STD_FUNCTIONS",
                      "HAVE_TIME", "ENTROPY_C", "ENTROPY_NV_SEED",
                      "PLATFORM_NV_SEED_ALT"},
         macros |-> {"printf", "fprintf", "snprintf", "exit", "time"} \X {"ALT"}]

MCStart == {ConfigH, Bare}

ASSUME LibraryAssumptions ==
    SizesAssumption /\ PiecesAssumption /\ StartAssumption /\ SeedAssumption

-----------------------------------------------------------------------------
\* What is not called need not begin in all its ways.

MCInit ==
    /\ library \in Libraries
    /\ Init /\ Sha256Init /\ PlatformInit /\ SeedInit
    /\ library # "platform" => options = ConfigH.options
    /\ library # "seed" => ~exists

\* Bounds: a context by itself, with messages that go over a word of its
\* counter, or clones of messages of up to two blocks.
ClonedLengths == {0, 7, 14}

Sha256Step ==
    /\ Sha256Next
    /\ \/ library = "sha256" /\ stageOf'[1] = "none"
       \/ library = "clone" /\ \A c \in Contexts : Len(message'[c]) \in ClonedLengths

MCNext ==
    \/ library = "list" /\ Next
       /\ UNCHANGED <<library, sha256Vars, platformVars, seedVars>>
    \/ Sha256Step /\ UNCHANGED <<library, vars, platformVars, seedVars>>
    \/ library = "platform" /\ PlatformNext
       /\ UNCHANGED <<library, vars, sha256Vars, seedVars>>
    \/ library = "seed" /\ SeedNext
       /\ UNCHANGED <<library, vars, sha256Vars, platformVars>>

MCSpec == MCInit /\ [][MCNext]_MCvars
=============================================================================
