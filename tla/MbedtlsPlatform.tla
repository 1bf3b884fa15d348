-------------------------- MODULE MbedtlsPlatform --------------------------
(***************************************************************************)
(* The platform layer of mbed TLS: in which function a call of             *)
(* mbedtls_printf, mbedtls_calloc and so on ends.  config.h defines        *)
(* macros, check_config.h refuses some combinations of them, platform.h    *)
(* and platform.c make names, function pointers and setters of the rest.   *)
(* None of the combinations but one is built here; they are explored all   *)
(* the same: the configuration is edited, one macro after the other,       *)
(* compiled, and then the program calls setters and, for the pair of       *)
(* calloc and free, the self test of sha256.c, which uses both.            *)
(***************************************************************************)
EXTENDS Integers, FiniteSets

CONSTANTS
    Start,       \* configurations that are edited: options and macros
    Given,       \* what a program sets: functions of its own
    MaxChanges,  \* bound: edits
    MaxSets      \* bound: calls of setters

Functions == {"printf", "fprintf", "snprintf", "exit", "time", "calloc", "free",
              "nv_seed_read", "nv_seed_write"}
Memory == {"calloc", "free"}
SeedFunctions == {"nv_seed_read", "nv_seed_write"}

Options == {"PLATFORM_C", "PLATFORM_MEMORY", "PLATFORM_NO_STD_FUNCTIONS",
            "PLATFORM_STD_MEM_HDR", "PLATFORM_TIME_TYPE_MACRO", "PLATFORM_NV_SEED_ALT",
            "HAVE_TIME", "HAVE_TIME_DATE", "FS_IO", "ENTROPY_C", "ENTROPY_NV_SEED",
            "_WIN32"}

\* MBEDTLS_PLATFORM_<f>_ALT, MBEDTLS_PLATFORM_<f>_MACRO, MBEDTLS_PLATFORM_STD_<f>.
Macros ==
    (Functions \X {"MACRO", "STD"})
    \cup ((Functions \ (Memory \cup SeedFunctions)) \X {"ALT"})

ConfigH == [options |-> {"PLATFORM_C", "HAVE_TIME", "HAVE_TIME_DATE", "FS_IO", "ENTROPY_C"},
            macros |-> {}]

\* What calls must not end in on a device without a standard library.
Standard == {"libc", "win32", "file"}

StartAssumption ==
    /\ Start \subseteq [options : SUBSET Options, macros : SUBSET Macros]
    /\ Given \cap Standard = {}
    /\ MaxChanges \in Nat /\ MaxSets \in Nat

VARIABLES
    options, macros, changes,
    stage,    \* "edit", "refused", "running" or "testing"
    pointer,  \* in which function a call through a pointer ends
    set,      \* history: what the setter of a function was called with last
    sets,
    block     \* in which calloc the self test's buffer is from

platformVars == <<options, macros, changes, stage, pointer, set, sets, block>>

On(o) == o \in options
Alt(f) == <<f, "ALT">> \in macros
Macro(f) == <<f, "MACRO">> \in macros
Std(f) == <<f, "STD">> \in macros

-----------------------------------------------------------------------------
(***************************************************************************)
(* check_config.h                                                          *)
(***************************************************************************)
\* On Windows snprintf is replaced by itself.
Corrected ==
    IF On("_WIN32") /\ ~Alt("snprintf") /\ ~Macro("snprintf")
    THEN macros \cup {<<"snprintf", "ALT">>} ELSE macros

AltC(f) == <<f, "ALT">> \in Corrected

\* Mutant: the default need not be one of a pointer.
PrintingRulesWithoutStd(f) ==
    /\ AltC(f) \/ Macro(f) => On("PLATFORM_C")
    /\ Macro(f) => ~Std(f) /\ ~AltC(f)

PrintingRules(f) ==
    /\ AltC(f) \/ Macro(f) => On("PLATFORM_C")
    /\ Macro(f) => ~Std(f) /\ ~AltC(f)
    /\ Std(f) => AltC(f)

TimeRules ==
    /\ On("HAVE_TIME_DATE") => On("HAVE_TIME")
    /\ Alt("time") \/ Macro("time") \/ On("PLATFORM_TIME_TYPE_MACRO")
        => On("PLATFORM_C") /\ On("HAVE_TIME")
    /\ Macro("time") \/ On("PLATFORM_TIME_TYPE_MACRO") => ~Std("time") /\ ~Alt("time")
    /\ Std("time") => Alt("time") /\ On("HAVE_TIME")

MemoryRules ==
    /\ On("PLATFORM_MEMORY") => On("PLATFORM_C")
    /\ Macro("calloc") = Macro("free")
    /\ \A f \in Memory :
          /\ Macro(f) => On("PLATFORM_C") /\ On("PLATFORM_MEMORY") /\ ~Std(f)
          /\ Std(f) => On("PLATFORM_MEMORY")

SeedRules ==
    /\ On("ENTROPY_NV_SEED") => On("PLATFORM_C") /\ On("ENTROPY_C")
    /\ On("PLATFORM_NV_SEED_ALT") => On("ENTROPY_NV_SEED")
    /\ \A f \in SeedFunctions :
          /\ Std(f) => On("PLATFORM_NV_SEED_ALT")
          /\ Macro(f) => ~Std(f) /\ ~On("PLATFORM_NV_SEED_ALT")

check_config ==
    /\ On("_WIN32") => On("PLATFORM_C")
    /\ On("PLATFORM_STD_MEM_HDR") => On("PLATFORM_NO_STD_FUNCTIONS")
    /\ \A f \in {"printf", "fprintf", "snprintf", "exit"} : PrintingRules(f)
    /\ TimeRules /\ MemoryRules /\ SeedRules

-----------------------------------------------------------------------------
(***************************************************************************)
(* platform.h and platform.c, for configurations that were not refused.    *)
(***************************************************************************)
\* sha256.c has names of its own for the three it uses.
Available(f) ==
    IF On("PLATFORM_C")
    THEN (f = "time" => On("HAVE_TIME")) /\ (f \in SeedFunctions => On("ENTROPY_NV_SEED"))
    ELSE f \in {"printf", "calloc", "free"}

\* platform.c has a pointer and a setter.
HasPointer(f) ==
    /\ On("PLATFORM_C") /\ Available(f)
    /\ CASE f \in Memory -> On("PLATFORM_MEMORY")
         [] f \in SeedFunctions -> On("PLATFORM_NV_SEED_ALT")
         [] OTHER -> Alt(f)

\* Mutant: standard functions are the defaults in any case.
DefaultAnyway(f) ==
    CASE Std(f) -> "own default"
      [] ~Std(f) /\ f \in SeedFunctions -> IF On("FS_IO") THEN "file" ELSE "none"
      [] OTHER -> IF f = "snprintf" /\ On("_WIN32") THEN "win32" ELSE "libc"

\* MBEDTLS_PLATFORM_STD_<f>, or "none".
Default(f) ==
    CASE Std(f) -> "own default"
      [] ~Std(f) /\ On("PLATFORM_NO_STD_FUNCTIONS") -> "none"
      [] ~Std(f) /\ ~On("PLATFORM_NO_STD_FUNCTIONS") /\ f \in SeedFunctions ->
             IF On("FS_IO") THEN "file" ELSE "none"
      [] OTHER -> IF f = "snprintf" /\ On("_WIN32") THEN "win32" ELSE "libc"

\* Mutant: a null pointer.
UninitNull(f) == Default(f)

\* What the pointer points to before it is set.
Uninit(f) == IF Default(f) = "none" THEN "uninit" ELSE Default(f)

\* Both of a pair, or neither.
MacroUsed(f) ==
    CASE f \in Memory -> \A g \in Memory : Macro(g)
      [] f \in SeedFunctions -> \A g \in SeedFunctions : Macro(g)
      [] OTHER -> Macro(f)

\* platform.h declares a setter, and calls go through the pointer.
IsDeclared(f) == HasPointer(f) /\ (f \in Memory => ~MacroUsed(f))

\* In which function a call ends, "none" if the name has no definition.
Called(f) ==
    CASE IsDeclared(f) -> pointer[f]
      [] ~IsDeclared(f) /\ MacroUsed(f) -> "own macro"
      [] ~IsDeclared(f) /\ ~MacroUsed(f) /\ f = "snprintf" /\ On("PLATFORM_C") -> Default(f)
      [] ~IsDeclared(f) /\ ~MacroUsed(f) /\ f \in SeedFunctions ->
             IF ~On("PLATFORM_NO_STD_FUNCTIONS") /\ On("FS_IO") THEN "file" ELSE "none"
      [] OTHER -> "libc"

-----------------------------------------------------------------------------
ChangeOption(o) ==
    /\ stage = "edit" /\ changes < MaxChanges
    /\ options' = IF On(o) THEN options \ {o} ELSE options \cup {o}
    /\ changes' = changes + 1
    /\ UNCHANGED <<macros, stage, pointer, set, sets, block>>

ChangeMacro(m) ==
    /\ stage = "edit" /\ changes < MaxChanges
    /\ macros' = IF m \in macros THEN macros \ {m} ELSE macros \cup {m}
    /\ changes' = changes + 1
    /\ UNCHANGED <<options, stage, pointer, set, sets, block>>

Refuse ==
    /\ stage = "edit" /\ ~check_config
    /\ stage' = "refused"
    /\ UNCHANGED <<options, macros, changes, pointer, set, sets, block>>

Compile ==
    /\ stage = "edit" /\ check_config
    /\ stage' = "running"
    /\ macros' = Corrected
    /\ pointer' = [f \in Functions |-> Uninit(f)]
    /\ UNCHANGED <<options, changes, set, sets, block>>

\* Mutant: the second pointer of a pair is left alone.
TogetherAlone(f) == {f}

\* The pointers that the setter of f sets.
Together(f) ==
    CASE f \in Memory -> Memory [] f \in SeedFunctions -> SeedFunctions [] OTHER -> {f}

mbedtls_platform_set(f, given) ==
    /\ stage = "running" /\ IsDeclared(f) /\ sets < MaxSets
    /\ pointer' = [g \in Functions |-> IF g \in Together(f) THEN given ELSE pointer[g]]
    /\ set' = [g \in Functions |->
           IF g = f \/ \E pair \in {Memory, SeedFunctions} : {f, g} \subseteq pair
           THEN {given} ELSE set[g]]
    /\ sets' = sets + 1
    /\ UNCHANGED <<options, macros, changes, stage, block>>

\* mbedtls_sha256_self_test: no buffer, no test.
StartSelfTest ==
    /\ stage = "running" /\ Called("calloc") # "uninit"
    /\ block' = Called("calloc")
    /\ stage' = "testing"
    /\ UNCHANGED <<options, macros, changes, pointer, set, sets>>

EndSelfTest ==
    /\ stage = "testing"
    /\ block' = "none"
    /\ stage' = "running"
    /\ UNCHANGED <<options, macros, changes, pointer, set, sets>>

PlatformInit ==
    /\ \E c \in Start : options = c.options /\ macros = c.macros
    /\ changes = 0 /\ stage = "edit" /\ sets = 0 /\ block = "none"
    /\ pointer = [f \in Functions |-> "none"] /\ set = [f \in Functions |-> {}]

PlatformNext ==
    \/ \E o \in Options : ChangeOption(o)
    \/ \E m \in Macros : ChangeMacro(m)
    \/ Refuse \/ Compile
    \/ \E f \in Functions, given \in Given : mbedtls_platform_set(f, given)
    \/ StartSelfTest \/ EndSelfTest

PlatformSpec == PlatformInit /\ [][PlatformNext]_platformVars

Compiled == stage \in {"running", "testing"}

-----------------------------------------------------------------------------
\* No macro that check_config.h lets pass is ignored by platform.h and
\* platform.c: an _ALT makes a pointer that can be set, a _MACRO is what is
\* called, a STD_ is what is called until something is set.  With one exception:
\* NV_SEED_READ_MACRO or NV_SEED_WRITE_MACRO alone passes, and the function of
\* platform.c is called, or none (platform.h:299).
NoMacroIgnored ==
    Compiled =>
        \A m \in macros :
            LET f == m[1]
            IN  CASE m[2] = "ALT" -> IsDeclared(f)
                  [] m[2] = "MACRO" ->
                         IF f \in SeedFunctions /\ ~MacroUsed(f)
                         THEN Called(f) \in {"file", "none"}
                         ELSE Called(f) = "own macro"
                  [] m[2] = "STD" ->
                         IsDeclared(f) /\ (set[f] = {} => Called(f) = "own default")

\* A call ends in what was set last, in either function of a pair, and, before
\* anything was set, in one that exists: but for two names that are left without
\* a definition where the configuration gives them neither a pointer nor a macro,
\* snprintf without the standard functions and the seed functions without these
\* or without a file system (platform.h:226, 299).
CallsEndSomewhere ==
    Compiled =>
        \A f \in Functions : Available(f) =>
            IF set[f] # {} THEN set[f] = {Called(f)}
            ELSE Called(f) = "none" <=>
                    /\ ~IsDeclared(f) /\ ~MacroUsed(f)
                    /\ \/ f = "snprintf" /\ On("PLATFORM_NO_STD_FUNCTIONS")
                       \/ /\ f \in SeedFunctions
                          /\ On("PLATFORM_NO_STD_FUNCTIONS") \/ ~On("FS_IO")

\* PLATFORM_NO_STD_FUNCTIONS (config.h:176): where there is an alternative, set
\* at run time or given at compile time, no call ends in a standard function,
\* not even before it is set.
NoStandardFunctionCalled ==
    Compiled /\ On("PLATFORM_C") /\ On("PLATFORM_NO_STD_FUNCTIONS") =>
        \A f \in Functions : Available(f) /\ (HasPointer(f) \/ MacroUsed(f)) =>
            Called(f) \notin Standard

\* The self test gives its buffer back to where it has it from, whatever was
\* set before, with one exception: the calls go through the pointers, nothing was
\* set, and the configuration has a default of its own for only one of calloc and
\* free, which check_config.h lets pass.  Then it gives it to another (platform.c:
\* 52-77).
FreedWhereAllocated ==
    stage = "testing" =>
        Called("free") = block <=>
            ~(IsDeclared("free") /\ set["free"] = {} /\ Std("calloc") # Std("free"))

\* What check_config.h lets pass is not ignored, and calls end where it says.
ConfiguredIsCalled == NoMacroIgnored /\ CallsEndSomewhere /\ NoStandardFunctionCalled
=============================================================================
