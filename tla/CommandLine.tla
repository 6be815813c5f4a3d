----------------------------- MODULE CommandLine -----------------------------
(***************************************************************************)
(* The emulator as a program: parseCommandLine takes the arguments one by  *)
(* one, validateOptions checks them together, and main sets up an Emulator *)
(* accordingly, loads the input file and runs it.                          *)
(*                                                                         *)
(* An argument has a kind and a value.  The value of --trace and --warn is *)
(* the sequence of what the commas separate, where a text without a        *)
(* character is the empty sequence; that of the filters is their ranges,   *)
(* none for a text that RangeFilter refuses; that of --ram-size its        *)
(* number, -1 for a text that is none.                                     *)
(***************************************************************************)
EXTENDS Integers, Sequences, FiniteSets

CONSTANTS
    CommandLines,    \* the sequences of arguments
    DefaultRamSize,  \* opMemorySize
    MaxRamSize       \* 2^32

ASSUME RamSizeAssumption ==
    /\ DefaultRamSize \in 4 .. MaxRamSize /\ MaxRamSize \in Nat
    /\ DefaultRamSize % 4 = 0

VARIABLES
    arguments,  \* argv
    next,       \* the argument that the loop is at
    seen,       \* seenOptions, traceTicksSeen and traceRamAddressesSeen
    options,    \* the CommandLineOptions
    phase,      \* how far main has come, or how it ended
    emulator    \* what main has set up in the Emulator, and that it has run

vars == <<arguments, next, seen, options, phase, emulator>>

TraceKind == "--trace"
TicksKind == "--trace-ticks"
AddressesKind == "--trace-ram-addrs"
RamSizeKind == "--ram-size"
WarnKind == "--warn"
HelpKind == "--help"
ClearKind == "--clear-stack"
InputKind == "input"
UnknownKind == "unknown"

OptionKinds ==
    {TraceKind, TicksKind, AddressesKind, RamSizeKind, WarnKind, HelpKind, ClearKind}

Modes == {"disasm", "ram-wr"}
Warnings == {"uninit-ram"}

NoPath == ""

\* The value that an argument of each kind may have.
ASSUME LineAssumption ==
    \A line \in CommandLines :
        /\ Len(line) \in Nat /\ DOMAIN line = 1 .. Len(line)
        /\ \A k \in DOMAIN line :
              /\ line[k].kind \in OptionKinds \union {InputKind, UnknownKind}
              /\ line[k].kind \in {TraceKind, WarnKind} => line[k].value \in Seq(STRING)
              /\ line[k].kind = RamSizeKind => line[k].value \in Int

\* The phases in which main has returned: 0 after "done" and "help", else 1.
Ended == {"done", "help", "refused", "failed"}
Phases == {"parsing", "validating", "creating", "loading", "tracing", "running"} \union Ended

Init ==
    /\ arguments \in CommandLines
    /\ next = 1
    /\ seen = {}
    /\ options = [inputPath |-> NoPath, ramSize |-> DefaultRamSize, modes |-> {},
                  ticks |-> <<>>, addresses |-> <<>>, warnings |-> {},
                  help |-> FALSE, clearStack |-> FALSE]
    /\ phase = "parsing"
    /\ emulator = [ramSize |-> 0, clearStack |-> FALSE, warns |-> FALSE, loaded |-> NoPath,
                   ticks |-> <<>>, disasm |-> FALSE, ramWrites |-> FALSE,
                   addresses |-> <<>>, ran |-> FALSE, dumped |-> FALSE]

-----------------------------------------------------------------------------
(* parseCommandLine *)

Argument == arguments[next]

Parsing(kind) ==
    /\ phase = "parsing"
    /\ next \in DOMAIN arguments
    /\ Argument.kind = kind

Refuse ==
    /\ phase' = "refused"
    /\ UNCHANGED <<arguments, next, seen, options, emulator>>

\* An option that is not given twice and whose value is correct changes the options.
Accept(kind, correct, changed) ==
    /\ Parsing(kind)
    /\ IF kind \notin seen /\ correct
       THEN /\ seen' = seen \union {kind}
            /\ options' = changed
            /\ next' = next + 1
            /\ UNCHANGED <<arguments, phase, emulator>>
       ELSE Refuse

\* parseCommaSeparatedList with setTraceMode or setWarningMode: at least one value,
\* every one known, none twice.
IsListOf(list, known) ==
    /\ list # <<>>
    /\ \A k \in DOMAIN list :
          list[k] \in known /\ \A j \in 1 .. k - 1 : list[j] # list[k]

Values(list) == {list[k] : k \in DOMAIN list}

ParseTrace ==
    Accept(TraceKind, IsListOf(Argument.value, Modes),
           [options EXCEPT !.modes = Values(Argument.value)])

ParseWarnings ==
    Accept(WarnKind, IsListOf(Argument.value, Warnings),
           [options EXCEPT !.warnings = Values(Argument.value)])

\* Mutant: the filter is refused unless --trace has come before it.
ParseTraceTicksAfterTrace ==
    Accept(TicksKind, Argument.value # <<>> /\ TraceKind \in seen,
           [options EXCEPT !.ticks = Argument.value])

ParseTraceTicks ==
    Accept(TicksKind, Argument.value # <<>>, [options EXCEPT !.ticks = Argument.value])

ParseTraceAddresses ==
    Accept(AddressesKind, Argument.value # <<>>, [options EXCEPT !.addresses = Argument.value])

\* parseUnsigned and parseRamSize
IsRamSize(n) == n > 0 /\ n % 4 = 0 /\ n <= MaxRamSize

ParseRamSize ==
    Accept(RamSizeKind, IsRamSize(Argument.value), [options EXCEPT !.ramSize = Argument.value])

ParseHelp == Accept(HelpKind, TRUE, [options EXCEPT !.help = TRUE])

ParseClearStack == Accept(ClearKind, TRUE, [options EXCEPT !.clearStack = TRUE])

\* An argument that begins with a dash and is no option.
ParseUnknown == Parsing(UnknownKind) /\ Refuse

\* Any other argument is the path of the input file; an empty one is none yet.
ParseInput ==
    /\ Parsing(InputKind)
    /\ IF options.inputPath = NoPath
       THEN /\ options' = [options EXCEPT !.inputPath = Argument.value]
            /\ next' = next + 1
            /\ UNCHANGED <<arguments, seen, phase, emulator>>
       ELSE Refuse

EndArguments ==
    /\ phase = "parsing"
    /\ next \notin DOMAIN arguments
    /\ phase' = "validating"
    /\ UNCHANGED <<arguments, next, seen, options, emulator>>

\* validateOptions, in a build with tracing, and main's look at isNeedHelp.
Validate ==
    /\ phase = "validating"
    /\ phase' = IF options.help THEN "help"
                ELSE IF /\ options.inputPath # NoPath
                        /\ TicksKind \in seen => options.modes # {}
                        /\ AddressesKind \in seen => "ram-wr" \in options.modes
                     THEN "creating"
                ELSE "refused"
    /\ UNCHANGED <<arguments, next, seen, options, emulator>>

-----------------------------------------------------------------------------
(* main *)

\* The RAM is allocated lazily; what is allocated at once may not fit.
CreateEmulator ==
    /\ phase = "creating"
    /\ phase' = "loading"
    /\ emulator' = [emulator EXCEPT !.ramSize = options.ramSize,
                                    !.clearStack = options.clearStack,
                                    !.warns = "uninit-ram" \in options.warnings]
    /\ UNCHANGED <<arguments, next, seen, options>>

LoadProgramFromFile ==
    /\ phase = "loading"
    /\ phase' = "tracing"
    /\ emulator' = [emulator EXCEPT !.loaded = options.inputPath]
    /\ UNCHANGED <<arguments, next, seen, options>>

\* Mutant: the filter of ticks is set for the disassembly only.
EnableTracesTicksOfDisasm ==
    /\ phase = "tracing"
    /\ phase' = "running"
    /\ emulator' = [emulator EXCEPT
                      !.ticks = IF "disasm" \in options.modes THEN options.ticks ELSE @,
                      !.disasm = "disasm" \in options.modes,
                      !.ramWrites = "ram-wr" \in options.modes,
                      !.addresses = IF "ram-wr" \in options.modes THEN options.addresses ELSE @]
    /\ UNCHANGED <<arguments, next, seen, options>>

EnableTraces ==
    /\ phase = "tracing"
    /\ phase' = "running"
    /\ emulator' = [emulator EXCEPT
                      !.ticks = IF options.modes # {} THEN options.ticks ELSE @,
                      !.disasm = "disasm" \in options.modes,
                      !.ramWrites = "ram-wr" \in options.modes,
                      !.addresses = IF "ram-wr" \in options.modes THEN options.addresses ELSE @]
    /\ UNCHANGED <<arguments, next, seen, options>>

\* run() returns, and the registers are printed unless something was traced.
Run ==
    /\ phase = "running"
    /\ phase' = "done"
    /\ emulator' = [emulator EXCEPT !.ran = TRUE, !.dumped = (options.modes = {})]
    /\ UNCHANGED <<arguments, next, seen, options>>

\* The constructor, the load or the run throws.
Fail ==
    /\ phase \in {"creating", "loading", "running"}
    /\ phase' = "failed"
    /\ UNCHANGED <<arguments, next, seen, options, emulator>>

Next ==
    \/ ParseTrace
    \/ ParseWarnings
    \/ ParseTraceTicks
    \/ ParseTraceAddresses
    \/ ParseRamSize
    \/ ParseHelp
    \/ ParseClearStack
    \/ ParseUnknown
    \/ ParseInput
    \/ EndArguments
    \/ Validate
    \/ CreateEmulator
    \/ LoadProgramFromFile
    \/ EnableTraces
    \/ Run
    \/ Fail

Spec == Init /\ [][Next]_vars

-----------------------------------------------------------------------------
(* Properties *)

\* Whether a command line is correct, by what it holds, in whatever order.
Given(kind) == {k \in DOMAIN arguments : arguments[k].kind = kind}

Value(kind) == arguments[CHOOSE k \in Given(kind) : TRUE].value

Paths == {k \in Given(InputKind) : arguments[k].value # NoPath}

HasCorrectValue(argument) ==
    CASE argument.kind = TraceKind ->
            argument.value \in {<<"disasm">>, <<"ram-wr">>,
                                <<"disasm", "ram-wr">>, <<"ram-wr", "disasm">>}
      [] argument.kind = WarnKind -> argument.value = <<"uninit-ram">>
      [] argument.kind \in {TicksKind, AddressesKind} -> argument.value # <<>>
      [] argument.kind = RamSizeKind ->
            argument.value \in 4 .. MaxRamSize /\ argument.value % 4 = 0
      [] OTHER -> argument.kind # UnknownKind

\* An empty argument is no path, but an error behind one.
IsCorrect ==
    /\ \A k \in DOMAIN arguments : HasCorrectValue(arguments[k])
    /\ \A kind \in OptionKinds : Cardinality(Given(kind)) <= 1
    /\ \A j \in Paths, k \in Given(InputKind) : k <= j
    /\ Given(HelpKind) = {} =>
          /\ Paths # {}
          /\ Given(TicksKind) # {} => Given(TraceKind) # {}
          /\ Given(AddressesKind) # {} =>
                Given(TraceKind) # {} /\ "ram-wr" \in Values(Value(TraceKind))

\* A command line is refused exactly when something is wrong with it, wherever in it
\* the arguments that belong together are; help is shown exactly for a correct one
\* that asks for it (parseCommandLine and validateOptions).
RefusedIfWrong ==
    /\ phase = "refused" => ~IsCorrect
    /\ phase \in Phases \ {"parsing", "validating", "refused"} => IsCorrect
    /\ phase \in Ended => (phase = "help" <=> IsCorrect /\ Given(HelpKind) # {})

\* The program that runs is the one named, in an emulator set up by the arguments and
\* by nothing else: what was not asked for has its default, and a filter is there
\* if it was given (main, from the constructor to run).
RunsAsAsked ==
    phase \in {"running", "done"} =>
        /\ emulator.loaded \in {arguments[k].value : k \in Paths}
        /\ emulator.ramSize = IF Given(RamSizeKind) = {} THEN DefaultRamSize
                              ELSE Value(RamSizeKind)
        /\ emulator.clearStack = (Given(ClearKind) # {})
        /\ emulator.warns = (Given(WarnKind) # {})
        /\ emulator.ticks = IF Given(TicksKind) = {} THEN <<>> ELSE Value(TicksKind)
        /\ emulator.addresses = IF Given(AddressesKind) = {} THEN <<>> ELSE Value(AddressesKind)
        /\ LET asked == IF Given(TraceKind) = {} THEN {} ELSE Values(Value(TraceKind))
           IN  /\ emulator.disasm = ("disasm" \in asked)
               /\ emulator.ramWrites = ("ram-wr" \in asked)
        /\ emulator.dumped = (emulator.ran /\ Given(TraceKind) = {})
=============================================================================
