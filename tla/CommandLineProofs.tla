-------------------------- MODULE CommandLineProofs --------------------------
(***************************************************************************)
(* What TLAPS proves about CommandLine, for every set of command lines of  *)
(* any length.                                                             *)
(***************************************************************************)
EXTENDS CommandLine, FiniteSetTheorems, TLAPS

Kinds == OptionKinds \union {InputKind, UnknownKind}

\* An argument as LineAssumption has it.
IsArgument(arg) ==
    /\ arg.kind \in Kinds
    /\ arg.kind \in {TraceKind, WarnKind} => arg.value \in Seq(STRING)
    /\ arg.kind = RamSizeKind => arg.value \in Int

-----------------------------------------------------------------------------
(* What the loop accepts *)

\* A list of distinct modes is one of four.
LEMMA ListOfModes ==
    ASSUME NEW list \in Seq(STRING)
    PROVE  IsListOf(list, Modes)
              <=> list \in {<<"disasm">>, <<"ram-wr">>, <<"disasm", "ram-wr">>,
                            <<"ram-wr", "disasm">>}
<1>1. ASSUME IsListOf(list, Modes)
      PROVE  list \in {<<"disasm">>, <<"ram-wr">>, <<"disasm", "ram-wr">>,
                       <<"ram-wr", "disasm">>}
  <2>1. Len(list) \in Nat /\ DOMAIN list = 1 .. Len(list) /\ Len(list) # 0
    BY <1>1 DEF IsListOf
  <2>2. \A k \in 1 .. Len(list) : list[k] \in {"disasm", "ram-wr"}
    BY <1>1, <2>1 DEF IsListOf, Modes
  <2>3. \A j, k \in 1 .. Len(list) : j < k => list[j] # list[k]
    BY <1>1, <2>1 DEF IsListOf
  <2>4. ~(Len(list) >= 3)
    <3> SUFFICES ASSUME Len(list) >= 3 PROVE FALSE
      OBVIOUS
    <3>1. 1 \in 1 .. Len(list) /\ 2 \in 1 .. Len(list) /\ 3 \in 1 .. Len(list)
      BY <2>1
    <3>2. list[1] # list[2] /\ list[1] # list[3] /\ list[2] # list[3]
      BY <2>3, <3>1
    <3> QED
      BY <2>2, <3>1, <3>2
  <2>5. CASE Len(list) = 1
    <3>1. list = <<list[1]>> /\ list[1] \in {"disasm", "ram-wr"}
      BY <2>2, <2>5
    <3> QED
      BY <3>1
  <2>6. CASE Len(list) = 2
    <3>1. list = <<list[1], list[2]>>
      BY <2>6
    <3>2. list[1] \in {"disasm", "ram-wr"} /\ list[2] \in {"disasm", "ram-wr"}
          /\ list[1] # list[2]
      BY <2>2, <2>3, <2>6
    <3> QED
      BY <3>1, <3>2
  <2> QED
    BY <2>1, <2>4, <2>5, <2>6
<1>2. ASSUME NEW x \in Modes
      PROVE  IsListOf(<<x>>, Modes)
  BY DEF IsListOf
<1>3. IsListOf(<<"disasm", "ram-wr">>, Modes)
  BY DEF IsListOf, Modes
<1>4. IsListOf(<<"ram-wr", "disasm">>, Modes)
  BY DEF IsListOf, Modes
<1>5. "disasm" \in Modes /\ "ram-wr" \in Modes
  BY DEF Modes
<1> QED
  BY <1>1, <1>2, <1>3, <1>4, <1>5

\* There is one list of distinct warnings.
LEMMA ListOfWarnings ==
    ASSUME NEW list \in Seq(STRING)
    PROVE  IsListOf(list, Warnings) <=> list = <<"uninit-ram">>
<1>1. ASSUME IsListOf(list, Warnings)
      PROVE  list = <<"uninit-ram">>
  <2>1. Len(list) \in Nat /\ DOMAIN list = 1 .. Len(list) /\ Len(list) # 0
    BY <1>1 DEF IsListOf
  <2>2. \A k \in 1 .. Len(list) : list[k] = "uninit-ram"
    BY <1>1, <2>1 DEF IsListOf, Warnings
  <2>3. \A j, k \in 1 .. Len(list) : j < k => list[j] # list[k]
    BY <1>1, <2>1 DEF IsListOf
  <2>4. Len(list) = 1
    <3> SUFFICES ASSUME Len(list) >= 2 PROVE FALSE
      BY <2>1
    <3>1. 1 \in 1 .. Len(list) /\ 2 \in 1 .. Len(list)
      BY <2>1
    <3> QED
      BY <2>2, <2>3, <3>1
  <2>5. list = <<list[1]>> /\ list[1] = "uninit-ram"
    BY <2>2, <2>4
  <2> QED
    BY <2>5
<1>2. IsListOf(<<"uninit-ram">>, Warnings)
  BY DEF IsListOf, Warnings
<1> QED
  BY <1>1, <1>2

\* The check of the loop for each kind is the one that a correct line has.
LEMMA ChecksAreExact ==
    ASSUME NEW arg, IsArgument(arg)
    PROVE  /\ arg.kind = TraceKind => (HasCorrectValue(arg) <=> IsListOf(arg.value, Modes))
           /\ arg.kind = WarnKind => (HasCorrectValue(arg) <=> IsListOf(arg.value, Warnings))
           /\ arg.kind \in {TicksKind, AddressesKind} =>
                 (HasCorrectValue(arg) <=> arg.value # <<>>)
           /\ arg.kind = RamSizeKind => (HasCorrectValue(arg) <=> IsRamSize(arg.value))
           /\ arg.kind \in {HelpKind, ClearKind, InputKind} => HasCorrectValue(arg)
           /\ arg.kind = UnknownKind => ~HasCorrectValue(arg)
<1> USE DEF TraceKind, TicksKind, AddressesKind, RamSizeKind, WarnKind, HelpKind, ClearKind,
            InputKind, UnknownKind
<1>1. arg.kind = TraceKind => (HasCorrectValue(arg) <=> IsListOf(arg.value, Modes))
  BY ListOfModes DEF IsArgument, HasCorrectValue
<1>2. arg.kind = WarnKind => (HasCorrectValue(arg) <=> IsListOf(arg.value, Warnings))
  BY ListOfWarnings DEF IsArgument, HasCorrectValue
<1>3. arg.kind \in {TicksKind, AddressesKind} => (HasCorrectValue(arg) <=> arg.value # <<>>)
  BY DEF HasCorrectValue
<1>4. arg.kind = RamSizeKind => (HasCorrectValue(arg) <=> IsRamSize(arg.value))
  <2>1. arg.kind = RamSizeKind =>
           (HasCorrectValue(arg) <=> arg.value \in 4 .. MaxRamSize /\ arg.value % 4 = 0)
    BY DEF HasCorrectValue
  <2>2. arg.kind = RamSizeKind => arg.value \in Int
    BY DEF IsArgument
  <2> QED
    BY <2>1, <2>2, RamSizeAssumption DEF IsRamSize
<1>5. arg.kind \in {HelpKind, ClearKind, InputKind} => HasCorrectValue(arg)
  BY DEF HasCorrectValue
<1>6. arg.kind = UnknownKind => ~HasCorrectValue(arg)
  BY DEF HasCorrectValue
<1> QED
  BY <1>1, <1>2, <1>3, <1>4, <1>5, <1>6

\* A correct list of modes or warnings selects something, and what it says.
LEMMA CorrectLists ==
    ASSUME NEW arg, HasCorrectValue(arg)
    PROVE  /\ arg.kind = TraceKind => Values(arg.value) # {}
           /\ arg.kind = WarnKind => Values(arg.value) = {"uninit-ram"}
<1> USE DEF TraceKind, TicksKind, AddressesKind, RamSizeKind, WarnKind, HelpKind, ClearKind,
            InputKind, UnknownKind
<1>1. arg.kind = TraceKind =>
         arg.value \in {<<"disasm">>, <<"ram-wr">>, <<"disasm", "ram-wr">>, <<"ram-wr", "disasm">>}
  BY DEF HasCorrectValue
<1>2. arg.kind = WarnKind => arg.value = <<"uninit-ram">>
  BY DEF HasCorrectValue
<1>3. ASSUME NEW list \in {<<"disasm">>, <<"ram-wr">>, <<"disasm", "ram-wr">>, <<"ram-wr", "disasm">>}
      PROVE  Values(list) # {}
  BY DEF Values
<1>4. Values(<<"uninit-ram">>) = {"uninit-ram"}
  BY DEF Values
<1> QED
  BY <1>1, <1>2, <1>3, <1>4

-----------------------------------------------------------------------------
(* What is known of the arguments that the loop has passed *)

Passed == 1 .. next - 1

LineOK ==
    /\ arguments \in CommandLines
    /\ next \in 1 .. Len(arguments) + 1
    /\ phase \in Phases

\* Nothing was wrong with them, and seen names their options.
PassedOK ==
    /\ \A k \in Passed : HasCorrectValue(arguments[k])
    /\ \A j, k \in Passed :
          arguments[j].kind = arguments[k].kind /\ arguments[k].kind \in OptionKinds => j = k
    /\ \A j, k \in Passed :
          /\ arguments[j].kind = InputKind /\ arguments[j].value # NoPath
          /\ arguments[k].kind = InputKind
          => k <= j
    /\ seen = {kind \in OptionKinds : \E k \in Passed : arguments[k].kind = kind}

\* The record of the options.
OptionsShaped ==
    options = [inputPath |-> options.inputPath, ramSize |-> options.ramSize,
               modes |-> options.modes, ticks |-> options.ticks,
               addresses |-> options.addresses, warnings |-> options.warnings,
               help |-> options.help, clearStack |-> options.clearStack]

\* Each option is what its argument says.
GivenOptions ==
    \A k \in Passed :
        LET arg == arguments[k]
        IN  /\ arg.kind = TraceKind => options.modes = Values(arg.value)
            /\ arg.kind = TicksKind => options.ticks = arg.value
            /\ arg.kind = AddressesKind => options.addresses = arg.value
            /\ arg.kind = RamSizeKind => options.ramSize = arg.value
            /\ arg.kind = WarnKind => options.warnings = Values(arg.value)
            /\ arg.kind = InputKind /\ arg.value # NoPath => options.inputPath = arg.value

\* The others have their defaults.
OtherOptions ==
    /\ TraceKind \notin seen => options.modes = {}
    /\ TicksKind \notin seen => options.ticks = <<>>
    /\ AddressesKind \notin seen => options.addresses = <<>>
    /\ RamSizeKind \notin seen => options.ramSize = DefaultRamSize
    /\ WarnKind \notin seen => options.warnings = {}
    /\ options.help = (HelpKind \in seen)
    /\ options.clearStack = (ClearKind \in seen)
    /\ options.inputPath # NoPath =>
          \E k \in Passed : arguments[k].kind = InputKind /\ arguments[k].value = options.inputPath

\* The verdict on the whole line.
VerdictOK ==
    /\ phase = "refused" => ~IsCorrect
    /\ phase \notin {"parsing", "refused"} => next = Len(arguments) + 1
    /\ phase = "help" => IsCorrect /\ HelpKind \in seen
    /\ phase \in {"creating", "loading", "tracing", "running", "done", "failed"} =>
          /\ IsCorrect
          /\ HelpKind \notin seen
          /\ options.inputPath # NoPath
          /\ TicksKind \in seen => options.modes # {}
          /\ AddressesKind \in seen => "ram-wr" \in options.modes

EmulatorShaped ==
    emulator = [ramSize |-> emulator.ramSize, clearStack |-> emulator.clearStack,
                warns |-> emulator.warns, loaded |-> emulator.loaded,
                ticks |-> emulator.ticks, disasm |-> emulator.disasm,
                ramWrites |-> emulator.ramWrites, addresses |-> emulator.addresses,
                ran |-> emulator.ran, dumped |-> emulator.dumped]

\* The emulator is set up as far as main has come.
EmulatorOK ==
    /\ EmulatorShaped
    /\ phase \in {"loading", "tracing", "running", "done"} =>
          /\ emulator.ramSize = options.ramSize
          /\ emulator.clearStack = options.clearStack
          /\ emulator.warns = ("uninit-ram" \in options.warnings)
    /\ phase \in {"tracing", "running", "done"} => emulator.loaded = options.inputPath
    /\ phase \notin {"running", "done", "failed"} =>
          emulator.ticks = <<>> /\ emulator.addresses = <<>>
    /\ phase \in {"running", "done"} =>
          /\ emulator.ticks = IF options.modes # {} THEN options.ticks ELSE <<>>
          /\ emulator.disasm = ("disasm" \in options.modes)
          /\ emulator.ramWrites = ("ram-wr" \in options.modes)
          /\ emulator.addresses = IF "ram-wr" \in options.modes THEN options.addresses ELSE <<>>
    /\ phase = "done" => emulator.ran = TRUE /\ emulator.dumped = (options.modes = {})
    /\ phase # "done" => emulator.ran = FALSE /\ emulator.dumped = FALSE

OptionsOK == OptionsShaped /\ GivenOptions /\ OtherOptions

\* The inductive invariant.
CommandLineIInv == LineOK /\ PassedOK /\ OptionsOK /\ VerdictOK /\ EmulatorOK

\* The arguments are those of LineAssumption.
LEMMA ArgumentsTyped ==
    ASSUME LineOK
    PROVE  /\ Len(arguments) \in Nat /\ DOMAIN arguments = 1 .. Len(arguments)
           /\ next \in Nat \ {0} /\ Passed \subseteq DOMAIN arguments
           /\ \A k \in DOMAIN arguments : IsArgument(arguments[k])
<1>1. Len(arguments) \in Nat /\ DOMAIN arguments = 1 .. Len(arguments)
  BY LineAssumption DEF LineOK
<1>2. next \in Nat \ {0} /\ Passed \subseteq DOMAIN arguments
  BY <1>1 DEF LineOK, Passed
<1>3. \A k \in DOMAIN arguments : IsArgument(arguments[k])
  BY LineAssumption DEF LineOK, IsArgument, Kinds
<1> QED
  BY <1>1, <1>2, <1>3

\* An option given twice is counted twice.
LEMMA TwiceIsWrong ==
    ASSUME LineOK, NEW kind \in OptionKinds,
           NEW j \in Given(kind), NEW k \in Given(kind), j # k
    PROVE  ~(Cardinality(Given(kind)) <= 1)
<1>1. IsFiniteSet(Given(kind))
  <2>1. Given(kind) \subseteq 1 .. Len(arguments) /\ Len(arguments) \in Nat
    BY ArgumentsTyped DEF Given
  <2>2. IsFiniteSet(1 .. Len(arguments))
    BY <2>1, FS_Interval
  <2> QED
    BY <2>1, <2>2, FS_Subset
<1>2. IsFiniteSet({j}) /\ Cardinality({j}) = 1
  BY FS_Singleton
<1>3. Cardinality({j} \union {k}) = 2
  <2>1. k \notin {j}
    OBVIOUS
  <2>2. Cardinality({j} \union {k}) = IF k \in {j} THEN Cardinality({j}) ELSE Cardinality({j}) + 1
    BY <1>2, FS_AddElement
  <2> QED
    BY <1>2, <2>1, <2>2
<1>4. {j} \union {k} \subseteq Given(kind)
  OBVIOUS
<1>5. Cardinality({j} \union {k}) <= Cardinality(Given(kind))
  BY <1>1, <1>4, FS_Subset
<1>6. Cardinality(Given(kind)) \in Nat
  BY <1>1, FS_CardinalityType
<1> QED
  BY <1>3, <1>5, <1>6

\* An option that is given at one place at most is counted once at most.
LEMMA OnceIsRight ==
    ASSUME NEW kind, \A j, k \in Given(kind) : j = k
    PROVE  Cardinality(Given(kind)) <= 1
<1>1. CASE Given(kind) = {}
  BY <1>1, FS_EmptySet
<1>2. CASE Given(kind) # {}
  <2>1. PICK k \in Given(kind) : Given(kind) = {k}
    BY <1>2
  <2> QED
    BY <2>1, FS_Singleton
<1> QED
  BY <1>1, <1>2

\* When the loop has passed every argument, nothing but their combination may be wrong.
LEMMA PassedIsCorrect ==
    ASSUME LineOK, PassedOK, next = Len(arguments) + 1
    PROVE  /\ Passed = DOMAIN arguments
           /\ \A kind \in OptionKinds : kind \in seen <=> Given(kind) # {}
           /\ IsCorrect <=>
                 (Given(HelpKind) = {} =>
                    /\ Paths # {}
                    /\ Given(TicksKind) # {} => Given(TraceKind) # {}
                    /\ Given(AddressesKind) # {} =>
                          Given(TraceKind) # {} /\ "ram-wr" \in Values(Value(TraceKind)))
<1>1. Passed = DOMAIN arguments
  BY ArgumentsTyped DEF Passed
<1>2. \A kind \in OptionKinds : kind \in seen <=> Given(kind) # {}
  BY <1>1 DEF PassedOK, Given
<1>3. \A k \in DOMAIN arguments : HasCorrectValue(arguments[k])
  BY <1>1 DEF PassedOK
<1>4. \A kind \in OptionKinds : Cardinality(Given(kind)) <= 1
  BY <1>1, OnceIsRight DEF PassedOK, Given
<1>5. \A j \in Paths, k \in Given(InputKind) : k <= j
  BY <1>1 DEF PassedOK, Given, Paths
<1> QED
  BY <1>1, <1>2, <1>3, <1>4, <1>5 DEF IsCorrect

\* The options are then those of the whole line.
LEMMA WholeLine ==
    ASSUME LineOK, PassedOK, OptionsOK, next = Len(arguments) + 1
    PROVE  /\ options.modes = IF Given(TraceKind) = {} THEN {} ELSE Values(Value(TraceKind))
           /\ options.modes = {} <=> Given(TraceKind) = {}
           /\ options.ticks = IF Given(TicksKind) = {} THEN <<>> ELSE Value(TicksKind)
           /\ options.addresses = IF Given(AddressesKind) = {} THEN <<>> ELSE Value(AddressesKind)
           /\ options.ramSize = IF Given(RamSizeKind) = {} THEN DefaultRamSize ELSE Value(RamSizeKind)
           /\ "uninit-ram" \in options.warnings <=> Given(WarnKind) # {}
           /\ options.clearStack = (Given(ClearKind) # {})
           /\ options.inputPath # NoPath <=> Paths # {}
           /\ options.inputPath # NoPath => options.inputPath \in {arguments[k].value : k \in Paths}
<1>1. /\ Passed = DOMAIN arguments
      /\ \A kind \in OptionKinds : kind \in seen <=> Given(kind) # {}
  BY PassedIsCorrect
<1>2. \A kind \in OptionKinds : kind \in seen =>
         \E k \in Passed : arguments[k].kind = kind /\ Value(kind) = arguments[k].value
  <2> SUFFICES ASSUME NEW kind \in OptionKinds, kind \in seen
               PROVE  \E k \in Passed : arguments[k].kind = kind /\ Value(kind) = arguments[k].value
    OBVIOUS
  <2> DEFINE k == CHOOSE i \in Given(kind) : TRUE
  <2>1. k \in Given(kind)
    BY <1>1
  <2> QED
    BY <1>1, <2>1 DEF Value, Given
<1>3. /\ TraceKind \in OptionKinds /\ TicksKind \in OptionKinds /\ AddressesKind \in OptionKinds
      /\ RamSizeKind \in OptionKinds /\ WarnKind \in OptionKinds /\ ClearKind \in OptionKinds
  BY DEF OptionKinds
<1>4. options.modes = IF Given(TraceKind) = {} THEN {} ELSE Values(Value(TraceKind))
  <2>1. ASSUME TraceKind \in seen
        PROVE  options.modes = Values(Value(TraceKind))
    <3>1. PICK k \in Passed :
             arguments[k].kind = TraceKind /\ Value(TraceKind) = arguments[k].value
      BY <1>2, <1>3, <2>1
    <3>2. options.modes = Values(arguments[k].value)
      BY <3>1 DEF OptionsOK, GivenOptions
    <3> QED
      BY <3>1, <3>2
  <2>2. TraceKind \notin seen => options.modes = {}
    BY DEF OptionsOK, OtherOptions
  <2> QED
    BY <1>1, <1>3, <2>1, <2>2
<1>5. options.modes = {} <=> Given(TraceKind) = {}
  <2>1. TraceKind \in seen => Values(Value(TraceKind)) # {}
    BY <1>2, <1>3, CorrectLists DEF PassedOK
  <2> QED
    BY <1>1, <1>3, <1>4, <2>1
<1>6. options.ticks = IF Given(TicksKind) = {} THEN <<>> ELSE Value(TicksKind)
  BY <1>1, <1>2, <1>3 DEF OptionsOK, GivenOptions, OtherOptions
<1>7. options.addresses = IF Given(AddressesKind) = {} THEN <<>> ELSE Value(AddressesKind)
  BY <1>1, <1>2, <1>3 DEF OptionsOK, GivenOptions, OtherOptions
<1>8. options.ramSize = IF Given(RamSizeKind) = {} THEN DefaultRamSize ELSE Value(RamSizeKind)
  BY <1>1, <1>2, <1>3 DEF OptionsOK, GivenOptions, OtherOptions
<1>9. "uninit-ram" \in options.warnings <=> Given(WarnKind) # {}
  <2>1. WarnKind \in seen => options.warnings = {"uninit-ram"}
    BY <1>2, <1>3, CorrectLists DEF PassedOK, OptionsOK, GivenOptions
  <2> QED
    BY <1>1, <1>3, <2>1 DEF OptionsOK, OtherOptions
<1>10. options.clearStack = (Given(ClearKind) # {})
  BY <1>1, <1>3 DEF OptionsOK, OtherOptions
<1>11. \A k \in Paths : options.inputPath = arguments[k].value /\ arguments[k].value # NoPath
  BY <1>1 DEF OptionsOK, GivenOptions, Paths, Given
<1>12. options.inputPath # NoPath => options.inputPath \in {arguments[k].value : k \in Paths}
  BY <1>1 DEF OptionsOK, OtherOptions, Paths, Given
<1> QED
  BY <1>4, <1>5, <1>6, <1>7, <1>8, <1>9, <1>10, <1>11, <1>12

-----------------------------------------------------------------------------
(* The loop *)

\* What makes a line correct does not change.
LEMMA LineStays ==
    ASSUME arguments' = arguments
    PROVE  IsCorrect' <=> IsCorrect
BY DEF IsCorrect, Given, Paths, Value

\* An argument is passed over, or the line is refused and wrong.
Passes(kind) ==
    /\ Parsing(kind)
    /\ HasCorrectValue(Argument)
    /\ next' = next + 1
    /\ UNCHANGED <<arguments, phase, emulator>>

PassesOption(kind) ==
    /\ Passes(kind)
    /\ kind \notin seen
    /\ seen' = seen \union {kind}

Refuses == Refuse /\ phase = "parsing" /\ ~IsCorrect

\* An option given before, or with a wrong value, makes the line wrong.
LEMMA RefusedIsWrong ==
    ASSUME LineOK, PassedOK, NEW kind \in OptionKinds, Parsing(kind),
           kind \in seen \/ ~HasCorrectValue(Argument)
    PROVE  ~IsCorrect
<1>1. next \in DOMAIN arguments /\ Argument = arguments[next] /\ Argument.kind = kind
  BY DEF Parsing, Argument
<1>2. CASE kind \in seen
  <2>1. PICK j \in Passed : arguments[j].kind = kind
    BY <1>2 DEF PassedOK
  <2>2. j \in Given(kind) /\ next \in Given(kind) /\ j # next
    BY <1>1, <2>1, ArgumentsTyped DEF Given, Passed
  <2>3. ~(Cardinality(Given(kind)) <= 1)
    BY <2>2, TwiceIsWrong
  <2> QED
    BY <2>3 DEF IsCorrect
<1>3. CASE ~HasCorrectValue(Argument)
  BY <1>1, <1>3 DEF IsCorrect
<1> QED
  BY <1>2, <1>3

\* What each option of the command line does.
LEMMA OptionSteps ==
    ASSUME LineOK, PassedOK
    PROVE  /\ ParseTrace =>
                 \/ Refuses
                 \/ /\ PassesOption(TraceKind)
                    /\ options' = [options EXCEPT !.modes = Values(Argument.value)]
           /\ ParseWarnings =>
                 \/ Refuses
                 \/ /\ PassesOption(WarnKind)
                    /\ options' = [options EXCEPT !.warnings = Values(Argument.value)]
           /\ ParseTraceTicks =>
                 \/ Refuses
                 \/ PassesOption(TicksKind) /\ options' = [options EXCEPT !.ticks = Argument.value]
           /\ ParseTraceAddresses =>
                 \/ Refuses
                 \/ /\ PassesOption(AddressesKind)
                    /\ options' = [options EXCEPT !.addresses = Argument.value]
           /\ ParseRamSize =>
                 \/ Refuses
                 \/ PassesOption(RamSizeKind) /\ options' = [options EXCEPT !.ramSize = Argument.value]
           /\ ParseHelp =>
                 \/ Refuses
                 \/ PassesOption(HelpKind) /\ options' = [options EXCEPT !.help = TRUE]
           /\ ParseClearStack =>
                 \/ Refuses
                 \/ PassesOption(ClearKind) /\ options' = [options EXCEPT !.clearStack = TRUE]
<1>1. ASSUME NEW kind, Parsing(kind)
      PROVE  IsArgument(Argument) /\ Argument.kind = kind /\ phase = "parsing"
  BY <1>1, ArgumentsTyped DEF Parsing, Argument
<1>2. /\ TraceKind \in OptionKinds /\ TicksKind \in OptionKinds /\ AddressesKind \in OptionKinds
      /\ RamSizeKind \in OptionKinds /\ WarnKind \in OptionKinds /\ ClearKind \in OptionKinds
      /\ HelpKind \in OptionKinds
  BY DEF OptionKinds
<1> USE DEF Accept, PassesOption, Passes, Refuses
<1>3. ASSUME ParseTrace
      PROVE  \/ Refuses
             \/ PassesOption(TraceKind) /\ options' = [options EXCEPT !.modes = Values(Argument.value)]
  <2>1. HasCorrectValue(Argument) <=> IsListOf(Argument.value, Modes)
    BY <1>1, <1>3, ChecksAreExact DEF ParseTrace
  <2> QED
    BY <1>1, <1>2, <1>3, <2>1, RefusedIsWrong DEF ParseTrace
<1>4. ASSUME ParseWarnings
      PROVE  \/ Refuses
             \/ PassesOption(WarnKind) /\ options' = [options EXCEPT !.warnings = Values(Argument.value)]
  <2>1. HasCorrectValue(Argument) <=> IsListOf(Argument.value, Warnings)
    BY <1>1, <1>4, ChecksAreExact DEF ParseWarnings
  <2> QED
    BY <1>1, <1>2, <1>4, <2>1, RefusedIsWrong DEF ParseWarnings
<1>5. ASSUME ParseTraceTicks
      PROVE  \/ Refuses
             \/ PassesOption(TicksKind) /\ options' = [options EXCEPT !.ticks = Argument.value]
  <2>1. HasCorrectValue(Argument) <=> Argument.value # <<>>
    BY <1>1, <1>5, ChecksAreExact DEF ParseTraceTicks
  <2> QED
    BY <1>1, <1>2, <1>5, <2>1, RefusedIsWrong DEF ParseTraceTicks
<1>6. ASSUME ParseTraceAddresses
      PROVE  \/ Refuses
             \/ PassesOption(AddressesKind) /\ options' = [options EXCEPT !.addresses = Argument.value]
  <2>1. HasCorrectValue(Argument) <=> Argument.value # <<>>
    BY <1>1, <1>6, ChecksAreExact DEF ParseTraceAddresses
  <2> QED
    BY <1>1, <1>2, <1>6, <2>1, RefusedIsWrong DEF ParseTraceAddresses
<1>7. ASSUME ParseRamSize
      PROVE  \/ Refuses
             \/ PassesOption(RamSizeKind) /\ options' = [options EXCEPT !.ramSize = Argument.value]
  <2>1. HasCorrectValue(Argument) <=> IsRamSize(Argument.value)
    BY <1>1, <1>7, ChecksAreExact DEF ParseRamSize
  <2> QED
    BY <1>1, <1>2, <1>7, <2>1, RefusedIsWrong DEF ParseRamSize
<1>8. ASSUME ParseHelp
      PROVE  \/ Refuses
             \/ PassesOption(HelpKind) /\ options' = [options EXCEPT !.help = TRUE]
  <2>1. HasCorrectValue(Argument)
    BY <1>1, <1>8, ChecksAreExact DEF ParseHelp
  <2> QED
    BY <1>1, <1>2, <1>8, <2>1, RefusedIsWrong DEF ParseHelp
<1>9. ASSUME ParseClearStack
      PROVE  \/ Refuses
             \/ PassesOption(ClearKind) /\ options' = [options EXCEPT !.clearStack = TRUE]
  <2>1. HasCorrectValue(Argument)
    BY <1>1, <1>9, ChecksAreExact DEF ParseClearStack
  <2> QED
    BY <1>1, <1>2, <1>9, <2>1, RefusedIsWrong DEF ParseClearStack
<1> QED
  BY <1>3, <1>4, <1>5, <1>6, <1>7, <1>8, <1>9

\* An argument that is passed over was not wrong, whatever comes next.
LEMMA PassedStays ==
    ASSUME LineOK, PassedOK, NEW kind, Passes(kind),
           \/ kind \in OptionKinds /\ kind \notin seen /\ seen' = seen \union {kind}
           \/ /\ kind = InputKind /\ seen' = seen
              /\ \A j \in Passed : arguments[j].kind = InputKind => arguments[j].value = NoPath
    PROVE  LineOK' /\ PassedOK' /\ Passed' = Passed \union {next} /\ next \notin Passed
           /\ phase' = "parsing"
<1>1. /\ next \in 1 .. Len(arguments) /\ Len(arguments) \in Nat /\ next' = next + 1
      /\ arguments' = arguments /\ phase' = "parsing" /\ phase = "parsing"
      /\ arguments[next].kind = kind /\ HasCorrectValue(arguments[next])
  BY ArgumentsTyped DEF Passes, Parsing, Argument
<1>2. LineOK'
  BY <1>1 DEF LineOK, Phases
<1>3. Passed' = Passed \union {next} /\ next \notin Passed /\ Passed \subseteq Nat
  BY <1>1 DEF Passed
<1>4. InputKind \notin OptionKinds
  BY DEF OptionKinds, InputKind, TraceKind, TicksKind, AddressesKind, RamSizeKind, WarnKind,
         HelpKind, ClearKind
<1>5. \A k \in Passed' : HasCorrectValue(arguments'[k])
  BY <1>1, <1>3 DEF PassedOK
<1>6. \A j, k \in Passed' :
         arguments'[j].kind = arguments'[k].kind /\ arguments'[k].kind \in OptionKinds => j = k
  <2>1. kind \in OptionKinds => \A j \in Passed : arguments[j].kind # kind
    BY <1>4 DEF PassedOK
  <2> QED
    BY <1>1, <1>3, <2>1 DEF PassedOK
<1>7. \A j, k \in Passed' :
         /\ arguments'[j].kind = InputKind /\ arguments'[j].value # NoPath
         /\ arguments'[k].kind = InputKind
         => k <= j
  <2>1. \A k \in Passed : k <= next
    BY <1>1 DEF Passed
  <2> QED
    BY <1>1, <1>3, <1>4, <2>1 DEF PassedOK
<1>8. seen' = {k \in OptionKinds : \E j \in Passed' : arguments'[j].kind = k}
  <2>1. seen = {k \in OptionKinds : \E j \in Passed : arguments[j].kind = k}
    BY DEF PassedOK
  <2> HIDE DEF Passed
  <2>2. {k \in OptionKinds : \E j \in Passed \union {next} : arguments[j].kind = k}
           = seen \union ({kind} \cap OptionKinds)
    BY <1>1, <2>1
  <2> QED
    BY <1>1, <1>3, <1>4, <2>2
<1> QED
  BY <1>1, <1>2, <1>3, <1>5, <1>6, <1>7, <1>8 DEF PassedOK

\* A refusal keeps the invariant.
LEMMA RefusalStays ==
    ASSUME CommandLineIInv, Refuse, ~IsCorrect, phase \in {"parsing", "validating"}
    PROVE  CommandLineIInv'
<1> USE DEF CommandLineIInv, Refuse
<1>1. LineOK' /\ PassedOK'
  BY DEF LineOK, Phases, Ended, PassedOK, Passed
<1>2. OptionsOK'
  BY DEF OptionsOK, OptionsShaped, GivenOptions, OtherOptions, Passed
<1>3. VerdictOK'
  BY LineStays DEF VerdictOK
<1>4. EmulatorOK'
  BY DEF EmulatorOK, EmulatorShaped
<1> QED
  BY <1>1, <1>2, <1>3, <1>4

\* A passed option keeps the invariant, if the options follow it.
LEMMA PassedOptionStays ==
    ASSUME CommandLineIInv, NEW kind \in OptionKinds, PassesOption(kind), OptionsOK'
    PROVE  CommandLineIInv'
<1>1. LineOK' /\ PassedOK' /\ phase' = "parsing" /\ phase = "parsing"
  BY PassedStays DEF CommandLineIInv, PassesOption, Passes, Parsing
<1>2. VerdictOK'
  BY <1>1 DEF VerdictOK
<1>3. EmulatorOK'
  BY <1>1 DEF CommandLineIInv, EmulatorOK, EmulatorShaped, PassesOption, Passes
<1> QED
  BY <1>1, <1>2, <1>3 DEF CommandLineIInv

\* An option changes what it names, and the others stay as they were.
LEMMA OptionsFollow ==
    ASSUME CommandLineIInv, NEW kind \in OptionKinds, PassesOption(kind),
           \/ kind = TraceKind /\ options' = [options EXCEPT !.modes = Values(Argument.value)]
           \/ kind = WarnKind /\ options' = [options EXCEPT !.warnings = Values(Argument.value)]
           \/ kind = TicksKind /\ options' = [options EXCEPT !.ticks = Argument.value]
           \/ kind = AddressesKind /\ options' = [options EXCEPT !.addresses = Argument.value]
           \/ kind = RamSizeKind /\ options' = [options EXCEPT !.ramSize = Argument.value]
           \/ kind = HelpKind /\ options' = [options EXCEPT !.help = TRUE]
           \/ kind = ClearKind /\ options' = [options EXCEPT !.clearStack = TRUE]
    PROVE  OptionsOK'
<1> USE DEF TraceKind, TicksKind, AddressesKind, RamSizeKind, WarnKind, HelpKind, ClearKind,
            InputKind
<1>1. /\ Passed' = Passed \union {next} /\ arguments' = arguments
      /\ kind \notin seen /\ seen' = seen \union {kind}
      /\ arguments[next] = Argument /\ Argument.kind = kind
  BY PassedStays DEF CommandLineIInv, PassesOption, Passes, Parsing, Argument
<1>2. \A j \in Passed : arguments[j].kind # kind
  BY <1>1 DEF CommandLineIInv, PassedOK
<1>3. OptionsShaped /\ GivenOptions /\ OtherOptions
  BY DEF CommandLineIInv, OptionsOK
<1>4. OptionsShaped'
  BY <1>3 DEF OptionsShaped
<1>5. /\ options'.modes = IF kind = TraceKind THEN Values(Argument.value) ELSE options.modes
      /\ options'.warnings = IF kind = WarnKind THEN Values(Argument.value) ELSE options.warnings
      /\ options'.ticks = IF kind = TicksKind THEN Argument.value ELSE options.ticks
      /\ options'.addresses = IF kind = AddressesKind THEN Argument.value ELSE options.addresses
      /\ options'.ramSize = IF kind = RamSizeKind THEN Argument.value ELSE options.ramSize
      /\ options'.help = IF kind = HelpKind THEN TRUE ELSE options.help
      /\ options'.clearStack = IF kind = ClearKind THEN TRUE ELSE options.clearStack
      /\ options'.inputPath = options.inputPath
  BY <1>3 DEF OptionsShaped
<1>6. GivenOptions'
  <2> SUFFICES ASSUME NEW k \in Passed'
               PROVE  LET arg == arguments[k]
                      IN  /\ arg.kind = TraceKind => options'.modes = Values(arg.value)
                          /\ arg.kind = TicksKind => options'.ticks = arg.value
                          /\ arg.kind = AddressesKind => options'.addresses = arg.value
                          /\ arg.kind = RamSizeKind => options'.ramSize = arg.value
                          /\ arg.kind = WarnKind => options'.warnings = Values(arg.value)
                          /\ arg.kind = InputKind /\ arg.value # NoPath =>
                                options'.inputPath = arg.value
    BY <1>1 DEF GivenOptions
  <2>1. CASE k = next
    <3>1. kind # InputKind
      BY DEF OptionKinds
    <3> QED
      BY <1>1, <1>5, <2>1, <3>1
  <2>2. CASE k \in Passed
    BY <1>2, <1>3, <1>5, <2>2 DEF GivenOptions
  <2> QED
    BY <1>1, <2>1, <2>2
<1>7. OtherOptions'
  <2>1. /\ TraceKind \notin seen' => options'.modes = {}
        /\ TicksKind \notin seen' => options'.ticks = <<>>
        /\ AddressesKind \notin seen' => options'.addresses = <<>>
        /\ RamSizeKind \notin seen' => options'.ramSize = DefaultRamSize
        /\ WarnKind \notin seen' => options'.warnings = {}
    BY <1>1, <1>3, <1>5 DEF OtherOptions
  <2>2. options'.help = (HelpKind \in seen')
    <3>1. options.help = (HelpKind \in seen)
      BY <1>3 DEF OtherOptions
    <3>2. CASE kind = HelpKind
      BY <1>1, <1>5, <3>2
    <3>3. CASE kind # HelpKind
      BY <1>1, <1>5, <3>1, <3>3
    <3> QED
      BY <3>2, <3>3
  <2>3. options'.clearStack = (ClearKind \in seen')
    <3>1. options.clearStack = (ClearKind \in seen)
      BY <1>3 DEF OtherOptions
    <3>2. CASE kind = ClearKind
      BY <1>1, <1>5, <3>2
    <3>3. CASE kind # ClearKind
      BY <1>1, <1>5, <3>1, <3>3
    <3> QED
      BY <3>2, <3>3
  <2>4. options'.inputPath # NoPath =>
           \E k \in Passed' : arguments'[k].kind = InputKind
                              /\ arguments'[k].value = options'.inputPath
    BY <1>1, <1>3, <1>5 DEF OtherOptions
  <2> QED
    BY <2>1, <2>2, <2>3, <2>4 DEF OtherOptions
<1> QED
  BY <1>4, <1>6, <1>7 DEF OptionsOK

\* The path of the input: the first that is not empty, and nothing behind it.
LEMMA InputStays ==
    ASSUME CommandLineIInv, ParseInput
    PROVE  CommandLineIInv'
<1> USE DEF InputKind
<1>1. /\ LineOK /\ PassedOK /\ OptionsOK /\ phase = "parsing" /\ next \in DOMAIN arguments
      /\ Argument = arguments[next] /\ Argument.kind = InputKind
      /\ next \notin Passed /\ \A k \in Passed : k < next /\ k \in DOMAIN arguments
  BY ArgumentsTyped DEF CommandLineIInv, ParseInput, Parsing, Argument, Passed
<1>2. CASE options.inputPath # NoPath
  <2>1. PICK j \in Passed :
           arguments[j].kind = InputKind /\ arguments[j].value = options.inputPath
    BY <1>1, <1>2 DEF OptionsOK, OtherOptions
  <2>2. j \in Paths /\ next \in Given(InputKind) /\ ~(next <= j)
    BY <1>1, <1>2, <2>1, ArgumentsTyped DEF Paths, Given, Passed
  <2>3. ~IsCorrect
    BY <2>2 DEF IsCorrect
  <2> QED
    BY <1>1, <1>2, <2>3, RefusalStays DEF ParseInput
<1>3. CASE options.inputPath = NoPath
  <2>1. /\ options' = [options EXCEPT !.inputPath = Argument.value]
        /\ next' = next + 1 /\ UNCHANGED <<arguments, seen, phase, emulator>>
    BY <1>3 DEF ParseInput
  <2>2. \A j \in Passed : arguments[j].kind = InputKind => arguments[j].value = NoPath
    BY <1>1, <1>3 DEF OptionsOK, GivenOptions
  <2>3. HasCorrectValue(Argument)
    BY <1>1, ArgumentsTyped, ChecksAreExact
  <2>4. Passes(InputKind)
    BY <1>1, <2>1, <2>3 DEF Passes, ParseInput
  <2>5. LineOK' /\ PassedOK' /\ Passed' = Passed \union {next} /\ phase' = "parsing"
    BY <1>1, <2>1, <2>2, <2>4, PassedStays
  <2>6. OptionsShaped /\ OptionsShaped'
    BY <1>1, <2>1 DEF OptionsOK, OptionsShaped
  <2>7. /\ options'.inputPath = Argument.value
        /\ options'.modes = options.modes /\ options'.warnings = options.warnings
        /\ options'.ticks = options.ticks /\ options'.addresses = options.addresses
        /\ options'.ramSize = options.ramSize /\ options'.help = options.help
        /\ options'.clearStack = options.clearStack
    BY <2>1, <2>6 DEF OptionsShaped
  <2>8. GivenOptions'
    <3> SUFFICES ASSUME NEW k \in Passed'
                 PROVE  LET arg == arguments[k]
                        IN  /\ arg.kind = TraceKind => options'.modes = Values(arg.value)
                            /\ arg.kind = TicksKind => options'.ticks = arg.value
                            /\ arg.kind = AddressesKind => options'.addresses = arg.value
                            /\ arg.kind = RamSizeKind => options'.ramSize = arg.value
                            /\ arg.kind = WarnKind => options'.warnings = Values(arg.value)
                            /\ arg.kind = InputKind /\ arg.value # NoPath =>
                                  options'.inputPath = arg.value
      BY <2>1 DEF GivenOptions
    <3>1. CASE k = next
      BY <1>1, <2>7, <3>1 DEF TraceKind, TicksKind, AddressesKind, RamSizeKind, WarnKind
    <3>2. CASE k \in Passed
      BY <1>1, <2>2, <2>7, <3>2 DEF OptionsOK, GivenOptions
    <3> QED
      BY <2>5, <3>1, <3>2
  <2>9. OtherOptions'
    <3>1. options'.inputPath # NoPath =>
             \E k \in Passed' : arguments'[k].kind = InputKind
                                /\ arguments'[k].value = options'.inputPath
      BY <1>1, <2>1, <2>5, <2>7
    <3> QED
      BY <1>1, <2>1, <2>7, <3>1 DEF OptionsOK, OtherOptions
  <2>10. VerdictOK' /\ EmulatorOK'
    BY <1>1, <2>1, <2>5 DEF CommandLineIInv, VerdictOK, EmulatorOK, EmulatorShaped
  <2> QED
    BY <2>5, <2>6, <2>8, <2>9, <2>10 DEF CommandLineIInv, OptionsOK
<1> QED
  BY <1>2, <1>3

-----------------------------------------------------------------------------
(* validateOptions and main *)

\* What the loop has left is not touched any more.
LEMMA LoopStays ==
    ASSUME CommandLineIInv, UNCHANGED <<arguments, next, seen, options>>, phase' \in Phases
    PROVE  LineOK' /\ PassedOK' /\ OptionsOK'
BY DEF CommandLineIInv, LineOK, PassedOK, Passed, OptionsOK, OptionsShaped, GivenOptions, OtherOptions

\* At the end of the arguments the whole line is judged.
LEMMA EndStays ==
    ASSUME CommandLineIInv, EndArguments
    PROVE  CommandLineIInv'
<1>1. next = Len(arguments) + 1
  BY ArgumentsTyped DEF CommandLineIInv, LineOK, EndArguments
<1>2. LineOK' /\ PassedOK' /\ OptionsOK'
  BY LoopStays DEF EndArguments, Phases
<1>3. VerdictOK' /\ EmulatorOK'
  BY <1>1 DEF EndArguments, CommandLineIInv, VerdictOK, EmulatorOK, EmulatorShaped
<1> QED
  BY <1>2, <1>3 DEF CommandLineIInv

\* The combination is judged by the options as it is by the arguments.
LEMMA ValidateStays ==
    ASSUME CommandLineIInv, Validate
    PROVE  CommandLineIInv'
<1>1. LineOK /\ PassedOK /\ OptionsOK /\ VerdictOK /\ EmulatorOK /\ phase = "validating"
  BY DEF CommandLineIInv, Validate
<1>2. next = Len(arguments) + 1
  BY <1>1 DEF VerdictOK
<1>3. /\ \A kind \in OptionKinds : kind \in seen <=> Given(kind) # {}
      /\ IsCorrect <=>
            (Given(HelpKind) = {} =>
               /\ Paths # {}
               /\ Given(TicksKind) # {} => Given(TraceKind) # {}
               /\ Given(AddressesKind) # {} =>
                     Given(TraceKind) # {} /\ "ram-wr" \in Values(Value(TraceKind)))
  BY <1>1, <1>2, PassedIsCorrect
<1>4. /\ options.modes = IF Given(TraceKind) = {} THEN {} ELSE Values(Value(TraceKind))
      /\ options.modes = {} <=> Given(TraceKind) = {}
      /\ options.inputPath # NoPath <=> Paths # {}
  BY <1>1, <1>2, WholeLine
<1>5. options.help <=> HelpKind \in seen
  BY <1>1 DEF OptionsOK, OtherOptions
<1>6. HelpKind \in OptionKinds /\ TicksKind \in OptionKinds /\ AddressesKind \in OptionKinds
  BY DEF OptionKinds
<1>7. /\ phase' \in {"help", "creating", "refused"}
      /\ phase' = "help" <=> options.help
      /\ ~options.help => (phase' = "creating" <=>
            /\ options.inputPath # NoPath
            /\ TicksKind \in seen => options.modes # {}
            /\ AddressesKind \in seen => "ram-wr" \in options.modes)
      /\ UNCHANGED <<arguments, next, seen, options, emulator>>
  BY DEF Validate
<1>8. LineOK' /\ PassedOK' /\ OptionsOK'
  BY <1>7, LoopStays DEF Phases, Ended
<1>9. VerdictOK'
  <2>1. CASE phase' = "help"
    BY <1>2, <1>3, <1>5, <1>6, <1>7, <2>1, LineStays DEF VerdictOK
  <2>2. CASE phase' = "creating"
    <3>1. IsCorrect
      BY <1>3, <1>4, <1>6, <1>7, <2>2
    <3> QED
      BY <1>2, <1>5, <1>7, <2>2, <3>1, LineStays DEF VerdictOK
  <2>3. CASE phase' = "refused"
    <3>1. ~IsCorrect
      BY <1>3, <1>4, <1>5, <1>6, <1>7, <2>3
    <3> QED
      BY <1>7, <2>3, <3>1, LineStays DEF VerdictOK
  <2> QED
    BY <1>7, <2>1, <2>2, <2>3
<1>10. EmulatorOK'
  BY <1>1, <1>7 DEF EmulatorOK, EmulatorShaped
<1> QED
  BY <1>8, <1>9, <1>10 DEF CommandLineIInv

\* The steps of main keep what is known of the line, and set up the emulator.
LEMMA MainStays ==
    ASSUME CommandLineIInv,
           CreateEmulator \/ LoadProgramFromFile \/ EnableTraces \/ Run \/ Fail
    PROVE  CommandLineIInv'
<1>1. /\ UNCHANGED <<arguments, next, seen, options>>
      /\ phase \in {"creating", "loading", "tracing", "running"}
      /\ phase' \in {"loading", "tracing", "running", "done", "failed"}
  BY DEF CreateEmulator, LoadProgramFromFile, EnableTraces, Run, Fail
<1>2. LineOK' /\ PassedOK' /\ OptionsOK'
  BY <1>1, LoopStays DEF Phases, Ended
<1>3. VerdictOK'
  BY <1>1, LineStays DEF CommandLineIInv, VerdictOK
<1>4. EmulatorOK /\ EmulatorShaped
  BY DEF CommandLineIInv, EmulatorOK
<1>5. EmulatorOK'
  <2>1. CASE CreateEmulator
    BY <1>4, <2>1 DEF CreateEmulator, EmulatorOK, EmulatorShaped
  <2>2. CASE LoadProgramFromFile
    BY <1>4, <2>2 DEF LoadProgramFromFile, EmulatorOK, EmulatorShaped
  <2>3. CASE EnableTraces
    BY <1>4, <2>3 DEF EnableTraces, EmulatorOK, EmulatorShaped
  <2>4. CASE Run
    BY <1>4, <2>4 DEF Run, EmulatorOK, EmulatorShaped
  <2>5. CASE Fail
    BY <1>4, <2>5 DEF Fail, EmulatorOK, EmulatorShaped
  <2> QED
    BY <2>1, <2>2, <2>3, <2>4, <2>5
<1> QED
  BY <1>2, <1>3, <1>5 DEF CommandLineIInv

-----------------------------------------------------------------------------
(* The invariant and what it shows *)

\* Nothing has been passed yet, and every option has its default.
LEMMA InitHolds == Init => CommandLineIInv
<1> SUFFICES ASSUME Init PROVE CommandLineIInv
  OBVIOUS
<1>1. Len(arguments) \in Nat /\ arguments \in CommandLines /\ next = 1 /\ Passed = {}
  BY LineAssumption DEF Init, Passed
<1>2. LineOK /\ PassedOK
  BY <1>1 DEF Init, LineOK, PassedOK, Phases
<1>3. OptionsOK
  <2>1. OptionsShaped /\ GivenOptions
    BY <1>1 DEF Init, OptionsShaped, GivenOptions
  <2>2. seen = {} /\ options.help = FALSE /\ options.clearStack = FALSE
    BY DEF Init
  <2>3. options.help = (HelpKind \in seen) /\ options.clearStack = (ClearKind \in seen)
    <3>1. HelpKind \notin seen /\ ClearKind \notin seen
      BY <2>2
    <3>2. (HelpKind \in seen) = FALSE /\ (ClearKind \in seen) = FALSE
      BY <3>1
    <3> QED
      BY <2>2, <3>2, Zenon
  <2>4. /\ options.modes = {} /\ options.ticks = <<>> /\ options.addresses = <<>>
        /\ options.ramSize = DefaultRamSize /\ options.warnings = {}
        /\ options.inputPath = NoPath
    BY DEF Init
  <2> QED
    BY <2>1, <2>3, <2>4 DEF OptionsOK, OtherOptions
<1>4. VerdictOK /\ EmulatorOK
  BY DEF Init, VerdictOK, EmulatorOK, EmulatorShaped
<1> QED
  BY <1>2, <1>3, <1>4 DEF CommandLineIInv

\* Every step keeps the invariant.
LEMMA NextHolds == CommandLineIInv /\ [Next]_vars => CommandLineIInv'
<1> SUFFICES ASSUME CommandLineIInv, [Next]_vars PROVE CommandLineIInv'
  OBVIOUS
<1>1. LineOK /\ PassedOK
  BY DEF CommandLineIInv
<1>2. /\ TraceKind \in OptionKinds /\ TicksKind \in OptionKinds /\ AddressesKind \in OptionKinds
      /\ RamSizeKind \in OptionKinds /\ WarnKind \in OptionKinds /\ ClearKind \in OptionKinds
      /\ HelpKind \in OptionKinds
  BY DEF OptionKinds
<1>3. Refuses => CommandLineIInv'
  BY RefusalStays DEF Refuses
<1>4. CASE ParseTrace
  BY <1>1, <1>2, <1>3, <1>4, OptionSteps, OptionsFollow, PassedOptionStays
<1>5. CASE ParseWarnings
  BY <1>1, <1>2, <1>3, <1>5, OptionSteps, OptionsFollow, PassedOptionStays
<1>6. CASE ParseTraceTicks
  BY <1>1, <1>2, <1>3, <1>6, OptionSteps, OptionsFollow, PassedOptionStays
<1>7. CASE ParseTraceAddresses
  BY <1>1, <1>2, <1>3, <1>7, OptionSteps, OptionsFollow, PassedOptionStays
<1>8. CASE ParseRamSize
  BY <1>1, <1>2, <1>3, <1>8, OptionSteps, OptionsFollow, PassedOptionStays
<1>9. CASE ParseHelp
  BY <1>1, <1>2, <1>3, <1>9, OptionSteps, OptionsFollow, PassedOptionStays
<1>10. CASE ParseClearStack
  BY <1>1, <1>2, <1>3, <1>10, OptionSteps, OptionsFollow, PassedOptionStays
<1>11. CASE ParseUnknown
  <2>1. next \in DOMAIN arguments /\ ~HasCorrectValue(arguments[next])
    BY <1>1, <1>11, ArgumentsTyped, ChecksAreExact DEF ParseUnknown, Parsing, Argument
  <2>2. ~IsCorrect /\ phase = "parsing"
    BY <1>11, <2>1 DEF IsCorrect, ParseUnknown, Parsing
  <2> QED
    BY <1>3, <1>11, <2>2 DEF ParseUnknown, Refuses
<1>12. CASE ParseInput
  BY <1>12, InputStays
<1>13. CASE EndArguments
  BY <1>13, EndStays
<1>14. CASE Validate
  BY <1>14, ValidateStays
<1>15. CASE CreateEmulator \/ LoadProgramFromFile \/ EnableTraces \/ Run \/ Fail
  BY <1>15, MainStays
<1>16. CASE UNCHANGED vars
  <2>1. LineOK' /\ PassedOK' /\ OptionsOK'
    BY <1>1, <1>16, LoopStays DEF vars, LineOK
  <2>2. VerdictOK' /\ EmulatorOK'
    BY <1>16, LineStays DEF vars, CommandLineIInv, VerdictOK, EmulatorOK, EmulatorShaped
  <2> QED
    BY <2>1, <2>2 DEF CommandLineIInv
<1> QED
  BY <1>4, <1>5, <1>6, <1>7, <1>8, <1>9, <1>10, <1>11, <1>12, <1>13, <1>14, <1>15, <1>16 DEF Next

\* The invariant holds throughout.
LEMMA CommandLineInvariant == Spec => []CommandLineIInv
BY InitHolds, NextHolds, PTL DEF Spec

\* A command line of any length is refused exactly when something in it is wrong, in
\* whatever order its arguments are, and help is shown exactly when it is asked for
\* (parseCommandLine and validateOptions).
THEOREM OnlyWrongLinesAreRefused == Spec => []RefusedIfWrong
<1>1. CommandLineIInv => RefusedIfWrong
  <2> SUFFICES ASSUME CommandLineIInv PROVE RefusedIfWrong
    OBVIOUS
  <2>1. phase \in Phases /\ VerdictOK /\ LineOK /\ PassedOK
    BY DEF CommandLineIInv, LineOK
  <2>2. next = Len(arguments) + 1 => (HelpKind \in seen <=> Given(HelpKind) # {})
    BY <2>1, PassedIsCorrect DEF OptionKinds
  <2> QED
    BY <2>1, <2>2 DEF VerdictOK, RefusedIfWrong, Phases, Ended
<1> QED
  BY <1>1, CommandLineInvariant, PTL

\* Whatever the arguments and their order, the program that runs is the one named, in
\* an emulator set up as they say and by default where they are silent (main).
THEOREM LineDecidesTheRun == Spec => []RunsAsAsked
<1>1. CommandLineIInv => RunsAsAsked
  <2> SUFFICES ASSUME CommandLineIInv, phase \in {"running", "done"} PROVE RunsAsAsked
    BY DEF RunsAsAsked
  <2>1. /\ next = Len(arguments) + 1 /\ LineOK /\ PassedOK /\ OptionsOK
        /\ options.inputPath # NoPath
        /\ TicksKind \in seen => options.modes # {}
        /\ AddressesKind \in seen => "ram-wr" \in options.modes
    BY DEF CommandLineIInv, VerdictOK
  <2>2. /\ options.modes = IF Given(TraceKind) = {} THEN {} ELSE Values(Value(TraceKind))
        /\ options.modes = {} <=> Given(TraceKind) = {}
        /\ options.ticks = IF Given(TicksKind) = {} THEN <<>> ELSE Value(TicksKind)
        /\ options.addresses = IF Given(AddressesKind) = {} THEN <<>> ELSE Value(AddressesKind)
        /\ options.ramSize = IF Given(RamSizeKind) = {} THEN DefaultRamSize ELSE Value(RamSizeKind)
        /\ "uninit-ram" \in options.warnings <=> Given(WarnKind) # {}
        /\ options.clearStack = (Given(ClearKind) # {})
        /\ options.inputPath # NoPath => options.inputPath \in {arguments[k].value : k \in Paths}
    BY <2>1, WholeLine
  <2>3. /\ TicksKind \in seen <=> Given(TicksKind) # {}
        /\ AddressesKind \in seen <=> Given(AddressesKind) # {}
    BY <2>1, PassedIsCorrect DEF OptionKinds
  <2>4. EmulatorOK
    BY DEF CommandLineIInv
  <2>5. emulator.loaded \in {arguments[k].value : k \in Paths}
    BY <2>1, <2>2, <2>4 DEF EmulatorOK
  <2>6. emulator.ramSize = IF Given(RamSizeKind) = {} THEN DefaultRamSize ELSE Value(RamSizeKind)
    BY <2>2, <2>4 DEF EmulatorOK
  <2>7. emulator.clearStack = (Given(ClearKind) # {})
    BY <2>2, <2>4 DEF EmulatorOK
  <2>8. emulator.warns = (Given(WarnKind) # {})
    <3>1. emulator.warns = ("uninit-ram" \in options.warnings)
      BY <2>4 DEF EmulatorOK
    <3> QED
      BY <2>2, <3>1
  <2>9. emulator.ticks = IF Given(TicksKind) = {} THEN <<>> ELSE Value(TicksKind)
    BY <2>1, <2>2, <2>3, <2>4 DEF EmulatorOK
  <2>10. emulator.addresses = IF Given(AddressesKind) = {} THEN <<>> ELSE Value(AddressesKind)
    BY <2>1, <2>2, <2>3, <2>4 DEF EmulatorOK
  <2>11. /\ emulator.disasm = ("disasm" \in options.modes)
         /\ emulator.ramWrites = ("ram-wr" \in options.modes)
    BY <2>4 DEF EmulatorOK
  <2>12. emulator.dumped = (emulator.ran /\ Given(TraceKind) = {})
    <3>1. CASE phase = "running"
      BY <2>4, <3>1 DEF EmulatorOK
    <3>2. CASE phase = "done"
      <4>1. emulator.ran = TRUE /\ emulator.dumped = (options.modes = {})
        BY <2>4, <3>2 DEF EmulatorOK
      <4> QED
        BY <2>2, <4>1
    <3> QED
      BY <3>1, <3>2
  <2> QED
    BY <2>2, <2>5, <2>6, <2>7, <2>8, <2>9, <2>10, <2>11, <2>12 DEF RunsAsAsked
<1> QED
  BY <1>1, CommandLineInvariant, PTL
=============================================================================
