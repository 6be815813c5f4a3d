# Verification of mcst_emu

TLA+ models, model-checking runs and machine-checked proofs for the processor
emulator and the assembler of this repository (paths below are relative to the
repository, without the leading `src/`). `PROJECT.json` lists for every
definition the source lines it stands for.

## The system

| Component | Source | State it keeps | Operations |
|---|---|---|---|
| RAM, class `Memory` | `emulator/src/opMemory.cpp` | table of pointers to 4 KB blocks, list of allocated blocks, a read and a write cache of one block each, an initialised bit per byte, two handlers | `clear`, `load`, `read8/16/32`, `readInstruction32`, `write8/16/32`, `clearRange`, `clearAndMarkUninitialized`, `markUninitialized`, the handler setters |
| Execution core, class `Emulator` | `emulator/src/emulator.cpp` | sixteen registers and `R31`, `SP_TOP`, `SP_SIZE`, the bottom of the stack, `pc_`, the range of the loaded program, `tick_` | `loadProgram`, `step`, `run`, the options |
| Instruction set | `common/include/isa.h`, `common/src/isa.cpp` | none | opcodes, fields, conversion tables |
| Tracing | `emulator/src/trace.cpp`, half of `stepImpl<true>` | buffer of RAM writes of the current instruction, tick and address filters | the trace options, the snapshot of sources, printing and flushing |
| Range filters | `emulator/include/ranges.h`, `emulator/src/ranges.cpp` | sorted, merged ranges | parsing, merging, membership, intersection |
| Command line, `main` | `emulator/src/command_line.cpp`, `main.cpp` | the options, which were seen | parsing argument by argument, validating the combination; setting up, loading and running the emulator |
| Lexer | `assembler/src/lexer.cpp`, `token.cpp` | position, line and column, tokens | one turn of `tokenize` for each kind of token |
| Parser, encoder, output | the rest of `assembler/src` | tokens, instructions, bytes, the output file | parsing and lowering a line, encoding an instruction, opening and writing the file |

The program is sequential: there are no threads, no persistence and no
messages. `main` configures an `Emulator`, loads one program and calls `run`.
The `Emulator` owns its `Memory` and calls it for every fetch, load, store and
release of stack; `Memory` calls back through two handlers, which collect RAM
writes for the trace and print warnings, and never call `Memory` again. The
assembler is a program of its own whose stages run one after the other; the
file it writes is what the emulator loads. A C++ exception ends an operation
wherever it is thrown.

What is hard here is therefore not concurrency but

* cached pointers into storage that other calls free or create, accesses that
  span two cells or two blocks, different code for traced and untraced clears;
* exceptions in the middle of an operation, for a step (which must change
  nothing), for a load (which has by then wiped the machine) and for the
  assembler (which must not have touched the output file);
* arithmetic at the edges: the instruction pointer 2^32, wrapping addresses,
  ranges that end at the last byte, a stack pointer moved by arbitrary amounts,
  the largest operand of each slot of an instruction;
* state that is read too late: a trace line that shows operands which the
  instruction has overwritten, a buffered stream that fails after the last check;
* long sequences of legal operations: releases and allocations, jumps, loads,
  arguments in any order, lines that share the register `R31`.

The list of hazards, each at its line and with the properties that cover it,
is in `PROJECT.json`.

What makes each component correct:

* RAM: no caller can distinguish it from an array of bytes; a cache never
  outlives its block; `clear` reaches every block; only stores and loads allocate.
* Execution core: a throwing instruction is atomic; only the loaded program is
  executed; the stack pointer stays in its window; released stack cannot be
  read back; a failed load leaves nothing of the old program.
* Instruction set: operations agree with integer arithmetic on words.
* Tracing: what is printed is about the instruction just executed and only if it
  was selected; a disassembly line explains the step, and the RAM-write lines are
  the changes it made.
* Range filters: both queries answer for the union of the given ranges; a refused
  call leaves the filter as it was.
* Command line: what runs is exactly what was asked for, in whatever order.
* Lexer: a source is the tokens of its lines, each at its line and column.
* Assembler: every line becomes the instructions it is lowered to, in order; an
  error points at the first fault and leaves the output file alone; what is
  encoded is what the emulator decodes; a program does what its source says.

## The modules

| Module | What it is |
|---|---|
| `Ram` | RAM as a value: bytes, ranges, storing, wiping, cells |
| `MemoryInterface` | calls of `Memory` and what a call reports |
| `FlatMemory` | the promise of `Memory`: an array of bytes that remembers which were written |
| `SparseMemory` | `Memory` as it is written: blocks, allocation list, caches |
| `SparseMemoryProofs` | its theorems, and the proof that it implements `FlatMemory` |
| `Isa` | opcodes, fields, signed and unsigned conversions |
| `Arithmetic`, `ArithmeticUnit` | what the RRR instructions compute: on numbers; on bits |
| `Emulator` | `loadProgram`, fetching, every instruction, `step` and `run` |
| `EmulatorProofs` | facts on words, bytes and RAM; the theorems on the core |
| `Ranges`, `RangeFilter` | queries and option texts; `setRanges` turn by turn of its loop |
| `RangeFilterProofs` | what the binary searches find, and the theorems on the filter |
| `TracedEmulator` | `Emulator` with what every step prints; extends `Emulator`, asks `Ranges` |
| `TracedEmulatorProofs` | its theorems |
| `CommandLine` | `parseCommandLine`, `validateOptions` and `main` of the emulator |
| `CommandLineProofs` | its theorems |
| `Assembly` | operations, the operands each wants, lowering, encoding: the tables of the assembler |
| `Lexer` | `tokenize`, one turn of its loop a step |
| `LexerProofs` | its theorem |
| `Assembler` | `assembleFile` on the tokens: parser, encoder, output file |
| `AssemblerProofs` | its theorems |
| `SourceProgram` | the promise of assembler and emulator: statements executed one by one |
| `Toolchain` | `Assembler` and `Emulator` composed through the output file |
| `ToolchainProofs` | the proof that `Toolchain` implements `SourceProgram` |
| `MachineCode`, `MC*` | programs, texts and bounds for TLC |

### Memory

One action is one public member function. Nothing can run
in the middle of a call, so a call is one step, but inside the action block
lookups happen in the code's order, because a lookup changes the cache that the
next one uses. Pointers are explicit: the allocator picks any free pointer
(`Ptr`), and freed storage has a content (`Freed`) that no read may ever show,
so a use after free is visible as such. `call` and `reply` record what the
caller sees: the bytes returned, the cell-write events, the positions of
uninitialised bytes, or that the call threw. `SparseMemory` implements
`FlatMemory` under the mapping that reads the bytes off the block table
(`ImplementsFlatMemory`). `FlatMemory` is looser in one place: a traced clear
may leave out cells that it does not change, since `clearRangeImpl` skips absent
blocks.

### Execution core

The object is the record `machine`. Effects are functions
from machine to machine which do nothing once an error is set, so an instruction
is the composition of its checks and assignments in the order of the code, and
whatever it did before it throws stays done. Every opcode group of `execute` is
an operator (the data flow) and an action (the step). RAM is kept as `Ram` and
`FlatMemory` describe it; that the class `Memory` behaves so is what the first
half of the project shows. `machine.warned` is the set of bytes of which the
uninitialised-read handler printed a warning.

A byte has `ByteMod` values and a word four bytes. The code has 256; TLC's
integers are 32-bit signed, so the runs use 128, which makes a word 28 bits wide
and leaves every opcode in place, or 4 where all words are enumerated. The
theorems hold for every even `ByteMod`, 256 included.

### Tracing

Every step of `TracedEmulator` is a step of `Emulator` that also sets `output`,
the lines it printed as records: the disassembly line, then the RAM-write lines.
`Operands` says for each opcode which values of the line are from the snapshot
taken before execution and which are read afterwards. The cell-write handler
is not a step of its own: `Notifications` says of which cells `Memory` may tell it
while an instruction executes, which for a clear is any set that contains the
cells that change, as `FlatMemory` allows; `Collects` is the filter of the
handler. A step that throws prints nothing, and the buffer is emptied with the
next one. Filters are the normalised sequences of `RangeFilter`. A program may
change the options between steps (`TracedSpec`); the run sets them before the first
one, as `main` does (`ConfiguredFirst`).

### Range filters

A call of `setRanges` is a step that sorts (into any order
`std::sort` may produce), one step per turn of the merging loop, and a last step
that replaces the filter; a reversed range ends the call before that. Nothing can
call the filter in between; the steps are there so that the loop has an invariant
(`RangesApart`). `selected` is a history variable, the set of numbers the caller
asked for, against which the queries are compared. `std::upper_bound` is modelled
by its contract.

### Command line

One step takes one argument; then `validateOptions`, the set-up of the emulator,
the load and the run are a step each, and each may end `main` with a status. An
argument is a kind and an already split value: which texts are a mode, a list
of ranges or a number is the business of `Ranges` and of the standard library.
`seen` are the flags that make a repeated option an error. An empty argument counts
as an input path; `parseCommandLine` recognises "no path yet" by the empty string,
so that an empty argument before a path is forgotten and behind one is an error.
The model has that behaviour. The build is the one with tracing; without it the
trace options are refused.

### Lexer

A text is a sequence of one-character strings, a step one turn of the loop of
`tokenize` (a blank, a comment, a line end of one of three forms, a word, a
number, or an error), with line and column kept as the code keeps them. The
character `Nul` is what `current` and `peek` return behind the end, and a text may
contain it, which the code does not tell apart. `NumberLimit` is 2^64, beyond which
`std::stoull` throws; the run uses 256 so that numbers of three digits reach it.
The values of numbers and the names of operations are those of `Assembly`.

### Assembler

`tokens` have the type and value the lexer gave them, and their index is their
location. `ParseInstruction` is one turn of the loop of `parseProgram`: it
checks the operands against the format of the operation (`Unfit` are the tokens at
which `parseInstruction` throws, the first of them is reported) and appends the
lowered instructions. `EncodeInstruction` is one turn of the loop of `encode`, with the
checks that the encoder repeats. The output file is opened, and so emptied, only
after the last instruction. `FailToWrite` is a device that takes a part of the
bytes: the failure may be seen by `write` or, for what is still buffered,
by nobody.

### Toolchain

`Toolchain` runs `Assembler`, loads the file it leaves with
`loadProgramFromFile` and executes it. `SourceProgram` is the promise: its state is
the statement to execute next and the registers R0 to R15; a pseudo-instruction is
one step, and jumps count the instructions the statements are lowered to.
`ImplementsSource` is the refinement. Its mapping places the machine inside a
statement at that statement until its last instruction, except LFI, which takes
effect with its first instruction since both write the same register. `text` is a history variable,
the statements of the loaded source. Executed sources (`RegisterOperations`) have no loads, stores or
status registers, and their jumps lead to beginnings of statements: a jump into the
middle of a lowered line, which the assembler does not prevent, finds in R31
whatever was left there, and is outside the source language.

Operators whose comment starts with "Mutant:" are deliberately wrong variants
of the definition after them. Nothing refers to them; substituted for that
definition each makes one property of one run fail (`PROJECT.json`, "mutants").

## The runs

| Run | Configuration | Shows |
|---|---|---|
| `sparse_memory` | two blocks, RAM ends in the middle of the second. `caller` chooses: calls at the first byte, over the block boundary and at the last byte; or RAM loaded whole and ranges released that cover a block, parts of cells and cells between, traced or not. Two places for blocks, symmetric | `TypeOK`, `CacheCoherent`, `AllocatedExactly`, `NothingPastTheEnd`, `AllocationDiscipline`, `ImplementsFlatMemory` |
| `stack` | all sequences of four stack instructions on a stack of 16 bytes, options set before the load (`MainSpec`) | `StackStaysInWindow`, `FreeStackIsUninitialized`, `FreeStackIsZero` |
| `instructions` | `series` chooses: all pairs of instructions from a pool with every opcode, valid and invalid, on two pairs of boundary values; or three loads out of eight images, fitting, misaligned, too long, with steps between | `TypeOK`, `FailedStepChangesNothing`, `HalfLoadedRunsNothing` |
| `small_words` | words of 8 bits; `reload` chooses: two loads of programs inside RAM, next to its end and past it; or one of 256 programs that put each word into R2. The operations are applied to what the registers hold and every second operand | `IntegerArithmetic`, `ShiftsScale`, `ConversionsRoundTrip`, `IInv`, and `AluAssumption` and `PseudoAssumption` for `Compute` |
| `trace` | one instruction of each kind of operands behind a stack set-up and before a release, in all combinations of the two traces, the tick filter, the address filter, clearing and warnings; pairs of jumps in a program at 8 and in one that ends at the top of the address space, to targets before, in, between, at the end of and after the program | `DisasmExplainsStep`, `RamTraceAccountsForRam`, `TracesSelectedTicks`, `ExecutesInsideProgram` |
| `range_filter` | numbers 0 to 4, up to two ranges with reversed ones or three straight ones, on every filter earlier calls leave; texts with numbers too large, missing or one too many | `TypeOK`, `RangesApart`, `ContainsIsMembership`, `IntersectsIsOverlap`, `AcceptedTextIsSet` |
| `toolchain` | every sequence of up to four tokens out of seven; for every operation its line with the largest operands, with each operand spoiled, with one too few and one too many, before another line; executed: all pairs of nine statements behind an LFI, loops, two calls of a subroutine, jumps out, an error; every failure of the files | `AssemblerTypeOK`, `TranslatesEveryLine`, `ReportsFirstFault`, `EncoderAcceptsParser`, `AssembledIsExecutable`, `DecodesAsWritten`, `TempIsLocal`, `ErrorKeepsOldFile`, `AssemblerEnds`, `ImplementsSource`, `ComesToItsEnd` |
| `lexer` | every text of three pieces out of seventeen and of four out of six | `ReadsRunsOfLines`, `LexerEnds` |
| `command_line` | every sequence of up to three arguments out of 23 and of four out of six that depend on each other | `RefusedIfWrong`, `RunsAsAsked` |
| `outside` | as the jumps of `trace` | `OutsideIsAnError` fails: see Findings |
| `scrr_trace` | as `trace` | `ScrrShowsItsValue` fails |
| `silent_write` | as `toolchain` | `SuccessIsWritten` fails |

Bounds. `MaxLoads` and `MaxTicks` count loads and executed instructions; a
load resets the tick, as in the code. The runs' programs are shorter than
`MaxTicks` allows except where they loop. `CallAddress`, `ByteCounts`,
`WriteData` and `Images` are the arguments of calls to `Memory`. A block of
three cells is enough for every case of the block code: the code
distinguishes a partial first cell, whole cells, a partial last cell and the
whole block, and an access spans at most two blocks unless it is a load or a
release. The top of the address space is reached with `Size` = 2^28, the whole
space of a 28-bit word: RAM is a function from its nonzero bytes, so its size
costs nothing. `Sources` are the sources TLC assembles and `Executed` those it also
executes; the longest line has four tokens, so four tokens reach every state of the
parser within a line and the beginning of the next one. Three arguments
are enough for any option, its repetition and the path; four for the two filters
with the trace they depend on. Three pieces put every kind of token between two others.

`sparse_memory` is checked with the VIEW of `mem`, `tracing`, `warning` and `caller`:
`call` and `reply` report the last call and no action reads them, so
states that differ only there have the same futures; action properties are still
evaluated on every transition. Five numbers are enough for the range filter to
have two ranges that touch, nest or overlap and a third apart from them, and for
a range to end at the largest number, where `end + 1` would overflow.

Deadlock is not checked where a program finishes and loads are bounded, or where a
program returns: there is then really nothing to do. It is checked for
`SparseMemory` and `RangeFilter`.

Fairness. `Lexer`, `AssemblerSpec` and `ChainSpec` ask weak fairness of their whole
next-state relation: they are sequential programs in which nothing waits, each
turn of a loop follows the one before, and `main` runs the next stage at once. It
is all that `LexerEnds` (every turn takes a character), `AssemblerEnds` and
`ComesToItsEnd` need. Which of the possible outcomes of an I/O call happens is not
constrained. `MaxTicks` does not help `ComesToItsEnd`: a program that still runs when
the bound is reached violates it. The other specifications state safety only; a
program for the emulator need not end.

`MainSpec` restricts the options to the order in `main.cpp:79-104`, where
clearing is enabled before the program is loaded. Enabled later, it does not
clear what was released before, so the properties of `stack` are stated for it.
`FreeStackIsUninitialized` and `FreeStackIsZero` are about programs that keep to
their stack (`KeepsToItsStack`): they store only at and above `SP_TOP` and set the
stack up on free memory. Those of `MCStack` do: their code lies above the stack
and their only stores go through R2, which always holds `SP_TOP`. A program that
stores below its stack pointer initialises what it stores.

## What is proved

For every value of the constants that satisfies the assumptions stated in the
modules (`RamAssumption`, `CallAssumption`, `BlockAssumption`,
`ProgramAssumption`, `AluAssumption`, `PseudoAssumption`, `SourcesAssumption`,
`FileAssumption`, `FieldsAssumption`, `ToolchainAssumption`,
`RangesAssumption`, `FilterAssumption`, `TraceAssumption`, `RamSizeAssumption`,
`LineAssumption`, `TextsAssumption`); TLC evaluates each of these in some run. `TraceAssumption`, that
the filters given to the trace are in order, is what `RangesStayApart` proves of
`RangeFilter`, which makes them.

`SparseMemoryProofs`. The inductive invariant is `Sound(mem) /\ TypeOK`, where
`Sound` joins ownership (each pointer of the table has its own live block),
coherence of both caches, exactness of the allocation list and the cleanness of
the end of the last block. None is inductive alone: that a store through
the write cache reaches the right block needs coherence; that `clear`
leaves no stale pointer needs exactness; coherence after a creation needs
ownership. Lemmas cover block arithmetic, creation, storing and releasing.
Theorems: `TypeCorrect`, `CachesCoherent`, `ClearReachesEveryBlock`,
`EndOfRamIsClean`.

The second half of `SparseMemoryProofs` proves that `SparseMemory` implements
`FlatMemory` (`RefinesFlatMemory`). Under the invariant each initial state maps to
an initial state and each call to the same call of the flat memory, with the same reply. What the
mapping turns on: an address is at one offset of one block (`BlockIsUnique`) and a
cell in one block (`CellInBlock`); a store and a release show, byte by byte, what they
do to the flat content (`StoreIsPut`, `ReleaseIsWipe`), for which the head, whole cells
and tail of a clear must make up its range (`CellsMakeTheRange`); a lookup shows
the table whatever the caches hold (`ReadFromIsTable`), and a fetch
across the end of RAM sees zeroes (`FetchIsFlat`). From the same lemmas,
`OnlyStoresAllocate`: `AllocationDiscipline` holds.

The first part of `EmulatorProofs` has the facts about data: words decompose into bytes and back, sign
extension and byte swaps stay words, a store and a wipe keep a content of RAM
a content. Its theorems are about every word, where TLC has 256 of them.
`ArithmeticIsThatOfIntegers`: the product by half-words loses only multiples of
2^32, and the division by absolute values truncates, with one quotient that wraps.
`ConversionsAreFaithful`: the signed number of a word is the only one in its range
that is congruent to it (`SignedPartIsUnique`), and a word has only one row of digits
(`DigitsOfSum`). `CalculationIsWord` shows `AluAssumption` for the operations on
numbers. All rest on the uniqueness of quotient and remainder (`UniqueDivision`).

The rest of `EmulatorProofs`. One lemma per instruction shows its outcome: typed; base, end
and tick untouched; if it throws, the architecture is unchanged; and whether the
stack window is kept. The inductive invariant `IInv` adds to the types that the
end of the loaded program is within RAM, without which a fetched address
need not be in RAM and execution could leave it. Theorems: `TypeCorrect`,
`FailedStepsChangeNothing`, `ExecutionStaysInside`, `StackWindowIsKept` (for any
sequence of ASPI and ASPR by any amounts, with wrapping registers) and
`HalfLoadedIsHarmless`, whose own invariant says that the machine is blank and
every fetched word is `LI R0 0`. As registers hold words, `ArithmeticOfRegisters` and
`ConversionsOfRegisters` follow from the theorems on data. A second lemma per instruction says what it has
done if it did not throw (`...Shows`); together (`StepsShowRam`) they say that a
store writes its span, that ASPI and ASPR release what they pass, and that nothing
else touches RAM. From these follow the two theorems on released stack, for every
behaviour with `[][KeepsToItsStack]_vars`. `ReleasedStackIsForgotten`:
`FreeStackIsUninitialized`; the invariant is that the stack is well formed and free,
and a release keeps it because it forgets exactly the bytes by which the
free part grows. `ReleasedStackIsCleared`, for `MainSpec`: `FreeStackIsZero`; here the
invariant `ClearedIsZero` adds that, once the option is set, a byte that is not zero
is initialised, which needs the option to be set before the load. `Alu` is a
parameter, of which only `AluAssumption` and `PseudoAssumption` are known: the bitwise operations of
`ArithmeticUnit` are built on `Bitwise`, whose operators are recursive.

`AssemblerProofs`, for sources of any length. The inductive invariant
`AssemblerIInv` says that tokens end with the one end of the file, that the parser
is inside them, that every instruction of the program is `WellFormed` (it is one
the encoder accepts) and reads R31 only behind the LI of its own line,
that the bytes are the words of the instructions encoded so far, and
that the file is the old one until it is opened. The argument has three parts: what
`Fits` a slot of the source fits the corresponding slot of the encoder, for each
of the twelve layouts (`SourceInstructionIsWellFormed`, `LoweredIsGood`); an
encoded word decodes to the fields it was made from (`EncodedIsWord`, from the
facts on data of `EmulatorProofs`); and appending a word to the bytes leaves the words
before it (`WordsAppended`). Theorems: `AssemblerTypeCorrect`,
`EncoderNeverFails`, `ErrorsKeepTheFile`, `TempStaysLocal`,
`AssembledCodeIsExecutable`, `EncodingRoundTrips`. A second invariant, `LinesIInv`,
relates the program to the lines: those before the parser's position are statements
and their instructions are the program, in order; its step follows a turn of the
parser from one line start to the next. From it `EveryLineIsTranslated` and
`FirstFaultIsReported`.

`TracedEmulatorProofs`, for every program, every filter in order and every order in
which options are set (`TracedSpec`, which the specification of the run implies).
The invariant `TracedIInv` is `IInv` and that both filters are in order, so that the
queries answer for what the ranges cover (`FilterAnswers`, from the lemmas of
`RangeFilterProofs` on ranges in order, with the numbers of the trace).
`TicksAreSelected`: the lines of a step are its disassembly, if selected, before
its RAM writes (`PrintedLines`), and a call that executes nothing prints nothing
(`SilentCalls`). `LinesExplainSteps`: for each kind of operands the values of the line,
some from the snapshot and some read afterwards, explain the step (`...Explained`),
given what the instruction has done (`...Shows`); the delicate ones are the loads,
branches and calls that overwrite their own sources, and the wrapping of `SP_TOP`.
`RamIsTraced`: whatever cells `Memory` chooses to tell, they are finitely many and all
that change are among them (`NotifiedCells`), `Ascending` lists each cell of a finite
set once and in order (`AscendingLists`), and the lines are that list, filtered
(`CollectedCells`, `TracedStepAccounts`).

`RangeFilterProofs`, for every `MaxValue`, every sequence of ranges and every text.
The inductive invariant `RangeFilterIInv` adds to `RangesApart` that the argument is
in order, that the vector of the loop selects what the ranges before the current
one select, and that none of the ranges to come begins before its last range; the
last is what makes one pass enough. That ranges are in order is then what makes the
binary searches right, which look at one range only (`ContainsFindsIt` and
`IntersectsFindsIt`). Theorems: `TypeCorrect`, `RangesStayApart`,
`ContainsIsExact`, `IntersectsIsExact`, `AcceptedTextsAreSet`.

`CommandLineProofs`, for command lines of any length. The property speaks of the whole
line and the loop sees one argument at a time; the inductive invariant
`CommandLineIInv` bridges them. Of the arguments passed so far it says that
none is wrong or given twice and `seen` names their options (`PassedOK`), that each option is what
its argument says and the others have their defaults (`OptionsOK`); of the phases, what
the validation has established (`VerdictOK`) and how far the emulator is set up
(`EmulatorOK`). The checks of the loop are shown equal to what a correct line has
(`ChecksAreExact`), an argument that is refused makes the line wrong
(`RefusedIsWrong`), and at the end the options are those of the whole line
(`WholeLine`). Theorems: `OnlyWrongLinesAreRefused`, `LineDecidesTheRun`.

`LexerProofs`, for every set of texts (`TextsAssumption`: sequences of strings). The
property speaks of the lines of the whole text (`Items`: line breaks, and runs outside
comments) while the loop sees the character it stands at, so the inductive invariant
`LexerIInv` says where the lexer can stand between two turns (`Between`): where a run
may begin, not between CR and LF, and behind no comment that is still open, with the
line and column of its position and one token for every item before it, none of which
is wrong. Without the second a CR LF would be two line breaks, without
the third the words of a comment would be items. One lemma for each thing that is
passed (`BlanksPassed`, `RunPassed`, `CommentPassed`, `LineBreakPassed`) says which items
lie in it and what it does to line and column; `WordIsItem`, `NumberIsItem` and
`OtherIsNoItem` say that the token taken at the beginning of a run, before its
end is known, is that of the whole run. The conversions of words and numbers are
used only in that they give one token at most. Theorem: `TextIsRead`.

`ToolchainProofs` proves that `Toolchain` implements `SourceProgram`
(`AssembledProgramsFollowSource`), for sources of any length whose operations are on
registers, whether the files can be read and written or not. Its invariant `ChainIInv` joins the
invariants of the emulator and of the assembler with three more.
`ParsedIInv`: behind every line that was parsed, the program is, statement by
statement, the instructions that each becomes, in the place that `SourceProgram` counts
for it (`ParsingLaysOut`). `WholeIInv`: the file is opened only when all are
encoded. `TextOK`: RAM holds the code of the statements (`HoldsCode`), and inside a
statement R31, or the register of an LFI, holds what the instructions before left
there (`Begun`); without the last, the second instruction of a NEG could not be said to
negate. The argument goes from the tokens to the words of the
file (`WordIsCode`, `FileIsCode`), from the file to RAM (`FileLoads`), and from the
instruction at the instruction pointer to its part of a statement
(`InstructionFollows`, one lemma per kind of statement): the instructions before the
last change no register of the source program, the last has its effect, and jumps and
calls reach the statement that begins at their target (`Turns`, `PlaceIsPosition`). The
theorem has a hypothesis, `JumpsToStatements`: no jump of the program that runs leads
into the middle of a lowered statement. It is needed: such a jump is a step to no statement
for `SourceProgram` and a step into one for the mapping. So no run asks for it: a source
of `MCToolchain` that broke it would break `ImplementsSource`. `PseudoAssumption`
is what NEG, NOT and MOV need of the arithmetic unit: that `OR` of a word with itself is
the word, that `SUB` from zero negates and that `XOR` with all ones inverts.

Model-checked only. Liveness (`LexerEnds`, `AssemblerEnds`, `ComesToItsEnd`) is out
of the prover's reach, and so are the bitwise operations and the shifts (`ShiftsScale`
and `PseudoAssumption`), as their definitions are recursive.

## Findings

`OutsideIsAnError` (run `outside`). `docs/PROC.md:226-227` says that when the new
`IP` leaves the range of the loaded program, the next fetch ends with an
error. `isFinished` is `pc_ >= programEnd_` (`emulator.cpp:131-133`) and is asked
before every fetch, so a jump past the end, however far, ends the program
silently as if it had run off its last instruction. Only a jump below the program
fails to fetch.

`ScrrShowsItsValue` (run `scrr_trace`). `trace.cpp:260` and `README.md:176-177` say
that SCRR changes no status register, so that the value can be read without a
snapshot. It moves `IP`, like every instruction: the line of `SCRR R IP` shows the
address of the instruction as the value of R and that of the next one as the value
of IP. In the last word of the address space printing the line throws, and the
traced run fails where the untraced one ends.

`SuccessIsWritten` (run `silent_write`). `binary_writer.cpp:16-18` throws if
the stream has failed after `write`; what is still in the buffer is written by the
destructor of the stream, whose failure nobody sees. The assembler returns 0 and the
file is empty or cut.

Met while modelling, without a run of their own:

* The check after `Memory::load` in `loadProgram` (`emulator.cpp:112`) can never
  throw: `load` has then already refused the same range. The model leaves it out.
* The address filter of the RAM trace is asked for the cell: a store to one byte
  is printed if any byte of its cell is selected (`trace.cpp:120-128`), where
  `README.md:206` speaks of the bytes touched by the write. The model has the cell.
* A `#` begins a comment only behind a separator (`lexer.cpp:220`); right behind a word
  or number it is part of it and an error. `docs/PROC.md:301` calls every text behind
  `#` a comment. The model has the separator.

## Not modelled

Formatting and wording (messages, register dump, columns of the trace) and the
tables that turn enumerators back into names are plain data. Which
characters spell a number of a range or of `--ram-size`, a trace mode or a warning
is left out. So are running out of memory and a terminal that takes no output. `reset` of the filters is empty in
the code. The tests, the examples and the scripts were read for what they say the
program does.

## Plan

1. Done: `Ram`, `FlatMemory`, `SparseMemory`, with the refinement; `Isa`, `Arithmetic`,
   `ArithmeticUnit`, `Emulator`;
   `Ranges`, `RangeFilter`, each with proofs; `CommandLine` with proofs, `TracedEmulator`,
   `Lexer` and `Assembler` with proofs, `SourceProgram` and `Toolchain`.
2. Done: the theorems on lines and faults of the assembler, on the trace, on
   released stack, on arithmetic and on the lexer; the refinement of `SourceProgram` by
   `Toolchain`.
3. Left: nothing that the tools reach; loads and stores in `SourceProgram` would be next.
