--------------------------- MODULE TracedEmulator ---------------------------
(***************************************************************************)
(* Emulator with its traces on (emulator/src/trace.cpp and the traced half *)
(* of stepImpl): what a step prints, given the filters of ticks and of RAM *)
(* addresses.  Every step is a step of Emulator that also sets output.     *)
(*                                                                         *)
(* A printed line is a record of what the text shows.  Filters have been   *)
(* normalised by RangeFilter<T>; the module Ranges answers for them.       *)
(***************************************************************************)
EXTENDS Emulator, FiniteSets

CONSTANTS
    TickFilters,    \* what setTraceTicks may be given: sequences of ranges
    AddressFilters  \* what enableRamWriteTrace may be given

VARIABLES
    disasm,     \* traceOutput_ is set
    ramWrites,  \* ramWriteTraceOutput_ is set, and with it the cell-write handler
    ticks,      \* tickRangeFilter_
    addresses,  \* ramWriteAddressFilter_
    output,     \* the lines the last call printed
    cutShort    \* the last call threw while it printed its last line

traceVars == <<disasm, ramWrites, ticks, addresses, output, cutShort>>

Filter == INSTANCE Ranges WITH MaxValue <- WordMod - 1

\* What setRanges leaves in a filter (RangesApart of RangeFilter).
ASSUME TraceAssumption ==
    \A filter \in TickFilters \union AddressFilters :
        filter \in Seq(Filter!AnyRange) /\ Filter!Sorted(filter)

-----------------------------------------------------------------------------
(* The disassembly line *)

\* Mutant: the sources are read when the line is printed.
OperandsAfterwards(before, after, i) ==
    CASE i.op \in {LI, LUI, ASPI} -> <<after.regs[i.a]>>
      [] i.op \in RRR -> <<after.regs[i.a], after.regs[i.b], after.regs[i.c]>>
      [] i.op \in Loads \union Conversions \union {ASPR} ->
            <<after.regs[i.a], after.regs[i.b]>>
      [] i.op \in Stores -> <<after.regs[i.a], after.regs[i.b]>>
      [] i.op = SCRW -> <<after.regs[i.b]>>
      [] i.op = SCRR -> <<after.regs[i.a], StatusValue(after, i.b)>>
      [] i.op = RJMP -> <<>>
      [] i.op \in Branches \union {AJMP, CALL} -> <<after.regs[i.a]>>

\* The values printed behind the operands: of a destination after execution, of
\* a source as captureTraceSnapshot saw it, of a status register after execution.
Operands(before, after, i) ==
    CASE i.op \in {LI, LUI, ASPI} -> <<after.regs[i.a]>>
      [] i.op \in RRR -> <<after.regs[i.a], before.regs[i.b], before.regs[i.c]>>
      [] i.op \in Loads \union Conversions \union {ASPR} ->
            <<after.regs[i.a], before.regs[i.b]>>
      [] i.op \in Stores -> <<before.regs[i.a], before.regs[i.b]>>
      [] i.op = SCRW -> <<before.regs[i.b]>>
      [] i.op = SCRR -> <<after.regs[i.a], StatusValue(after, i.b)>>
      [] i.op = RJMP -> <<>>
      [] i.op \in Branches \union {AJMP, CALL} -> <<before.regs[i.a]>>

\* readStatusRegister throws in the middle of the line: IP has become 2^32.
PrintingThrows(after, i) == i.op = SCRR /\ i.b = Ip /\ after.pc = WordMod

\* Mutant: the tick is read after it was counted.
DisasmLineLate(before, after, i) ==
    LET values == Operands(before, after, i)
    IN  [kind |-> "disasm", tick |-> after.tick, address |-> before.pc - before.base,
         word |-> i,
         values |-> IF PrintingThrows(after, i) THEN <<values[1]>> ELSE values]

DisasmLine(before, after, i) ==
    LET values == Operands(before, after, i)
    IN  [kind |-> "disasm", tick |-> before.tick, address |-> before.pc - before.base,
         word |-> i,
         values |-> IF PrintingThrows(after, i) THEN <<values[1]>> ELSE values]

-----------------------------------------------------------------------------
(* The RAM-write lines *)

\* What the cell-write handler may be told of while i is executed (FlatMemory): every
\* cell of a store; of a clear, every cell it changes and perhaps others.
Notifications(before, after, i) ==
    CASE i.op \in Stores -> {CellsOf(Span(EffectiveAddress(before, i), AccessSize(i.op)))}
      [] i.op \in {ASPI, ASPR} /\ clearStack /\ StackDelta(before, i) > 0 ->
            LET cleared == CellsOf(Span(before.spTop, StackDelta(before, i)))
                changed == {c \in cleared :
                              CellValue(before.bytes, c) # CellValue(after.bytes, c)}
            IN  {cells \in SUBSET cleared : changed \subseteq cells}
      [] OTHER -> {{}}

\* Mutant: only the first byte of a cell is looked for in the filter.
CollectsFirstByte(cell, tick) ==
    /\ Filter!Contains(ticks, tick)
    /\ Filter!Contains(addresses, CellSize * cell)

\* collectRamWriteTrace keeps the event.
Collects(cell, tick) ==
    /\ Filter!Contains(ticks, tick)
    /\ Filter!Intersects(addresses, CellSize * cell, CellSize * cell + CellSize - 1)

RamLine(before, after, cell) ==
    [kind |-> "ram", tick |-> before.tick, address |-> CellSize * cell,
     old |-> CellValue(before.bytes, cell), new |-> CellValue(after.bytes, cell)]

\* The order of the addresses, in which the handler is called.
Ascending(cells) ==
    [k \in 1 .. Cardinality(cells) |->
        CHOOSE c \in cells : Cardinality({d \in cells : d < c}) = k - 1]

\* flushRamWriteTrace
RamLines(before, after, cells) ==
    LET order == Ascending({c \in cells : Collects(c, before.tick)})
    IN  [k \in DOMAIN order |-> RamLine(before, after, order[k])]

-----------------------------------------------------------------------------
(* Actions *)

\* The lines of a step that told the handler of cells: none if it threw.
Printed(before, after, i, cells) ==
    (IF disasm /\ Filter!Contains(ticks, before.tick)
     THEN <<DisasmLine(before, after, i)>> ELSE <<>>)
    \o (IF ramWrites THEN RamLines(before, after, cells) ELSE <<>>)

Configured == UNCHANGED <<disasm, ramWrites, ticks, addresses>>

TracedStep ==
    /\ Step
    /\ Ok(machine')
    /\ \E cells \in Notifications(machine, machine', Instruction) :
          output' = Printed(machine, machine', Instruction, cells)
    /\ cutShort' = (output' # <<>> /\ PrintingThrows(machine', Instruction))
    /\ Configured

ThrowingStep ==
    /\ Step
    /\ ~Ok(machine')
    /\ output' = <<>>
    /\ cutShort' = FALSE
    /\ Configured

\* The calls of Emulator that print nothing.
Quietly(action) ==
    /\ action
    /\ output' = <<>>
    /\ cutShort' = FALSE
    /\ Configured

EnableDisasmTrace ==
    /\ disasm' = TRUE
    /\ output' = <<>>
    /\ cutShort' = FALSE
    /\ UNCHANGED <<vars, ramWrites, ticks, addresses>>

SetTraceTicks(filter) ==
    /\ ticks' = filter
    /\ output' = <<>>
    /\ cutShort' = FALSE
    /\ UNCHANGED <<vars, disasm, ramWrites, addresses>>

EnableRamWriteTrace(filter) ==
    /\ ramWrites' = TRUE
    /\ addresses' = filter
    /\ output' = <<>>
    /\ cutShort' = FALSE
    /\ UNCHANGED <<vars, disasm, ticks>>

TracedInit ==
    /\ Init
    /\ disasm = FALSE /\ ramWrites = FALSE
    /\ ticks = <<>> /\ addresses = <<>>
    /\ output = <<>> /\ cutShort = FALSE

TracedNext ==
    \/ TracedStep
    \/ ThrowingStep
    \/ \E p \in Programs : Quietly(LoadProgram(p)) \/ Quietly(RefuseProgram(p))
    \/ Quietly(EnableClearStack)
    \/ Quietly(EnableUninitializedRamWarnings)
    \/ EnableDisasmTrace
    \/ \E filter \in TickFilters : SetTraceTicks(filter)
    \/ \E filter \in AddressFilters : EnableRamWriteTrace(filter)

TracedSpec == TracedInit /\ [][TracedNext]_<<vars, traceVars>>

\* main() sets all options up, the ones of the trace last, before it calls run().
ConfiguredNext == TracedNext /\ (machine.tick > 0 => Configured /\ UNCHANGED clearStack)

ConfiguredFirst == TracedInit /\ [][ConfiguredNext]_<<vars, traceVars>>

-----------------------------------------------------------------------------
(* Properties *)

\* The lines of one kind that the last call printed.
Lines(kind) == {k \in DOMAIN output : output[k].kind = kind}

\* What the program's instruction did follows from the line alone, the RAM
\* and the addresses around it: the values shown are those the instruction
\* computed with, even if it overwrote one of its own sources.
Explains(line, before, after) ==
    LET i == line.word
        v == line.values
        address == (v[2] + i.c) % WordMod
        moved == IF i.op = ASPI THEN SignedPart(i.imm, HalfMod) ELSE v[2]
        taken == (v[1] = 0) = (i.op = BRZ)
    IN  CASE i.op = LI -> v[1] = i.imm
          [] i.op = LUI -> v[1] = (before.regs[i.a] % HalfMod) + HalfMod * i.imm
          [] i.op \in RRR -> v[1] = Alu(i.op, v[2], v[3])
          [] i.op \in Loads ->
                v[1] = FromBytes(BytesAt(before.bytes, address, AccessSize(i.op)))
          [] i.op \in Stores ->
                BytesAt(after.bytes, address, AccessSize(i.op)) = ToBytes(v[1], AccessSize(i.op))
          [] i.op = SXT -> v[1] = SignExtend(v[2], i.c)
          [] i.op = BSWAP -> v[1] = ByteSwap(v[2], i.c)
          [] i.op = SCRW -> StatusValue(after, i.a) = v[1]
          [] i.op = SCRR -> i.b # Ip => v[1] = v[2]
          [] i.op \in {ASPI, ASPR} ->
                v[1] = after.spTop /\ v[1] = (before.spTop + moved) % WordMod
          [] i.op = RJMP -> after.pc = before.pc + InstructionSize * SignedPart(i.imm, HalfMod)
          [] i.op \in Branches ->
                after.pc = before.pc + InstructionSize *
                                       (IF taken THEN SignedPart(i.imm, HalfMod) ELSE 1)
          [] i.op \in {AJMP, CALL} -> after.pc = v[1]

\* The disassembly line of a step explains it (writeDisasmTrace and the order of
\* snapshot, execution and printing in stepImpl).
DisasmExplainsStep ==
    [][\A k \in Lines("disasm")' : Explains(output'[k], machine, machine')]_<<vars, traceVars>>

\* The RAM-write lines of a step are the changes it made: of each selected cell that
\* changed there is one line, in the order of the addresses, with the old content
\* and the new; a line is never of a cell with no byte in the filter, nor of an
\* instruction that threw (collectRamWriteTrace, flushRamWriteTrace).
RamTraceAccountsForRam ==
    [][loads' = loads /\ ramWrites =>
         LET lines == Lines("ram")'
             wanted(c) == addresses = <<>> \/
                          Span(CellSize * c, CellSize) \intersect Filter!Covered(addresses) # {}
             shown == {output'[k].address \div CellSize : k \in lines}
             touched == CellsOf(DOMAIN machine.bytes \union DOMAIN machine'.bytes)
         IN  /\ \A k \in lines :
                  LET cell == output'[k].address \div CellSize
                  IN  /\ wanted(cell)
                      /\ output'[k].old = CellValue(machine.bytes, cell)
                      /\ output'[k].new = CellValue(machine'.bytes, cell)
             /\ \A j, k \in lines : j < k => output'[j].address < output'[k].address
             /\ ticks = <<>> \/ machine.tick \in Filter!Covered(ticks) =>
                  \A c \in touched \ shown :
                      wanted(c) => CellValue(machine.bytes, c) = CellValue(machine'.bytes, c)
      ]_<<vars, traceVars>>

\* Lines carry the number of instructions executed before theirs, and are printed
\* for exactly the selected ones that did not throw, the disassembly before
\* the RAM writes (stepImpl, and src/README.md on how ticks are counted).
TracesSelectedTicks ==
    [][LET selected == ticks = <<>> \/ machine.tick \in Filter!Covered(ticks)
           executed == loads' = loads /\ machine'.tick # machine.tick
       IN  /\ output' # <<>> => selected /\ executed
           /\ \A k \in DOMAIN output' : output'[k].tick + 1 = machine'.tick
           /\ Lines("disasm")' = IF disasm /\ selected /\ executed THEN {1} ELSE {}
      ]_<<vars, traceVars>>

\* trace.cpp:260: SCRR does not change a status register, so that its value can be
\* read without a snapshot.  Then the line shows one value twice.
ScrrShowsItsValue ==
    \A k \in Lines("disasm") :
        output[k].word.op = SCRR => cutShort \/ output[k].values[1] = output[k].values[2]
=============================================================================
