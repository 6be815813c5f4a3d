------------------------ MODULE TracedEmulatorProofs ------------------------
(***************************************************************************)
(* What TLAPS proves about the traces of Emulator for every width of a     *)
(* byte, every RAM size, every set of programs and all filters.            *)
(***************************************************************************)
EXTENDS TracedEmulator, EmulatorProofs, FiniteSetTheorems

\* The theorems about ranges, of the numbers a filter of the emulator holds.
Facts ==
    INSTANCE RangeFilterProofs
    WITH MaxValue <- WordMod - 1, Arguments <- {}, Texts <- {},
         filter <- <<>>, sorted <- <<>>, position <- 0, merged <- <<>>,
         parsed <- FALSE, thrown <- FALSE, selected <- Filter!Values

\* A filter as setRanges leaves it.
IsFilter(filter) == filter \in Seq(Filter!AnyRange) /\ Filter!Sorted(filter)

\* The inductive invariant.
TracedIInv ==
    /\ IInv
    /\ IsFilter(ticks) /\ IsFilter(addresses)

-----------------------------------------------------------------------------
(* Filters *)

\* What a filter answers is what its ranges cover; without ranges, anything.
LEMMA FilterAnswers ==
    ASSUME NEW filter, IsFilter(filter), NEW v \in Nat, NEW e \in Nat
    PROVE  /\ Filter!Contains(filter, v) <=> filter = <<>> \/ v \in Filter!Covered(filter)
           /\ Filter!Intersects(filter, v, e) <=>
                 filter = <<>> \/ v .. e \cap Filter!Covered(filter) # {}
<1>1. WordMod - 1 \in Nat
  BY Sizes
<1>2. CASE filter = <<>>
  BY <1>2 DEF Filter!Contains, Filter!Intersects
<1>3. CASE filter # <<>>
  <2>1. filter \in Seq(Facts!AnyRange) /\ Facts!Sorted(filter)
    BY DEF IsFilter, Filter!AnyRange, Facts!AnyRange, Filter!Values, Facts!Values,
       Filter!Sorted, Facts!Sorted, Filter!Reversed, Facts!Reversed
  <2>2. Facts!Contains(filter, v) <=> v \in Facts!Covered(filter)
    BY <1>1, <1>3, <2>1, Facts!ContainsFindsIt
  <2>3. Facts!Intersects(filter, v, e) <=> v .. e \cap Facts!Covered(filter) # {}
    BY <1>1, <1>3, <2>1, Facts!IntersectsFindsIt
  <2>4. Facts!Covered(filter) = Filter!Covered(filter)
    BY DEF Facts!Covered, Filter!Covered
  <2>5. Facts!Contains(filter, v) <=> Filter!Contains(filter, v)
    BY Zenon DEF Facts!Contains, Filter!Contains, Facts!UpperBound, Filter!UpperBound
  <2>6. Facts!Intersects(filter, v, e) <=> Filter!Intersects(filter, v, e)
    BY Zenon DEF Facts!Intersects, Filter!Intersects, Facts!UpperBound, Filter!UpperBound
  <2> QED
    BY <1>3, <2>2, <2>3, <2>4, <2>5, <2>6
<1> QED
  BY <1>2, <1>3

\* No ranges are a filter.
LEMMA EmptyIsFilter == IsFilter(<<>>)
BY DEF IsFilter, Filter!Sorted

-----------------------------------------------------------------------------
(* The invariant *)

\* Every call of the traced emulator is one of the emulator, or changes no more
\* than the settings of the trace.
LEMMA TracedNextIsNext ==
    ASSUME [TracedNext]_<<vars, traceVars>>
    PROVE  [Next]_vars
BY DEF TracedNext, TracedStep, ThrowingStep, Quietly, EnableDisasmTrace, SetTraceTicks,
   EnableRamWriteTrace, Next

LEMMA TracedInitIInv ==
    ASSUME TracedInit
    PROVE  TracedIInv
BY InitIInv, EmptyIsFilter DEF TracedInit, TracedIInv

LEMMA TracedNextIInv ==
    ASSUME TracedIInv, [TracedNext]_<<vars, traceVars>>
    PROVE  TracedIInv'
<1>1. IInv'
  BY TracedNextIsNext, NextIInv DEF TracedIInv
<1>2. ticks' = ticks \/ ticks' \in TickFilters
  BY DEF TracedNext, TracedStep, ThrowingStep, Quietly, Configured, EnableDisasmTrace,
     SetTraceTicks, EnableRamWriteTrace, traceVars
<1>3. addresses' = addresses \/ addresses' \in AddressFilters
  BY DEF TracedNext, TracedStep, ThrowingStep, Quietly, Configured, EnableDisasmTrace,
     SetTraceTicks, EnableRamWriteTrace, traceVars
<1>4. \A filter \in TickFilters \union AddressFilters : IsFilter(filter)
  BY TraceAssumption DEF IsFilter
<1>5. IsFilter(ticks') /\ IsFilter(addresses')
  BY <1>2, <1>3, <1>4 DEF TracedIInv
<1>6. IsFilter(ticks)' /\ IsFilter(addresses)'
  BY <1>5 DEF IsFilter
<1> QED
  BY <1>1, <1>6 DEF TracedIInv

\* The filters are always in order, and the machine keeps its invariant.
THEOREM TracedInvariant == TracedSpec => []TracedIInv
<1>1. TracedInit => TracedIInv
  BY TracedInitIInv
<1>2. TracedIInv /\ [TracedNext]_<<vars, traceVars>> => TracedIInv'
  BY TracedNextIInv
<1> QED
  BY <1>1, <1>2, PTL DEF TracedSpec
-----------------------------------------------------------------------------
(* What the disassembly line shows *)

\* The line of an instruction that printing does not cut short.
LEMMA LineShows ==
    ASSUME NEW before, NEW after, NEW i, i.op # SCRR
    PROVE  /\ DisasmLine(before, after, i).word = i
           /\ DisasmLine(before, after, i).values = Operands(before, after, i)
BY DEF DisasmLine, PrintingThrows

LEMMA LoadImmediateExplained ==
    ASSUME NEW before, NEW after, NEW i, i.op \in {LI, LUI},
           after.regs[i.a] = IF i.op = LI THEN i.imm
                             ELSE (before.regs[i.a] % HalfMod) + HalfMod * i.imm
    PROVE  Explains(DisasmLine(before, after, i), before, after)
<1> DEFINE line == DisasmLine(before, after, i)
           v == <<after.regs[i.a]>>
<1>1. /\ i.op \notin {ASPI, ASPR, SCRW, SCRR, RJMP, AJMP, CALL, SXT, BSWAP}
      /\ i.op \notin RRR \union Loads \union Stores \union Conversions \union Branches
      /\ LI # LUI
  BY OpcodeNumbers
<1>2. Operands(before, after, i) = v
  BY <1>1 DEF Operands
<1>3. line.word = i /\ line.values = v
  BY <1>1, <1>2, LineShows
<1> HIDE DEF line
<1>4. CASE i.op = LI
  <2>1. i.op # LUI
    BY <1>1, <1>4
  <2>2. Explains(line, before, after) <=> v[1] = i.imm
    BY <1>1, <1>3, <1>4, <2>1 DEF Explains
  <2> QED
    BY <1>4, <2>2 DEF line
<1>5. CASE i.op = LUI
  <2>1. i.op # LI
    BY <1>1, <1>5
  <2>2. Explains(line, before, after) <=>
          v[1] = (before.regs[i.a] % HalfMod) + HalfMod * i.imm
    BY <1>1, <1>3, <1>5, <2>1 DEF Explains
  <2> QED
    BY <1>5, <2>1, <2>2 DEF line
<1> QED
  BY <1>4, <1>5

LEMMA CalculateExplained ==
    ASSUME NEW before, NEW after, NEW i, i.op \in RRR,
           after.regs[i.a] = Alu(i.op, before.regs[i.b], before.regs[i.c])
    PROVE  Explains(DisasmLine(before, after, i), before, after)
<1> DEFINE line == DisasmLine(before, after, i)
           v == <<after.regs[i.a], before.regs[i.b], before.regs[i.c]>>
<1>1. /\ i.op \notin {LI, LUI, ASPI, ASPR, SCRW, SCRR, RJMP, AJMP, CALL, SXT, BSWAP}
      /\ i.op \notin Loads \union Stores \union Conversions \union Branches
  BY OpcodeNumbers
<1>2. Operands(before, after, i) = v
  BY <1>1 DEF Operands
<1>3. line.word = i /\ line.values = v
  BY <1>1, <1>2, LineShows
<1> HIDE DEF line
<1>4. Explains(line, before, after) <=> v[1] = Alu(i.op, v[2], v[3])
  BY <1>1, <1>3 DEF Explains
<1> QED
  BY <1>4 DEF line

LEMMA LoadExplained ==
    ASSUME NEW before, NEW after, NEW i, i.op \in Loads,
           after.regs[i.a] =
             FromBytes(BytesAt(before.bytes, EffectiveAddress(before, i), AccessSize(i.op)))
    PROVE  Explains(DisasmLine(before, after, i), before, after)
<1> DEFINE line == DisasmLine(before, after, i)
           v == <<after.regs[i.a], before.regs[i.b]>>
<1>1. /\ i.op \notin {LI, LUI, ASPI, ASPR, SCRW, SCRR, RJMP, AJMP, CALL, SXT, BSWAP}
      /\ i.op \notin RRR \union Stores \union Conversions \union Branches
  BY OpcodeNumbers
<1>2. Operands(before, after, i) = v
  BY <1>1 DEF Operands
<1>3. line.word = i /\ line.values = v
  BY <1>1, <1>2, LineShows
<1> HIDE DEF line
<1>4. Explains(line, before, after) <=>
        v[1] = FromBytes(BytesAt(before.bytes, (v[2] + i.c) % WordMod, AccessSize(i.op)))
  BY <1>1, <1>3 DEF Explains
<1> QED
  BY <1>4 DEF line, EffectiveAddress

LEMMA StoreExplained ==
    ASSUME NEW before, NEW after, NEW i, i.op \in Stores,
           BytesAt(after.bytes, EffectiveAddress(before, i), AccessSize(i.op)) =
             ToBytes(before.regs[i.a], AccessSize(i.op))
    PROVE  Explains(DisasmLine(before, after, i), before, after)
<1> DEFINE line == DisasmLine(before, after, i)
           v == <<before.regs[i.a], before.regs[i.b]>>
<1>1. /\ i.op \notin {LI, LUI, ASPI, ASPR, SCRW, SCRR, RJMP, AJMP, CALL, SXT, BSWAP}
      /\ i.op \notin RRR \union Loads \union Conversions \union Branches
  BY OpcodeNumbers
<1>2. Operands(before, after, i) = v
  BY <1>1 DEF Operands
<1>3. line.word = i /\ line.values = v
  BY <1>1, <1>2, LineShows
<1> HIDE DEF line
<1>4. Explains(line, before, after) <=>
        BytesAt(after.bytes, (v[2] + i.c) % WordMod, AccessSize(i.op)) =
          ToBytes(v[1], AccessSize(i.op))
  BY <1>1, <1>3 DEF Explains
<1> QED
  BY <1>4 DEF line, EffectiveAddress

LEMMA ConvertExplained ==
    ASSUME NEW before, NEW after, NEW i, i.op \in Conversions,
           after.regs[i.a] = IF i.op = SXT THEN SignExtend(before.regs[i.b], i.c)
                             ELSE ByteSwap(before.regs[i.b], i.c)
    PROVE  Explains(DisasmLine(before, after, i), before, after)
<1> DEFINE line == DisasmLine(before, after, i)
           v == <<after.regs[i.a], before.regs[i.b]>>
<1>1. /\ i.op \notin {LI, LUI, ASPI, ASPR, SCRW, SCRR, RJMP, AJMP, CALL}
      /\ i.op \notin RRR \union Loads \union Stores \union Branches
      /\ SXT # BSWAP /\ i.op \in {SXT, BSWAP}
  BY OpcodeNumbers
<1>2. Operands(before, after, i) = v
  BY <1>1 DEF Operands
<1>3. line.word = i /\ line.values = v
  BY <1>1, <1>2, LineShows
<1> HIDE DEF line
<1>4. CASE i.op = SXT
  <2>1. i.op # BSWAP
    BY <1>1, <1>4
  <2>2. Explains(line, before, after) <=> v[1] = SignExtend(v[2], i.c)
    BY <1>1, <1>3, <1>4, <2>1 DEF Explains
  <2> QED
    BY <1>4, <2>2 DEF line
<1>5. CASE i.op = BSWAP
  <2>1. i.op # SXT
    BY <1>1, <1>5
  <2>2. Explains(line, before, after) <=> v[1] = ByteSwap(v[2], i.c)
    BY <1>1, <1>3, <1>5, <2>1 DEF Explains
  <2> QED
    BY <1>5, <2>1, <2>2 DEF line
<1> QED
  BY <1>1, <1>4, <1>5
LEMMA WriteStatusExplained ==
    ASSUME NEW before, NEW after, NEW i, i.op = SCRW,
           StatusValue(after, i.a) = before.regs[i.b]
    PROVE  Explains(DisasmLine(before, after, i), before, after)
<1> DEFINE line == DisasmLine(before, after, i)
           v == <<before.regs[i.b]>>
<1>1. /\ i.op \notin {LI, LUI, ASPI, ASPR, SCRR, RJMP, AJMP, CALL, SXT, BSWAP}
      /\ i.op \notin RRR \union Loads \union Stores \union Conversions \union Branches
  BY OpcodeNumbers
<1>2. Operands(before, after, i) = v
  BY <1>1 DEF Operands
<1>3. line.word = i /\ line.values = v
  BY <1>1, <1>2, LineShows
<1> HIDE DEF line
<1>4. Explains(line, before, after) <=> StatusValue(after, i.a) = v[1]
  BY <1>1, <1>3 DEF Explains
<1> QED
  BY <1>4 DEF line

\* The line may be cut short if it shows IP.
LEMMA ReadStatusExplained ==
    ASSUME NEW before, NEW after, NEW i, i.op = SCRR,
           i.b # Ip => after.regs[i.a] = StatusValue(after, i.b)
    PROVE  Explains(DisasmLine(before, after, i), before, after)
<1> DEFINE line == DisasmLine(before, after, i)
           v == <<after.regs[i.a], StatusValue(after, i.b)>>
<1>1. /\ i.op \notin {LI, LUI, ASPI, ASPR, SCRW, RJMP, AJMP, CALL, SXT, BSWAP}
      /\ i.op \notin RRR \union Loads \union Stores \union Conversions \union Branches
  BY OpcodeNumbers
<1>2. Operands(before, after, i) = v
  BY <1>1 DEF Operands
<1>3. line.word = i /\ (i.b # Ip => line.values = v)
  BY <1>2 DEF DisasmLine, PrintingThrows
<1> HIDE DEF line
<1>4. Explains(line, before, after) <=> (i.b # Ip => line.values[1] = line.values[2])
  BY <1>1, <1>3 DEF Explains
<1> QED
  BY <1>3, <1>4 DEF line

LEMMA WrapsOnce ==
    ASSUME NEW n \in Nat, n > 0, NEW y \in 0 .. 2 * n - 1
    PROVE  (y - n) % n = y % n
<1>1. CASE y < n
  <2>1. y % n = y
    BY <1>1
  <2>2. (y - n) % n = y
    BY <1>1
  <2> QED
    BY <2>1, <2>2
<1>2. CASE y >= n
  <2>1. y % n = y - n
    BY <1>2
  <2>2. (y - n) % n = y - n
    BY <1>2
  <2> QED
    BY <2>1, <2>2
<1> QED
  BY <1>1, <1>2

\* The displacement of ASPR, read as a number or as a word, leads to the same address.
LEMMA SignedMoves ==
    ASSUME NEW x \in Word, NEW w \in Word
    PROVE  Unsigned(x + Signed(w)) = (x + w) % WordMod
<1>1. x \in Nat /\ w \in Nat /\ w < WordMod /\ WordMod \in Nat /\ WordMod > 0
  BY Sizes DEF Word
<1>2. w % WordMod = w
  BY <1>1
<1>3. Signed(w) = w \/ Signed(w) = w - WordMod
  BY <1>2 DEF Signed, SignedPart
<1>4. (x + w - WordMod) % WordMod = (x + w) % WordMod
  <2>1. x + w \in 0 .. 2 * WordMod - 1
    BY <1>1 DEF Word
  <2> QED
    BY <1>1, <2>1, WrapsOnce
<1>5. x + (w - WordMod) = x + w - WordMod
  BY <1>1
<1> QED
  BY <1>3, <1>4, <1>5 DEF Unsigned

LEMMA AdvanceStackExplained ==
    ASSUME NEW before, NEW after, NEW i, i.op \in {ASPI, ASPR},
           before.spTop \in Word, i.op = ASPR => before.regs[i.b] \in Word,
           after.spTop = Unsigned(before.spTop + StackDelta(before, i)),
           after.regs[i.a] = after.spTop
    PROVE  Explains(DisasmLine(before, after, i), before, after)
<1> DEFINE line == DisasmLine(before, after, i)
<1>1. /\ i.op \notin {LI, LUI, SCRW, SCRR, RJMP, AJMP, CALL, SXT, BSWAP}
      /\ i.op \notin RRR \union Loads \union Stores \union Conversions \union Branches
      /\ ASPI # ASPR
  BY OpcodeNumbers
<1>2. CASE i.op = ASPI
  <2> DEFINE v == <<after.regs[i.a]>>
  <2>1. i.op # ASPR
    BY <1>1, <1>2
  <2>2. Operands(before, after, i) = v
    BY <1>1, <1>2, <2>1 DEF Operands
  <2>3. line.word = i /\ line.values = v
    BY <1>1, <2>2, LineShows
  <2> HIDE DEF line
  <2>4. Explains(line, before, after) <=>
          /\ v[1] = after.spTop
          /\ v[1] = (before.spTop + SignedPart(i.imm, HalfMod)) % WordMod
    BY <1>1, <1>2, <2>1, <2>3 DEF Explains
  <2> QED
    BY <1>2, <2>4 DEF line, StackDelta, Unsigned
<1>3. CASE i.op = ASPR
  <2> DEFINE v == <<after.regs[i.a], before.regs[i.b]>>
  <2>1. i.op # ASPI
    BY <1>1, <1>3
  <2>2. Operands(before, after, i) = v
    BY <1>1, <1>3, <2>1 DEF Operands
  <2>3. line.word = i /\ line.values = v
    BY <1>1, <2>2, LineShows
  <2> HIDE DEF line
  <2>4. Explains(line, before, after) <=>
          v[1] = after.spTop /\ v[1] = (before.spTop + v[2]) % WordMod
    BY <1>1, <1>3, <2>1, <2>3 DEF Explains
  <2>5. after.spTop = (before.spTop + before.regs[i.b]) % WordMod
    BY <1>3, <2>1, SignedMoves DEF StackDelta
  <2> QED
    BY <2>4, <2>5 DEF line
<1> QED
  BY <1>2, <1>3

LEMMA RelativeJumpExplained ==
    ASSUME NEW before, NEW after, NEW i, i.op = RJMP,
           after.pc = before.pc + InstructionSize * SignedPart(i.imm, HalfMod)
    PROVE  Explains(DisasmLine(before, after, i), before, after)
<1> DEFINE line == DisasmLine(before, after, i)
<1>1. /\ i.op \notin {LI, LUI, ASPI, ASPR, SCRW, SCRR, AJMP, CALL, SXT, BSWAP}
      /\ i.op \notin RRR \union Loads \union Stores \union Conversions \union Branches
  BY OpcodeNumbers
<1>2. line.word = i
  BY <1>1, LineShows
<1> HIDE DEF line
<1>3. Explains(line, before, after) <=>
        after.pc = before.pc + InstructionSize * SignedPart(i.imm, HalfMod)
  BY <1>1, <1>2 DEF Explains
<1> QED
  BY <1>3 DEF line

LEMMA BranchExplained ==
    ASSUME NEW before, NEW after, NEW i, i.op \in Branches,
           after.pc = before.pc + InstructionSize *
             (IF (before.regs[i.a] = 0) = (i.op = BRZ) THEN SignedPart(i.imm, HalfMod) ELSE 1)
    PROVE  Explains(DisasmLine(before, after, i), before, after)
<1> DEFINE line == DisasmLine(before, after, i)
           v == <<before.regs[i.a]>>
<1>1. /\ i.op \notin {LI, LUI, ASPI, ASPR, SCRW, SCRR, RJMP, AJMP, CALL, SXT, BSWAP}
      /\ i.op \notin RRR \union Loads \union Stores \union Conversions
  BY OpcodeNumbers
<1>2. Operands(before, after, i) = v
  BY <1>1 DEF Operands
<1>3. line.word = i /\ line.values = v
  BY <1>1, <1>2, LineShows
<1> HIDE DEF line
<1>4. Explains(line, before, after) <=>
        after.pc = before.pc + InstructionSize *
          (IF (v[1] = 0) = (i.op = BRZ) THEN SignedPart(i.imm, HalfMod) ELSE 1)
  BY <1>1, <1>3 DEF Explains
<1> QED
  BY <1>4 DEF line

LEMMA AbsoluteJumpExplained ==
    ASSUME NEW before, NEW after, NEW i, i.op \in {AJMP, CALL},
           after.pc = before.regs[i.a]
    PROVE  Explains(DisasmLine(before, after, i), before, after)
<1> DEFINE line == DisasmLine(before, after, i)
           v == <<before.regs[i.a]>>
<1>1. /\ i.op \notin {LI, LUI, ASPI, ASPR, SCRW, SCRR, RJMP, SXT, BSWAP}
      /\ i.op \notin RRR \union Loads \union Stores \union Conversions \union Branches
  BY OpcodeNumbers
<1>2. Operands(before, after, i) = v
  BY <1>1 DEF Operands
<1>3. line.word = i /\ line.values = v
  BY <1>1, <1>2, LineShows
<1> HIDE DEF line
<1>4. Explains(line, before, after) <=> after.pc = v[1]
  BY <1>1, <1>3 DEF Explains
<1> QED
  BY <1>4 DEF line
-----------------------------------------------------------------------------
(* Steps that do not throw *)

\* The line of such a step explains it.
StepShows(i) == Explains(DisasmLine(machine, machine', i), machine, machine')

LEMMA LoadImmediateStep ==
    ASSUME IInv, ExecuteLoadImmediate, Ok(machine')
    PROVE  StepShows(Instruction)
<1> DEFINE m == Fetched
           i == Instruction
           r == LoadImmediate(m, i)
<1>1. Ok(m) /\ i.op \in {LI, LUI} /\ machine' = Retire(r)
  BY DEF ExecuteLoadImmediate, Executing
<1>2. Ready(m) /\ Fields(i) /\ m.regs = machine.regs /\ OnlyRegisters(machine, m)
  BY <1>1, FetchedShows
<1> HIDE DEF m, i
<1>3. Outcome(m, r)
  BY <1>2, LoadImmediateOutcome
<1>4. Ok(r) /\ machine'.regs = r.regs /\ OnlyRegisters(r, machine')
  BY <1>1, <1>3, ExecutedShows
<1>5. /\ r.regs[i.a] = IF i.op = LI THEN i.imm ELSE (m.regs[i.a] % HalfMod) + HalfMod * i.imm
      /\ OnlyRegisters(m, r)
  BY <1>2, <1>4, LoadImmediateShows
<1> HIDE DEF r
<1>6. Explains(DisasmLine(machine, machine', i), machine, machine')
  BY <1>1, <1>2, <1>4, <1>5, LoadImmediateExplained
<1> QED
  BY <1>6 DEF StepShows, i

LEMMA CalculateStep ==
    ASSUME IInv, ExecuteCalculate, Ok(machine')
    PROVE  StepShows(Instruction)
<1> DEFINE m == Fetched
           i == Instruction
           r == Calculate(m, i)
<1>1. Ok(m) /\ i.op \in RRR /\ machine' = Retire(r)
  BY DEF ExecuteCalculate, Executing
<1>2. Ready(m) /\ Fields(i) /\ m.regs = machine.regs /\ OnlyRegisters(machine, m)
  BY <1>1, FetchedShows
<1> HIDE DEF m, i
<1>3. Outcome(m, r)
  BY <1>1, <1>2, CalculateOutcome
<1>4. Ok(r) /\ machine'.regs = r.regs /\ OnlyRegisters(r, machine')
  BY <1>1, <1>3, ExecutedShows
<1>5. r.regs[i.a] = Alu(i.op, m.regs[i.b], m.regs[i.c]) /\ OnlyRegisters(m, r)
  BY <1>1, <1>2, <1>4, CalculateShows
<1> HIDE DEF r
<1>6. Explains(DisasmLine(machine, machine', i), machine, machine')
  BY <1>1, <1>2, <1>4, <1>5, CalculateExplained
<1> QED
  BY <1>6 DEF StepShows, i
LEMMA ConvertStep ==
    ASSUME IInv, ExecuteConvert, Ok(machine')
    PROVE  StepShows(Instruction)
<1> DEFINE m == Fetched
           i == Instruction
           r == Convert(m, i)
<1>1. Ok(m) /\ i.op \in Conversions /\ machine' = Retire(r)
  BY DEF ExecuteConvert, Executing
<1>2. /\ Ready(m) /\ Fields(i) /\ m.regs = machine.regs /\ m.pc = machine.pc
      /\ OnlyRegisters(machine, m)
  BY <1>1, FetchedShows
<1> HIDE DEF m, i
<1>3. Outcome(m, r)
  BY <1>1, <1>2, ConvertOutcome
<1>4. /\ Ok(r) /\ machine'.regs = r.regs /\ machine'.pc = r.pc
      /\ OnlyRegisters(r, machine')
  BY <1>1, <1>3, ExecutedShows
<1>5. /\ r.regs[i.a] = IF i.op = SXT THEN SignExtend(m.regs[i.b], i.c)
                     ELSE ByteSwap(m.regs[i.b], i.c)
      /\ OnlyRegisters(m, r)
  BY <1>1, <1>2, <1>4, ConvertShows
<1> HIDE DEF r
<1>6. Explains(DisasmLine(machine, machine', i), machine, machine')
  BY <1>1, <1>2, <1>4, <1>5, ConvertExplained
<1> QED
  BY <1>6 DEF StepShows, i

LEMMA LoadStep ==
    ASSUME IInv, ExecuteLoad, Ok(machine')
    PROVE  StepShows(Instruction)
<1> DEFINE m == Fetched
           i == Instruction
           r == LoadMemory(m, i)
<1>1. Ok(m) /\ i.op \in Loads /\ machine' = Retire(r)
  BY DEF ExecuteLoad, Executing
<1>2. /\ Ready(m) /\ Fields(i) /\ m.regs = machine.regs /\ m.pc = machine.pc
      /\ OnlyRegisters(machine, m)
  BY <1>1, FetchedShows
<1>3. EffectiveAddress(m, i) = EffectiveAddress(machine, i) /\ m.bytes = machine.bytes
  BY <1>1, <1>2, FetchedOperands DEF OnlyRegisters
<1> HIDE DEF m, i
<1>4. Outcome(m, r)
  BY <1>1, <1>2, LoadMemoryOutcome
<1>5. /\ Ok(r) /\ machine'.regs = r.regs /\ machine'.pc = r.pc
      /\ OnlyRegisters(r, machine')
  BY <1>1, <1>4, ExecutedShows
<1>6. /\ r.regs[i.a] = FromBytes(BytesAt(m.bytes, EffectiveAddress(m, i), AccessSize(i.op)))
      /\ OnlyRegisters(m, r)
  BY <1>1, <1>2, <1>5, LoadShows
<1> HIDE DEF r
<1>7. Explains(DisasmLine(machine, machine', i), machine, machine')
  BY <1>1, <1>2, <1>3, <1>5, <1>6, LoadExplained
<1> QED
  BY <1>7 DEF StepShows, i

LEMMA RelativeJumpStep ==
    ASSUME IInv, ExecuteRelativeJump, Ok(machine')
    PROVE  StepShows(Instruction)
<1> DEFINE m == Fetched
           i == Instruction
           r == RelativeJump(m, i)
<1>1. Ok(m) /\ i.op = RJMP /\ machine' = Retire(r)
  BY DEF ExecuteRelativeJump, Executing
<1>2. /\ Ready(m) /\ Fields(i) /\ m.regs = machine.regs /\ m.pc = machine.pc
      /\ OnlyRegisters(machine, m)
  BY <1>1, FetchedShows
<1> HIDE DEF m, i
<1>3. Outcome(m, r)
  BY <1>1, <1>2, RelativeJumpOutcome
<1>4. /\ Ok(r) /\ machine'.regs = r.regs /\ machine'.pc = r.pc
      /\ OnlyRegisters(r, machine')
  BY <1>1, <1>3, ExecutedShows
<1>5. /\ r.pc = m.pc + InstructionSize * SignedPart(i.imm, HalfMod)
      /\ OnlyRegisters(m, r)
  BY <1>1, <1>2, <1>4, RelativeJumpShows
<1> HIDE DEF r
<1>6. Explains(DisasmLine(machine, machine', i), machine, machine')
  BY <1>1, <1>2, <1>4, <1>5, RelativeJumpExplained
<1> QED
  BY <1>6 DEF StepShows, i

LEMMA BranchStep ==
    ASSUME IInv, ExecuteBranch, Ok(machine')
    PROVE  StepShows(Instruction)
<1> DEFINE m == Fetched
           i == Instruction
           r == Branch(m, i)
<1>1. Ok(m) /\ i.op \in Branches /\ machine' = Retire(r)
  BY DEF ExecuteBranch, Executing
<1>2. /\ Ready(m) /\ Fields(i) /\ m.regs = machine.regs /\ m.pc = machine.pc
      /\ OnlyRegisters(machine, m)
  BY <1>1, FetchedShows
<1> HIDE DEF m, i
<1>3. Outcome(m, r)
  BY <1>1, <1>2, BranchOutcome
<1>4. /\ Ok(r) /\ machine'.regs = r.regs /\ machine'.pc = r.pc
      /\ OnlyRegisters(r, machine')
  BY <1>1, <1>3, ExecutedShows
<1>5. /\ r.pc = m.pc + InstructionSize *
           (IF (m.regs[i.a] = 0) = (i.op = BRZ) THEN SignedPart(i.imm, HalfMod) ELSE 1)
      /\ OnlyRegisters(m, r)
  BY <1>1, <1>2, <1>4, BranchShows
<1> HIDE DEF r
<1>6. Explains(DisasmLine(machine, machine', i), machine, machine')
  BY <1>1, <1>2, <1>4, <1>5, BranchExplained
<1> QED
  BY <1>6 DEF StepShows, i

LEMMA AbsoluteJumpStep ==
    ASSUME IInv, ExecuteAbsoluteJump, Ok(machine')
    PROVE  StepShows(Instruction)
<1> DEFINE m == Fetched
           i == Instruction
           r == AbsoluteJump(m, i)
<1>1. Ok(m) /\ i.op = AJMP /\ machine' = Retire(r)
  BY DEF ExecuteAbsoluteJump, Executing
<1>2. /\ Ready(m) /\ Fields(i) /\ m.regs = machine.regs /\ m.pc = machine.pc
      /\ OnlyRegisters(machine, m)
  BY <1>1, FetchedShows
<1> HIDE DEF m, i
<1>3. Outcome(m, r)
  BY <1>1, <1>2, AbsoluteJumpOutcome
<1>4. /\ Ok(r) /\ machine'.regs = r.regs /\ machine'.pc = r.pc
      /\ OnlyRegisters(r, machine')
  BY <1>1, <1>3, ExecutedShows
<1>5. /\ r.pc = m.regs[i.a]
      /\ OnlyRegisters(m, r)
  BY <1>1, <1>2, <1>4, AbsoluteJumpShows
<1> HIDE DEF r
<1>6. Explains(DisasmLine(machine, machine', i), machine, machine')
  BY <1>1, <1>2, <1>4, <1>5, AbsoluteJumpExplained
<1> QED
  BY <1>6 DEF StepShows, i

LEMMA CallStep ==
    ASSUME IInv, ExecuteCall, Ok(machine')
    PROVE  StepShows(Instruction)
<1> DEFINE m == Fetched
           i == Instruction
           r == CallSubroutine(m, i)
<1>1. Ok(m) /\ i.op = CALL /\ machine' = Retire(r)
  BY DEF ExecuteCall, Executing
<1>2. /\ Ready(m) /\ Fields(i) /\ m.regs = machine.regs /\ m.pc = machine.pc
      /\ OnlyRegisters(machine, m)
  BY <1>1, FetchedShows
<1> HIDE DEF m, i
<1>3. Outcome(m, r)
  BY <1>1, <1>2, CallSubroutineOutcome
<1>4. /\ Ok(r) /\ machine'.regs = r.regs /\ machine'.pc = r.pc
      /\ OnlyRegisters(r, machine')
  BY <1>1, <1>3, ExecutedShows
<1>5. /\ r.pc = m.regs[i.a]
      /\ OnlyRegisters(m, r)
  BY <1>1, <1>2, <1>4, CallShows
<1> HIDE DEF r
<1>6. Explains(DisasmLine(machine, machine', i), machine, machine')
  BY <1>1, <1>2, <1>4, <1>5, AbsoluteJumpExplained
<1> QED
  BY <1>6 DEF StepShows, i

LEMMA ReadStatusStep ==
    ASSUME IInv, ExecuteReadStatus, Ok(machine')
    PROVE  StepShows(Instruction)
<1> DEFINE m == Fetched
           i == Instruction
           r == ReadStatus(m, i)
<1>1. Ok(m) /\ i.op = SCRR /\ machine' = Retire(r)
  BY DEF ExecuteReadStatus, Executing
<1>2. /\ Ready(m) /\ Fields(i) /\ m.regs = machine.regs /\ m.pc = machine.pc
      /\ OnlyRegisters(machine, m)
  BY <1>1, FetchedShows
<1> HIDE DEF m, i
<1>3. Outcome(m, r)
  BY <1>1, <1>2, ReadStatusOutcome
<1>4. /\ Ok(r) /\ machine'.regs = r.regs /\ machine'.pc = r.pc
      /\ OnlyRegisters(r, machine')
  BY <1>1, <1>3, ExecutedShows
<1>5. /\ i.b # Ip => r.regs[i.a] = StatusValue(r, i.b)
      /\ OnlyRegisters(m, r)
  BY <1>1, <1>2, <1>4, ReadStatusShows
<1> HIDE DEF r
<1>6. Explains(DisasmLine(machine, machine', i), machine, machine')
  <2>1. StatusValue(machine', i.b) = StatusValue(r, i.b)
    BY <1>4 DEF StatusValue, OnlyRegisters
  <2> QED
    BY <1>1, <1>4, <1>5, <2>1, ReadStatusExplained
<1> QED
  BY <1>6 DEF StepShows, i

LEMMA WriteStatusStep ==
    ASSUME IInv, ExecuteWriteStatus, Ok(machine')
    PROVE  StepShows(Instruction)
<1> DEFINE m == Fetched
           i == Instruction
           r == WriteStatus(m, i)
<1>1. Ok(m) /\ i.op = SCRW /\ machine' = Retire(r)
  BY DEF ExecuteWriteStatus, Executing
<1>2. /\ Ready(m) /\ Fields(i) /\ m.regs = machine.regs /\ m.bytes = machine.bytes
  BY <1>1, FetchedShows DEF OnlyRegisters
<1> HIDE DEF m, i
<1>3. Outcome(m, r)
  BY <1>2, WriteStatusOutcome
<1>4. Ok(r) /\ machine'.pc = r.pc /\ OnlyRegisters(r, machine')
  BY <1>1, <1>3, ExecutedShows
<1>5. StatusValue(r, i.a) = m.regs[i.b] /\ r.bytes = m.bytes
  BY <1>2, <1>4, WriteStatusShows
<1> HIDE DEF r
<1>6. Explains(DisasmLine(machine, machine', i), machine, machine')
  <2>1. StatusValue(machine', i.a) = StatusValue(r, i.a)
    BY <1>4 DEF StatusValue, OnlyRegisters
  <2> QED
    BY <1>1, <1>2, <1>5, <2>1, WriteStatusExplained
<1> QED
  BY <1>6 DEF StepShows, i

LEMMA StoreStep ==
    ASSUME IInv, ExecuteStore, Ok(machine')
    PROVE  StepShows(Instruction)
<1> DEFINE m == Fetched
           i == Instruction
           r == StoreMemory(m, i)
           a == EffectiveAddress(machine, i)
           n == AccessSize(i.op)
           data == ToBytes(machine.regs[i.a], n)
<1>1. Ok(m) /\ i.op \in Stores /\ machine' = Retire(r)
  BY DEF ExecuteStore, Executing
<1>2. /\ Ready(m) /\ Fields(i) /\ m.regs = machine.regs /\ m.bytes = machine.bytes
      /\ IsContents(machine.bytes)
  BY <1>1, FetchedShows DEF OnlyRegisters
<1>3. EffectiveAddress(m, i) = a
  BY <1>1, FetchedOperands
<1> HIDE DEF m, i
<1>4. Outcome(m, r)
  BY <1>1, <1>2, StoreMemoryOutcome
<1>5. Ok(r) /\ OnlyRegisters(r, machine')
  BY <1>1, <1>4, ExecutedShows
<1>6. /\ a \in Nat /\ n \in {1, 2, 4}
      /\ data \in Seq(Byte) /\ Len(data) = n
      /\ r.bytes = Put(machine.bytes, a, data)
  BY <1>1, <1>2, <1>3, <1>5, StoreShows
<1> HIDE DEF r
<1>7. machine'.bytes = Put(machine.bytes, a, data)
  BY <1>5, <1>6 DEF OnlyRegisters
<1>8. Explains(DisasmLine(machine, machine', i), machine, machine')
  <2> HIDE DEF a, data
  <2>1. BytesAt(Put(machine.bytes, a, data), a, Len(data)) = data
    BY <1>2, <1>6, PutIsRead
  <2>2. BytesAt(machine'.bytes, a, n) = data
    BY <1>6, <1>7, <2>1
  <2> QED
    BY <1>1, <2>2, StoreExplained DEF a, data
<1> QED
  BY <1>8 DEF StepShows, i

LEMMA AdvanceStackStep ==
    ASSUME IInv, ExecuteAdvanceStackPointer, Ok(machine')
    PROVE  StepShows(Instruction)
<1> DEFINE m == Fetched
           i == Instruction
           r == AdvanceStackPointer(m, i)
           delta == StackDelta(machine, i)
<1>1. Ok(m) /\ i.op \in {ASPI, ASPR} /\ machine' = Retire(r)
  BY DEF ExecuteAdvanceStackPointer, Executing
<1>2. /\ Ready(m) /\ Fields(i) /\ m.regs = machine.regs /\ OnlyRegisters(machine, m)
      /\ machine.spTop \in Word /\ machine.spTop \in Nat
      /\ machine.regs \in [Register -> Word]
  BY <1>1, FetchedShows
<1>3. StackDelta(m, i) = delta
  BY <1>1, FetchedOperands
<1> HIDE DEF m, i
<1>4. Outcome(m, r)
  BY <1>1, <1>2, AdvanceStackPointerOutcome
<1>5. Ok(r) /\ machine'.regs = r.regs /\ OnlyRegisters(r, machine')
  BY <1>1, <1>4, ExecutedShows
<1>6. /\ i.op = ASPI \/ i.b \in Register
      /\ delta \in Int
      /\ r.spTop = Unsigned(m.spTop + delta)
      /\ r.regs[i.a] = r.spTop
  BY <1>1, <1>2, <1>3, <1>5, AdvanceStackShows
<1> HIDE DEF r
<1>7. /\ machine'.spTop = Unsigned(machine.spTop + delta)
      /\ machine'.regs[i.a] = machine'.spTop
      /\ i.op = ASPR => machine.regs[i.b] \in Word
  <2>1. ASPI # ASPR
    BY OpcodeNumbers
  <2> QED
    BY <1>2, <1>5, <1>6, <2>1 DEF OnlyRegisters
<1>8. Explains(DisasmLine(machine, machine', i), machine, machine')
  BY <1>1, <1>2, <1>7, AdvanceStackExplained
<1> QED
  BY <1>8 DEF StepShows, i

\* Whatever instruction is executed.
LEMMA StepsShow ==
    ASSUME IInv, Step, Ok(machine')
    PROVE  StepShows(Instruction)
<1>1. ~FailToFetch
  BY DEF FailToFetch
<1>2. ~ExecuteInvalidOpcode
  <2>1. SUFFICES ASSUME ExecuteInvalidOpcode
                 PROVE  FALSE
    OBVIOUS
  <2> DEFINE r == InvalidOpcode(Fetched, Instruction)
  <2>2. Ok(Fetched) /\ Instruction.op \notin Opcodes /\ machine' = Retire(r)
    BY <2>1 DEF ExecuteInvalidOpcode, Executing
  <2>3. Ready(Fetched)
    BY <2>2, FetchedShows
  <2>4. "invalid opcode" \in Errors \ {NoError}
    BY ErrorsAreErrors
  <2>5. ~Ok(r)
    BY <2>2, <2>3, <2>4, CheckFails DEF InvalidOpcode, Require, Ready
  <2> HIDE DEF r
  <2> QED
    BY <2>2, <2>5 DEF Retire
<1> QED
  BY <1>1, <1>2, LoadImmediateStep, CalculateStep, LoadStep, StoreStep, ConvertStep,
     RelativeJumpStep, BranchStep, AbsoluteJumpStep, CallStep, WriteStatusStep,
     ReadStatusStep, AdvanceStackStep DEF Step
-----------------------------------------------------------------------------
(* The order of the RAM-write lines *)

\* How many elements of a set of numbers are below c, one of them.
LEMMA Ranks ==
    ASSUME NEW S \in SUBSET Nat, IsFiniteSet(S)
    PROVE  /\ \A c \in S : Cardinality({d \in S : d < c}) \in 0 .. Cardinality(S) - 1
           /\ \A b, c \in S : b < c =>
                Cardinality({d \in S : d < b}) < Cardinality({d \in S : d < c})
<1> DEFINE below(c) == {d \in S : d < c}
<1>1. ASSUME NEW c \in S
      PROVE  IsFiniteSet(below(c)) /\ Cardinality(below(c)) \in Nat
  <2>1. below(c) \in SUBSET S
    OBVIOUS
  <2> HIDE DEF below
  <2>2. IsFiniteSet(below(c))
    BY <2>1, FS_Subset
  <2> QED
    BY <2>2, FS_CardinalityType
<1>2. Cardinality(S) \in Nat
  BY FS_CardinalityType
<1>3. ASSUME NEW c \in S
      PROVE  Cardinality(below(c)) \in 0 .. Cardinality(S) - 1
  <2>1. IsFiniteSet(S \ {c}) /\ Cardinality(S \ {c}) = Cardinality(S) - 1
    BY FS_RemoveElement
  <2>2. below(c) \in SUBSET (S \ {c})
    OBVIOUS
  <2> HIDE DEF below
  <2>3. Cardinality(below(c)) <= Cardinality(S \ {c})
    BY <2>1, <2>2, FS_Subset
  <2> QED
    BY <1>1, <1>2, <2>1, <2>3
<1>4. ASSUME NEW b \in S, NEW c \in S, b < c
      PROVE  Cardinality(below(b)) < Cardinality(below(c))
  <2>1. b \in below(c) /\ below(b) \in SUBSET (below(c) \ {b})
    <3>1. ASSUME NEW d \in S, d < b
          PROVE  d < c /\ d # b
      BY <1>4, <3>1
    <3> QED
      BY <1>4, <3>1
  <2> HIDE DEF below
  <2>2. /\ IsFiniteSet(below(c) \ {b})
        /\ Cardinality(below(c) \ {b}) = Cardinality(below(c)) - 1
    BY <1>1, <2>1, FS_RemoveElement
  <2>3. Cardinality(below(b)) <= Cardinality(below(c) \ {b})
    BY <2>1, <2>2, FS_Subset
  <2> QED
    BY <1>1, <2>2, <2>3
<1> QED
  BY <1>3, <1>4

\* Ascending lists every element of the set, in order.
LEMMA AscendingLists ==
    ASSUME NEW S \in SUBSET Nat, IsFiniteSet(S)
    PROVE  /\ Cardinality(S) \in Nat
           /\ DOMAIN Ascending(S) = 1 .. Cardinality(S)
           /\ \A k \in 1 .. Cardinality(S) : Ascending(S)[k] \in S
           /\ \A j, k \in 1 .. Cardinality(S) : j < k => Ascending(S)[j] < Ascending(S)[k]
           /\ \A c \in S : \E k \in 1 .. Cardinality(S) : Ascending(S)[k] = c
<1> DEFINE n == Cardinality(S)
           rank(c) == Cardinality({d \in S : d < c})
           f == [c \in S |-> rank(c) + 1]
           order == Ascending(S)
<1>1. n \in Nat
  BY FS_CardinalityType
<1>2. \A c \in S : rank(c) \in 0 .. n - 1
  BY Ranks
<1>3. \A b, c \in S : b < c => rank(b) < rank(c)
  BY Ranks
<1>4. order = [k \in 1 .. n |-> CHOOSE c \in S : rank(c) = k - 1]
  BY DEF Ascending
<1> HIDE DEF n, rank, order
<1>5. \A b, c \in S : rank(b) = rank(c) => b = c
  <2> SUFFICES ASSUME NEW b \in S, NEW c \in S, rank(b) = rank(c), b # c
               PROVE  FALSE
    OBVIOUS
  <2>1. b < c \/ c < b
    OBVIOUS
  <2> QED
    BY <1>2, <1>3, <2>1
<1>6. f \in Injection(S, 1 .. n)
  <2>1. f \in [S -> 1 .. n]
    BY <1>1, <1>2
  <2>2. \A b, c \in S : f[b] = f[c] => b = c
    BY <1>2, <1>5
  <2> QED
    BY <2>1, <2>2 DEF Injection, IsInjective
<1>7. f \in Surjection(S, 1 .. n)
  <2>1. IsFiniteSet(1 .. n) /\ Cardinality(1 .. n) = n
    BY <1>1, FS_Interval
  <2> HIDE DEF f
  <2> QED
    BY <1>6, <2>1, FS_Injection DEF n
<1>8. ASSUME NEW k \in 1 .. n
      PROVE  order[k] \in S /\ rank(order[k]) = k - 1
  <2>1. PICK c \in S : f[c] = k
    BY <1>7 DEF Surjection
  <2>2. rank(c) = k - 1
    BY <1>1, <1>2, <2>1
  <2> QED
    BY <1>4, <2>2
<1>9. ASSUME NEW j \in 1 .. n, NEW k \in 1 .. n, j < k
      PROVE  order[j] < order[k]
  <2>1. /\ order[j] \in S /\ order[k] \in S
        /\ rank(order[j]) = j - 1 /\ rank(order[k]) = k - 1
    BY <1>8
  <2>2. ~(order[k] < order[j])
    <3>1. order[k] < order[j] => k - 1 < j - 1
      BY <1>3, <2>1
    <3> QED
      BY <1>1, <1>9, <3>1
  <2>3. order[j] # order[k]
    BY <1>1, <1>9, <2>1
  <2>4. order[j] \in Nat /\ order[k] \in Nat
    BY <2>1
  <2> QED
    BY <2>2, <2>3, <2>4
<1>10. ASSUME NEW c \in S
       PROVE  \E k \in 1 .. n : order[k] = c
  <2>1. rank(c) + 1 \in 1 .. n
    BY <1>1, <1>2
  <2>2. rank(order[rank(c) + 1]) = rank(c) /\ order[rank(c) + 1] \in S
    BY <1>1, <1>2, <1>8, <2>1
  <2> QED
    BY <1>5, <2>1, <2>2
<1> QED
  BY <1>1, <1>4, <1>8, <1>9, <1>10 DEF n, order
-----------------------------------------------------------------------------
(* What the cell-write handler is told *)

\* The cells of a span, and the bytes that lie in none of them.
LEMMA SpanCells ==
    ASSUME NEW a \in Nat, NEW n \in Nat
    PROVE  /\ CellsOf(Span(a, n)) \in SUBSET Nat
           /\ IsFiniteSet(CellsOf(Span(a, n)))
           /\ \A c \in Nat \ CellsOf(Span(a, n)) :
                \A x \in CellSize * c .. CellSize * c + CellSize - 1 : x \notin Span(a, n)
<1> DEFINE cells == CellsOf(Span(a, n))
<1>1. \A x \in Span(a, n) : x \in Nat /\ x <= a + n
  BY DEF Span
<1>2. \A x \in Nat : x \div CellSize \in Nat /\ x \div CellSize <= x
  BY DEF CellSize
<1>3. \A c \in cells : c \in Nat /\ c <= a + n
  <2> TAKE c \in cells
  <2>1. PICK x \in Span(a, n) : c = x \div CellSize
    BY DEF CellsOf
  <2> QED
    BY <1>1, <1>2, <2>1
<1>4. cells \in SUBSET Nat
  BY <1>3
<1>5. IsFiniteSet(cells)
  <2> HIDE DEF cells
  <2>1. a + n \in Nat
    OBVIOUS
  <2> QED
    BY <1>3, <1>4, <2>1, FS_BoundedSetOfNaturals
<1>6. ASSUME NEW c \in Nat \ cells, NEW x \in CellSize * c .. CellSize * c + CellSize - 1
      PROVE  x \notin Span(a, n)
  <2>1. x \div CellSize = c
    BY DEF CellSize
  <2> QED
    BY <2>1 DEF CellsOf
<1> QED
  BY <1>4, <1>5, <1>6

\* A cell whose bytes are the same has the same content.
LEMMA SameCell ==
    ASSUME NEW before, NEW after, NEW c \in Nat,
           \A x \in CellSize * c .. CellSize * c + CellSize - 1 :
               ByteAt(before, x) = ByteAt(after, x)
    PROVE  CellValue(before, c) = CellValue(after, c)
<1>1. \A i \in 1 .. CellSize :
        CellSize * c + i - 1 \in CellSize * c .. CellSize * c + CellSize - 1
  BY DEF CellSize
<1> QED
  BY <1>1 DEF CellValue, BytesAt

\* A store and a clear keep the bytes outside their span.
LEMMA ElsewhereKept ==
    ASSUME NEW store, NEW a, NEW x
    PROVE  /\ \A data : x \notin Span(a, Len(data)) =>
                ByteAt(Put(store, a, data), x) = ByteAt(store, x)
           /\ \A n : x \notin Span(a, n) => ByteAt(Wipe(store, a, n), x) = ByteAt(store, x)
BY DEF Put, Wipe, ByteAt

\* The handler is told of finitely many cells, and the others have not changed.
LEMMA NotifiedCells ==
    ASSUME NEW i, RamShows(i), NEW cells \in Notifications(machine, machine', i)
    PROVE  /\ cells \in SUBSET Nat
           /\ IsFiniteSet(cells)
           /\ \A c \in Nat \ cells : CellValue(machine.bytes, c) = CellValue(machine'.bytes, c)
<1> DEFINE a == EffectiveAddress(machine, i)
           n == AccessSize(i.op)
           data == ToBytes(machine.regs[i.a], n)
           delta == StackDelta(machine, i)
           top == machine.spTop
<1>1. CASE i.op \in Stores
  <2>1. i.op \notin {ASPI, ASPR}
    BY <1>1, OpcodeNumbers
  <2>2. /\ a \in Nat /\ n \in {1, 2, 4} /\ Len(data) = n
        /\ machine'.bytes = Put(machine.bytes, a, data)
    BY <1>1, <2>1 DEF RamShows
  <2>3. cells = CellsOf(Span(a, n))
    BY <1>1, <2>1 DEF Notifications
  <2> HIDE DEF a, n, data
  <2>4. /\ cells \in SUBSET Nat /\ IsFiniteSet(cells)
        /\ \A c \in Nat \ cells :
             \A x \in CellSize * c .. CellSize * c + CellSize - 1 : x \notin Span(a, n)
    BY <2>2, <2>3, SpanCells
  <2>5. ASSUME NEW c \in Nat \ cells
        PROVE  CellValue(machine.bytes, c) = CellValue(machine'.bytes, c)
    <3>1. \A x \in CellSize * c .. CellSize * c + CellSize - 1 :
            ByteAt(machine.bytes, x) = ByteAt(machine'.bytes, x)
      BY <2>2, <2>4, ElsewhereKept
    <3> QED
      BY <3>1, SameCell
  <2> QED
    BY <2>4, <2>5
<1>2. CASE i.op \in {ASPI, ASPR} /\ clearStack /\ delta > 0
  <2>1. i.op \notin Stores
    BY <1>2, OpcodeNumbers
  <2>2. /\ delta \in Int /\ top \in Nat
        /\ machine'.bytes = Wipe(machine.bytes, top, delta)
    BY <1>2, <2>1 DEF RamShows, BytesReleased
  <2> DEFINE cleared == CellsOf(Span(top, delta))
  <2>3. /\ cells \in SUBSET cleared
        /\ {c \in cleared : CellValue(machine.bytes, c) # CellValue(machine'.bytes, c)}
             \subseteq cells
    BY <1>2, <2>1 DEF Notifications
  <2> HIDE DEF delta, top
  <2>4. delta \in Nat
    BY <1>2, <2>2
  <2>5. /\ cleared \in SUBSET Nat /\ IsFiniteSet(cleared)
        /\ \A c \in Nat \ cleared :
             \A x \in CellSize * c .. CellSize * c + CellSize - 1 : x \notin Span(top, delta)
    BY <2>2, <2>4, SpanCells
  <2> HIDE DEF cleared
  <2>6. IsFiniteSet(cells)
    BY <2>3, <2>5, FS_Subset
  <2>7. ASSUME NEW c \in Nat \ cells
        PROVE  CellValue(machine.bytes, c) = CellValue(machine'.bytes, c)
    <3>1. CASE c \in cleared
      BY <2>3, <3>1
    <3>2. CASE c \notin cleared
      <4>1. \A x \in CellSize * c .. CellSize * c + CellSize - 1 :
              ByteAt(machine.bytes, x) = ByteAt(machine'.bytes, x)
        BY <2>2, <2>5, <3>2, ElsewhereKept
      <4> QED
        BY <4>1, SameCell
    <3> QED
      BY <3>1, <3>2
  <2> QED
    BY <2>3, <2>5, <2>6, <2>7
<1>3. CASE i.op \notin Stores /\ ~(i.op \in {ASPI, ASPR} /\ clearStack /\ delta > 0)
  <2>1. machine'.bytes = machine.bytes
    BY <1>3 DEF RamShows, BytesReleased
  <2>2. cells = {}
    BY <1>3 DEF Notifications
  <2> QED
    BY <2>1, <2>2, FS_EmptySet
<1> QED
  BY <1>1, <1>2, <1>3
-----------------------------------------------------------------------------
(* What a step prints *)

\* After d lines of disassembly come n of RAM writes, of the cells in order.
LinesOfStep(i, d, n, order) ==
    /\ d = IF disasm /\ Filter!Contains(ticks, machine.tick) THEN 1 ELSE 0
    /\ n \in Nat /\ (n > 0 => ramWrites)
    /\ DOMAIN output' = 1 .. d + n /\ (output' # <<>> => d + n > 0)
    /\ d = 1 => output'[1] = DisasmLine(machine, machine', i)
    /\ \A k \in 1 .. n : output'[d + k] = RamLine(machine, machine', order[k])

\* The cells in order are those of the handler's that the filters let pass.
OrderOfCells(cells, n, order) ==
    /\ \A k \in 1 .. n : order[k] \in cells /\ order[k] \in Nat /\ Collects(order[k], machine.tick)
    /\ \A j, k \in 1 .. n : j < k => order[j] < order[k]
    /\ ramWrites =>
         \A c \in cells : Collects(c, machine.tick) => \E k \in 1 .. n : order[k] = c

\* Two sequences after each other.
LEMMA Concatenated ==
    ASSUME NEW S, NEW s \in Seq(S), NEW t \in Seq(S)
    PROVE  /\ s \o t \in Seq(S)
           /\ Len(s \o t) = Len(s) + Len(t)
           /\ DOMAIN (s \o t) = 1 .. Len(s) + Len(t)
           /\ \A k \in 1 .. Len(s) : (s \o t)[k] = s[k]
           /\ \A k \in 1 .. Len(t) : (s \o t)[Len(s) + k] = t[k]
OBVIOUS

LEMMA PrintedLines ==
    ASSUME NEW i, NEW cells \in SUBSET Nat, IsFiniteSet(cells),
           output' = Printed(machine, machine', i, cells)
    PROVE  \E d, n, order :
              /\ d \in {0, 1} /\ n \in Nat
              /\ LinesOfStep(i, d, n, order) /\ OrderOfCells(cells, n, order)
<1> DEFINE selected == Filter!Contains(ticks, machine.tick)
           line == DisasmLine(machine, machine', i)
           first == IF disasm /\ selected THEN <<line>> ELSE <<>>
           d == IF disasm /\ selected THEN 1 ELSE 0
           W == {c \in cells : Collects(c, machine.tick)}
           order == Ascending(W)
           n == IF ramWrites THEN Cardinality(W) ELSE 0
           rest == [k \in 1 .. n |-> RamLine(machine, machine', order[k])]
           S == {line} \union {rest[k] : k \in 1 .. n}
<1>1. W \in SUBSET Nat /\ IsFiniteSet(W)
  <2>1. W \in SUBSET cells
    OBVIOUS
  <2> HIDE DEF W
  <2> QED
    BY <2>1, FS_Subset
<1>2. /\ Cardinality(W) \in Nat
      /\ DOMAIN order = 1 .. Cardinality(W)
      /\ \A k \in 1 .. Cardinality(W) : order[k] \in W
      /\ \A j, k \in 1 .. Cardinality(W) : j < k => order[j] < order[k]
      /\ \A c \in W : \E k \in 1 .. Cardinality(W) : order[k] = c
  <2> HIDE DEF W
  <2> QED
    BY <1>1, AscendingLists
<1>3. output' = first \o (IF ramWrites THEN RamLines(machine, machine', cells) ELSE <<>>)
  BY Zenon DEF Printed
<1>4. RamLines(machine, machine', cells) =
        [k \in DOMAIN order |-> RamLine(machine, machine', order[k])]
  BY Zenon DEF RamLines
<1> HIDE DEF line, W, order, selected
<1>5. n \in Nat
  BY <1>2
<1>6. output' = first \o rest
  <2>1. CASE ramWrites
    BY <1>2, <1>3, <1>4, <2>1
  <2>2. CASE ~ramWrites
    <3>1. rest = <<>>
      BY <2>2
    <3> QED
      BY <1>3, <2>2, <3>1
  <2> QED
    BY <2>1, <2>2
<1>7. first \in Seq(S) /\ Len(first) = d /\ (d = 1 => first[1] = line)
  <2> HIDE DEF rest
  <2>1. CASE disasm /\ selected
    BY <2>1
  <2>2. CASE ~(disasm /\ selected)
    BY <2>2
  <2> QED
    BY <2>1, <2>2
<1>8. rest \in Seq(S) /\ Len(rest) = n
      /\ \A k \in 1 .. n : rest[k] = RamLine(machine, machine', order[k])
  BY <1>5
<1>9. /\ d \in {0, 1} /\ d = (IF disasm /\ selected THEN 1 ELSE 0)
      /\ n > 0 => ramWrites
      /\ ramWrites => n = Cardinality(W)
  OBVIOUS
<1> HIDE DEF S, first, rest, d, n
<1>10. /\ output' \in Seq(S) /\ Len(output') = d + n
       /\ DOMAIN output' = 1 .. d + n
       /\ \A k \in 1 .. d : output'[k] = first[k]
       /\ \A k \in 1 .. n : output'[d + k] = rest[k]
  <2>1. first \in Seq(S) /\ rest \in Seq(S) /\ Len(first) = d /\ Len(rest) = n
    BY <1>7, <1>8
  <2>2. first \o rest \in Seq(S)
    BY <2>1, Concatenated
  <2>3. Len(first \o rest) = Len(first) + Len(rest)
    BY <2>1, Concatenated
  <2>4. DOMAIN (first \o rest) = 1 .. Len(first) + Len(rest)
    BY <2>1, Concatenated
  <2>5. \A k \in 1 .. Len(first) : (first \o rest)[k] = first[k]
    BY <2>1, Concatenated
  <2>6. \A k \in 1 .. Len(rest) : (first \o rest)[Len(first) + k] = rest[k]
    BY <2>1, Concatenated
  <2> QED
    BY Zenon, <1>6, <2>1, <2>2, <2>3, <2>4, <2>5, <2>6
<1>11. LinesOfStep(i, d, n, order)
  <2>1. output' # <<>> => d + n > 0
    BY <1>5, <1>9, <1>10
  <2> QED
    BY <1>5, <1>7, <1>8, <1>9, <1>10, <2>1 DEF LinesOfStep, line, selected
<1>12. OrderOfCells(cells, n, order)
  <2>1. CASE ramWrites
    BY <1>2, <1>9, <2>1 DEF OrderOfCells, W
  <2>2. CASE ~ramWrites
    <3>1. 1 .. n = {}
      BY <1>5, <1>9, <2>2
    <3> QED
      BY <2>2, <3>1 DEF OrderOfCells
  <2> QED
    BY <2>1, <2>2
<1> QED
  BY <1>5, <1>9, <1>11, <1>12
\* What a step that did not throw shows and prints.
LEMMA TracedStepPrints ==
    ASSUME TracedIInv, TracedStep
    PROVE  /\ Explains(DisasmLine(machine, machine', Instruction), machine, machine')
           /\ loads' = loads /\ machine.tick \in Nat /\ machine'.tick = machine.tick + 1
           /\ \E cells, d, n, order :
                 /\ cells \in SUBSET Nat /\ d \in {0, 1} /\ n \in Nat
                 /\ LinesOfStep(Instruction, d, n, order)
                 /\ OrderOfCells(cells, n, order)
                 /\ \A c \in Nat \ cells :
                       CellValue(machine.bytes, c) = CellValue(machine'.bytes, c)
<1>1. IInv /\ Step /\ Ok(machine')
  BY DEF TracedIInv, TracedStep
<1>2. StepShows(Instruction) /\ RamShows(Instruction)
  BY <1>1, StepsShow, StepsShowRam
<1>3. machine'.tick = machine.tick + 1
  BY <1>1, StepsResult DEF StepResult
<1>4. machine.tick \in Nat
  BY <1>1 DEF IInv, Typed
<1>5. loads' = loads
  BY <1>1 DEF Step, Unloaded, ExecuteLoadImmediate, ExecuteCalculate, ExecuteLoad,
     ExecuteStore, ExecuteConvert, ExecuteRelativeJump, ExecuteBranch,
     ExecuteAbsoluteJump, ExecuteCall, ExecuteWriteStatus, ExecuteReadStatus,
     ExecuteAdvanceStackPointer, ExecuteInvalidOpcode, FailToFetch
<1>6. PICK cells \in Notifications(machine, machine', Instruction) :
        output' = Printed(machine, machine', Instruction, cells)
  BY DEF TracedStep
<1>7. /\ cells \in SUBSET Nat /\ IsFiniteSet(cells)
      /\ \A c \in Nat \ cells : CellValue(machine.bytes, c) = CellValue(machine'.bytes, c)
  BY <1>2, NotifiedCells
<1>8. PICK d, n, order :
        /\ d \in {0, 1} /\ n \in Nat
        /\ LinesOfStep(Instruction, d, n, order) /\ OrderOfCells(cells, n, order)
  BY <1>6, <1>7, PrintedLines
<1> QED
  BY <1>2, <1>3, <1>4, <1>5, <1>7, <1>8 DEF StepShows

\* The lines of each kind, and the tick of every one.
LEMMA KindsOfLines ==
    ASSUME NEW i, NEW d \in {0, 1}, NEW n \in Nat, NEW order, LinesOfStep(i, d, n, order)
    PROVE  /\ Lines("disasm")' = 1 .. d
           /\ Lines("ram")' = d + 1 .. d + n
           /\ \A k \in DOMAIN output' : output'[k].tick = machine.tick
<1>1. DOMAIN output' = 1 .. d + n
  BY DEF LinesOfStep
<1>2. \A k \in 1 .. d : output'[k].kind = "disasm" /\ output'[k].tick = machine.tick
  BY DEF LinesOfStep, DisasmLine
<1>3. ASSUME NEW k \in d + 1 .. d + n
      PROVE  output'[k].kind = "ram" /\ output'[k].tick = machine.tick
  <2>1. k - d \in 1 .. n /\ d + (k - d) = k
    OBVIOUS
  <2>2. output'[k] = RamLine(machine, machine', order[k - d])
    BY <2>1 DEF LinesOfStep
  <2> QED
    BY <2>2 DEF RamLine
<1>4. \A k \in DOMAIN output' : k \in 1 .. d \/ k \in d + 1 .. d + n
  BY <1>1
<1>5. 1 .. d \subseteq DOMAIN output' /\ d + 1 .. d + n \subseteq DOMAIN output'
  BY <1>1
<1>6. Lines("disasm")' = {k \in DOMAIN output' : output'[k].kind = "disasm"}
  BY DEF Lines
<1>7. Lines("ram")' = {k \in DOMAIN output' : output'[k].kind = "ram"}
  BY DEF Lines
<1> QED
  BY <1>2, <1>3, <1>4, <1>5, <1>6, <1>7

\* Without a step the trace is silent, and whatever but a load or a step keeps
\* the machine.
LEMMA SilentCalls ==
    ASSUME TracedIInv, [TracedNext]_<<vars, traceVars>>, ~TracedStep
    PROVE  \/ /\ UNCHANGED <<vars, traceVars>>
           \/ /\ output' = <<>>
              /\ loads' = loads => machine'.bytes = machine.bytes /\ machine'.tick = machine.tick
<1>1. CASE ThrowingStep
  <2>1. StepResult
    BY <1>1, StepsResult DEF ThrowingStep, TracedIInv
  <2>2. Architecture(machine') = Architecture(machine)
    BY <1>1, <2>1 DEF StepResult, ThrowingStep, Ok
  <2> QED
    BY <1>1, <2>2 DEF ThrowingStep, Architecture
<1>2. ASSUME NEW p \in Programs, Quietly(LoadProgram(p)) \/ Quietly(RefuseProgram(p))
      PROVE  output' = <<>> /\ loads' # loads
  <2>1. loads + 1 # loads
    BY DEF TracedIInv, IInv
  <2> QED
    BY <1>2, <2>1 DEF Quietly, LoadProgram, RefuseProgram
<1>3. CASE Quietly(EnableClearStack) \/ Quietly(EnableUninitializedRamWarnings)
  BY <1>3 DEF Quietly, EnableClearStack, EnableUninitializedRamWarnings
<1>4. CASE EnableDisasmTrace
  BY <1>4 DEF EnableDisasmTrace, vars
<1>5. ASSUME NEW filter, SetTraceTicks(filter) \/ EnableRamWriteTrace(filter)
      PROVE  output' = <<>> /\ UNCHANGED machine
  BY <1>5 DEF SetTraceTicks, EnableRamWriteTrace, vars
<1> QED
  BY <1>1, <1>2, <1>3, <1>4, <1>5 DEF TracedNext
-----------------------------------------------------------------------------
(* Theorems *)

LEMMA SelectedTick ==
    ASSUME TracedIInv, machine.tick \in Nat
    PROVE  Filter!Contains(ticks, machine.tick) <=>
             ticks = <<>> \/ machine.tick \in Filter!Covered(ticks)
BY FilterAnswers DEF TracedIInv

LEMMA SilentLines ==
    ASSUME output' = <<>>
    PROVE  DOMAIN output' = {} /\ Lines("disasm")' = {} /\ Lines("ram")' = {}
<1>1. DOMAIN output' = {}
  OBVIOUS
<1> QED
  BY <1>1 DEF Lines

\* Whatever the filters, the lines of a step carry the number of instructions
\* executed before it, are printed for exactly the selected steps that did not
\* throw, and the disassembly comes first (stepImpl).
THEOREM TicksAreSelected == TracedSpec => TracesSelectedTicks
<1>1. ASSUME TracedIInv, [TracedNext]_<<vars, traceVars>>
      PROVE  [LET selected == ticks = <<>> \/ machine.tick \in Filter!Covered(ticks)
                  executed == loads' = loads /\ machine'.tick # machine.tick
              IN  /\ output' # <<>> => selected /\ executed
                  /\ \A k \in DOMAIN output' : output'[k].tick + 1 = machine'.tick
                  /\ Lines("disasm")' = IF disasm /\ selected /\ executed THEN {1} ELSE {}
             ]_<<vars, traceVars>>
  <2> DEFINE selected == ticks = <<>> \/ machine.tick \in Filter!Covered(ticks)
             executed == loads' = loads /\ machine'.tick # machine.tick
  <2>1. CASE TracedStep
    <3>1. /\ loads' = loads /\ machine.tick \in Nat /\ machine'.tick = machine.tick + 1
          /\ \E cells, d, n, order :
               /\ cells \in SUBSET Nat /\ d \in {0, 1} /\ n \in Nat
               /\ LinesOfStep(Instruction, d, n, order) /\ OrderOfCells(cells, n, order)
      BY <1>1, <2>1, TracedStepPrints
    <3>2. PICK cells, d, n, order :
            /\ cells \in SUBSET Nat /\ d \in {0, 1} /\ n \in Nat
            /\ LinesOfStep(Instruction, d, n, order) /\ OrderOfCells(cells, n, order)
      BY <3>1
    <3>3. /\ Lines("disasm")' = 1 .. d
          /\ \A k \in DOMAIN output' : output'[k].tick = machine.tick
      BY <3>2, KindsOfLines
    <3>4. Filter!Contains(ticks, machine.tick) <=> selected
      BY <1>1, <3>1, SelectedTick
    <3>5. executed
      BY <3>1
    <3>6. d = IF disasm /\ selected THEN 1 ELSE 0
      BY <3>2, <3>4 DEF LinesOfStep
    <3> HIDE DEF selected, executed
    <3>7. output' # <<>> => selected
      <4>1. SUFFICES ASSUME ~selected
                     PROVE  output' = <<>>
        OBVIOUS
      <4>2. d = 0
        BY <3>6, <4>1
      <4>3. n = 0
        <5>1. SUFFICES ASSUME n > 0
                       PROVE  FALSE
          BY <3>2
        <5>2. Collects(order[1], machine.tick)
          BY <3>2, <5>1 DEF OrderOfCells
        <5> QED
          BY <3>4, <4>1, <5>2 DEF Collects
      <4> QED
        BY <3>2, <4>2, <4>3 DEF LinesOfStep
    <3>8. Lines("disasm")' = IF disasm /\ selected /\ executed THEN {1} ELSE {}
      BY <3>3, <3>5, <3>6
    <3> QED
      BY <3>1, <3>3, <3>5, <3>7, <3>8 DEF selected, executed
  <2>2. CASE UNCHANGED <<vars, traceVars>>
    BY <2>2
  <2>3. CASE /\ output' = <<>>
             /\ loads' = loads => machine'.bytes = machine.bytes /\ machine'.tick = machine.tick
    <3>1. DOMAIN output' = {} /\ Lines("disasm")' = {}
      BY <2>3, SilentLines
    <3>2. ~executed
      BY <2>3
    <3> QED
      BY <2>3, <3>1, <3>2
  <2> QED
    BY <1>1, <2>1, <2>2, <2>3, SilentCalls
<1> QED
  BY <1>1, TracedInvariant, PTL DEF TracedSpec, TracesSelectedTicks

\* Whatever the program, every line of disassembly holds the values with which its
\* instruction was executed, even one that overwrote its own sources
\* (captureTraceSnapshot, writeDisasmTrace).
THEOREM LinesExplainSteps == TracedSpec => DisasmExplainsStep
<1>1. ASSUME TracedIInv, [TracedNext]_<<vars, traceVars>>
      PROVE  [\A k \in Lines("disasm")' : Explains(output'[k], machine, machine')
             ]_<<vars, traceVars>>
  <2>1. CASE TracedStep
    <3>1. PICK d, n, order :
            /\ d \in {0, 1} /\ n \in Nat
            /\ LinesOfStep(Instruction, d, n, order)
      BY <1>1, <2>1, TracedStepPrints
    <3>2. d \in {0, 1} /\ Lines("disasm")' = 1 .. d
      BY <3>1, KindsOfLines
    <3>3. d = 1 => output'[1] = DisasmLine(machine, machine', Instruction)
      BY <3>1 DEF LinesOfStep
    <3>4. Explains(DisasmLine(machine, machine', Instruction), machine, machine')
      BY <1>1, <2>1, TracedStepPrints
    <3>5. ASSUME NEW k \in Lines("disasm")'
          PROVE  output'[k] = DisasmLine(machine, machine', Instruction)
      <4>1. k \in 1 .. d
        BY <3>2
      <4>2. d = 1 /\ k = 1
        BY <3>2, <4>1
      <4> QED
        BY <3>3, <4>2
    <3> QED
      BY <3>4, <3>5
  <2>2. CASE UNCHANGED <<vars, traceVars>>
    BY <2>2
  <2>3. CASE output' = <<>>
    <3>1. Lines("disasm")' = {}
      BY <2>3, SilentLines
    <3> QED
      BY <3>1
  <2> QED
    BY <1>1, <2>1, <2>2, <2>3, SilentCalls
<1> QED
  BY <1>1, TracedInvariant, PTL DEF TracedSpec, DisasmExplainsStep

\* The cells of which the address filter lets some byte pass.
Wanted(c) ==
    addresses = <<>> \/
    Span(CellSize * c, CellSize) \intersect Filter!Covered(addresses) # {}

LEMMA CollectedCells ==
    ASSUME TracedIInv, NEW c \in Nat, machine.tick \in Nat
    PROVE  Collects(c, machine.tick) <=>
             /\ ticks = <<>> \/ machine.tick \in Filter!Covered(ticks)
             /\ Wanted(c)
<1>1. Filter!Contains(ticks, machine.tick) <=>
        ticks = <<>> \/ machine.tick \in Filter!Covered(ticks)
  BY SelectedTick
<1>2. CellSize * c \in Nat /\ CellSize * c + CellSize - 1 \in Nat
  BY DEF CellSize
<1>3. Filter!Intersects(addresses, CellSize * c, CellSize * c + CellSize - 1) <=> Wanted(c)
  BY <1>2, FilterAnswers DEF TracedIInv, Wanted, Span
<1> QED
  BY <1>1, <1>3 DEF Collects

\* What the line of a cell says.
LineOfCell(line, c) ==
    /\ line.address = CellSize * c
    /\ line.address \div CellSize = c
    /\ line.old = CellValue(machine.bytes, c)
    /\ line.new = CellValue(machine'.bytes, c)

\* The RAM-write line at a place is of the cell at that place in the order.
LEMMA RamLineOfCell ==
    ASSUME NEW i, NEW d \in {0, 1}, NEW n \in Nat, NEW order, NEW cells \in SUBSET Nat,
           LinesOfStep(i, d, n, order), OrderOfCells(cells, n, order),
           NEW k \in 1 .. n
    PROVE  order[k] \in Nat /\ LineOfCell(output'[d + k], order[k])
<1>1. order[k] \in Nat
  BY DEF OrderOfCells
<1>2. output'[d + k] = RamLine(machine, machine', order[k])
  BY DEF LinesOfStep
<1>3. (CellSize * order[k]) \div CellSize = order[k]
  BY <1>1 DEF CellSize
<1> QED
  BY <1>1, <1>2, <1>3 DEF RamLine, LineOfCell

\* What RamTraceAccountsForRam asks of a step.
RamIsAccountedFor ==
    LET lines == Lines("ram")'
        shown == {output'[k].address \div CellSize : k \in lines}
        touched == CellsOf(DOMAIN machine.bytes \union DOMAIN machine'.bytes)
    IN  /\ \A k \in lines :
             LET cell == output'[k].address \div CellSize
             IN  /\ Wanted(cell)
                 /\ output'[k].old = CellValue(machine.bytes, cell)
                 /\ output'[k].new = CellValue(machine'.bytes, cell)
        /\ \A j, k \in lines : j < k => output'[j].address < output'[k].address
        /\ ticks = <<>> \/ machine.tick \in Filter!Covered(ticks) =>
             \A c \in touched \ shown :
                 Wanted(c) => CellValue(machine.bytes, c) = CellValue(machine'.bytes, c)

LEMMA TracedStepAccounts ==
    ASSUME TracedIInv, TracedStep, ramWrites
    PROVE  RamIsAccountedFor
<1> DEFINE lines == Lines("ram")'
           shown == {output'[k].address \div CellSize : k \in lines}
           touched == CellsOf(DOMAIN machine.bytes \union DOMAIN machine'.bytes)
<1>1. machine.tick \in Nat
  BY TracedStepPrints
<1>2. PICK cells, d, n, order :
        /\ cells \in SUBSET Nat /\ d \in {0, 1} /\ n \in Nat
        /\ LinesOfStep(Instruction, d, n, order)
        /\ OrderOfCells(cells, n, order)
        /\ \A c \in Nat \ cells : CellValue(machine.bytes, c) = CellValue(machine'.bytes, c)
  BY TracedStepPrints
<1>3. d \in {0, 1} /\ n \in Nat /\ lines = d + 1 .. d + n
  BY <1>2, KindsOfLines
<1>4. ASSUME NEW k \in 1 .. n
      PROVE  order[k] \in Nat /\ LineOfCell(output'[d + k], order[k])
  <2>1. /\ cells \in SUBSET Nat
        /\ LinesOfStep(Instruction, d, n, order) /\ OrderOfCells(cells, n, order)
    BY <1>2
  <2> QED
    BY <1>3, <2>1, RamLineOfCell
<1> HIDE DEF lines
<1>5. ASSUME NEW k \in lines
      PROVE  k - d \in 1 .. n /\ d + (k - d) = k
  BY <1>3
<1>6. ASSUME NEW k \in lines
      PROVE  LET cell == output'[k].address \div CellSize
             IN  /\ Wanted(cell)
                 /\ output'[k].old = CellValue(machine.bytes, cell)
                 /\ output'[k].new = CellValue(machine'.bytes, cell)
  <2> DEFINE c == order[k - d]
  <2>1. c \in Nat /\ LineOfCell(output'[k], c)
    BY <1>4, <1>5
  <2>2. Collects(c, machine.tick)
    BY <1>2, <1>5 DEF OrderOfCells
  <2> HIDE DEF c
  <2>3. Wanted(c)
    BY <1>1, <2>1, <2>2, CollectedCells
  <2> QED
    BY <2>1, <2>3 DEF LineOfCell
<1>7. ASSUME NEW j \in lines, NEW k \in lines, j < k
      PROVE  output'[j].address < output'[k].address
  <2> DEFINE b == order[j - d]
             c == order[k - d]
  <2>1. /\ b \in Nat /\ LineOfCell(output'[j], b)
        /\ c \in Nat /\ LineOfCell(output'[k], c)
    BY <1>4, <1>5
  <2>2. j - d < k - d
    BY <1>3, <1>7
  <2>3. b < c
    BY <1>2, <1>5, <2>2 DEF OrderOfCells
  <2> HIDE DEF b, c
  <2> QED
    BY <2>1, <2>3 DEF LineOfCell, CellSize
<1>8. ASSUME ticks = <<>> \/ machine.tick \in Filter!Covered(ticks),
             NEW c \in touched \ shown, Wanted(c)
      PROVE  CellValue(machine.bytes, c) = CellValue(machine'.bytes, c)
  <2>1. c \in Nat
    <3>1. IsContents(machine.bytes) /\ IsContents(machine'.bytes)
      <4>1. StepResult
        BY StepsResult DEF TracedIInv, TracedStep
      <4> QED
        BY <4>1 DEF StepResult, Typed, TracedIInv, IInv
    <3>2. DOMAIN machine.bytes \union DOMAIN machine'.bytes \subseteq Nat
      BY <3>1 DEF IsContents, Address
    <3>3. \A x \in Nat : x \div CellSize \in Nat
      BY DEF CellSize
    <3> QED
      BY <3>2, <3>3 DEF CellsOf
  <2>2. c \notin cells
    <3>1. SUFFICES ASSUME c \in cells
                   PROVE  FALSE
      OBVIOUS
    <3>2. Collects(c, machine.tick)
      BY <1>1, <1>8, <2>1, CollectedCells
    <3>3. PICK k \in 1 .. n : order[k] = c
      BY <1>2, <3>1, <3>2 DEF OrderOfCells
    <3>4. d + k \in lines
      BY <1>3
    <3>5. output'[d + k].address \div CellSize = c
      BY <1>4, <3>3 DEF LineOfCell
    <3> QED
      BY <3>4, <3>5
  <2> QED
    BY <1>2, <2>1, <2>2
<1> QED
  BY <1>6, <1>7, <1>8 DEF RamIsAccountedFor, lines

\* Whatever the program and the filters, the RAM-write lines of a step are the
\* changes it made to the cells that are wanted, each once, in order, with the content
\* before and after (collectRamWriteTrace, flushRamWriteTrace, Memory::write and
\* Memory::clearRange).
THEOREM RamIsTraced == TracedSpec => RamTraceAccountsForRam
<1>1. ASSUME TracedIInv, [TracedNext]_<<vars, traceVars>>
      PROVE  [loads' = loads /\ ramWrites => RamIsAccountedFor]_<<vars, traceVars>>
  <2>1. CASE TracedStep
    BY <1>1, <2>1, TracedStepAccounts
  <2>2. CASE UNCHANGED <<vars, traceVars>>
    BY <2>2
  <2>3. CASE /\ output' = <<>>
             /\ loads' = loads => machine'.bytes = machine.bytes /\ machine'.tick = machine.tick
    <3>1. Lines("ram")' = {}
      BY <2>3, SilentLines
    <3> QED
      BY <2>3, <3>1 DEF RamIsAccountedFor
  <2> QED
    BY <1>1, <2>1, <2>2, <2>3, SilentCalls
<1>2. ASSUME [loads' = loads /\ ramWrites => RamIsAccountedFor]_<<vars, traceVars>>
      PROVE  [loads' = loads /\ ramWrites =>
         LET lines == Lines("ram")'
             wanted(c) == addresses = <<>> \/
                          Span(CellSize * c, CellSize) \intersect Filter!Covered(addresses) # {}
             shown == {output'[k].address \div CellSize : k \in lines}
             touched == CellsOf(DOMAIN machine.bytes \union DOMAIN machine'.bytes)
         IN  /\ \A k \in lines :
                  LET cell == output'[k].address \div CellSize
                  IN  /\ wanted(cell)
                      /\ output'[k].old = CellValue(machine.bytes, cell)
                      /\ output'[k].new = CellValue(machine'.bytes, cell)
             /\ \A j, k \in lines : j < k => output'[j].address < output'[k].address
             /\ ticks = <<>> \/ machine.tick \in Filter!Covered(ticks) =>
                  \A c \in touched \ shown :
                      wanted(c) => CellValue(machine.bytes, c) = CellValue(machine'.bytes, c)
             ]_<<vars, traceVars>>
  BY <1>2 DEF RamIsAccountedFor, Wanted
<1> QED
  BY <1>1, <1>2, TracedInvariant, PTL DEF TracedSpec, RamTraceAccountsForRam
=============================================================================
