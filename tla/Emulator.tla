------------------------------ MODULE Emulator ------------------------------
(***************************************************************************)
(* The class Emulator (emulator/src/emulator.cpp): loading a program and   *)
(* executing it one instruction at a time.  RAM behaves as FlatMemory      *)
(* promises, so it is here the value that module keeps.                    *)
(*                                                                         *)
(* A C++ exception ends an instruction or a load wherever it is thrown,    *)
(* with the effects before it done and those after it not done.  So an     *)
(* effect is a function from machine to machine that does nothing once an  *)
(* error is set, and an instruction composes its effects in the order of   *)
(* the code.                                                               *)
(***************************************************************************)
EXTENDS Isa

CONSTANTS
    Programs,      \* what loadProgram may be given: an image and a base address
    Alu(_, _, _),  \* the result of an RRR operation: Compute of ArithmeticUnit
    MaxLoads,      \* bound: how many times a program is loaded
    MaxTicks       \* bound: how many instructions a program executes

ASSUME ProgramAssumption ==
    /\ \A p \in Programs : p.image \in Seq(Byte) /\ p.base \in Word
    /\ MaxLoads \in Nat /\ MaxTicks \in Nat

VARIABLES
    machine,     \* the registers, RAM and program counters of the object
    clearStack,  \* clearStack_
    warning,     \* uninitRamWarningOutput_ is set
    loads,       \* how many loads have been tried
    halfLoaded   \* the last load threw after it had wiped the machine

vars == <<machine, clearStack, warning, loads, halfLoaded>>

NoError == "none"

Errors ==
    {NoError, "invalid program", "program out of memory", "fetch past the program",
     "fetch misaligned", "instruction pointer out of range", "invalid register",
     "invalid status register", "division by zero", "memory out of range",
     "stack overflow", "stack underflow", "invalid opcode"}

ZeroRegisters == [r \in Register |-> 0]

-----------------------------------------------------------------------------
(* Effects *)

Ok(m) == m.error = NoError

Begin(m) == [m EXCEPT !.error = NoError, !.warned = {}]

\* A check that throws.
Require(m, condition, error) ==
    IF Ok(m) /\ ~condition THEN [m EXCEPT !.error = error] ELSE m

\* validateRegisterIndex
RequireRegisters(m, indices) == Require(m, indices \subseteq Register, "invalid register")

SetRegister(m, r, value) == IF Ok(m) THEN [m EXCEPT !.regs[r] = value] ELSE m

SetPc(m, target) == IF Ok(m) THEN [m EXCEPT !.pc = target] ELSE m

\* advancePc: the address after the last instruction may be 2^32.
AdvancePc(m) ==
    SetPc(Require(m, m.pc <= WordMod - InstructionSize, "instruction pointer out of range"),
          m.pc + InstructionSize)

\* The last effect of a step: ++tick_.
Retire(m) == IF Ok(m) THEN [m EXCEPT !.tick = @ + 1] ELSE m

-----------------------------------------------------------------------------
(* Instructions: i has the fields of Decode *)

LoadImmediate(m, i) ==
    LET value == IF i.op = LI THEN i.imm ELSE (m.regs[i.a] % HalfMod) + HalfMod * i.imm
    IN  AdvancePc(SetRegister(RequireRegisters(m, {i.a}), i.a, value))

Calculate(m, i) ==
    LET checked == Require(RequireRegisters(m, {i.a, i.b, i.c}),
                           i.op \in {UDIV, SDIV} => m.regs[i.c] # 0, "division by zero")
    IN  AdvancePc(SetRegister(checked, i.a, Alu(i.op, m.regs[i.b], m.regs[i.c])))

\* The address of a load or a store wraps around, its range does not.
EffectiveAddress(m, i) == (m.regs[i.b] + i.c) % WordMod

CheckedAccess(m, i) ==
    Require(RequireRegisters(m, {i.a, i.b}),
            InRange(EffectiveAddress(m, i), AccessSize(i.op)), "memory out of range")

LoadMemory(m, i) ==
    LET a == EffectiveAddress(m, i)
        n == AccessSize(i.op)
        checked == CheckedAccess(m, i)
        read == IF Ok(checked) /\ warning
                THEN [checked EXCEPT !.warned = Span(a, n) \ m.initialized]
                ELSE checked
    IN  AdvancePc(SetRegister(read, i.a, FromBytes(BytesAt(m.bytes, a, n))))

StoreMemory(m, i) ==
    LET a == EffectiveAddress(m, i)
        n == AccessSize(i.op)
        checked == CheckedAccess(m, i)
        written == IF Ok(checked)
                   THEN [checked EXCEPT !.bytes = Put(@, a, ToBytes(m.regs[i.a], n)),
                                        !.initialized = @ \union Span(a, n)]
                   ELSE checked
    IN  AdvancePc(written)

Convert(m, i) ==
    LET source == m.regs[i.b]
    IN  AdvancePc(SetRegister(RequireRegisters(m, {i.a, i.b}), i.a,
                              IF i.op = SXT THEN SignExtend(source, i.c)
                              ELSE ByteSwap(source, i.c)))

\* Mutant: neither end of the address space is checked.
RelativeJumpUnchecked(m, i) ==
    SetPc(m, m.pc + InstructionSize * SignedPart(i.imm, HalfMod))

\* relativeJumpTarget: the offset counts instructions; 2^32 is still a target.
RelativeJump(m, i) ==
    LET target == m.pc + InstructionSize * SignedPart(i.imm, HalfMod)
    IN  SetPc(Require(m, target \in 0 .. WordMod, "instruction pointer out of range"), target)

\* Mutant: a branch that is not taken stays where it is.
BranchWithoutAdvance(m, i) ==
    LET checked == RequireRegisters(m, {i.a})
    IN  IF Ok(checked) /\ (m.regs[i.a] = 0) = (i.op = BRZ) THEN RelativeJump(checked, i)
        ELSE checked

Branch(m, i) ==
    LET checked == RequireRegisters(m, {i.a})
        taken == (m.regs[i.a] = 0) = (i.op = BRZ)
    IN  IF Ok(checked) /\ taken THEN RelativeJump(checked, i) ELSE AdvancePc(checked)

AbsoluteJump(m, i) == SetPc(RequireRegisters(m, {i.a}), m.regs[i.a])

\* Mutant: R1 is written before the register operand is validated.
CallLinksFirst(m, i) ==
    LET linked == SetRegister(m, ReturnAddress, m.pc + InstructionSize)
        checked == RequireRegisters(linked, {i.a})
    IN  IF Ok(checked) THEN SetPc(checked, m.regs[i.a]) ELSE checked

\* The target is read before R1 is written: CALL R1 jumps to the old R1.
CallSubroutine(m, i) ==
    LET checked == Require(RequireRegisters(m, {i.a}),
                           m.pc <= WordMod - 1 - InstructionSize,
                           "instruction pointer out of range")
    IN  SetPc(SetRegister(checked, ReturnAddress, m.pc + InstructionSize), m.regs[i.a])

\* Writing SP_TOP also moves the bottom of the stack; writing IP is a jump.
WriteStatus(m, i) ==
    LET value == m.regs[i.b]
        checked == Require(RequireRegisters(m, {i.b}), i.a \in StatusRegister,
                           "invalid status register")
    IN  CASE ~Ok(checked) -> checked
          [] Ok(checked) /\ i.a = Ip -> SetPc(checked, value)
          [] Ok(checked) /\ i.a = SpTop ->
                AdvancePc([checked EXCEPT !.spTop = value, !.stackBottom = value])
          [] Ok(checked) /\ i.a = SpSize -> AdvancePc([checked EXCEPT !.spSize = value])

\* readStatusRegister
StatusValue(m, scr) ==
    CASE scr = Ip -> m.pc [] scr = SpTop -> m.spTop [] scr = SpSize -> m.spSize

ReadStatus(m, i) ==
    LET known == Require(RequireRegisters(m, {i.a}), i.b \in StatusRegister,
                         "invalid status register")
        checked == Require(known, i.b = Ip => m.pc < WordMod,
                           "instruction pointer out of range")
    IN  AdvancePc(SetRegister(checked, i.a, StatusValue(m, i.b)))

\* Mutant: the new SP_TOP is taken for the start of the released bytes.
ReleaseWipesFromNewTop(m, a, n) ==
    LET checked == Require(m, InRange(a, n), "memory out of range")
    IN  IF Ok(checked)
        THEN [checked EXCEPT !.bytes = IF clearStack THEN Wipe(@, a + n, n) ELSE @,
                             !.initialized = @ \ Span(a, n)]
        ELSE checked

\* Mutant: clearRange instead of clearAndMarkUninitialized.
ReleaseClearsWithoutMarking(m, a, n) ==
    LET checked == Require(m, InRange(a, n), "memory out of range")
    IN  IF ~Ok(checked) THEN checked
        ELSE IF clearStack THEN [checked EXCEPT !.bytes = Wipe(@, a, n)]
        ELSE [checked EXCEPT !.initialized = @ \ Span(a, n)]

\* Releasing n bytes of stack: clearAndMarkUninitialized or markUninitialized.
ReleaseStack(m, a, n) ==
    LET checked == Require(m, InRange(a, n), "memory out of range")
    IN  IF Ok(checked)
        THEN [checked EXCEPT !.bytes = IF clearStack THEN Wipe(@, a, n) ELSE @,
                             !.initialized = @ \ Span(a, n)]
        ELSE checked

StackDelta(m, i) == IF i.op = ASPI THEN SignedPart(i.imm, HalfMod) ELSE Signed(m.regs[i.b])

\* Mutant: a release is not compared with the bottom of the stack.
AdvanceWithoutUnderflow(m, i) ==
    LET delta == StackDelta(m, i)
        top == m.spTop + delta
        registers == RequireRegisters(m, IF i.op = ASPI THEN {i.a} ELSE {i.a, i.b})
        checked == Require(registers, -delta <= m.spSize, "stack overflow")
        released == IF Ok(checked) /\ delta > 0 THEN ReleaseStack(checked, m.spTop, delta)
                    ELSE checked
        moved == IF Ok(released)
                 THEN [released EXCEPT !.spTop = Unsigned(top),
                                       !.spSize = Unsigned(@ + delta)]
                 ELSE released
    IN  AdvancePc(SetRegister(moved, i.a, Unsigned(top)))

\* advanceStackPointer: the memory is released before a register changes, so
\* that an error leaves nothing half done.
AdvanceStackPointer(m, i) ==
    LET delta == StackDelta(m, i)
        top == m.spTop + delta
        registers == RequireRegisters(m, IF i.op = ASPI THEN {i.a} ELSE {i.a, i.b})
        fits == Require(registers, -delta <= m.spSize, "stack overflow")
        checked == Require(fits, delta > 0 => top <= m.stackBottom, "stack underflow")
        released == IF Ok(checked) /\ delta > 0 THEN ReleaseStack(checked, m.spTop, delta)
                    ELSE checked
        moved == IF Ok(released)
                 THEN [released EXCEPT !.spTop = Unsigned(top),
                                       !.spSize = Unsigned(@ + delta)]
                 ELSE released
    IN  AdvancePc(SetRegister(moved, i.a, Unsigned(top)))

InvalidOpcode(m, i) == Require(m, i.op \in Opcodes, "invalid opcode")

-----------------------------------------------------------------------------
(* Actions *)

\* isFinished: step() and run() do nothing more.
Finished == machine.pc >= machine.end

\* Mutant: an address below the program is not noticed.
FetchedBelowBase ==
    LET m == Begin(machine)
        inside == Require(m, m.end - m.pc >= InstructionSize, "fetch past the program")
        aligned == Require(inside, m.pc % InstructionSize = 0, "fetch misaligned")
    IN  Require(aligned, m.pc < WordMod, "instruction pointer out of range")

\* The checks of fetchInstructionWord.
Fetched ==
    LET m == Begin(machine)
        inside == Require(m, m.base <= m.pc /\ m.end - m.pc >= InstructionSize,
                          "fetch past the program")
        aligned == Require(inside, m.pc % InstructionSize = 0, "fetch misaligned")
    IN  Require(aligned, m.pc < WordMod, "instruction pointer out of range")

Instruction == Decode(BytesAt(machine.bytes, machine.pc, InstructionSize))

\* A step is under way and its instruction is one of ops.
Executing(ops) ==
    /\ ~Finished
    /\ machine.tick < MaxTicks
    /\ Ok(Fetched)
    /\ Instruction.op \in ops

Unloaded == UNCHANGED <<clearStack, warning, loads, halfLoaded>>

ExecuteLoadImmediate ==
    /\ Executing({LI, LUI})
    /\ machine' = Retire(LoadImmediate(Fetched, Instruction))
    /\ Unloaded

ExecuteCalculate ==
    /\ Executing(RRR)
    /\ machine' = Retire(Calculate(Fetched, Instruction))
    /\ Unloaded

ExecuteLoad ==
    /\ Executing(Loads)
    /\ machine' = Retire(LoadMemory(Fetched, Instruction))
    /\ Unloaded

ExecuteStore ==
    /\ Executing(Stores)
    /\ machine' = Retire(StoreMemory(Fetched, Instruction))
    /\ Unloaded

ExecuteConvert ==
    /\ Executing(Conversions)
    /\ machine' = Retire(Convert(Fetched, Instruction))
    /\ Unloaded

ExecuteRelativeJump ==
    /\ Executing({RJMP})
    /\ machine' = Retire(RelativeJump(Fetched, Instruction))
    /\ Unloaded

ExecuteBranch ==
    /\ Executing(Branches)
    /\ machine' = Retire(Branch(Fetched, Instruction))
    /\ Unloaded

ExecuteAbsoluteJump ==
    /\ Executing({AJMP})
    /\ machine' = Retire(AbsoluteJump(Fetched, Instruction))
    /\ Unloaded

ExecuteCall ==
    /\ Executing({CALL})
    /\ machine' = Retire(CallSubroutine(Fetched, Instruction))
    /\ Unloaded

ExecuteWriteStatus ==
    /\ Executing({SCRW})
    /\ machine' = Retire(WriteStatus(Fetched, Instruction))
    /\ Unloaded

ExecuteReadStatus ==
    /\ Executing({SCRR})
    /\ machine' = Retire(ReadStatus(Fetched, Instruction))
    /\ Unloaded

ExecuteAdvanceStackPointer ==
    /\ Executing({ASPI, ASPR})
    /\ machine' = Retire(AdvanceStackPointer(Fetched, Instruction))
    /\ Unloaded

ExecuteInvalidOpcode ==
    /\ Executing(Byte \ Opcodes)
    /\ machine' = Retire(InvalidOpcode(Fetched, Instruction))
    /\ Unloaded

FailToFetch ==
    /\ ~Finished
    /\ machine.tick < MaxTicks
    /\ ~Ok(Fetched)
    /\ machine' = Fetched
    /\ Unloaded

\* step(), or one turn of the loop of run().
Step ==
    \/ ExecuteLoadImmediate
    \/ ExecuteCalculate
    \/ ExecuteLoad
    \/ ExecuteStore
    \/ ExecuteConvert
    \/ ExecuteRelativeJump
    \/ ExecuteBranch
    \/ ExecuteAbsoluteJump
    \/ ExecuteCall
    \/ ExecuteWriteStatus
    \/ ExecuteReadStatus
    \/ ExecuteAdvanceStackPointer
    \/ ExecuteInvalidOpcode
    \/ FailToFetch

\* loadProgram refuses these before it touches anything.
Acceptable(p) ==
    /\ Len(p.image) % InstructionSize = 0
    /\ p.base % InstructionSize = 0
    /\ p.base <= WordMod - Len(p.image)

\* Mutant: the bottom of the last program's stack is not reset.
WipedButStackBottom(m) ==
    [m EXCEPT !.regs = ZeroRegisters, !.spTop = 0, !.spSize = 0,
              !.bytes = NoBytes, !.initialized = {}]

\* What loadProgram makes of the machine before it calls Memory::load.
Wiped(m) ==
    [m EXCEPT !.regs = ZeroRegisters, !.stackBottom = 0, !.spTop = 0, !.spSize = 0,
              !.bytes = NoBytes, !.initialized = {}]

\* Mutant: the addresses are set before Memory::load checks its range.
LoadedTooEarly(m, p) ==
    LET n == Len(p.image)
        placed == [Wiped(m) EXCEPT !.base = p.base, !.end = p.base + n,
                                   !.pc = p.base, !.tick = 0]
        stored == Require(placed, InRange(p.base, n), "program out of memory")
    IN  IF Ok(stored)
        THEN [stored EXCEPT !.bytes = Put(@, p.base, p.image),
                            !.initialized = Span(p.base, n)]
        ELSE stored

\* loadProgram: pc_, programBase_ and programEnd_ change only once the image is in RAM.
Loaded(m, p) ==
    LET n == Len(p.image)
        stored == Require(Wiped(m), InRange(p.base, n), "program out of memory")
    IN  IF Ok(stored)
        THEN [stored EXCEPT !.bytes = Put(@, p.base, p.image),
                            !.initialized = Span(p.base, n),
                            !.base = p.base, !.end = p.base + n,
                            !.pc = p.base, !.tick = 0]
        ELSE stored

LoadProgram(p) ==
    /\ loads < MaxLoads
    /\ loads' = loads + 1
    /\ Acceptable(p)
    /\ machine' = Loaded(Begin(machine), p)
    /\ halfLoaded' = ~InRange(p.base, Len(p.image))
    /\ UNCHANGED <<clearStack, warning>>

RefuseProgram(p) ==
    /\ loads < MaxLoads
    /\ loads' = loads + 1
    /\ ~Acceptable(p)
    /\ machine' = Require(Begin(machine), FALSE, "invalid program")
    /\ UNCHANGED <<clearStack, warning, halfLoaded>>

EnableClearStack ==
    /\ clearStack' = TRUE
    /\ UNCHANGED <<machine, warning, loads, halfLoaded>>

EnableUninitializedRamWarnings ==
    /\ warning' = TRUE
    /\ UNCHANGED <<machine, clearStack, loads, halfLoaded>>

Init ==
    /\ machine = [
          regs |-> ZeroRegisters,          \* registers_ and assemblerTempRegister_
          spTop |-> 0, spSize |-> 0,       \* statusRegisters_
          stackBottom |-> 0,               \* stackBottom_
          bytes |-> NoBytes,               \* memory_: its nonzero bytes,
          initialized |-> {},              \* and those written and not released
          pc |-> 0,                        \* pc_, which may reach 2^32
          base |-> 0, end |-> 0,           \* programBase_, programEnd_
          tick |-> 0,                      \* tick_
          error |-> NoError,               \* what the last call threw
          warned |-> {}]                   \* the bytes the last call warned of
    /\ clearStack = FALSE /\ warning = FALSE
    /\ loads = 0
    /\ halfLoaded = FALSE

Next ==
    \/ Step
    \/ \E p \in Programs : LoadProgram(p) \/ RefuseProgram(p)
    \/ EnableClearStack
    \/ EnableUninitializedRamWarnings

Spec == Init /\ [][Next]_vars

\* main() sets the options, and only then loads its one program and runs it.
MainSpec == Init /\ [][Next /\ (loads > 0 => UNCHANGED <<clearStack, warning, loads>>)]_vars

-----------------------------------------------------------------------------
(* Properties *)

\* Addresses and words are what their C++ types hold.
TypeOK ==
    /\ machine.regs \in [Register -> Word]
    /\ {machine.spTop, machine.spSize, machine.stackBottom, machine.base} \subseteq Word
    /\ IsContents(machine.bytes)
    /\ machine.initialized \subseteq Address
    /\ machine.warned \subseteq Address
    /\ machine.pc \in 0 .. WordMod /\ machine.end \in 0 .. WordMod
    /\ machine.tick \in 0 .. MaxTicks
    /\ machine.error \in Errors
    /\ clearStack \in BOOLEAN /\ warning \in BOOLEAN /\ halfLoaded \in BOOLEAN
    /\ loads \in 0 .. MaxLoads

\* The part of the machine that a program can observe or change.
Architecture(m) ==
    <<m.regs, m.spTop, m.spSize, m.stackBottom, m.bytes, m.initialized, m.pc,
      m.base, m.end, m.tick>>

\* An instruction that throws leaves the machine as it was before it, whatever
\* it had already done when the error was found: no register, status register,
\* byte of RAM, instruction pointer or tick has changed (execute, and the
\* comment in advanceStackPointer on partial state).
FailedStepChangesNothing ==
    [][loads' = loads /\ machine'.error # NoError =>
         Architecture(machine') = Architecture(machine)]_vars

\* An instruction is executed only at an aligned address inside the program
\* that was loaded last, all four bytes of it, and that program lies in RAM.
ExecutesInsideProgram ==
    [][machine'.tick # machine.tick /\ loads' = loads =>
         /\ machine.base <= machine.pc
         /\ machine.pc + InstructionSize <= machine.end
         /\ machine.pc % InstructionSize = 0
         /\ machine.end <= Size]_vars

\* The lowest address that the stack may grow down to.
StackLimit(m) == m.spTop - m.spSize

\* A stack that the program set up properly: [SP_TOP, B) is allocated, and the
\* SP_SIZE bytes below it are free.
StackWellFormed(m) == 0 <= StackLimit(m) /\ m.spTop <= m.stackBottom

SetsUpStack == Instruction.op = SCRW /\ Instruction.a \in {SpTop, SpSize}

\* A well-formed stack stays well formed, with the same limit and the same
\* bottom, whatever the program does but write SP_TOP or SP_SIZE: no sequence
\* of allocations and releases, by any amount, moves SP_TOP out of the window
\* (advanceStackPointer).
StackStaysInWindow ==
    [][loads' = loads /\ ~SetsUpStack /\ StackWellFormed(machine) =>
         /\ StackWellFormed(machine')
         /\ StackLimit(machine') = StackLimit(machine)
         /\ machine'.stackBottom = machine.stackBottom]_vars

\* After a load that failed once the machine was wiped, the old program's
\* addresses are still there, but only zero words are: whatever is stepped
\* until the next load computes nothing and touches no RAM (loadProgram).
HalfLoadedRunsNothing ==
    halfLoaded =>
        /\ machine.regs = ZeroRegisters
        /\ <<machine.spTop, machine.spSize, machine.stackBottom>> = <<0, 0, 0>>
        /\ machine.bytes = NoBytes
        /\ machine.initialized = {}

\* The bytes the stack may still grow over.
FreeStack == StackLimit(machine) .. machine.spTop - 1

\* The stack is well formed and no byte it may still grow over is initialised.
StackIsFree == StackWellFormed(machine) /\ FreeStack \intersect machine.initialized = {}

\* What a program does that keeps to its stack: it stores only at and above
\* SP_TOP, and it sets SP_TOP and SP_SIZE so that the stack is free.
KeepsToItsStack ==
    /\ Executing(Stores) => EffectiveAddress(machine, Instruction) >= machine.spTop
    /\ Step /\ SetsUpStack => StackIsFree'

\* Of a program that stores only at and above SP_TOP, no byte below SP_TOP is
\* ever initialised: whatever the program pushed and released before, a read
\* of the free part of its stack is warned of (advanceStackPointer and
\* docs/PROC.md on --clear-stack).
FreeStackIsUninitialized ==
    StackWellFormed(machine) => FreeStack \intersect machine.initialized = {}

\* If moreover the stack is cleared from before the program is loaded, every free
\* byte of the stack is zero: nothing released can be read again.
FreeStackIsZero ==
    clearStack /\ StackWellFormed(machine) => FreeStack \intersect DOMAIN machine.bytes = {}

\* The instruction pointer lies outside the program that was loaded last; the
\* address just behind it is where a program ends.
PcOutside == machine.pc < machine.base \/ machine.pc > machine.end

\* docs/PROC.md: if the new IP leaves the range of the loaded program, the next
\* fetch ends with an error.
OutsideIsAnError == PcOutside => ~Finished
=============================================================================
