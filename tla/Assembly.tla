------------------------------ MODULE Assembly ------------------------------
(***************************************************************************)
(* The language of the assembler: its operations and their operands        *)
(* (parseInstruction), what each becomes before it is encoded              *)
(* (appendLoweredInstruction) and its four bytes (encodeInstruction).      *)
(*                                                                         *)
(* An operation with an opcode is named by it, a pseudo-operation by a     *)
(* negative number.  An instruction is its operation, its operands and the *)
(* token its source location points at.                                    *)
(***************************************************************************)
EXTENDS Isa

MOV == -1
NEG == -2
NOT == -3
LFI == -4
RET == -5

\* The fields of an instruction word are bytes.
ASSUME FieldsAssumption == Opcodes \subseteq Byte /\ Register \subseteq Byte

PseudoOperations == {MOV, NEG, NOT, LFI, RET}
Operations == Opcodes \union PseudoOperations

\* The operations that touch neither RAM nor the status registers.
RegisterOperations == {LI, LUI, RJMP, AJMP, CALL} \union Branches \union RRR \union PseudoOperations

-----------------------------------------------------------------------------
(* Operands *)

RegisterKind == "register"
StatusKind == "status register"
NumberKind == "number"

RegisterOperand(r) == [type |-> RegisterKind, value |-> r]
ImmediateOperand(v) == [type |-> NumberKind, value |-> v]

\* A slot of an instruction: the operand it takes and the largest value of it.
Slot(kind, max) == [type |-> kind, max |-> max]

\* Mutant: R16 is taken for a register.
UserRegisterOffByOne == Slot(RegisterKind, 16)

UserRegister == Slot(RegisterKind, 15)

StatusSlot == Slot(StatusKind, 2)
Immediate8 == Slot(NumberKind, ByteMod - 1)
Immediate16 == Slot(NumberKind, HalfMod - 1)
Immediate32 == Slot(NumberKind, WordMod - 1)

WordImmediates == {LI, LUI, ASPI, BRZ, BRNZ}
ByteImmediates == Loads \union Stores \union Conversions
RegisterJumps == {AJMP, CALL}

\* The slots of an operation, in the order of the source text.
Format(op) ==
    CASE op \in WordImmediates -> <<UserRegister, Immediate16>>
      [] op \in RRR -> <<UserRegister, UserRegister, UserRegister>>
      [] op \in ByteImmediates -> <<UserRegister, UserRegister, Immediate8>>
      [] op = SCRW -> <<StatusSlot, UserRegister>>
      [] op = SCRR -> <<UserRegister, StatusSlot>>
      [] op \in {ASPR, MOV, NEG} -> <<UserRegister, UserRegister>>
      [] op = RJMP -> <<Immediate16>>
      [] op \in RegisterJumps \union {NOT} -> <<UserRegister>>
      [] op = LFI -> <<UserRegister, Immediate32>>
      [] op = RET -> <<>>

Fits(slot, operand) == operand.type = slot.type /\ operand.value <= slot.max

-----------------------------------------------------------------------------
(* Lowering *)

Make(op, operands, at) == [op |-> op, operands |-> operands, at |-> at]

LoadInstruction(op, r, v, at) == Make(op, <<RegisterOperand(r), ImmediateOperand(v)>>, at)

RegisterInstruction(op, a, b, c, at) ==
    Make(op, <<RegisterOperand(a), RegisterOperand(b), RegisterOperand(c)>>, at)

AppendMov(a, b, at) == <<RegisterInstruction(OR, a, b, b, at)>>

\* Mutant: the destination is used for the temporary register.
AppendNegInPlace(a, b, at) ==
    <<LoadInstruction(LI, a, 0, at), RegisterInstruction(SUB, a, a, b, at)>>

AppendNeg(a, b, at) ==
    <<LoadInstruction(LI, AssemblerTemp, 0, at), RegisterInstruction(SUB, a, AssemblerTemp, b, at)>>

\* Mutant: the lower half of the temporary register is left as it was.
AppendNotHalf(a, at) ==
    <<LoadInstruction(LUI, AssemblerTemp, HalfMod - 1, at),
      RegisterInstruction(XOR, a, a, AssemblerTemp, at)>>

AppendNot(a, at) ==
    <<LoadInstruction(LI, AssemblerTemp, HalfMod - 1, at),
      LoadInstruction(LUI, AssemblerTemp, HalfMod - 1, at),
      RegisterInstruction(XOR, a, a, AssemblerTemp, at)>>

AppendLfi(a, v, at) ==
    <<LoadInstruction(LI, a, v % HalfMod, at), LoadInstruction(LUI, a, v \div HalfMod, at)>>

AppendRet(at) == <<Make(AJMP, <<RegisterOperand(ReturnAddress)>>, at)>>

\* What the parser appends to the program for one instruction of the source.
Lowered(i) ==
    LET v(k) == i.operands[k].value
    IN  CASE i.op = MOV -> AppendMov(v(1), v(2), i.at)
          [] i.op = NEG -> AppendNeg(v(1), v(2), i.at)
          [] i.op = NOT -> AppendNot(v(1), i.at)
          [] i.op = LFI -> AppendLfi(v(1), v(2), i.at)
          [] i.op = RET -> AppendRet(i.at)
          [] OTHER -> <<i>>

-----------------------------------------------------------------------------
(* Encoding *)

\* Mutant: a byte immediate may be one too large.
RequirementOffByOne(slot, operand) ==
    /\ operand.type = slot.type
    /\ operand.type = NumberKind => operand.value < slot.max

\* requireRegister, requireStatusRegister, requireImmediate and requireImmediate8:
\* the encoder takes any register, so that it takes R31.
Requirement(slot, operand) ==
    /\ operand.type = slot.type
    /\ operand.type # RegisterKind => operand.value <= slot.max

\* encodeInstruction does not throw.
Encodable(i) ==
    /\ i.op \in Opcodes
    /\ Len(i.operands) = Len(Format(i.op))
    /\ \A k \in DOMAIN i.operands : Requirement(Format(i.op)[k], i.operands[k])

\* Mutant: a 16-bit immediate is not cut to its lower byte.
EncodedUncut(i) ==
    LET v == [k \in DOMAIN i.operands |-> i.operands[k].value]
    IN  CASE i.op \in RRR \union ByteImmediates -> <<i.op, v[1], v[2], v[3]>>
          [] i.op \in WordImmediates -> <<i.op, v[1], v[2], v[2] \div ByteMod>>
          [] i.op = RJMP -> <<i.op, 0, v[1], v[1] \div ByteMod>>
          [] i.op \in {SCRW, SCRR, ASPR} -> <<i.op, v[1], v[2], 0>>
          [] i.op \in RegisterJumps -> <<i.op, v[1], 0, 0>>

\* Mutant: the bytes of a 16-bit immediate are swapped.
EncodedBigEndian(i) ==
    LET v == [k \in DOMAIN i.operands |-> i.operands[k].value]
    IN  CASE i.op \in RRR \union ByteImmediates -> <<i.op, v[1], v[2], v[3]>>
          [] i.op \in WordImmediates -> <<i.op, v[1], v[2] \div ByteMod, v[2] % ByteMod>>
          [] i.op = RJMP -> <<i.op, 0, v[1] \div ByteMod, v[1] % ByteMod>>
          [] i.op \in {SCRW, SCRR, ASPR} -> <<i.op, v[1], v[2], 0>>
          [] i.op \in RegisterJumps -> <<i.op, v[1], 0, 0>>

\* The bytes of an encodable instruction, the lowest first.
Encoded(i) ==
    LET v == [k \in DOMAIN i.operands |-> i.operands[k].value]
    IN  CASE i.op \in RRR \union ByteImmediates -> <<i.op, v[1], v[2], v[3]>>
          [] i.op \in WordImmediates -> <<i.op, v[1], v[2] % ByteMod, v[2] \div ByteMod>>
          [] i.op = RJMP -> <<i.op, 0, v[1] % ByteMod, v[1] \div ByteMod>>
          [] i.op \in {SCRW, SCRR, ASPR} -> <<i.op, v[1], v[2], 0>>
          [] i.op \in RegisterJumps -> <<i.op, v[1], 0, 0>>
=============================================================================
