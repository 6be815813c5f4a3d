--------------------------- MODULE AssemblerProofs ---------------------------
(***************************************************************************)
(* What TLAPS proves about Assembler for every width of a byte and every   *)
(* set of sources of any length.                                           *)
(***************************************************************************)
EXTENDS Assembler, EmulatorProofs, SequenceTheorems, WellFoundedInduction

-----------------------------------------------------------------------------
(* The operands of operations *)

\* The kinds of operations have nothing in common.
LEMMA KindsOfOperations ==
    ASSUME NEW op \in Operations
    PROVE  /\ \/ op \in RRR \/ op \in ByteImmediates \/ op \in WordImmediates
              \/ op \in {SCRW, SCRR, ASPR, RJMP} \/ op \in RegisterJumps
              \/ op \in PseudoOperations
           /\ op \in RRR => op \notin WordImmediates
           /\ op \in ByteImmediates => op \notin WordImmediates \union RRR
           /\ op \in {SCRW, SCRR, ASPR, RJMP} =>
                  op \notin WordImmediates \union RRR \union ByteImmediates
           /\ op \in RegisterJumps =>
                  /\ op \notin WordImmediates \union RRR \union ByteImmediates
                  /\ op \notin {SCRW, SCRR, ASPR, RJMP}
           /\ op \in {MOV, NEG, NOT, LFI, RET} =>
                  /\ op \notin WordImmediates \union RRR \union ByteImmediates
                  /\ op \notin RegisterJumps \union {SCRW, SCRR, ASPR, RJMP}
                  /\ op \in PseudoOperations
           /\ op \in Opcodes <=> op \notin PseudoOperations
<1> USE DEF LI, LUI, ADD, SDIV, LDB, LDW, STB, STW, SXT, BSWAP, SCRW, SCRR, ASPI, ASPR,
            RJMP, BRZ, BRNZ, AJMP, CALL, EQ, SGE, MOV, NEG, NOT, LFI, RET,
            RRR, ByteImmediates, Loads, Stores, Conversions, WordImmediates, RegisterJumps,
            Opcodes, PseudoOperations, Operations
<1> QED
  OBVIOUS

\* An operation is of one kind only.
LEMMA OperationsDiffer ==
    /\ SCRW # SCRR /\ SCRW # ASPR /\ SCRR # ASPR
    /\ RJMP # SCRW /\ RJMP # SCRR /\ RJMP # ASPR
    /\ MOV # NEG /\ MOV # NOT /\ MOV # LFI /\ MOV # RET
    /\ NEG # NOT /\ NEG # LFI /\ NEG # RET
    /\ NOT # LFI /\ NOT # RET /\ LFI # RET
BY DEF SCRW, SCRR, ASPR, RJMP, MOV, NEG, NOT, LFI, RET

\* Every operation has one of twelve layouts.
LEMMA FormatOfOperation ==
    ASSUME NEW op \in Operations
    PROVE  /\ op \in RRR => Format(op) = <<UserRegister, UserRegister, UserRegister>>
           /\ op \in ByteImmediates => Format(op) = <<UserRegister, UserRegister, Immediate8>>
           /\ op \in WordImmediates => Format(op) = <<UserRegister, Immediate16>>
           /\ op = SCRW => Format(op) = <<StatusSlot, UserRegister>>
           /\ op = SCRR => Format(op) = <<UserRegister, StatusSlot>>
           /\ op \in {ASPR, MOV, NEG} => Format(op) = <<UserRegister, UserRegister>>
           /\ op = RJMP => Format(op) = <<Immediate16>>
           /\ op \in RegisterJumps => Format(op) = <<UserRegister>>
           /\ op = NOT => Format(op) = <<UserRegister>>
           /\ op = LFI => Format(op) = <<UserRegister, Immediate32>>
           /\ op = RET => Format(op) = <<>>
<1> USE KindsOfOperations, OperationsDiffer
<1>1. CASE op \in RRR
  BY <1>1 DEF Format
<1>2. CASE op \in ByteImmediates
  BY <1>2 DEF Format
<1>3. CASE op \in WordImmediates
  BY <1>3 DEF Format
<1>4. CASE op \in {SCRW, SCRR, ASPR, RJMP}
  BY <1>4 DEF Format
<1>5. CASE op \in RegisterJumps
  BY <1>5 DEF Format
<1>6. CASE op \in PseudoOperations
  BY <1>6 DEF Format, PseudoOperations
<1> QED
  BY <1>1, <1>2, <1>3, <1>4, <1>5, <1>6

\* A slot takes a register, a status register or a number, no line end.
LEMMA SlotsOfFormat ==
    ASSUME NEW op \in Operations
    PROVE  /\ Len(Format(op)) \in 0 .. 3
           /\ DOMAIN Format(op) = 1 .. Len(Format(op))
           /\ \A k \in 1 .. Len(Format(op)) :
                 Format(op)[k].type \in {RegisterKind, StatusKind, NumberKind}
<1>1. /\ UserRegister.type = RegisterKind /\ StatusSlot.type = StatusKind
      /\ Immediate8.type = NumberKind /\ Immediate16.type = NumberKind
      /\ Immediate32.type = NumberKind
  BY DEF UserRegister, StatusSlot, Immediate8, Immediate16, Immediate32, Slot
<1> QED
  BY <1>1, FormatOfOperation, KindsOfOperations DEF PseudoOperations

-----------------------------------------------------------------------------
(* Encoding *)

Kinds == {RegisterKind, StatusKind, NumberKind}

Operand == [type : Kinds, value : Nat]

MachineInstruction == [op : Opcodes, operands : Seq(Operand), at : Nat]

\* An instruction that the encoder accepts, all of whose registers exist.
WellFormed(i) ==
    /\ i \in MachineInstruction
    /\ Encodable(i)
    /\ \A k \in DOMAIN i.operands :
          i.operands[k].type = RegisterKind => i.operands[k].value \in Register

\* An instruction word that the emulator executes without "invalid" errors.
IsExecutable(w) ==
    /\ w.op \in Opcodes
    /\ RegistersOf(w) \subseteq Register
    /\ w.op = SCRW => w.a \in StatusRegister
    /\ w.op = SCRR => w.b \in StatusRegister

\* An instruction word that has the operation and the operands of i.
IsWordOf(w, i) ==
    LET v == [n \in DOMAIN i.operands |-> i.operands[n].value]
    IN  /\ w.op = i.op
        /\ v = CASE w.op \in WordImmediates -> <<w.a, w.imm>>
                 [] w.op = RJMP -> <<w.imm>>
                 [] w.op \in RRR \union ByteImmediates -> <<w.a, w.b, w.c>>
                 [] w.op \in RegisterJumps -> <<w.a>>
                 [] OTHER -> <<w.a, w.b>>

\* The positions of a sequence are those up to its length.
LEMMA ElementOfSequence ==
    ASSUME NEW S, NEW s \in Seq(S)
    PROVE  DOMAIN s = 1 .. Len(s) /\ Len(s) \in Nat /\ \A k \in DOMAIN s : s[k] \in S
OBVIOUS

\* A well-formed instruction has an operation with an opcode and as many operands.
LEMMA Shape ==
    ASSUME NEW i, WellFormed(i)
    PROVE  /\ i.op \in Opcodes /\ i.op \in Operations /\ i.at \in Nat
           /\ i.operands \in Seq(Operand)
           /\ Len(i.operands) = Len(Format(i.op))
           /\ DOMAIN i.operands = 1 .. Len(Format(i.op))
           /\ \A k \in DOMAIN i.operands : i.operands[k] \in Operand
<1>1. i \in MachineInstruction
  BY DEF WellFormed
<1>2. i.op \in Opcodes /\ i.at \in Nat /\ i.operands \in Seq(Operand)
  BY <1>1 DEF MachineInstruction
<1>3. Len(i.operands) = Len(Format(i.op))
  BY DEF WellFormed, Encodable
<1> QED
  BY <1>2, <1>3, ElementOfSequence DEF Operations

\* Registers, status registers and numbers are told apart by their type.
LEMMA KindsDiffer ==
    RegisterKind # StatusKind /\ RegisterKind # NumberKind /\ StatusKind # NumberKind
BY DEF RegisterKind, StatusKind, NumberKind

\* An operand that the encoder accepts is within the range of its slot.
LEMMA OperandFits ==
    ASSUME NEW i, WellFormed(i), NEW k \in DOMAIN i.operands
    PROVE  /\ i.operands[k].value \in Nat
           /\ Format(i.op)[k] = UserRegister =>
                 i.operands[k].value \in Register /\ i.operands[k].value \in Byte
           /\ Format(i.op)[k] = StatusSlot =>
                 i.operands[k].value \in StatusRegister /\ i.operands[k].value \in Byte
           /\ Format(i.op)[k] = Immediate8 => i.operands[k].value \in Byte
           /\ Format(i.op)[k] = Immediate16 => i.operands[k].value \in 0 .. HalfMod - 1
<1> DEFINE o == i.operands[k]
<1>1. o.value \in Nat
  <2>1. o \in Operand
    BY Shape
  <2> QED
    BY <2>1 DEF Operand
<1>2. Requirement(Format(i.op)[k], o)
  BY DEF WellFormed, Encodable
<1>3. o.type = RegisterKind => o.value \in Register
  BY DEF WellFormed
<1> HIDE DEF o
<1>4. ASSUME Format(i.op)[k] = UserRegister
      PROVE  o.value \in Register /\ o.value \in Byte
  <2>1. o.type = RegisterKind
    BY <1>2, <1>4 DEF Requirement, UserRegister, Slot
  <2> QED
    BY <1>3, <2>1, FieldsAssumption
<1>5. ASSUME Format(i.op)[k] = StatusSlot
      PROVE  o.value \in StatusRegister /\ o.value \in Byte
  <2>1. o.value <= 2
    BY <1>2, <1>5, KindsDiffer DEF Requirement, StatusSlot, Slot
  <2>2. o.value \in Register
    BY <1>1, <2>1 DEF Register
  <2> QED
    BY <1>1, <2>1, <2>2, FieldsAssumption DEF StatusRegister, Ip, SpTop, SpSize
<1>6. ASSUME Format(i.op)[k] = Immediate8
      PROVE  o.value \in Byte
  BY <1>1, <1>2, <1>6, Sizes, KindsDiffer DEF Requirement, Immediate8, Slot, Byte
<1>7. ASSUME Format(i.op)[k] = Immediate16
      PROVE  o.value \in 0 .. HalfMod - 1
  BY <1>1, <1>2, <1>7, Sizes, KindsDiffer DEF Requirement, Immediate16, Slot
<1> QED
  BY <1>1, <1>4, <1>5, <1>6, <1>7 DEF o

\* The two bytes of a half-word.
LEMMA HalfHasBytes ==
    ASSUME NEW h \in 0 .. HalfMod - 1
    PROVE  /\ h % ByteMod \in Byte /\ h \div ByteMod \in Byte
           /\ (h % ByteMod) + ByteMod * (h \div ByteMod) = h
<1> DEFINE r == h % ByteMod
           q == h \div ByteMod
<1>1. r \in 0 .. ByteMod - 1 /\ q \in Nat /\ h = ByteMod * q + r
  BY Sizes
<1>2. ByteMod * q < ByteMod * ByteMod
  BY <1>1, Sizes
<1>3. q < ByteMod
  <2> SUFFICES ASSUME q >= ByteMod PROVE FALSE
    BY <1>1, Sizes
  <2>1. ByteMod * q >= ByteMod * ByteMod
    BY <1>1, Sizes
  <2> QED
    BY <1>1, <1>2, <2>1, Sizes
<1> QED
  BY <1>1, <1>3, Sizes DEF Byte

\* The three fields behind the opcode are what the layout of the operation says.
LEMMA EncodedIsWord ==
    ASSUME NEW i, WellFormed(i)
    PROVE  /\ Encoded(i) \in Seq(Byte) /\ Len(Encoded(i)) = 4
           /\ IsExecutable(Decode(Encoded(i)))
           /\ IsWordOf(Decode(Encoded(i)), i)
<1> DEFINE v == [k \in DOMAIN i.operands |-> i.operands[k].value]
           w == Decode(Encoded(i))
<1>1. i.op \in Opcodes /\ i.op \in Operations
  BY Shape
<1>2. i.op \in Byte
  BY <1>1, FieldsAssumption
<1>3. 0 \in Byte
  BY Sizes DEF Byte
<1>4. DOMAIN v = 1 .. Len(Format(i.op))
  <2>1. DOMAIN v = DOMAIN i.operands
    OBVIOUS
  <2> QED
    BY <2>1, Shape
<1>5. i.op \notin {MOV, NEG, NOT, LFI, RET}
  BY <1>1, KindsOfOperations
<1> USE KindsOfOperations, OperationsDiffer
<1>6. CASE i.op \in RRR
  <2>1. Format(i.op) = <<UserRegister, UserRegister, UserRegister>>
    BY <1>1, <1>6, FormatOfOperation
  <2>2. v = <<v[1], v[2], v[3]>>
    BY <1>4, <2>1
  <2>3. {v[1], v[2], v[3]} \subseteq Register \intersect Byte
    BY <2>1, Shape, OperandFits
  <2>5. Encoded(i) = <<i.op, v[1], v[2], v[3]>>
    BY <1>1, <1>6 DEF Encoded
  <2> HIDE DEF v
  <2>6. Encoded(i) \in Seq(Byte) /\ Len(Encoded(i)) = 4
    BY <1>2, <1>3, <2>3, <2>5
  <2>7. w.op = i.op /\ w.a = v[1] /\ w.b = v[2] /\ w.c = v[3]
    BY <2>5 DEF Decode
  <2> HIDE DEF w
  <2>8. RegistersOf(w) = {w.a, w.b, w.c}
    BY <1>1, <1>5, <1>6, <2>7 DEF RegistersOf
  <2>9. IsExecutable(w)
    BY <1>1, <1>6, <2>3, <2>7, <2>8 DEF IsExecutable
  <2>10. IsWordOf(w, i)
    BY <1>1, <1>5, <1>6, <2>2, <2>7 DEF IsWordOf, v
  <2> QED
    BY <2>6, <2>9, <2>10 DEF w
<1>7. CASE i.op \in ByteImmediates
  <2>1. Format(i.op) = <<UserRegister, UserRegister, Immediate8>>
    BY <1>1, <1>7, FormatOfOperation
  <2>2. v = <<v[1], v[2], v[3]>>
    BY <1>4, <2>1
  <2>3. {v[1], v[2]} \subseteq Register \intersect Byte /\ v[3] \in Byte
    BY <2>1, Shape, OperandFits
  <2>5. Encoded(i) = <<i.op, v[1], v[2], v[3]>>
    BY <1>1, <1>7 DEF Encoded
  <2> HIDE DEF v
  <2>6. Encoded(i) \in Seq(Byte) /\ Len(Encoded(i)) = 4
    BY <1>2, <1>3, <2>3, <2>5
  <2>7. w.op = i.op /\ w.a = v[1] /\ w.b = v[2] /\ w.c = v[3]
    BY <2>5 DEF Decode
  <2> HIDE DEF w
  <2>8. RegistersOf(w) = {w.a, w.b}
    BY <1>1, <1>5, <1>7, <2>7 DEF RegistersOf
  <2>9. IsExecutable(w)
    BY <1>1, <1>7, <2>3, <2>7, <2>8 DEF IsExecutable
  <2>10. IsWordOf(w, i)
    BY <1>1, <1>5, <1>7, <2>2, <2>7 DEF IsWordOf, v
  <2> QED
    BY <2>6, <2>9, <2>10 DEF w
<1>8. CASE i.op \in WordImmediates
  <2>1. Format(i.op) = <<UserRegister, Immediate16>>
    BY <1>1, <1>8, FormatOfOperation
  <2>2. v = <<v[1], v[2]>>
    BY <1>4, <2>1
  <2>3. v[1] \in Register \intersect Byte /\ v[2] \in 0 .. HalfMod - 1
    BY <2>1, Shape, OperandFits
  <2>4. /\ v[2] % ByteMod \in Byte /\ v[2] \div ByteMod \in Byte
        /\ (v[2] % ByteMod) + ByteMod * (v[2] \div ByteMod) = v[2]
    BY <2>3, HalfHasBytes
  <2>5. Encoded(i) = <<i.op, v[1], v[2] % ByteMod, v[2] \div ByteMod>>
    BY <1>1, <1>8 DEF Encoded
  <2> HIDE DEF v
  <2>6. Encoded(i) \in Seq(Byte) /\ Len(Encoded(i)) = 4
    BY <1>2, <1>3, <2>3, <2>5, <2>4
  <2>7. w.op = i.op /\ w.a = v[1] /\ w.imm = v[2]
    BY <2>5, <2>4 DEF Decode
  <2> HIDE DEF w
  <2>8. RegistersOf(w) = {w.a}
    BY <1>1, <1>5, <1>8, <2>7 DEF RegistersOf
  <2>9. IsExecutable(w)
    BY <1>1, <1>8, <2>3, <2>7, <2>8 DEF IsExecutable
  <2>10. IsWordOf(w, i)
    BY <1>1, <1>5, <1>8, <2>2, <2>7 DEF IsWordOf, v
  <2> QED
    BY <2>6, <2>9, <2>10 DEF w
<1>9. CASE i.op = SCRW
  <2>1. Format(i.op) = <<StatusSlot, UserRegister>>
    BY <1>1, <1>9, FormatOfOperation
  <2>2. v = <<v[1], v[2]>>
    BY <1>4, <2>1
  <2>3. v[1] \in StatusRegister \intersect Byte /\ v[2] \in Register \intersect Byte
    BY <2>1, Shape, OperandFits
  <2>5. Encoded(i) = <<i.op, v[1], v[2], 0>>
    BY <1>1, <1>9 DEF Encoded
  <2> HIDE DEF v
  <2>6. Encoded(i) \in Seq(Byte) /\ Len(Encoded(i)) = 4
    BY <1>2, <1>3, <2>3, <2>5
  <2>7. w.op = i.op /\ w.a = v[1] /\ w.b = v[2] /\ w.c = 0
    BY <2>5 DEF Decode
  <2> HIDE DEF w
  <2>8. RegistersOf(w) = {w.b}
    BY <1>1, <1>5, <1>9, <2>7 DEF RegistersOf
  <2>9. IsExecutable(w)
    BY <1>1, <1>9, <2>3, <2>7, <2>8 DEF IsExecutable
  <2>10. IsWordOf(w, i)
    BY <1>1, <1>5, <1>9, <2>2, <2>7 DEF IsWordOf, v
  <2> QED
    BY <2>6, <2>9, <2>10 DEF w
<1>10. CASE i.op = SCRR
  <2>1. Format(i.op) = <<UserRegister, StatusSlot>>
    BY <1>1, <1>10, FormatOfOperation
  <2>2. v = <<v[1], v[2]>>
    BY <1>4, <2>1
  <2>3. v[1] \in Register \intersect Byte /\ v[2] \in StatusRegister \intersect Byte
    BY <2>1, Shape, OperandFits
  <2>5. Encoded(i) = <<i.op, v[1], v[2], 0>>
    BY <1>1, <1>10 DEF Encoded
  <2> HIDE DEF v
  <2>6. Encoded(i) \in Seq(Byte) /\ Len(Encoded(i)) = 4
    BY <1>2, <1>3, <2>3, <2>5
  <2>7. w.op = i.op /\ w.a = v[1] /\ w.b = v[2] /\ w.c = 0
    BY <2>5 DEF Decode
  <2> HIDE DEF w
  <2>8. RegistersOf(w) = {w.a}
    BY <1>1, <1>5, <1>10, <2>7 DEF RegistersOf
  <2>9. IsExecutable(w)
    BY <1>1, <1>10, <2>3, <2>7, <2>8 DEF IsExecutable
  <2>10. IsWordOf(w, i)
    BY <1>1, <1>5, <1>10, <2>2, <2>7 DEF IsWordOf, v
  <2> QED
    BY <2>6, <2>9, <2>10 DEF w
<1>11. CASE i.op = ASPR
  <2>1. Format(i.op) = <<UserRegister, UserRegister>>
    BY <1>1, <1>11, FormatOfOperation
  <2>2. v = <<v[1], v[2]>>
    BY <1>4, <2>1
  <2>3. {v[1], v[2]} \subseteq Register \intersect Byte
    BY <2>1, Shape, OperandFits
  <2>5. Encoded(i) = <<i.op, v[1], v[2], 0>>
    BY <1>1, <1>11 DEF Encoded
  <2> HIDE DEF v
  <2>6. Encoded(i) \in Seq(Byte) /\ Len(Encoded(i)) = 4
    BY <1>2, <1>3, <2>3, <2>5
  <2>7. w.op = i.op /\ w.a = v[1] /\ w.b = v[2] /\ w.c = 0
    BY <2>5 DEF Decode
  <2> HIDE DEF w
  <2>8. RegistersOf(w) = {w.a, w.b}
    BY <1>1, <1>5, <1>11, <2>7 DEF RegistersOf
  <2>9. IsExecutable(w)
    BY <1>1, <1>11, <2>3, <2>7, <2>8 DEF IsExecutable
  <2>10. IsWordOf(w, i)
    BY <1>1, <1>5, <1>11, <2>2, <2>7 DEF IsWordOf, v
  <2> QED
    BY <2>6, <2>9, <2>10 DEF w
<1>12. CASE i.op = RJMP
  <2>1. Format(i.op) = <<Immediate16>>
    BY <1>1, <1>12, FormatOfOperation
  <2>2. v = <<v[1]>>
    BY <1>4, <2>1
  <2>3. v[1] \in 0 .. HalfMod - 1
    BY <2>1, Shape, OperandFits
  <2>4. /\ v[1] % ByteMod \in Byte /\ v[1] \div ByteMod \in Byte
        /\ (v[1] % ByteMod) + ByteMod * (v[1] \div ByteMod) = v[1]
    BY <2>3, HalfHasBytes
  <2>5. Encoded(i) = <<i.op, 0, v[1] % ByteMod, v[1] \div ByteMod>>
    BY <1>1, <1>12 DEF Encoded
  <2> HIDE DEF v
  <2>6. Encoded(i) \in Seq(Byte) /\ Len(Encoded(i)) = 4
    BY <1>2, <1>3, <2>3, <2>5, <2>4
  <2>7. w.op = i.op /\ w.a = 0 /\ w.imm = v[1]
    BY <2>5, <2>4 DEF Decode
  <2> HIDE DEF w
  <2>8. RegistersOf(w) = {}
    BY <1>1, <1>5, <1>12, <2>7 DEF RegistersOf
  <2>9. IsExecutable(w)
    BY <1>1, <1>12, <2>3, <2>7, <2>8 DEF IsExecutable
  <2>10. IsWordOf(w, i)
    BY <1>1, <1>5, <1>12, <2>2, <2>7 DEF IsWordOf, v
  <2> QED
    BY <2>6, <2>9, <2>10 DEF w
<1>13. CASE i.op \in RegisterJumps
  <2>1. Format(i.op) = <<UserRegister>>
    BY <1>1, <1>13, FormatOfOperation
  <2>2. v = <<v[1]>>
    BY <1>4, <2>1
  <2>3. v[1] \in Register \intersect Byte
    BY <2>1, Shape, OperandFits
  <2>5. Encoded(i) = <<i.op, v[1], 0, 0>>
    BY <1>1, <1>13 DEF Encoded
  <2> HIDE DEF v
  <2>6. Encoded(i) \in Seq(Byte) /\ Len(Encoded(i)) = 4
    BY <1>2, <1>3, <2>3, <2>5
  <2>7. w.op = i.op /\ w.a = v[1] /\ w.b = 0 /\ w.c = 0
    BY <2>5 DEF Decode
  <2> HIDE DEF w
  <2>8. RegistersOf(w) = {w.a}
    BY <1>1, <1>5, <1>13, <2>7 DEF RegistersOf
  <2>9. IsExecutable(w)
    BY <1>1, <1>13, <2>3, <2>7, <2>8 DEF IsExecutable
  <2>10. IsWordOf(w, i)
    BY <1>1, <1>5, <1>13, <2>2, <2>7 DEF IsWordOf, v
  <2> QED
    BY <2>6, <2>9, <2>10 DEF w
<1> QED
  BY <1>1, <1>6, <1>7, <1>8, <1>9, <1>10, <1>11, <1>12, <1>13 DEF PseudoOperations

-----------------------------------------------------------------------------
(* Lowering *)

\* Operands that the parser accepts for op.
Accepted(op, operands) ==
    /\ operands \in Seq(Operand)
    /\ Len(operands) = Len(Format(op))
    /\ \A k \in DOMAIN operands : Fits(Format(op)[k], operands[k])

UsesTemp(o) == o = RegisterOperand(AssemblerTemp)

\* An instruction of registers only is encoded without an error.
LEMMA RegisterInstructionIsWellFormed ==
    ASSUME NEW op \in RRR, NEW a \in Register, NEW b \in Register, NEW c \in Register,
           NEW at \in Nat
    PROVE  WellFormed(RegisterInstruction(op, a, b, c, at))
<1> DEFINE i == RegisterInstruction(op, a, b, c, at)
           o == <<RegisterOperand(a), RegisterOperand(b), RegisterOperand(c)>>
<1>1. i = [op |-> op, operands |-> o, at |-> at]
  BY DEF RegisterInstruction, Make
<1>2. op \in Opcodes /\ op \in Operations
  BY DEF Opcodes, Operations
<1>3. Format(op) = <<UserRegister, UserRegister, UserRegister>>
  BY <1>2, FormatOfOperation
<1>4. \A r \in Register : /\ RegisterOperand(r) \in Operand
                          /\ RegisterOperand(r).type = RegisterKind
                          /\ RegisterOperand(r).value = r
  BY DEF RegisterOperand, Operand, Kinds, Register, AssemblerTemp
<1> DEFINE x == RegisterOperand(a)
           y == RegisterOperand(b)
           z == RegisterOperand(c)
<1>5. o = <<x, y, z>> /\ {x, y, z} \subseteq Operand
  BY <1>4
<1>6. \A t \in {x, y, z} :
        t.type = RegisterKind /\ t.value \in Register /\ Requirement(UserRegister, t)
  BY <1>4 DEF Requirement, UserRegister, Slot
<1> HIDE DEF x, y, z, o, i
<1>7. o \in Seq(Operand) /\ Len(o) = 3 /\ DOMAIN o = 1 .. 3
  BY <1>5
<1>8. i \in MachineInstruction
  BY <1>1, <1>2, <1>7 DEF MachineInstruction
<1>9. \A k \in 1 .. 3 : o[k] \in {x, y, z} /\ Format(op)[k] = UserRegister
  BY <1>3, <1>5
<1>10. i.op = op /\ i.operands = o
  BY <1>1
<1>11. Encodable(i)
  BY <1>2, <1>3, <1>6, <1>7, <1>9, <1>10 DEF Encodable
<1> QED
  BY <1>6, <1>7, <1>8, <1>9, <1>10, <1>11 DEF WellFormed, i

\* A load of an immediate of 16 bits is encoded without an error.
LEMMA LoadInstructionIsWellFormed ==
    ASSUME NEW op \in {LI, LUI}, NEW r \in Register, NEW v \in 0 .. HalfMod - 1,
           NEW at \in Nat
    PROVE  WellFormed(LoadInstruction(op, r, v, at))
<1> DEFINE i == LoadInstruction(op, r, v, at)
           x == RegisterOperand(r)
           y == ImmediateOperand(v)
<1>1. i = [op |-> op, operands |-> <<x, y>>, at |-> at]
  BY DEF LoadInstruction, Make
<1>2. op \in Opcodes /\ op \in Operations /\ op \in WordImmediates
  BY DEF Opcodes, Operations, WordImmediates
<1>3. Format(op) = <<UserRegister, Immediate16>>
  BY <1>2, FormatOfOperation
<1>4. x \in Operand /\ x.type = RegisterKind /\ x.value \in Register
  BY DEF RegisterOperand, Operand, Kinds, Register, AssemblerTemp
<1>5. y \in Operand /\ y.type = NumberKind /\ y.value = v
  BY Sizes DEF ImmediateOperand, Operand, Kinds
<1>6. Requirement(UserRegister, x)
  BY <1>4 DEF Requirement, UserRegister, Slot
<1>7. Requirement(Immediate16, y)
  BY <1>5, Sizes DEF Requirement, Immediate16, Slot
<1> HIDE DEF x, y, i
<1>8. <<x, y>> \in Seq(Operand)
  BY <1>4, <1>5
<1>9. i \in MachineInstruction
  BY <1>1, <1>2, <1>8 DEF MachineInstruction
<1>10. i.op = op /\ i.operands = <<x, y>>
  BY <1>1
<1>11. Encodable(i)
  BY <1>2, <1>3, <1>6, <1>7, <1>10 DEF Encodable
<1>12. \A k \in DOMAIN i.operands :
         i.operands[k].type = RegisterKind => i.operands[k].value \in Register
  BY <1>4, <1>5, <1>10, KindsDiffer
<1> QED
  BY <1>9, <1>11, <1>12 DEF WellFormed, i

\* The jump that RET becomes is encoded without an error.
LEMMA ReturnIsWellFormed ==
    ASSUME NEW at \in Nat
    PROVE  WellFormed(Make(AJMP, <<RegisterOperand(ReturnAddress)>>, at))
<1> DEFINE x == RegisterOperand(ReturnAddress)
           i == Make(AJMP, <<x>>, at)
<1>1. i = [op |-> AJMP, operands |-> <<x>>, at |-> at]
  BY DEF Make
<1>2. AJMP \in Opcodes /\ AJMP \in Operations /\ AJMP \in RegisterJumps
  BY DEF Opcodes, Operations, RegisterJumps, AJMP, RJMP, CALL
<1>3. Format(AJMP) = <<UserRegister>>
  BY <1>2, FormatOfOperation
<1>4. x \in Operand /\ x.type = RegisterKind /\ x.value \in Register
  BY DEF RegisterOperand, Operand, Kinds, Register, ReturnAddress
<1>5. Requirement(UserRegister, x)
  BY <1>4 DEF Requirement, UserRegister, Slot
<1> HIDE DEF x, i
<1>6. <<x>> \in Seq(Operand)
  BY <1>4
<1>7. i \in MachineInstruction
  BY <1>1, <1>2, <1>6 DEF MachineInstruction
<1>8. i.op = AJMP /\ i.operands = <<x>>
  BY <1>1
<1>9. Encodable(i)
  BY <1>2, <1>3, <1>5, <1>8 DEF Encodable
<1> QED
  BY <1>4, <1>7, <1>8, <1>9 DEF WellFormed, i, x

\* An operand of the source: registers end with R15.
LEMMA SourceOperand ==
    ASSUME NEW op \in Operations, NEW operands, Accepted(op, operands),
           NEW k \in DOMAIN operands
    PROVE  /\ operands[k] \in Operand
           /\ Requirement(Format(op)[k], operands[k])
           /\ operands[k].type = RegisterKind =>
                 operands[k].value \in Register /\ operands[k].value # AssemblerTemp
           /\ ~UsesTemp(operands[k])
<1> DEFINE o == operands[k]
           slot == Format(op)[k]
<1>1. o \in Operand /\ Fits(slot, o)
  BY ElementOfSequence DEF Accepted
<1>2. k \in 1 .. Len(Format(op))
  BY ElementOfSequence DEF Accepted
<1>3. slot \in {UserRegister, StatusSlot, Immediate8, Immediate16, Immediate32}
  BY <1>2, FormatOfOperation, KindsOfOperations DEF PseudoOperations
<1> HIDE DEF o, slot
<1>4. o.type = slot.type /\ o.value <= slot.max /\ o.value \in Nat
  BY <1>1 DEF Fits, Operand
<1>5. slot.type = RegisterKind => slot = UserRegister
  BY <1>3, KindsDiffer DEF StatusSlot, Immediate8, Immediate16, Immediate32, Slot
<1>6. o.type = RegisterKind => o.value \in 0 .. 15
  BY <1>4, <1>5 DEF UserRegister, Slot
<1>7. o.type = RegisterKind => o.value \in Register /\ o.value # AssemblerTemp
  BY <1>6 DEF Register, AssemblerTemp
<1>8. UsesTemp(o) => o.type = RegisterKind /\ o.value = AssemblerTemp
  BY DEF UsesTemp, RegisterOperand
<1>9. Requirement(slot, o)
  BY <1>4 DEF Requirement
<1> QED
  BY <1>1, <1>7, <1>8, <1>9 DEF o, slot

\* What an instruction with an opcode is lowered to: itself.
LEMMA SourceInstructionIsWellFormed ==
    ASSUME NEW op \in Opcodes, NEW operands, Accepted(op, operands), NEW at \in Nat
    PROVE  /\ WellFormed(Make(op, operands, at))
           /\ ~ReadsTemp(Make(op, operands, at))
<1> DEFINE i == Make(op, operands, at)
<1>1. i = [op |-> op, operands |-> operands, at |-> at]
  BY DEF Make
<1>2. op \in Operations
  BY DEF Operations
<1>3. operands \in Seq(Operand) /\ Len(operands) = Len(Format(op))
  BY DEF Accepted
<1> HIDE DEF i
<1>4. i.op = op /\ i.operands = operands /\ i \in MachineInstruction
  BY <1>1, <1>3 DEF MachineInstruction
<1>5. Encodable(i)
  BY <1>2, <1>3, <1>4, SourceOperand DEF Encodable
<1>6. WellFormed(i)
  BY <1>2, <1>4, <1>5, SourceOperand DEF WellFormed
<1>7. \A k \in DOMAIN operands : operands[k] # RegisterOperand(AssemblerTemp)
  BY <1>2, SourceOperand DEF UsesTemp
<1>8. ASSUME op = LUI PROVE operands[1].value # AssemblerTemp
  <2>1. LUI \in WordImmediates
    BY DEF WordImmediates
  <2>2. Format(op) = <<UserRegister, Immediate16>>
    BY <1>2, <1>8, <2>1, FormatOfOperation
  <2>3. 1 \in DOMAIN operands
    BY <1>3, <2>2, ElementOfSequence
  <2>4. operands[1].type = RegisterKind
    BY <1>2, <2>2, <2>3, SourceOperand DEF Requirement, UserRegister, Slot
  <2> QED
    BY <1>2, <2>3, <2>4, SourceOperand
<1>9. ~ReadsTemp(i)
  BY <1>4, <1>7, <1>8 DEF ReadsTemp
<1> QED
  BY <1>6, <1>9 DEF i

\* Every instruction of a sequence is of one line and well formed, and reads R31 only
\* after an LI of R31.
GoodLowering(lowered, at) ==
    /\ lowered \in Seq(MachineInstruction)
    /\ \A k \in DOMAIN lowered :
          /\ WellFormed(lowered[k]) /\ lowered[k].at = at
          /\ ReadsTemp(lowered[k]) =>
                \E j \in 1 .. k - 1 :
                    /\ lowered[j].op = LI
                    /\ lowered[j].operands[1] = RegisterOperand(AssemblerTemp)

\* An instruction of registers reads R31 only as its second or third operand.
LEMMA RegisterInstructionReads ==
    ASSUME NEW op \in RRR, NEW a \in Register, NEW b \in Register, NEW c \in Register,
           NEW at \in Nat
    PROVE  /\ RegisterInstruction(op, a, b, c, at).at = at
           /\ ReadsTemp(RegisterInstruction(op, a, b, c, at)) =>
                 b = AssemblerTemp \/ c = AssemblerTemp
<1> DEFINE i == RegisterInstruction(op, a, b, c, at)
           o == <<RegisterOperand(a), RegisterOperand(b), RegisterOperand(c)>>
<1>1. i.op = op /\ i.operands = o /\ i.at = at
  BY DEF RegisterInstruction, Make
<1>2. op # LUI /\ op \notin Stores \union Branches \union RegisterJumps
  BY DEF RRR, Stores, Branches, RegisterJumps, LUI, ADD, SDIV, EQ, SGE, STB, STW,
         BRZ, BRNZ, AJMP, CALL
<1>3. \A r \in Register : RegisterOperand(r) = RegisterOperand(AssemblerTemp) =>
                            r = AssemblerTemp
  <2>1. \A r : RegisterOperand(r).value = r
    BY DEF RegisterOperand
  <2> QED
    BY <2>1
<1>4. DOMAIN o = 1 .. 3 /\ o[2] = RegisterOperand(b) /\ o[3] = RegisterOperand(c)
  OBVIOUS
<1> HIDE DEF o, i
<1>5. ASSUME ReadsTemp(i) PROVE b = AssemblerTemp \/ c = AssemblerTemp
  <2>1. PICK n \in 1 .. 3 : n > 1 /\ o[n] = RegisterOperand(AssemblerTemp)
    BY <1>1, <1>2, <1>4, <1>5 DEF ReadsTemp
  <2> QED
    BY <1>3, <1>4, <2>1
<1> QED
  BY <1>1, <1>5 DEF i

\* Of the loads only LUI reads the register it loads.
LEMMA LoadInstructionReads ==
    ASSUME NEW op \in {LI, LUI}, NEW r \in Register, NEW v, NEW at \in Nat
    PROVE  LET i == LoadInstruction(op, r, v, at)
           IN  /\ i.at = at /\ i.op = op /\ i.operands[1] = RegisterOperand(r)
               /\ ReadsTemp(i) => op = LUI /\ r = AssemblerTemp
<1> DEFINE i == LoadInstruction(op, r, v, at)
           o == <<RegisterOperand(r), ImmediateOperand(v)>>
<1>1. i.op = op /\ i.operands = o /\ i.at = at
  BY DEF LoadInstruction, Make
<1>2. op \notin Stores \union Branches \union RegisterJumps
  BY DEF Stores, Branches, RegisterJumps, LI, LUI, STB, STW, BRZ, BRNZ, AJMP, CALL
<1>3. DOMAIN o = 1 .. 2 /\ o[1] = RegisterOperand(r) /\ o[2] = ImmediateOperand(v)
  OBVIOUS
<1>4. ImmediateOperand(v) # RegisterOperand(AssemblerTemp)
  <2>1. /\ ImmediateOperand(v).type = NumberKind
        /\ RegisterOperand(AssemblerTemp).type = RegisterKind
    BY DEF ImmediateOperand, RegisterOperand
  <2> QED
    BY <2>1, KindsDiffer
<1>5. RegisterOperand(r).value = r
  BY DEF RegisterOperand
<1> HIDE DEF o, i
<1>6. ASSUME ReadsTemp(i) PROVE op = LUI /\ r = AssemblerTemp
  <2>1. CASE i.op = LUI /\ i.operands[1].value = AssemblerTemp
    BY <1>1, <1>3, <1>5, <2>1
  <2>2. CASE \E n \in DOMAIN i.operands :
               /\ n > 1 \/ i.op \in Stores \union Branches \union RegisterJumps
               /\ i.operands[n] = RegisterOperand(AssemblerTemp)
    <3>1. PICK n \in 1 .. 2 : n > 1 /\ o[n] = RegisterOperand(AssemblerTemp)
      BY <1>1, <1>2, <1>3, <2>2
    <3> QED
      BY <1>3, <1>4, <3>1
  <2> QED
    BY <1>6, <2>1, <2>2 DEF ReadsTemp
<1> QED
  BY <1>1, <1>3, <1>6 DEF i

\* RET does not use R31.
LEMMA ReturnReads ==
    ASSUME NEW at \in Nat
    PROVE  LET i == Make(AJMP, <<RegisterOperand(ReturnAddress)>>, at)
           IN  i.at = at /\ ~ReadsTemp(i)
<1> DEFINE o == <<RegisterOperand(ReturnAddress)>>
           i == Make(AJMP, o, at)
<1>1. i.op = AJMP /\ i.operands = o /\ i.at = at
  BY DEF Make
<1>2. AJMP # LUI
  BY DEF AJMP, LUI
<1>3. RegisterOperand(ReturnAddress) # RegisterOperand(AssemblerTemp)
  <2>1. \A r : RegisterOperand(r).value = r
    BY DEF RegisterOperand
  <2> QED
    BY <2>1 DEF ReturnAddress, AssemblerTemp
<1>4. \A n \in DOMAIN o : o[n] = RegisterOperand(ReturnAddress)
  OBVIOUS
<1> HIDE DEF o, i
<1>5. ~ReadsTemp(i)
  BY <1>1, <1>2, <1>3, <1>4 DEF ReadsTemp
<1> QED
  BY <1>1, <1>5 DEF i, o

\* The halves of a 32-bit immediate are 16-bit immediates.
LEMMA WordHasHalves ==
    ASSUME NEW w \in Nat, w <= WordMod - 1
    PROVE  w % HalfMod \in 0 .. HalfMod - 1 /\ w \div HalfMod \in 0 .. HalfMod - 1
<1> DEFINE r == w % HalfMod
           q == w \div HalfMod
<1>1. r \in 0 .. HalfMod - 1 /\ q \in Nat /\ w = HalfMod * q + r
  BY Sizes
<1>2. HalfMod * q < HalfMod * HalfMod
  BY <1>1, Sizes
<1>3. q < HalfMod
  <2> SUFFICES ASSUME q >= HalfMod PROVE FALSE
    BY <1>1, Sizes
  <2>1. HalfMod * q >= HalfMod * HalfMod
    BY <1>1, Sizes
  <2> QED
    BY <1>1, <1>2, <2>1, Sizes
<1> QED
  BY <1>1, <1>3, Sizes

\* What is encoded without an error is an instruction.
LEMMA GoodInstructionIsInstruction ==
    ASSUME NEW i, WellFormed(i)
    PROVE  i \in MachineInstruction
BY DEF WellFormed

\* A line that becomes one instruction, which does not read R31, is lowered well.
LEMMA OneIsGood ==
    ASSUME NEW at, NEW x, WellFormed(x), x.at = at, ~ReadsTemp(x)
    PROVE  GoodLowering(<<x>>, at)
<1>1. x \in MachineInstruction
  BY GoodInstructionIsInstruction
<1>2. <<x>> \in Seq(MachineInstruction)
  BY <1>1
<1>3. \A k \in DOMAIN <<x>> : <<x>>[k] = x
  OBVIOUS
<1> QED
  BY <1>2, <1>3 DEF GoodLowering

\* A line that becomes two instructions, the first of which sets R31, is lowered well.
LEMMA TwoAreGood ==
    ASSUME NEW at, NEW x, WellFormed(x), x.at = at, ~ReadsTemp(x),
           NEW y, WellFormed(y), y.at = at,
           ReadsTemp(y) => x.op = LI /\ x.operands[1] = RegisterOperand(AssemblerTemp)
    PROVE  GoodLowering(<<x, y>>, at)
<1> DEFINE s == <<x, y>>
<1>1. x \in MachineInstruction /\ y \in MachineInstruction
  BY GoodInstructionIsInstruction
<1>2. s \in Seq(MachineInstruction)
  BY <1>1
<1>3. s[1] = x /\ s[2] = y /\ DOMAIN s = 1 .. 2
  OBVIOUS
<1> HIDE DEF s
<1>4. \A k \in DOMAIN s : k = 1 \/ (k = 2 /\ 1 \in 1 .. k - 1)
  BY <1>3
<1> QED
  BY <1>2, <1>3, <1>4 DEF GoodLowering, s

\* A line that becomes three instructions, the first of which sets R31, is lowered well.
LEMMA ThreeAreGood ==
    ASSUME NEW at, NEW x, WellFormed(x), x.at = at, ~ReadsTemp(x),
           x.op = LI, x.operands[1] = RegisterOperand(AssemblerTemp),
           NEW y, WellFormed(y), y.at = at, NEW z, WellFormed(z), z.at = at
    PROVE  GoodLowering(<<x, y, z>>, at)
<1> DEFINE s == <<x, y, z>>
<1>1. x \in MachineInstruction /\ y \in MachineInstruction /\ z \in MachineInstruction
  BY GoodInstructionIsInstruction
<1>2. s \in Seq(MachineInstruction)
  BY <1>1
<1>3. s[1] = x /\ s[2] = y /\ s[3] = z /\ DOMAIN s = 1 .. 3
  OBVIOUS
<1> HIDE DEF s
<1>4. \A k \in DOMAIN s :
        \/ k = 1 /\ s[k] = x
        \/ k # 1 /\ 1 \in 1 .. k - 1 /\ WellFormed(s[k]) /\ s[k].at = at
  BY <1>3
<1> QED
  BY <1>2, <1>3, <1>4 DEF GoodLowering, s

\* Every accepted line is lowered to instructions that the encoder accepts,
\* and that read R31 only behind an instruction of the line that sets it.
LEMMA LoweredIsGood ==
    ASSUME NEW op \in Operations, NEW operands, Accepted(op, operands), NEW at \in Nat
    PROVE  GoodLowering(Lowered(Make(op, operands, at)), at)
<1> DEFINE i == Make(op, operands, at)
           v(k) == operands[k].value
           half == HalfMod - 1
<1>1. i.op = op /\ i.operands = operands /\ i.at = at
  BY DEF Make
<1>2. DOMAIN operands = 1 .. Len(Format(op))
  BY ElementOfSequence DEF Accepted
<1>3. \A k \in DOMAIN operands :
        Format(op)[k] = UserRegister => v(k) \in Register /\ v(k) # AssemblerTemp
  BY SourceOperand DEF Requirement, UserRegister, Slot
<1>4. /\ OR \in RRR /\ SUB \in RRR /\ XOR \in RRR /\ AssemblerTemp \in Register
      /\ half \in 0 .. HalfMod - 1 /\ 0 \in 0 .. HalfMod - 1
  BY Sizes DEF OR, SUB, XOR, RRR, ADD, SDIV, EQ, SGE, Register, AssemblerTemp
<1>r. \A o \in RRR, a, b, c \in Register :
        /\ WellFormed(RegisterInstruction(o, a, b, c, at))
        /\ RegisterInstruction(o, a, b, c, at).at = at
        /\ b # AssemblerTemp /\ c # AssemblerTemp =>
              ~ReadsTemp(RegisterInstruction(o, a, b, c, at))
  <2> SUFFICES ASSUME NEW o \in RRR, NEW a \in Register, NEW b \in Register,
                      NEW c \in Register
               PROVE  /\ WellFormed(RegisterInstruction(o, a, b, c, at))
                      /\ RegisterInstruction(o, a, b, c, at).at = at
                      /\ b # AssemblerTemp /\ c # AssemblerTemp =>
                            ~ReadsTemp(RegisterInstruction(o, a, b, c, at))
    OBVIOUS
  <2>1. WellFormed(RegisterInstruction(o, a, b, c, at))
    BY RegisterInstructionIsWellFormed
  <2> QED
    BY <2>1, RegisterInstructionReads
<1> HIDE DEF i
<1> USE KindsOfOperations, OperationsDiffer
<1>5. CASE op \in Opcodes
  <2>1. Lowered(i) = <<i>>
    BY <1>1, <1>5 DEF Lowered
  <2>2. WellFormed(i) /\ ~ReadsTemp(i)
    BY <1>5, SourceInstructionIsWellFormed DEF i
  <2> QED
    BY <1>1, <2>1, <2>2, OneIsGood DEF i
<1>6. CASE op = MOV
  <2> DEFINE x == RegisterInstruction(OR, v(1), v(2), v(2), at)
  <2>1. Lowered(i) = <<x>>
    BY <1>1, <1>6 DEF Lowered, AppendMov
  <2>2. v(1) \in Register /\ v(2) \in Register /\ v(2) # AssemblerTemp
    BY <1>2, <1>3, <1>6, FormatOfOperation
  <2> HIDE DEF v
  <2>3. WellFormed(x) /\ x.at = at /\ ~ReadsTemp(x)
    BY <1>r, <1>4, <2>2
  <2> QED
    BY <2>1, <2>3, OneIsGood DEF i
<1>7. CASE op = NEG
  <2> DEFINE x == LoadInstruction(LI, AssemblerTemp, 0, at)
             y == RegisterInstruction(SUB, v(1), AssemblerTemp, v(2), at)
  <2>1. Lowered(i) = <<x, y>>
    BY <1>1, <1>7 DEF Lowered, AppendNeg
  <2>2. v(1) \in Register /\ v(2) \in Register
    BY <1>2, <1>3, <1>7, FormatOfOperation
  <2>3. /\ WellFormed(x) /\ x.at = at /\ x.op = LI
        /\ x.operands[1] = RegisterOperand(AssemblerTemp)
        /\ ~ReadsTemp(x)
    BY <1>4, LoadInstructionIsWellFormed, LoadInstructionReads DEF LI, LUI
  <2> HIDE DEF v
  <2>4. WellFormed(y) /\ y.at = at
    BY <1>r, <1>4, <2>2
  <2> QED
    BY <2>1, <2>3, <2>4, TwoAreGood DEF i
<1>8. CASE op = NOT
  <2> DEFINE x == LoadInstruction(LI, AssemblerTemp, half, at)
             y == LoadInstruction(LUI, AssemblerTemp, half, at)
             z == RegisterInstruction(XOR, v(1), v(1), AssemblerTemp, at)
  <2>1. Lowered(i) = <<x, y, z>>
    BY <1>1, <1>8 DEF Lowered, AppendNot
  <2>2. v(1) \in Register
    BY <1>2, <1>3, <1>8, FormatOfOperation
  <2>3. /\ WellFormed(x) /\ x.at = at /\ x.op = LI
        /\ x.operands[1] = RegisterOperand(AssemblerTemp)
        /\ ~ReadsTemp(x)
    BY <1>4, LoadInstructionIsWellFormed, LoadInstructionReads DEF LI, LUI
  <2>4. WellFormed(y) /\ y.at = at
    BY <1>4, LoadInstructionIsWellFormed, LoadInstructionReads
  <2>5. WellFormed(z) /\ z.at = at
    BY <1>r, <1>4, <2>2
  <2> HIDE DEF x, y, z
  <2> QED
    BY <2>1, <2>3, <2>4, <2>5, ThreeAreGood DEF i
<1>9. CASE op = LFI
  <2> DEFINE x == LoadInstruction(LI, v(1), v(2) % HalfMod, at)
             y == LoadInstruction(LUI, v(1), v(2) \div HalfMod, at)
  <2>1. Lowered(i) = <<x, y>>
    BY <1>1, <1>9 DEF Lowered, AppendLfi
  <2>2. Format(op) = <<UserRegister, Immediate32>>
    BY <1>9, FormatOfOperation
  <2>3. v(1) \in Register /\ v(1) # AssemblerTemp
    BY <1>2, <1>3, <2>2
  <2>4. v(2) \in Nat /\ v(2) <= WordMod - 1
    <3>1. 2 \in DOMAIN operands
      BY <1>2, <2>2
    <3>2. operands[2] \in Operand /\ Requirement(Format(op)[2], operands[2])
      BY <3>1, SourceOperand
    <3> QED
      BY <2>2, <3>2, KindsDiffer DEF Operand, Requirement, Immediate32, Slot
  <2>5. v(2) % HalfMod \in 0 .. HalfMod - 1 /\ v(2) \div HalfMod \in 0 .. HalfMod - 1
    BY <2>4, WordHasHalves
  <2>6. WellFormed(x) /\ x.at = at /\ ~ReadsTemp(x)
    BY <2>3, <2>5, LoadInstructionIsWellFormed, LoadInstructionReads
  <2>7. WellFormed(y) /\ y.at = at /\ ~ReadsTemp(y)
    BY <2>3, <2>5, LoadInstructionIsWellFormed, LoadInstructionReads
  <2> HIDE DEF x, y
  <2> QED
    BY <2>1, <2>6, <2>7, TwoAreGood DEF i
<1>10. CASE op = RET
  <2> DEFINE x == Make(AJMP, <<RegisterOperand(ReturnAddress)>>, at)
  <2>1. Lowered(i) = <<x>>
    BY <1>1, <1>10 DEF Lowered, AppendRet
  <2>2. WellFormed(x) /\ x.at = at /\ ~ReadsTemp(x)
    BY ReturnIsWellFormed, ReturnReads
  <2> HIDE DEF x
  <2> QED
    BY <2>1, <2>2, OneIsGood DEF i
<1> QED
  BY <1>5, <1>6, <1>7, <1>8, <1>9, <1>10 DEF i, PseudoOperations

-----------------------------------------------------------------------------
(* Sequences *)

\* A nonempty set of positions has a least element.
LEMMA LeastOf ==
    ASSUME NEW S \in SUBSET Nat, S # {}
    PROVE  \E k \in S : \A j \in S : k <= j
<1>1. PICK k \in S : \A j \in S : <<j, k>> \notin OpToRel(<, Nat)
  BY WFMin, NatLessThanWellFounded
<1>2. ASSUME NEW j \in S, j < k
      PROVE  FALSE
  <2>1. <<j, k>> \in Nat \X Nat /\ <<j, k>>[1] < <<j, k>>[2]
    BY <1>2
  <2>2. <<j, k>> \in OpToRel(<, Nat)
    BY <2>1, Zenon DEF OpToRel
  <2> QED
    BY <1>1, <2>2
<1> QED
  BY <1>2

\* Concatenation puts one sequence behind the other.
LEMMA Appended ==
    ASSUME NEW S, NEW s \in Seq(S), NEW t \in Seq(S)
    PROVE  /\ s \o t \in Seq(S)
           /\ Len(s) \in Nat /\ DOMAIN s = 1 .. Len(s)
           /\ Len(t) \in Nat /\ DOMAIN t = 1 .. Len(t)
           /\ DOMAIN (s \o t) = 1 .. Len(s) + Len(t) /\ Len(s \o t) = Len(s) + Len(t)
           /\ \A k \in 1 .. Len(s) : (s \o t)[k] = s[k]
           /\ \A k \in 1 .. Len(t) : (s \o t)[Len(s) + k] = t[k]
<1> DEFINE u == s \o t
           m == Len(s)
           n == Len(t)
<1>1. m \in Nat /\ DOMAIN s = 1 .. m /\ n \in Nat /\ DOMAIN t = 1 .. n
  BY ElementOfSequence
<1>2. /\ u \in Seq(S) /\ Len(u) = m + n
      /\ \A k \in 1 .. m + n : u[k] = IF k <= m THEN s[k] ELSE t[k - m]
  BY ConcatProperties
<1>3. DOMAIN u = 1 .. m + n
  BY <1>2, ElementOfSequence
<1> HIDE DEF m, n, u
<1>4. ASSUME NEW k \in 1 .. m PROVE u[k] = s[k]
  BY <1>1, <1>2
<1>5. ASSUME NEW k \in 1 .. n PROVE u[m + k] = t[k]
  <2>1. m + k \in 1 .. m + n /\ ~(m + k <= m) /\ (m + k) - m = k
    BY <1>1
  <2>2. u[m + k] = IF m + k <= m THEN s[m + k] ELSE t[(m + k) - m]
    BY <1>2, <2>1
  <2> QED
    BY <2>1, <2>2
<1> QED
  BY <1>1, <1>2, <1>3, <1>4, <1>5 DEF m, n, u

\* Appending four bytes keeps the words before them and adds one.
LEMMA WordsAppended ==
    ASSUME NEW S, NEW s \in Seq(S), NEW t \in Seq(S), Len(t) = 4,
           NEW n \in Nat, Len(s) = 4 * n
    PROVE  /\ s \o t \in Seq(S) /\ Len(s \o t) = 4 * (n + 1)
           /\ \A k \in 1 .. n : SubSeq(s \o t, 4 * k - 3, 4 * k) = SubSeq(s, 4 * k - 3, 4 * k)
           /\ SubSeq(s \o t, 4 * (n + 1) - 3, 4 * (n + 1)) = t
<1>1. s \o t \in Seq(S) /\ Len(s \o t) = Len(s) + Len(t)
  BY ConcatProperties
<1>2. ASSUME NEW k \in 1 .. n
      PROVE  SubSeq(s \o t, 4 * k - 3, 4 * k) = SubSeq(s, 4 * k - 3, 4 * k)
  <2>1. 4 * k - 3 \in 1 .. Len(s) /\ 4 * k \in 1 .. Len(s)
    OBVIOUS
  <2> QED
    BY <2>1, SubSeqOfConcat1
<1>3. SubSeq(s \o t, 4 * (n + 1) - 3, 4 * (n + 1)) = SubSeq(t, 1, Len(t))
  <2> DEFINE first == 4 * (n + 1) - 3
             last == 4 * (n + 1)
  <2>1. first - Len(s) = 1 /\ last - Len(s) = Len(t)
    OBVIOUS
  <2>2. first \in Len(s) + 1 .. Len(s) + Len(t) /\ last \in Len(s) + 1 .. Len(s) + Len(t)
    OBVIOUS
  <2> HIDE DEF first, last
  <2>3. SubSeq(s \o t, first, last) = SubSeq(t, first - Len(s), last - Len(s))
    BY <2>2, SubSeqOfConcat2
  <2> QED
    BY <2>1, <2>3 DEF first, last
<1>4. SubSeq(t, 1, Len(t)) = t
  BY SubSeqFull
<1>5. Len(s \o t) = 4 * (n + 1)
  BY <1>1
<1>6. SubSeq(s \o t, 4 * (n + 1) - 3, 4 * (n + 1)) = t
  BY <1>3, <1>4
<1> QED
  BY <1>1, <1>2, <1>5, <1>6, Zenon

-----------------------------------------------------------------------------
(* Parsing *)

\* The end of the file is the last token and no other.
TokensOK ==
    /\ tokens \in Seq(Token) /\ tokens # <<>>
    /\ \A k \in DOMAIN tokens : tokens[k] = EndOfFile <=> k = Len(tokens)

\* The type of a token tells operations, operands and the end of the file apart.
LEMMA KindsOfTokens ==
    /\ \A t \in Token : t.type \in Kinds => t \in Operand
    /\ \A t \in Token : t.type = OperationKind => t.value \in Operations
    /\ EndOfFile.type \notin Kinds \union {OperationKind}
    /\ OperationKind \notin Kinds
<1>1. ASSUME NEW t \in Token
      PROVE  \/ t.type = OperationKind /\ t.value \in Operations
             \/ t \in Operand
             \/ t = NewLine \/ t = EndOfFile
  <2>1. CASE t \in [type : {OperationKind}, value : Operations]
    BY <2>1
  <2>2. CASE t \in [type : {RegisterKind, StatusKind, NumberKind}, value : Nat]
    BY <2>2 DEF Operand, Kinds
  <2> QED
    BY <1>1, <2>1, <2>2 DEF Token
<1>2. /\ EndOfFile.type = "end" /\ NewLine.type = "newline"
      /\ \A o \in Operand : o.type \in Kinds
  BY DEF EndOfFile, NewLine, Operand
<1>3. {"end", "newline", OperationKind} \intersect Kinds = {} /\ OperationKind \notin {"end", "newline"}
  BY DEF Kinds, OperationKind, RegisterKind, StatusKind, NumberKind
<1> QED
  BY <1>1, <1>2, <1>3

\* Reading at or past the end of the tokens yields the end of the file.
LEMMA TokensAhead ==
    ASSUME TokensOK
    PROVE  /\ Len(tokens) \in Nat \ {0} /\ DOMAIN tokens = 1 .. Len(tokens)
           /\ tokens[Len(tokens)] = EndOfFile
           /\ \A k \in DOMAIN tokens : tokens[k] \in Token
           /\ \A k \in Nat \ {0} :
                 /\ TokenAt(k) \in Token
                 /\ k >= Len(tokens) => TokenAt(k) = EndOfFile
                 /\ k <= Len(tokens) => TokenAt(k) = tokens[k]
<1>1. tokens \in Seq(Token) /\ tokens # <<>>
  BY DEF TokensOK
<1>2. Len(tokens) \in Nat /\ DOMAIN tokens = 1 .. Len(tokens)
      /\ \A k \in DOMAIN tokens : tokens[k] \in Token
  BY <1>1, ElementOfSequence
<1>3. Len(tokens) # 0
  BY <1>1, EmptySeq
<1>4. tokens[Len(tokens)] = EndOfFile
  BY <1>2, <1>3 DEF TokensOK
<1> QED
  BY <1>2, <1>3, <1>4 DEF TokenAt

\* A statement ends before the end of the file.
LEMMA StatementIsInside ==
    ASSUME TokensOK, NEW n \in Nat, pos \in 1 .. Len(tokens), tokens[pos] # EndOfFile,
           \A k \in 1 .. n : TokenAt(pos + k) # EndOfFile
    PROVE  pos + n < Len(tokens)
<1>1. tokens[Len(tokens)] = EndOfFile /\ Len(tokens) \in Nat /\ pos \in Nat
  BY TokensAhead
<1>2. CASE n = 0
  BY <1>1, <1>2
<1>3. CASE n # 0
  <2>1. TokenAt(pos + n) # EndOfFile
    BY <1>3
  <2>2. ~(pos + n >= Len(tokens))
    <3>1. pos + n \in Nat \ {0}
      BY <1>1, <1>3
    <3> QED
      BY <2>1, <3>1, TokensAhead
  <2> QED
    BY <1>1, <2>2
<1> QED
  BY <1>2, <1>3

\* A line without a fault is an operation with the operands it wants.
LEMMA StatementIsAccepted ==
    ASSUME TokensOK, pos \in 1 .. Len(tokens), ~EndsLine(tokens[pos]), Unfit = {}
    PROVE  /\ tokens[pos].value \in Operations
           /\ pos + Len(Wanted) + 1 \in 1 .. Len(tokens)
           /\ Accepted(tokens[pos].value, SubSeq(tokens, pos + 1, pos + Len(Wanted)))
<1> DEFINE op == tokens[pos].value
           n == Len(Wanted)
           operands == SubSeq(tokens, pos + 1, pos + n)
<1>1. tokens[pos].type = OperationKind
  BY DEF Unfit
<1>2. op \in Operations /\ Wanted = Format(op)
  BY <1>1, KindsOfTokens, TokensAhead DEF Wanted
<1>3. n \in 0 .. 3 /\ DOMAIN Wanted = 1 .. n
  BY <1>2, SlotsOfFormat
<1>4. \A k \in 1 .. n : Fits(Wanted[k], TokenAt(pos + k))
  BY <1>1, <1>3 DEF Unfit
<1>5. \A k \in 1 .. n : TokenAt(pos + k).type \in Kinds
  BY <1>2, <1>4, SlotsOfFormat DEF Fits, Kinds
<1>6. pos + n < Len(tokens)
  <2>1. \A k \in 1 .. n : TokenAt(pos + k) # EndOfFile
    BY <1>5, KindsOfTokens
  <2>2. tokens[pos] # EndOfFile
    BY DEF EndsLine
  <2>3. n \in Nat
    BY <1>3
  <2> HIDE DEF n
  <2> QED
    BY <2>1, <2>2, <2>3, StatementIsInside
<1>7. \A k \in 1 .. n : tokens[pos + k] = TokenAt(pos + k) /\ tokens[pos + k] \in Operand
  BY <1>3, <1>5, <1>6, TokensAhead, KindsOfTokens
<1>8. \A j \in pos + 1 .. pos + n : tokens[j] \in Operand
  <2> SUFFICES ASSUME NEW j \in pos + 1 .. pos + n PROVE tokens[j] \in Operand
    OBVIOUS
  <2>1. j - pos \in 1 .. n /\ pos + (j - pos) = j
    BY <1>3
  <2> QED
    BY <1>7, <2>1
<1>9. /\ operands \in Seq(Operand) /\ Len(operands) = n
      /\ \A k \in 1 .. n : operands[k] = tokens[pos + k]
  <2>1. pos \in Int /\ pos + 1 \in Int /\ pos + n \in Int
    BY <1>3
  <2>2. /\ operands \in Seq(Operand)
        /\ Len(operands) = IF pos + 1 <= pos + n THEN (pos + n) - (pos + 1) + 1 ELSE 0
        /\ \A k \in 1 .. (pos + n) - (pos + 1) + 1 : operands[k] = tokens[(pos + 1) + k - 1]
    BY <1>8, <2>1, SubSeqProperties
  <2> HIDE DEF operands
  <2>3. (pos + n) - (pos + 1) + 1 = n /\ \A k \in 1 .. n : (pos + 1) + k - 1 = pos + k
    BY <1>3, <2>1
  <2>4. Len(operands) = n
    BY <1>3, <2>2, <2>3
  <2>5. \A k \in 1 .. n : operands[k] = tokens[pos + k]
    BY <2>2, <2>3
  <2> QED
    BY <2>2, <2>4, <2>5
<1> HIDE DEF operands
<1>10. DOMAIN operands = 1 .. n
  BY <1>9, ElementOfSequence
<1>11. Accepted(op, operands)
  BY <1>2, <1>4, <1>7, <1>9, <1>10 DEF Accepted
<1> QED
  BY <1>2, <1>3, <1>6, <1>11 DEF operands

\* The first fault is at a token: at the end of the file, nothing fits any more.
LEMMA FirstFaultIsInside ==
    ASSUME TokensOK, pos \in 1 .. Len(tokens), ~EndsLine(tokens[pos]), Unfit # {}
    PROVE  (CHOOSE k \in Unfit : \A j \in Unfit : k <= j) \in 1 .. Len(tokens)
<1> DEFINE n == Len(Wanted)
<1>1. pos < Len(tokens) /\ pos \in Nat \ {0} /\ Len(tokens) \in Nat
  BY TokensAhead DEF EndsLine
<1>2. CASE tokens[pos].type # OperationKind
  <2>1. Unfit = {pos}
    BY <1>2 DEF Unfit
  <2> QED
    BY <1>1, <2>1
<1>3. CASE tokens[pos].type = OperationKind
  <2>1. tokens[pos].value \in Operations /\ Wanted = Format(tokens[pos].value)
    BY <1>1, <1>3, KindsOfTokens, TokensAhead DEF Wanted
  <2>2. /\ n \in 0 .. 3 /\ DOMAIN Wanted = 1 .. n
        /\ \A k \in 1 .. n : Wanted[k].type \in Kinds
    BY <2>1, SlotsOfFormat DEF Kinds
  <2>3. Unfit = {pos + k : k \in {k \in 1 .. n : ~Fits(Wanted[k], TokenAt(pos + k))}}
                \union {k \in {pos + n + 1} : ~EndsLine(TokenAt(k))}
    BY <1>3, <2>2 DEF Unfit
  <2> HIDE DEF n
  <2>4. \A k \in Unfit : k \in Nat /\ k - pos \in 1 .. n + 1
    BY <1>1, <2>2, <2>3
  <2>5. PICK m \in Unfit : \A j \in Unfit : m <= j
    BY <2>4, LeastOf
  <2>6. m <= Len(tokens)
    <3> SUFFICES ASSUME m > Len(tokens) PROVE FALSE
      BY <1>1, <2>4
    <3> DEFINE last == Len(tokens) - pos
    <3>1. last \in 1 .. n /\ pos + last = Len(tokens)
      BY <1>1, <2>2, <2>4
    <3>2. TokenAt(pos + last) = EndOfFile
      BY <1>1, <3>1, TokensAhead
    <3> HIDE DEF last
    <3>3. ~Fits(Wanted[last], TokenAt(pos + last))
      BY <2>2, <3>1, <3>2, KindsOfTokens DEF Fits
    <3>4. pos + last \in Unfit
      BY <2>3, <3>1, <3>3
    <3> QED
      BY <1>1, <2>4, <2>5, <3>1, <3>4
  <2>7. m \in 1 .. Len(tokens)
    BY <1>1, <2>4, <2>6
  <2>8. \A k \in Unfit : (\A j \in Unfit : k <= j) => k = m
    BY <2>4, <2>5
  <2> QED
    BY <2>5, <2>7, <2>8
<1> QED
  BY <1>2, <1>3

-----------------------------------------------------------------------------
(* The inductive invariant *)

Encoders == {"encoding", "encoding error", "writing", "unwritable", "done"}

\* Before the encoder starts, pos is a position of the tokens.
ParserOK ==
    phase \notin Encoders => pos \in 1 .. Len(tokens) /\ bytes = <<>>

\* Every instruction of the program is well formed, is of a line, and reads R31 only
\* after an LI of R31 of the same line.
ProgramOK ==
    /\ program \in Seq(MachineInstruction)
    /\ \A k \in DOMAIN program :
          /\ WellFormed(program[k]) /\ program[k].at \in DOMAIN tokens
          /\ ReadsTemp(program[k]) =>
                \E j \in 1 .. k - 1 :
                    /\ program[j].at = program[k].at
                    /\ program[j].op = LI
                    /\ program[j].operands[1] = RegisterOperand(AssemblerTemp)

\* The bytes are those of the first instructions.
BytesOK ==
    /\ bytes \in Seq(Byte)
    /\ phase \in Encoders =>
          /\ pos \in 1 .. Len(program) + 1
          /\ Len(bytes) = 4 * (pos - 1)
          /\ \A k \in 1 .. pos - 1 : SubSeq(bytes, 4 * k - 3, 4 * k) = Encoded(program[k])

FileOK ==
    /\ file \in Seq(Byte)
    /\ phase \notin {"writing", "unwritable", "done"} => file = OldFile

PhaseOK ==
    /\ phase \in Phases
    /\ phase # "encoding error"
    /\ phase = "reading" => program = <<>> /\ errorAt = 0 /\ pos = 1
    /\ errorAt \in 0 .. Len(tokens)

AssemblerIInv == TokensOK /\ ParserOK /\ ProgramOK /\ BytesOK /\ FileOK /\ PhaseOK

\* The invariant holds before the source is read.
LEMMA InitialIInv ==
    ASSUME AssemblerInit
    PROVE  AssemblerIInv
<1> USE DEF AssemblerInit
<1>1. EndOfFile \in Token
  BY DEF Token
<1>2. tokens \in Seq(Token) /\ Len(tokens) = 1 /\ DOMAIN tokens = 1 .. 1 /\ tokens[1] = EndOfFile
  BY <1>1
<1>3. TokensOK
  BY <1>2 DEF TokensOK
<1>4. ParserOK
  BY <1>2 DEF ParserOK
<1>5. ProgramOK
  BY DEF ProgramOK
<1>6. BytesOK
  BY DEF BytesOK, Encoders
<1>7. FileOK
  BY FileAssumption DEF FileOK
<1>8. PhaseOK
  BY <1>2 DEF PhaseOK, Phases
<1> QED
  BY <1>3, <1>4, <1>5, <1>6, <1>7, <1>8 DEF AssemblerIInv

\* Reading the source keeps the invariant.
LEMMA ReadingKeepsIInv ==
    ASSUME AssemblerIInv, Read \/ FailToRead
    PROVE  AssemblerIInv'
<1> USE DEF AssemblerIInv
<1>1. CASE Read
  <2> USE <1>1 DEF Read
  <2>1. tokens' \in Seq(Token) /\ tokens' # <<>>
    BY SourcesAssumption
  <2>2. TokensOK'
    BY <2>1, SourcesAssumption DEF TokensOK
  <2>3. Len(tokens') \in Nat /\ Len(tokens') # 0
    BY <2>1, EmptySeq, ElementOfSequence
  <2>4. program = <<>> /\ errorAt = 0 /\ pos = 1
    BY DEF PhaseOK
  <2>5. ParserOK'
    BY <2>3, <2>4 DEF ParserOK, Encoders
  <2>6. ProgramOK'
    BY <2>4 DEF ProgramOK
  <2>7. BytesOK' /\ FileOK'
    BY DEF BytesOK, FileOK, Encoders
  <2>8. PhaseOK'
    BY <2>3, <2>4 DEF PhaseOK, Phases
  <2> QED
    BY <2>2, <2>5, <2>6, <2>7, <2>8
<1>2. CASE FailToRead
  <2> USE <1>2 DEF FailToRead
  <2>1. TokensOK' /\ ParserOK' /\ ProgramOK' /\ BytesOK' /\ FileOK'
    BY DEF TokensOK, ParserOK, ProgramOK, BytesOK, FileOK, Encoders
  <2>2. PhaseOK'
    BY DEF PhaseOK, Phases
  <2> QED
    BY <2>1, <2>2
<1> QED
  BY <1>1, <1>2

\* Skipping an empty line keeps the invariant.
LEMMA SkippingKeepsIInv ==
    ASSUME AssemblerIInv, SkipNewLine
    PROVE  AssemblerIInv'
<1> USE DEF AssemblerIInv, SkipNewLine
<1>1. TokensOK' /\ ProgramOK' /\ FileOK' /\ PhaseOK'
  BY DEF TokensOK, ProgramOK, FileOK, PhaseOK
<1>2. pos \in 1 .. Len(tokens) /\ bytes = <<>>
  BY DEF ParserOK, Encoders
<1>3. pos # Len(tokens)
  <2>1. NewLine # EndOfFile
    <3>1. NewLine.type = "newline" /\ EndOfFile.type = "end"
      BY DEF NewLine, EndOfFile
    <3> QED
      BY <3>1
  <2> QED
    BY <2>1, TokensAhead
<1>4. pos' \in 1 .. Len(tokens)
  <2>1. Len(tokens) \in Nat /\ pos' = pos + 1
    BY TokensAhead
  <2> QED
    BY <1>2, <1>3, <2>1
<1>5. ParserOK' /\ BytesOK'
  BY <1>2, <1>4 DEF ParserOK, BytesOK, Encoders
<1> QED
  BY <1>1, <1>5

\* Parsing a line keeps the invariant: the program grows by good instructions.
LEMMA ParsingKeepsIInv ==
    ASSUME AssemblerIInv, ParseInstruction
    PROVE  AssemblerIInv'
<1> USE DEF AssemblerIInv
<1> DEFINE op == tokens[pos].value
           operands == SubSeq(tokens, pos + 1, pos + Len(Wanted))
           lowered == Lowered(Make(op, operands, pos))
<1>1. /\ phase = "parsing" /\ ~EndsLine(tokens[pos]) /\ Unfit = {}
      /\ program' = program \o lowered /\ pos' = pos + Len(Wanted) + 1
      /\ UNCHANGED <<phase, tokens, bytes, file, errorAt>>
  BY DEF ParseInstruction
<1>2. pos \in 1 .. Len(tokens) /\ bytes = <<>>
  BY <1>1 DEF ParserOK, Encoders
<1>3. op \in Operations /\ Accepted(op, operands) /\ pos' \in 1 .. Len(tokens)
  BY <1>1, <1>2, StatementIsAccepted
<1>4. GoodLowering(lowered, pos)
  BY <1>2, <1>3, LoweredIsGood
<1> HIDE DEF op, operands, lowered
<1>5. TokensOK' /\ FileOK'
  BY <1>1 DEF TokensOK, FileOK
<1>6. ParserOK' /\ BytesOK'
  BY <1>1, <1>2, <1>3 DEF ParserOK, BytesOK, Encoders
<1>7. PhaseOK'
  BY <1>1 DEF PhaseOK
<1>8. ProgramOK'
  <2> DEFINE m == Len(program)
             n == Len(lowered)
  <2>1. /\ lowered \in Seq(MachineInstruction) /\ program \in Seq(MachineInstruction)
        /\ m \in Nat /\ n \in Nat /\ DOMAIN program = 1 .. m /\ DOMAIN lowered = 1 .. n
    BY <1>4, ElementOfSequence DEF GoodLowering, ProgramOK
  <2>2. /\ program' \in Seq(MachineInstruction) /\ DOMAIN program' = 1 .. m + n
        /\ \A k \in 1 .. m : program'[k] = program[k]
        /\ \A k \in 1 .. n : program'[m + k] = lowered[k]
    BY <1>1, <2>1, Appended
  <2> HIDE DEF m, n
  <2> DEFINE Local(p, k) ==
               /\ WellFormed(p[k]) /\ p[k].at \in DOMAIN tokens
               /\ ReadsTemp(p[k]) =>
                     \E j \in 1 .. k - 1 :
                         /\ p[j].at = p[k].at
                         /\ p[j].op = LI
                         /\ p[j].operands[1] = RegisterOperand(AssemblerTemp)
  <2>3. ASSUME NEW k \in 1 .. m PROVE Local(program', k)
    <3>1. Local(program, k)
      BY <2>1 DEF ProgramOK
    <3>2. \A j \in 1 .. k - 1 : j \in 1 .. m
      BY <2>1
    <3> QED
      BY <2>2, <3>1, <3>2
  <2>4. ASSUME NEW k \in 1 .. n PROVE Local(program', m + k)
    <3>1. /\ program'[m + k] = lowered[k] /\ WellFormed(lowered[k]) /\ lowered[k].at = pos
          /\ pos \in DOMAIN tokens
      BY <1>2, <1>4, <2>1, <2>2, TokensAhead DEF GoodLowering
    <3>2. ASSUME ReadsTemp(lowered[k])
          PROVE  \E j \in 1 .. (m + k) - 1 :
                     /\ program'[j].at = pos
                     /\ program'[j].op = LI
                     /\ program'[j].operands[1] = RegisterOperand(AssemblerTemp)
      <4>1. PICK j \in 1 .. k - 1 :
               /\ lowered[j].op = LI
               /\ lowered[j].operands[1] = RegisterOperand(AssemblerTemp)
        BY <1>4, <2>1, <3>2 DEF GoodLowering
      <4>2. j \in 1 .. n /\ m + j \in 1 .. (m + k) - 1
        BY <2>1
      <4>3. program'[m + j] = lowered[j] /\ lowered[j].at = pos
        BY <1>4, <2>1, <2>2, <4>2 DEF GoodLowering
      <4> QED
        BY <4>1, <4>2, <4>3
    <3> QED
      BY <3>1, <3>2
  <2>5. ASSUME NEW k \in 1 .. m + n PROVE Local(program', k)
    <3>1. CASE k <= m
      BY <2>1, <2>3, <3>1
    <3>2. CASE k > m
      <4>1. k - m \in 1 .. n /\ m + (k - m) = k
        BY <2>1, <3>2
      <4>2. Local(program', m + (k - m))
        BY <2>4, <4>1
      <4> QED
        BY <4>1, <4>2
    <3> QED
      BY <2>1, <3>1, <3>2
  <2> QED
    BY <1>1, <2>2, <2>5 DEF ProgramOK
<1> QED
  BY <1>5, <1>6, <1>7, <1>8

\* Refusing a line and the end of the parser keep the invariant.
LEMMA EndOfParsingKeepsIInv ==
    ASSUME AssemblerIInv, RefuseInstruction \/ EndParsing
    PROVE  AssemblerIInv'
<1> USE DEF AssemblerIInv
<1>1. CASE RefuseInstruction
  <2> USE <1>1 DEF RefuseInstruction
  <2>1. TokensOK' /\ ProgramOK' /\ FileOK'
    BY DEF TokensOK, ProgramOK, FileOK
  <2>2. ParserOK' /\ BytesOK'
    BY DEF ParserOK, BytesOK, Encoders
  <2>3. pos \in 1 .. Len(tokens)
    BY DEF ParserOK, Encoders
  <2>4. errorAt' \in 1 .. Len(tokens)
    BY <2>3, FirstFaultIsInside
  <2>5. /\ phase' = "syntax error" /\ tokens' = tokens
        /\ errorAt' \in 0 .. Len(tokens')
    <3>1. phase' = "syntax error" /\ tokens' = tokens
      BY Zenon
    <3> HIDE <1>1 DEF RefuseInstruction
    <3>2. Len(tokens) \in Nat
      BY DEF TokensOK
    <3>3. errorAt' \in 0 .. Len(tokens)
      BY <2>4, <3>2
    <3> QED
      BY <3>1, <3>3
  <2>6. PhaseOK'
    <3> HIDE <1>1 DEF RefuseInstruction
    <3> QED
      BY <2>5 DEF PhaseOK, Phases
  <2> QED
    BY <2>1, <2>2, <2>6
<1>2. CASE EndParsing
  <2> USE <1>2 DEF EndParsing
  <2>1. TokensOK' /\ ProgramOK' /\ FileOK'
    BY DEF TokensOK, ProgramOK, FileOK
  <2>2. ParserOK' /\ PhaseOK'
    BY DEF ParserOK, Encoders, PhaseOK, Phases
  <2>3. bytes = <<>> /\ Len(program) \in Nat
    BY ElementOfSequence DEF ParserOK, ProgramOK, Encoders
  <2>4. BytesOK'
    BY <2>3 DEF BytesOK
  <2> QED
    BY <2>1, <2>2, <2>4
<1> QED
  BY <1>1, <1>2

\* Encoding an instruction keeps the invariant: the word is appended.
LEMMA EncodingKeepsIInv ==
    ASSUME AssemblerIInv, EncodeInstruction
    PROVE  AssemblerIInv'
<1> USE DEF AssemblerIInv
<1> DEFINE i == program[pos]
           n == pos - 1
<1>1. phase = "encoding" /\ pos \in DOMAIN program /\ UNCHANGED <<tokens, program, file>>
  BY DEF EncodeInstruction
<1>2. WellFormed(i)
  BY <1>1 DEF ProgramOK
<1>3. /\ bytes' = bytes \o Encoded(i) /\ pos' = pos + 1
      /\ UNCHANGED <<phase, errorAt>>
  BY <1>2 DEF EncodeInstruction, WellFormed
<1>4. Encoded(i) \in Seq(Byte) /\ Len(Encoded(i)) = 4
  BY <1>2, EncodedIsWord
<1>5. /\ bytes \in Seq(Byte) /\ n \in Nat /\ Len(bytes) = 4 * n
      /\ \A k \in 1 .. n : SubSeq(bytes, 4 * k - 3, 4 * k) = Encoded(program[k])
  BY <1>1 DEF BytesOK, Encoders
<1>6. pos = n + 1 /\ pos \in Nat /\ Len(program) \in Nat /\ pos <= Len(program)
  <2>1. Len(program) \in Nat /\ DOMAIN program = 1 .. Len(program)
    BY ElementOfSequence DEF ProgramOK
  <2> QED
    BY <1>1, <2>1
<1> HIDE DEF n, i
<1>7. /\ bytes' \in Seq(Byte) /\ Len(bytes') = 4 * (n + 1)
      /\ \A k \in 1 .. n : SubSeq(bytes', 4 * k - 3, 4 * k) = SubSeq(bytes, 4 * k - 3, 4 * k)
      /\ SubSeq(bytes', 4 * (n + 1) - 3, 4 * (n + 1)) = Encoded(i)
  BY <1>3, <1>4, <1>5, WordsAppended
<1>8. ASSUME NEW k \in 1 .. n + 1
      PROVE  SubSeq(bytes', 4 * k - 3, 4 * k) = Encoded(program[k])
  <2>1. CASE k = n + 1
    <3>1. program[k] = i
      BY <1>6, <2>1 DEF i
    <3>2. SubSeq(bytes', 4 * k - 3, 4 * k) = Encoded(i)
      BY <1>7, <2>1, Zenon
    <3> QED
      BY <3>1, <3>2
  <2>2. CASE k # n + 1
    <3>1. k \in 1 .. n
      BY <1>5, <2>2
    <3> QED
      BY <1>5, <1>7, <3>1
  <2> QED
    BY <2>1, <2>2
<1>9. pos' - 1 = n + 1 /\ pos' \in 1 .. Len(program) + 1
  BY <1>3, <1>6
<1>10. BytesOK'
  BY <1>1, <1>7, <1>8, <1>9 DEF BytesOK
<1>11. TokensOK' /\ ProgramOK' /\ FileOK' /\ PhaseOK' /\ ParserOK'
  BY <1>1, <1>3 DEF TokensOK, ProgramOK, FileOK, PhaseOK, ParserOK, Encoders
<1> QED
  BY <1>10, <1>11

\* Writing the file, or failing to, keeps the invariant.
LEMMA WritingKeepsIInv ==
    ASSUME AssemblerIInv,
           EndEncoding \/ FailToOpen \/ Write \/ \E n \in DOMAIN bytes : FailToWrite(n - 1)
    PROVE  AssemblerIInv'
<1> USE DEF AssemblerIInv
<1>1. /\ phase \in {"encoding", "writing"} /\ phase' \in {"writing", "unwritable", "done"}
      /\ UNCHANGED <<tokens, pos, program, bytes, errorAt>>
  BY DEF EndEncoding, FailToOpen, Write, FailToWrite
<1>2. file' \in Seq(Byte)
  <2>1. CASE EndEncoding
    BY <2>1 DEF EndEncoding
  <2>2. CASE FailToOpen
    BY <2>2 DEF FailToOpen, FileOK
  <2>3. CASE Write
    BY <2>3 DEF Write, BytesOK
  <2>4. ASSUME NEW n \in DOMAIN bytes, FailToWrite(n - 1)
        PROVE  file' \in Seq(Byte)
    <3>1. /\ bytes \in Seq(Byte) /\ DOMAIN bytes = 1 .. Len(bytes) /\ Len(bytes) \in Nat
          /\ \A k \in DOMAIN bytes : bytes[k] \in Byte
      BY ElementOfSequence DEF BytesOK
    <3>2. n - 1 \in Int /\ 1 .. n - 1 \subseteq DOMAIN bytes
      BY <3>1
    <3>3. SubSeq(bytes, 1, n - 1) \in Seq(Byte)
      BY <3>1, <3>2, SubSeqProperties
    <3> QED
      BY <2>4, <3>3 DEF FailToWrite
  <2> QED
    BY <2>1, <2>2, <2>3, <2>4
<1>3. TokensOK' /\ ProgramOK'
  BY <1>1 DEF TokensOK, ProgramOK
<1>4. BytesOK' /\ ParserOK' /\ FileOK'
  BY <1>1, <1>2 DEF BytesOK, ParserOK, FileOK, Encoders
<1>5. PhaseOK'
  BY <1>1 DEF PhaseOK, Phases
<1> QED
  BY <1>3, <1>4, <1>5

\* A step that changes nothing keeps the invariant.
LEMMA StutteringKeepsIInv ==
    ASSUME AssemblerIInv, UNCHANGED assemblerVars
    PROVE  AssemblerIInv'
BY DEF AssemblerIInv, assemblerVars, TokensOK, ParserOK, ProgramOK, BytesOK, FileOK, PhaseOK

\* Every step keeps the invariant.
LEMMA NextAssemblerIInv ==
    ASSUME AssemblerIInv, [AssemblerNext]_assemblerVars
    PROVE  AssemblerIInv'
<1>1. CASE Read \/ FailToRead
  BY <1>1, ReadingKeepsIInv
<1>2. CASE SkipNewLine
  BY <1>2, SkippingKeepsIInv
<1>3. CASE ParseInstruction
  BY <1>3, ParsingKeepsIInv
<1>4. CASE RefuseInstruction \/ EndParsing
  BY <1>4, EndOfParsingKeepsIInv
<1>5. CASE EncodeInstruction
  BY <1>5, EncodingKeepsIInv
<1>6. CASE EndEncoding \/ FailToOpen \/ Write \/ \E n \in DOMAIN bytes : FailToWrite(n - 1)
  BY <1>6, WritingKeepsIInv
<1>7. CASE UNCHANGED assemblerVars
  BY <1>7, StutteringKeepsIInv
<1> QED
  BY <1>1, <1>2, <1>3, <1>4, <1>5, <1>6, <1>7 DEF AssemblerNext, Proceed

\* What the phases rely on holds at every step of the assembler.
THEOREM AssemblerInvariant == AssemblerSpec => []AssemblerIInv
<1>1. AssemblerInit => AssemblerIInv
  BY InitialIInv
<1>2. AssemblerIInv /\ [AssemblerNext]_assemblerVars => AssemblerIInv'
  BY NextAssemblerIInv
<1> QED
  BY <1>1, <1>2, PTL DEF AssemblerSpec

-----------------------------------------------------------------------------
(* Lines *)

\* What ends a line is no operation and no operand.
LEMMA KindsOfLineEnds ==
    /\ NewLine.type \notin Kinds \union {OperationKind}
    /\ EndOfFile.type \notin Kinds \union {OperationKind}
<1>1. EndOfFile.type = "end" /\ NewLine.type = "newline"
  BY DEF EndOfFile, NewLine
<1> QED
  BY <1>1 DEF Kinds, OperationKind, RegisterKind, StatusKind, NumberKind

\* A line ends before the first token that ends lines.
LEMMA LineEndsAt ==
    ASSUME NEW source \in Seq(Token), NEW i \in 1 .. Len(source), NEW e \in i .. Len(source),
           EndsLine(source[e]), \A j \in i .. e - 1 : ~EndsLine(source[j])
    PROVE  /\ Line(source, i) = SubSeq(source, i, e - 1)
           /\ Line(source, i) \in Seq(Token) /\ Len(Line(source, i)) = e - i
           /\ \A k \in 1 .. e - i : Line(source, i)[k] = source[i + k - 1]
<1>1. Len(source) \in Nat /\ i \in Nat /\ e \in Nat /\ i <= e /\ e <= Len(source)
  BY ElementOfSequence
<1>2. \A k \in i .. Len(source) :
         (EndsLine(source[k]) /\ \A j \in i .. k - 1 : ~EndsLine(source[j])) <=> k = e
  BY <1>1
<1>3. Line(source, i) = SubSeq(source, i, e - 1)
  <2> DEFINE Last(k) == EndsLine(source[k]) /\ \A j \in i .. k - 1 : ~EndsLine(source[j])
  <2>1. e \in i .. Len(source)
    OBVIOUS
  <2>2. \A k \in i .. Len(source) : Last(k) <=> k = e
    BY <1>2
  <2> HIDE DEF Last
  <2>3. (CHOOSE k \in i .. Len(source) : Last(k)) = e
    BY <2>1, <2>2
  <2> QED
    BY <2>3 DEF Line, Last
<1>4. \A j \in i .. e - 1 : source[j] \in Token
  BY <1>1, ElementOfSequence
<1>5. /\ SubSeq(source, i, e - 1) \in Seq(Token)
      /\ Len(SubSeq(source, i, e - 1)) = IF i <= e - 1 THEN (e - 1) - i + 1 ELSE 0
      /\ \A k \in 1 .. (e - 1) - i + 1 : SubSeq(source, i, e - 1)[k] = source[i + k - 1]
  BY <1>1, <1>4, SubSeqProperties
<1> QED
  BY <1>1, <1>3, <1>5

\* Every line ends, the last one at the end of the file.
LEMMA LineHasEnd ==
    ASSUME TokensOK, NEW i \in 1 .. Len(tokens)
    PROVE  \E e \in i .. Len(tokens) :
               EndsLine(tokens[e]) /\ \A j \in i .. e - 1 : ~EndsLine(tokens[j])
<1> DEFINE ends == {k \in i .. Len(tokens) : EndsLine(tokens[k])}
<1>1. Len(tokens) \in Nat \ {0} /\ EndsLine(tokens[Len(tokens)])
  BY TokensAhead DEF EndsLine
<1>2. ends \in SUBSET Nat /\ ends # {}
  BY <1>1
<1>3. PICK e \in ends : \A j \in ends : e <= j
  <2> HIDE DEF ends
  <2> QED
    BY <1>2, LeastOf
<1> QED
  BY <1>1, <1>3

\* The first token of a line is at its beginning.
LEMMA LineStartsAreLines ==
    ASSUME TokensOK, NEW i \in LineStarts(tokens)
    PROVE  /\ i \in 1 .. Len(tokens) /\ i < Len(tokens)
           /\ \E e \in i + 1 .. Len(tokens) :
                 EndsLine(tokens[e]) /\ \A j \in i .. e - 1 : ~EndsLine(tokens[j])
<1>1. i \in 1 .. Len(tokens) /\ ~EndsLine(tokens[i]) /\ Len(tokens) \in Nat
  BY TokensAhead DEF LineStarts
<1>2. PICK e \in i .. Len(tokens) :
         EndsLine(tokens[e]) /\ \A j \in i .. e - 1 : ~EndsLine(tokens[j])
  BY <1>1, LineHasEnd
<1>3. e # i
  BY <1>1, <1>2
<1> QED
  BY <1>1, <1>2, <1>3

\* No line begins within another.
LEMMA LinesAreApart ==
    ASSUME NEW source \in Seq(Token), NEW i \in 1 .. Len(source), NEW e \in i .. Len(source),
           \A j \in i .. e - 1 : ~EndsLine(source[j]), NEW k \in LineStarts(source), k < e
    PROVE  k <= i
<1>1. /\ k \in 1 .. Len(source) /\ Len(source) \in Nat
      /\ k = 1 \/ source[k - 1] = NewLine
  BY ElementOfSequence DEF LineStarts
<1> SUFFICES ASSUME k > i PROVE FALSE
  BY <1>1
<1>2. k - 1 \in i .. e - 1 /\ k # 1
  BY <1>1
<1>3. ~EndsLine(source[k - 1])
  BY <1>2
<1> QED
  BY <1>1, <1>2, <1>3 DEF EndsLine

\* Where the parser stands: at the beginning of a line, or at the end of one.
AtLine == pos = 1 \/ tokens[pos - 1] = NewLine \/ EndsLine(tokens[pos])

\* The line of a statement is what the parser takes for it.
LEMMA StatementIsLine ==
    ASSUME TokensOK, pos \in 1 .. Len(tokens), ~EndsLine(tokens[pos]), Unfit = {}
    PROVE  LET e == pos + Len(Wanted) + 1
           IN  /\ e \in pos + 1 .. Len(tokens) /\ EndsLine(tokens[e])
               /\ \A j \in pos .. e - 1 : ~EndsLine(tokens[j])
               /\ IsStatement(Line(tokens, pos))
               /\ Tail(Line(tokens, pos)) = SubSeq(tokens, pos + 1, pos + Len(Wanted))
<1> DEFINE n == Len(Wanted)
           e == pos + n + 1
           line == Line(tokens, pos)
<1>1. tokens[pos].type = OperationKind
  BY DEF Unfit
<1>2. Wanted = Format(tokens[pos].value) /\ tokens[pos].value \in Operations
  BY <1>1, KindsOfTokens, TokensAhead DEF Wanted
<1>3. n \in 0 .. 3 /\ DOMAIN Wanted = 1 .. n
  BY <1>2, SlotsOfFormat
<1>4. /\ tokens \in Seq(Token) /\ Len(tokens) \in Nat /\ pos \in Nat
      /\ e \in 1 .. Len(tokens)
  BY StatementIsAccepted, TokensAhead DEF TokensOK
<1>5. \A k \in 1 .. n : Fits(Wanted[k], tokens[pos + k])
  <2> SUFFICES ASSUME NEW k \in 1 .. n PROVE Fits(Wanted[k], tokens[pos + k])
    OBVIOUS
  <2>1. Fits(Wanted[k], TokenAt(pos + k))
    BY <1>1, <1>3 DEF Unfit
  <2>2. TokenAt(pos + k) = tokens[pos + k]
    BY <1>3, <1>4, TokensAhead
  <2> QED
    BY <2>1, <2>2
<1>6. EndsLine(tokens[e])
  <2>1. EndsLine(TokenAt(e))
    BY <1>1 DEF Unfit
  <2> HIDE DEF e
  <2>2. TokenAt(e) = tokens[e]
    BY <1>4, TokensAhead
  <2> QED
    BY <2>1, <2>2
<1>7. \A k \in 1 .. n : ~EndsLine(tokens[pos + k])
  <2> SUFFICES ASSUME NEW k \in 1 .. n PROVE ~EndsLine(tokens[pos + k])
    OBVIOUS
  <2>1. tokens[pos + k].type \in Kinds
    BY <1>2, <1>5, SlotsOfFormat DEF Fits, Kinds
  <2> QED
    BY <2>1, KindsOfLineEnds DEF EndsLine
<1>8. ASSUME NEW j \in pos .. e - 1 PROVE ~EndsLine(tokens[j])
  <2>1. CASE j = pos
    BY <2>1
  <2>2. CASE j # pos
    <3>1. j - pos \in 1 .. n /\ pos + (j - pos) = j
      BY <1>3, <1>4, <2>2
    <3> QED
      BY <1>7, <3>1
  <2> QED
    BY <2>1, <2>2
<1>9. e \in pos .. Len(tokens) /\ e - pos = n + 1 /\ e - 1 = pos + n
  BY <1>3, <1>4
<1>10. /\ line = SubSeq(tokens, pos, pos + n)
       /\ line \in Seq(Token) /\ Len(line) = n + 1
       /\ \A k \in 1 .. n + 1 : line[k] = tokens[pos + k - 1]
  <2> HIDE DEF n, e
  <2>1. /\ Line(tokens, pos) = SubSeq(tokens, pos, e - 1)
        /\ Line(tokens, pos) \in Seq(Token) /\ Len(Line(tokens, pos)) = e - pos
        /\ \A k \in 1 .. e - pos : Line(tokens, pos)[k] = tokens[pos + k - 1]
    BY <1>4, <1>6, <1>8, <1>9, LineEndsAt
  <2> QED
    BY <1>9, <2>1
<1> HIDE DEF line
<1>11. line[1] = tokens[pos]
  BY <1>3, <1>4, <1>10
<1>12. IsStatement(line)
  <2>1. ASSUME NEW k \in 2 .. n + 1
        PROVE  Fits(Format(line[1].value)[k - 1], line[k])
    <3>1. k - 1 \in 1 .. n /\ pos + (k - 1) = pos + k - 1 /\ k \in 1 .. n + 1
      BY <1>3, <1>4
    <3> QED
      BY <1>2, <1>5, <1>10, <1>11, <3>1
  <2>2. n = Len(Format(line[1].value)) /\ line[1].type = OperationKind
    BY <1>1, <1>2, <1>11
  <2> DEFINE slots == Format(line[1].value)
  <2>3. \A k \in 2 .. n + 1 : Fits(slots[k - 1], line[k])
    BY <2>1
  <2> HIDE DEF slots, n
  <2>4. FitsUpTo(line, n + 1)
    <3>1. n + 1 <= Len(slots) + 1
      BY <1>3, <2>2 DEF slots
    <3> QED
      BY <2>2, <2>3, <3>1 DEF FitsUpTo, slots
  <2> QED
    BY <1>10, <2>2, <2>4 DEF IsStatement
<1>13. Tail(line) = SubSeq(tokens, pos + 1, pos + n)
  <2> DEFINE rest == SubSeq(tokens, pos + 1, pos + n)
  <2>1. \A j \in pos + 1 .. pos + n : tokens[j] \in Token
    BY <1>3, <1>4, TokensAhead
  <2>2. /\ rest \in Seq(Token)
        /\ Len(rest) = IF pos + 1 <= pos + n THEN (pos + n) - (pos + 1) + 1 ELSE 0
        /\ \A k \in 1 .. (pos + n) - (pos + 1) + 1 : rest[k] = tokens[(pos + 1) + k - 1]
    <3>1. pos + 1 \in Int /\ pos + n \in Int
      BY <1>3, <1>4
    <3> QED
      BY <2>1, <3>1, SubSeqProperties
  <2> HIDE DEF rest
  <2>3. Len(rest) = n /\ \A k \in 1 .. n : rest[k] = tokens[pos + k]
    <3>1. /\ (pos + n) - (pos + 1) + 1 = n
          /\ (IF pos + 1 <= pos + n THEN (pos + n) - (pos + 1) + 1 ELSE 0) = n
          /\ \A k \in 1 .. n : (pos + 1) + k - 1 = pos + k
      BY <1>3, <1>4
    <3> QED
      BY <2>2, <3>1
  <2>4. /\ Tail(line) \in Seq(Token) /\ Len(Tail(line)) = n
        /\ \A k \in 1 .. n : Tail(line)[k] = line[k + 1]
    <3>1. line # <<>>
      BY <1>3, <1>10
    <3> QED
      BY <1>3, <1>10, <3>1, HeadTailProperties
  <2>5. ASSUME NEW k \in 1 .. n PROVE Tail(line)[k] = rest[k]
    <3>1. k + 1 \in 1 .. n + 1 /\ pos + (k + 1) - 1 = pos + k
      BY <1>3, <1>4
    <3> QED
      BY <1>10, <2>3, <2>4, <3>1
  <2>6. Tail(line) = rest
    BY <2>2, <2>3, <2>4, <2>5, SeqEqual
  <2> QED
    BY <2>6 DEF rest
<1>14. e \in pos + 1 .. Len(tokens)
  BY <1>3, <1>4
<1> QED
  BY <1>6, <1>8, <1>12, <1>13, <1>14 DEF line

\* A line that the parser refuses is no statement, and the first fault is where it
\* stops being the beginning of one.
LEMMA FaultOfLine ==
    ASSUME TokensOK, pos \in 1 .. Len(tokens), ~EndsLine(tokens[pos]), Unfit # {},
           NEW m \in Unfit, \A j \in Unfit : m <= j
    PROVE  LET line == Line(tokens, pos)
           IN  /\ ~IsStatement(line)
               /\ m - pos \in 0 .. Len(line)
               /\ FitsUpTo(line, m - pos)
               /\ m - pos < Len(line) => ~FitsUpTo(line, m - pos + 1)
<1> DEFINE w == Len(Wanted)
           d == m - pos
           line == Line(tokens, pos)
<1>1. /\ tokens \in Seq(Token) /\ Len(tokens) \in Nat /\ pos \in Nat \ {0}
      /\ pos \in 1 .. Len(tokens)
  BY TokensAhead DEF TokensOK
<1>2. PICK e \in pos .. Len(tokens) :
         EndsLine(tokens[e]) /\ \A j \in pos .. e - 1 : ~EndsLine(tokens[j])
  BY LineHasEnd
<1>3. e \in Nat /\ e > pos /\ e <= Len(tokens)
  BY <1>1, <1>2
<1>4. /\ Len(line) = e - pos
      /\ \A k \in 1 .. e - pos : line[k] = tokens[pos + k - 1]
  BY <1>1, <1>2, LineEndsAt
<1> HIDE DEF line
<1>5. line[1] = tokens[pos]
  <2>1. 1 \in 1 .. e - pos /\ pos + 1 - 1 = pos
    BY <1>1, <1>3
  <2> QED
    BY <1>4, <2>1
<1>6. CASE tokens[pos].type # OperationKind
  <2>1. m = pos /\ d = 0
    BY <1>1, <1>6 DEF Unfit
  <2>2. \A n \in Nat : FitsUpTo(line, n) <=> n = 0
    BY <1>5, <1>6 DEF FitsUpTo
  <2>3. Len(line) \in Nat /\ Len(line) > 0
    BY <1>3, <1>4
  <2> QED
    BY <2>1, <2>2, <2>3 DEF IsStatement, line
<1>7. CASE tokens[pos].type = OperationKind
  <2> DEFINE slots == Format(line[1].value)
  <2>1. Wanted = slots /\ tokens[pos].value \in Operations
    BY <1>1, <1>5, <1>7, KindsOfTokens, TokensAhead DEF Wanted
  <2>2. /\ w \in 0 .. 3 /\ DOMAIN Wanted = 1 .. w /\ Len(slots) = w
        /\ \A k \in 1 .. w : slots[k].type \in Kinds
    BY <1>5, <2>1, SlotsOfFormat DEF Kinds
  <2>3. Unfit = {pos + k : k \in {k \in 1 .. w : ~Fits(slots[k], TokenAt(pos + k))}}
                \union {k \in {pos + w + 1} : ~EndsLine(TokenAt(k))}
    BY <1>7, <2>1, <2>2 DEF Unfit
  <2> HIDE DEF w, slots
  <2>4. /\ m = pos + d /\ d \in 1 .. w + 1
        /\ d \in 1 .. w => ~Fits(slots[d], TokenAt(m))
        /\ d = w + 1 => ~EndsLine(TokenAt(m))
    <3>1. CASE m \in {pos + k : k \in {k \in 1 .. w : ~Fits(slots[k], TokenAt(pos + k))}}
      <4>1. PICK k \in 1 .. w : ~Fits(slots[k], TokenAt(pos + k)) /\ m = pos + k
        BY <3>1
      <4>2. d = k /\ m = pos + d
        BY <1>1, <2>2, <4>1
      <4> QED
        BY <2>2, <4>1, <4>2
    <3>2. CASE m \in {k \in {pos + w + 1} : ~EndsLine(TokenAt(k))}
      <4>1. m = pos + w + 1 /\ ~EndsLine(TokenAt(m))
        BY <3>2
      <4>2. d = w + 1 /\ m = pos + d
        BY <1>1, <2>2, <4>1
      <4> QED
        BY <2>2, <4>1, <4>2
    <3>3. m \in Unfit
      OBVIOUS
    <3> HIDE DEF d
    <3> QED
      BY <2>3, <3>1, <3>2, <3>3
  <2>5. \A k \in 1 .. w : k < d => Fits(slots[k], TokenAt(pos + k))
    <3> SUFFICES ASSUME NEW k \in 1 .. w, k < d, ~Fits(slots[k], TokenAt(pos + k))
                 PROVE  FALSE
      OBVIOUS
    <3>1. pos + k \in Unfit
      BY <2>3
    <3>2. m <= pos + k
      BY <3>1
    <3> QED
      BY <1>1, <2>2, <2>4, <3>2
  <2> HIDE DEF d
  <2>6. d <= e - pos
    <3> SUFFICES ASSUME d > e - pos PROVE FALSE
      BY <1>1, <1>3, <2>2, <2>4
    <3>1. e - pos \in 1 .. w /\ e - pos < d /\ pos + (e - pos) = e
      BY <1>1, <1>3, <2>2, <2>4
    <3>2. Fits(slots[e - pos], TokenAt(e))
      BY <2>5, <3>1
    <3>3. TokenAt(e) = tokens[e]
      BY <1>3, <1>1, TokensAhead
    <3>4. tokens[e].type \in Kinds
      BY <2>2, <3>1, <3>2, <3>3 DEF Fits
    <3> QED
      BY <1>2, <3>4, KindsOfLineEnds DEF EndsLine
  <2>7. \A k \in 2 .. e - pos : line[k] = TokenAt(pos + (k - 1))
    <3> SUFFICES ASSUME NEW k \in 2 .. e - pos PROVE line[k] = TokenAt(pos + (k - 1))
      OBVIOUS
    <3>1. /\ k \in 1 .. e - pos /\ pos + k - 1 = pos + (k - 1)
          /\ pos + (k - 1) \in Nat \ {0} /\ pos + (k - 1) <= Len(tokens)
      BY <1>1, <1>3
    <3>2. TokenAt(pos + (k - 1)) = tokens[pos + (k - 1)]
      BY <3>1, TokensAhead
    <3> QED
      BY <1>4, <3>1, <3>2
  <2>8. FitsUpTo(line, d)
    <3>1. ASSUME NEW k \in 2 .. d PROVE Fits(slots[k - 1], line[k])
      <4>1. k - 1 \in 1 .. w /\ k - 1 < d /\ k \in 2 .. e - pos
        BY <1>1, <1>3, <2>2, <2>4, <2>6
      <4> QED
        BY <2>5, <2>7, <4>1
    <3>2. d <= Len(slots) + 1 /\ line[1].type = OperationKind
      BY <1>5, <1>7, <2>2, <2>4
    <3> HIDE <1>7
    <3> QED
      BY <3>1, <3>2 DEF FitsUpTo, slots
  <2>9. d < e - pos => ~FitsUpTo(line, d + 1)
    <3> SUFFICES ASSUME d < e - pos, FitsUpTo(line, d + 1) PROVE FALSE
      OBVIOUS
    <3>1. d + 1 > 0 /\ d + 1 \in 2 .. d + 1 /\ (d + 1) - 1 = d /\ d + 1 \in 2 .. e - pos
      BY <1>1, <1>3, <2>2, <2>4
    <3>2. d + 1 <= Len(slots) + 1 /\ Fits(slots[(d + 1) - 1], line[d + 1])
      BY <3>1 DEF FitsUpTo, slots
    <3>3. d \in 1 .. w
      BY <2>2, <2>4, <3>2
    <3>4. line[d + 1] = TokenAt(m)
      BY <2>4, <2>7, <3>1
    <3> QED
      BY <2>4, <3>1, <3>2, <3>3, <3>4
  <2>10. ~IsStatement(line)
    <3> SUFFICES ASSUME FitsUpTo(line, e - pos), e - pos = Len(slots) + 1 PROVE FALSE
      BY <1>4 DEF IsStatement, slots
    <3>1. CASE d < e - pos
      <4>1. d + 1 \in 2 .. e - pos /\ (d + 1) - 1 = d /\ e - pos > 0 /\ d \in 1 .. w
        BY <1>1, <1>3, <2>2, <2>4, <3>1
      <4>2. Fits(slots[(d + 1) - 1], line[d + 1])
        BY <4>1 DEF FitsUpTo, slots
      <4>3. line[d + 1] = TokenAt(m)
        BY <2>4, <2>7, <4>1
      <4> QED
        BY <2>4, <4>1, <4>2, <4>3
    <3>2. CASE d = e - pos
      <4>1. m = e /\ d = w + 1
        BY <1>1, <1>3, <2>2, <2>4, <3>2
      <4>2. TokenAt(m) = tokens[e]
        BY <1>1, <1>3, <4>1, TokensAhead
      <4> QED
        BY <1>2, <2>4, <4>1, <4>2
    <3> QED
      BY <1>1, <1>3, <2>2, <2>4, <2>6, <3>1, <3>2
  <2>11. d \in 0 .. e - pos
    BY <1>1, <1>3, <2>2, <2>4, <2>6
  <2> QED
    BY <1>4, <2>8, <2>9, <2>10, <2>11 DEF line, d
<1> QED
  BY <1>6, <1>7

-----------------------------------------------------------------------------
(* Every line is translated *)

\* Instructions of other lines behind the code leave the translation of a line.
LEMMA TranslationIsKept ==
    ASSUME NEW S, NEW code \in Seq(S), NEW more \in Seq(S), NEW source, NEW i,
           Translated(code, source, i), \A k \in DOMAIN more : more[k].at # i
    PROVE  Translated(code \o more, source, i)
<1> DEFINE lowered == Lowered(Make(source[i].value, Tail(Line(source, i)), i))
           m == Len(code)
           all == code \o more
<1>1. PICK n \in 0 .. m :
         /\ {k \in DOMAIN code : code[k].at = i} = {n + k : k \in DOMAIN lowered}
         /\ \A k \in DOMAIN lowered : code[n + k] = lowered[k]
  BY DEF Translated
<1>2. /\ m \in Nat /\ DOMAIN code = 1 .. m
      /\ Len(more) \in Nat /\ DOMAIN more = 1 .. Len(more)
      /\ DOMAIN all = 1 .. m + Len(more) /\ Len(all) = m + Len(more)
      /\ \A k \in 1 .. m : all[k] = code[k]
      /\ \A k \in 1 .. Len(more) : all[m + k] = more[k]
  BY Appended
<1> HIDE DEF all, m, lowered
<1>3. ASSUME NEW k \in DOMAIN all, k > m PROVE all[k].at # i
  <2>1. k - m \in 1 .. Len(more) /\ m + (k - m) = k
    BY <1>2, <1>3
  <2> QED
    BY <1>2, <2>1
<1>4. {k \in DOMAIN all : all[k].at = i} = {k \in DOMAIN code : code[k].at = i}
  BY <1>2, <1>3
<1>5. ASSUME NEW k \in DOMAIN lowered PROVE all[n + k] = lowered[k]
  <2>1. n + k \in DOMAIN code
    BY <1>1
  <2> QED
    BY <1>1, <1>2, <2>1
<1>6. n \in 0 .. Len(all)
  BY <1>2
<1> QED
  BY <1>1, <1>4, <1>5, <1>6 DEF Translated, all, lowered

\* Appending what a line is lowered to translates it.
LEMMA LineIsTranslated ==
    ASSUME NEW S, NEW code \in Seq(S), NEW source, NEW i,
           \A k \in DOMAIN code : code[k].at # i,
           NEW lowered \in Seq(S), \A k \in DOMAIN lowered : lowered[k].at = i,
           lowered = Lowered(Make(source[i].value, Tail(Line(source, i)), i))
    PROVE  Translated(code \o lowered, source, i)
<1> DEFINE m == Len(code)
           all == code \o lowered
<1>1. /\ m \in Nat /\ DOMAIN code = 1 .. m
      /\ Len(lowered) \in Nat /\ DOMAIN lowered = 1 .. Len(lowered)
      /\ DOMAIN all = 1 .. m + Len(lowered) /\ Len(all) = m + Len(lowered)
      /\ \A k \in 1 .. m : all[k] = code[k]
      /\ \A k \in 1 .. Len(lowered) : all[m + k] = lowered[k]
  BY Appended
<1> HIDE DEF all, m
<1>2. ASSUME NEW k \in DOMAIN all
      PROVE  all[k].at = i <=> \E j \in DOMAIN lowered : k = m + j
  <2>1. CASE k <= m
    BY <1>1, <2>1
  <2>2. CASE k > m
    <3>1. k - m \in DOMAIN lowered /\ m + (k - m) = k
      BY <1>1, <2>2
    <3>2. all[m + (k - m)].at = i
      BY <1>1, <3>1
    <3> QED
      BY <3>1, <3>2
  <2> QED
    BY <1>1, <2>1, <2>2
<1>3. \A j \in DOMAIN lowered : m + j \in DOMAIN all
  BY <1>1
<1>4. {k \in DOMAIN all : all[k].at = i} = {m + k : k \in DOMAIN lowered}
  BY <1>2, <1>3
<1>5. m \in 0 .. Len(all)
  BY <1>1
<1> QED
  BY <1>1, <1>4, <1>5 DEF Translated, all

\* Code of later lines, one after the other, goes behind code in order.
LEMMA OrderIsKept ==
    ASSUME NEW S, NEW code \in Seq(S), NEW more \in Seq(S), NEW source \in Seq(Token),
           InOrder(code, source), NEW i \in LineStarts(source),
           \A k \in DOMAIN code : code[k].at < i,
           \A k \in DOMAIN more : more[k].at = i
    PROVE  InOrder(code \o more, source)
<1> DEFINE m == Len(code)
           all == code \o more
<1>1. /\ m \in Nat /\ DOMAIN code = 1 .. m
      /\ Len(more) \in Nat /\ DOMAIN more = 1 .. Len(more)
      /\ DOMAIN all = 1 .. m + Len(more)
      /\ \A k \in 1 .. m : all[k] = code[k]
      /\ \A k \in 1 .. Len(more) : all[m + k] = more[k]
  BY Appended
<1>2. LineStarts(source) \subseteq Nat
  BY ElementOfSequence DEF LineStarts
<1> HIDE DEF all, m
<1>3. ASSUME NEW k \in DOMAIN all
      PROVE  IF k <= m THEN all[k].at \in LineStarts(source) /\ all[k].at < i
                       ELSE all[k].at = i
  <2>1. CASE k <= m
    BY <1>1, <2>1 DEF InOrder
  <2>2. CASE k > m
    <3>1. k - m \in DOMAIN more /\ m + (k - m) = k
      BY <1>1, <2>2
    <3> QED
      BY <1>1, <2>2, <3>1
  <2> QED
    BY <1>1, <2>1, <2>2
<1>4. ASSUME NEW k \in DOMAIN all, k > 1
      PROVE  all[k - 1].at <= all[k].at
  <2>1. k - 1 \in DOMAIN all /\ k \in Nat
    BY <1>1, <1>4
  <2>2. CASE k <= m
    <3>1. code[k - 1].at <= code[k].at /\ k - 1 \in 1 .. m /\ k \in 1 .. m
      BY <1>1, <1>4, <2>2 DEF InOrder
    <3> QED
      BY <1>1, <3>1
  <2>3. CASE k > m
    <3>1. all[k].at = i /\ all[k - 1].at \in Nat /\ (all[k - 1].at < i \/ all[k - 1].at = i)
      <4>1. all[k].at = i
        BY <1>1, <1>3, <2>1, <2>3
      <4>2. CASE k - 1 <= m
        <5>1. all[k - 1].at \in LineStarts(source) /\ all[k - 1].at < i
          BY <1>3, <2>1, <4>2
        <5> QED
          BY <1>2, <4>1, <5>1
      <4>3. CASE ~(k - 1 <= m)
        <5>1. all[k - 1].at = i
          BY <1>3, <2>1, <4>3
        <5> QED
          BY <1>2, <4>1, <5>1
      <4> QED
        BY <4>2, <4>3
    <3> QED
      BY <1>2, <3>1
  <2> QED
    BY <1>1, <2>1, <2>2, <2>3
<1> QED
  BY <1>3, <1>4 DEF InOrder, all

\* The line at i is a statement and has been translated.
Done(i) == IsStatement(Line(tokens, i)) /\ Translated(program, tokens, i)

\* The lines before pos are translated; once the encoder has started, all are.
LinesOK ==
    /\ InOrder(program, tokens)
    /\ phase \notin Encoders =>
          /\ AtLine
          /\ \A k \in DOMAIN program : program[k].at < pos
          /\ \A i \in LineStarts(tokens) : i < pos => Done(i)
    /\ phase \in Encoders => \A i \in LineStarts(tokens) : Done(i)

LinesIInv == LinesOK /\ ReportsFirstFault

\* There are no lines before the source is read.
LEMMA InitialLines ==
    ASSUME AssemblerInit
    PROVE  LinesIInv
<1> USE DEF AssemblerInit
<1>1. EndsLine(EndOfFile) /\ Len(tokens) = 1 /\ DOMAIN tokens = 1 .. 1
  BY DEF EndsLine
<1>2. LineStarts(tokens) = {}
  BY <1>1 DEF LineStarts
<1> QED
  BY <1>2 DEF LinesIInv, LinesOK, ReportsFirstFault, InOrder, AtLine, Encoders

\* Reading a source begins at its first line.
LEMMA ReadingKeepsLines ==
    ASSUME AssemblerIInv, LinesIInv, Read \/ FailToRead
    PROVE  LinesIInv'
<1>1. CASE Read
  <2>1. phase = "reading" /\ phase' = "parsing" /\ program' = program /\ pos' = pos
        /\ tokens' \in Sources
    BY <1>1 DEF Read
  <2>2. program = <<>> /\ pos = 1
    BY <2>1 DEF AssemblerIInv, PhaseOK
  <2>3. \A i \in LineStarts(tokens') : i \in Nat /\ ~(i < 1)
    <3>1. DOMAIN tokens' = 1 .. Len(tokens') /\ Len(tokens') \in Nat
      BY <2>1, SourcesAssumption, ElementOfSequence
    <3> QED
      BY <3>1 DEF LineStarts
  <2>4. LinesOK'
    BY <2>1, <2>2, <2>3 DEF LinesOK, InOrder, AtLine, Encoders
  <2> QED
    BY <2>1, <2>4 DEF LinesIInv, ReportsFirstFault
<1>2. CASE FailToRead
  BY <1>2 DEF FailToRead, LinesIInv, LinesOK, ReportsFirstFault, AtLine, Done, Encoders
<1> QED
  BY <1>1, <1>2

\* An empty line is not translated.
LEMMA SkippingKeepsLines ==
    ASSUME AssemblerIInv, LinesIInv, SkipNewLine
    PROVE  LinesIInv'
<1>1. /\ phase = "parsing" /\ tokens[pos] = NewLine /\ pos' = pos + 1
      /\ UNCHANGED <<phase, tokens, program>>
  BY DEF SkipNewLine
<1>2. TokensOK /\ pos \in 1 .. Len(tokens) /\ phase \notin Encoders
  BY <1>1 DEF AssemblerIInv, ParserOK, Encoders
<1>3. pos \in Nat /\ Len(tokens) \in Nat /\ DOMAIN tokens = 1 .. Len(tokens)
  BY <1>2, TokensAhead
<1>4. \A i \in LineStarts(tokens) : i < pos + 1 => i < pos
  BY <1>1, <1>3 DEF LineStarts, EndsLine
<1>5. AtLine'
  BY <1>1, <1>3 DEF AtLine
<1>6. \A k \in DOMAIN program : program[k].at < pos + 1
  <2>1. \A k \in DOMAIN program : program[k].at < pos /\ program[k].at \in Nat
    BY <1>2, <1>3 DEF LinesIInv, LinesOK, InOrder, LineStarts
  <2> QED
    BY <1>3, <2>1
<1>7. LinesOK'
  BY <1>1, <1>2, <1>4, <1>5, <1>6 DEF LinesIInv, LinesOK, Done
<1> QED
  BY <1>1, <1>7 DEF LinesIInv, ReportsFirstFault

\* Parsing a line translates it, and goes to its end.
LEMMA ParsingKeepsLines ==
    ASSUME AssemblerIInv, LinesIInv, ParseInstruction
    PROVE  LinesIInv'
<1> DEFINE op == tokens[pos].value
           operands == SubSeq(tokens, pos + 1, pos + Len(Wanted))
           lowered == Lowered(Make(op, operands, pos))
           e == pos + Len(Wanted) + 1
<1>1. /\ phase = "parsing" /\ ~EndsLine(tokens[pos]) /\ Unfit = {}
      /\ program' = program \o lowered /\ pos' = e
      /\ UNCHANGED <<phase, tokens>>
  BY DEF ParseInstruction
<1>2. TokensOK /\ pos \in 1 .. Len(tokens) /\ phase \notin Encoders
  BY <1>1 DEF AssemblerIInv, ParserOK, Encoders
<1>3. /\ pos \in Nat /\ Len(tokens) \in Nat /\ DOMAIN tokens = 1 .. Len(tokens)
      /\ tokens \in Seq(Token)
  BY <1>2, TokensAhead DEF TokensOK
<1>4. /\ e \in pos + 1 .. Len(tokens) /\ EndsLine(tokens[e])
      /\ \A j \in pos .. e - 1 : ~EndsLine(tokens[j])
      /\ IsStatement(Line(tokens, pos))
      /\ Tail(Line(tokens, pos)) = operands
  BY <1>1, <1>2, StatementIsLine
<1>5. GoodLowering(lowered, pos)
  BY <1>1, <1>2, <1>3, StatementIsAccepted, LoweredIsGood
<1>6. /\ lowered \in Seq(MachineInstruction) /\ program \in Seq(MachineInstruction)
      /\ \A k \in DOMAIN lowered : lowered[k].at = pos
  BY <1>5 DEF GoodLowering, AssemblerIInv, ProgramOK
<1>7. lowered = Lowered(Make(tokens[pos].value, Tail(Line(tokens, pos)), pos))
  BY <1>4
<1> HIDE DEF op, operands, lowered, e
<1>8. /\ InOrder(program, tokens) /\ AtLine
      /\ \A k \in DOMAIN program : program[k].at < pos
      /\ \A i \in LineStarts(tokens) : i < pos => Done(i)
  BY <1>2 DEF LinesIInv, LinesOK
<1>9. pos \in LineStarts(tokens) /\ LineStarts(tokens) \subseteq Nat
  BY <1>1, <1>2, <1>3, <1>8 DEF LineStarts, AtLine
<1>10. ASSUME NEW i \in LineStarts(tokens), i < e PROVE i <= pos
  <2>1. e \in pos .. Len(tokens)
    BY <1>3, <1>4
  <2> QED
    BY <1>2, <1>3, <1>4, <1>10, <2>1, LinesAreApart
<1>11. InOrder(program', tokens)
  BY <1>1, <1>3, <1>6, <1>8, <1>9, OrderIsKept
<1>12. Translated(program', tokens, pos)
  <2>1. \A k \in DOMAIN program : program[k].at # pos
    BY <1>3, <1>8
  <2> QED
    BY <1>1, <1>6, <1>7, <2>1, LineIsTranslated
<1>13. ASSUME NEW i \in LineStarts(tokens), i < pos
       PROVE  IsStatement(Line(tokens, i)) /\ Translated(program', tokens, i)
  <2>1. Done(i)
    BY <1>8, <1>13
  <2>2. \A k \in DOMAIN lowered : lowered[k].at # i
    BY <1>3, <1>6, <1>13
  <2> QED
    BY <1>1, <1>6, <2>1, <2>2, TranslationIsKept DEF Done
<1>14. \A k \in DOMAIN program' : program'[k].at < e
  <2> SUFFICES ASSUME NEW k \in DOMAIN program' PROVE program'[k].at < e
    OBVIOUS
  <2>1. /\ Len(program) \in Nat /\ DOMAIN program = 1 .. Len(program)
        /\ Len(lowered) \in Nat /\ DOMAIN lowered = 1 .. Len(lowered)
        /\ DOMAIN program' = 1 .. Len(program) + Len(lowered)
        /\ \A j \in 1 .. Len(program) : program'[j] = program[j]
        /\ \A j \in 1 .. Len(lowered) : program'[Len(program) + j] = lowered[j]
    BY <1>1, <1>6, Appended
  <2>2. program'[k].at \in Nat
    BY <1>9, <1>11 DEF InOrder
  <2>3. e > pos /\ e \in Nat
    BY <1>3, <1>4
  <2>4. CASE k <= Len(program)
    <3>1. program'[k].at < pos
      BY <1>8, <2>1, <2>4
    <3> QED
      BY <1>3, <2>2, <2>3, <3>1
  <2>5. CASE k > Len(program)
    <3>1. k - Len(program) \in 1 .. Len(lowered) /\ Len(program) + (k - Len(program)) = k
      BY <2>1, <2>5
    <3>2. program'[k].at = pos
      BY <1>6, <2>1, <3>1
    <3> QED
      BY <2>3, <3>2
  <2> QED
    BY <2>1, <2>4, <2>5
<1>15. ASSUME NEW i \in LineStarts(tokens), i < e
       PROVE  IsStatement(Line(tokens, i)) /\ Translated(program', tokens, i)
  <2>1. i <= pos /\ i \in Nat
    BY <1>9, <1>10, <1>15
  <2> QED
    BY <1>3, <1>4, <1>12, <1>13, <2>1
<1>16. LinesOK'
  BY <1>1, <1>2, <1>4, <1>11, <1>14, <1>15 DEF LinesOK, AtLine, Done
<1> QED
  BY <1>1, <1>16 DEF LinesIInv, ReportsFirstFault

\* A line is refused at its first fault, when all lines before it were translated.
LEMMA RefusingKeepsLines ==
    ASSUME AssemblerIInv, LinesIInv, RefuseInstruction
    PROVE  LinesIInv'
<1>1. /\ phase = "parsing" /\ ~EndsLine(tokens[pos]) /\ Unfit # {}
      /\ phase' = "syntax error"
      /\ errorAt' = CHOOSE k \in Unfit : \A j \in Unfit : k <= j
      /\ UNCHANGED <<tokens, pos, program>>
  BY DEF RefuseInstruction
<1>2. TokensOK /\ pos \in 1 .. Len(tokens) /\ phase \notin Encoders
  BY <1>1 DEF AssemblerIInv, ParserOK, Encoders
<1>3. /\ pos \in Nat \ {0} /\ Len(tokens) \in Nat /\ DOMAIN tokens = 1 .. Len(tokens)
  BY <1>2, TokensAhead
<1>4. /\ AtLine
      /\ \A i \in LineStarts(tokens) : i < pos => Done(i)
  BY <1>2 DEF LinesIInv, LinesOK
<1>5. pos \in LineStarts(tokens)
  BY <1>1, <1>2, <1>3, <1>4 DEF LineStarts, AtLine
<1>6. errorAt' \in Unfit /\ \A j \in Unfit : errorAt' <= j
  <2>1. Unfit \in SUBSET Nat
    <3>1. DOMAIN Wanted \subseteq Nat /\ Len(Wanted) \in Nat
      <4>1. CASE tokens[pos].type = OperationKind
        <5>1. tokens[pos].value \in Operations
          BY <1>2, <1>3, <4>1, KindsOfTokens, TokensAhead
        <5>2. Wanted = Format(tokens[pos].value)
          BY <4>1 DEF Wanted
        <5> QED
          BY <5>1, <5>2, SlotsOfFormat
      <4>2. CASE tokens[pos].type # OperationKind
        BY <4>2 DEF Wanted
      <4> QED
        BY <4>1, <4>2
    <3> QED
      BY <1>3, <3>1 DEF Unfit
  <2>2. \E k \in Unfit : \A j \in Unfit : k <= j
    BY <1>1, <2>1, LeastOf
  <2> HIDE DEF Unfit
  <2> QED
    BY <1>1, <2>2
<1>7. LET line == Line(tokens, pos)
      IN  /\ ~IsStatement(line)
          /\ errorAt' - pos \in 0 .. Len(line)
          /\ FitsUpTo(line, errorAt' - pos)
          /\ errorAt' - pos < Len(line) => ~FitsUpTo(line, errorAt' - pos + 1)
  BY <1>1, <1>2, <1>6, FaultOfLine
<1>8. ReportsFirstFault'
  BY <1>1, <1>4, <1>5, <1>7 DEF ReportsFirstFault, Done
<1>9. LinesOK'
  BY <1>1, <1>2 DEF LinesIInv, LinesOK, AtLine, Done, Encoders
<1> QED
  BY <1>8, <1>9 DEF LinesIInv

\* At the end of the file no line is left.
LEMMA EndOfParsingKeepsLines ==
    ASSUME AssemblerIInv, LinesIInv, EndParsing
    PROVE  LinesIInv'
<1>1. /\ phase = "parsing" /\ tokens[pos] = EndOfFile /\ phase' = "encoding"
      /\ UNCHANGED <<tokens, program>>
  BY DEF EndParsing
<1>2. TokensOK /\ pos \in 1 .. Len(tokens) /\ phase \notin Encoders
  BY <1>1 DEF AssemblerIInv, ParserOK, Encoders
<1>3. pos = Len(tokens)
  BY <1>1, <1>2, TokensAhead DEF TokensOK
<1>4. \A i \in LineStarts(tokens) : i < pos
  BY <1>2, <1>3, LineStartsAreLines
<1>5. LinesOK'
  BY <1>1, <1>2, <1>4 DEF LinesIInv, LinesOK, Done, Encoders
<1> QED
  BY <1>1, <1>5 DEF LinesIInv, ReportsFirstFault

\* The encoder and the writer leave the program as it is.
LEMMA LaterStepsKeepLines ==
    ASSUME AssemblerIInv, LinesIInv,
           \/ EncodeInstruction \/ EndEncoding \/ FailToOpen \/ Write
           \/ \E n \in DOMAIN bytes : FailToWrite(n - 1)
           \/ UNCHANGED assemblerVars
    PROVE  LinesIInv'
<1>1. CASE UNCHANGED assemblerVars
  BY <1>1 DEF assemblerVars, LinesIInv, LinesOK, AtLine, Done, ReportsFirstFault
<1>2. CASE ~UNCHANGED assemblerVars
  <2>1. /\ phase \in Encoders /\ phase' \in Encoders
        /\ UNCHANGED <<tokens, program>>
    BY <1>2 DEF EncodeInstruction, EndEncoding, FailToOpen, Write, FailToWrite, Encoders
  <2>2. phase' # "syntax error"
    BY <2>1 DEF Encoders
  <2>3. LinesOK'
    BY <2>1 DEF LinesIInv, LinesOK, Done
  <2> QED
    BY <2>2, <2>3 DEF LinesIInv, ReportsFirstFault
<1> QED
  BY <1>1, <1>2

\* The lines before pos are translated at every step of the assembler.
THEOREM LinesInvariant == AssemblerSpec => []LinesIInv
<1>1. AssemblerInit => LinesIInv
  BY InitialLines
<1>2. AssemblerIInv /\ LinesIInv /\ [AssemblerNext]_assemblerVars => LinesIInv'
  BY ReadingKeepsLines, SkippingKeepsLines, ParsingKeepsLines, RefusingKeepsLines,
     EndOfParsingKeepsLines, LaterStepsKeepLines DEF AssemblerNext, Proceed
<1> QED
  BY <1>1, <1>2, AssemblerInvariant, PTL DEF AssemblerSpec

-----------------------------------------------------------------------------
(* Results *)

\* Positions stay positions, and every byte fits a byte, for sources of any length.
THEOREM AssemblerTypeCorrect == AssemblerSpec => []AssemblerTypeOK
<1>1. AssemblerIInv => AssemblerTypeOK
  <2> SUFFICES ASSUME AssemblerIInv PROVE AssemblerTypeOK
    OBVIOUS
  <2> USE DEF AssemblerIInv
  <2>1. tokens \in Seq(Token) /\ tokens[Len(tokens)] = EndOfFile
    BY TokensAhead DEF TokensOK
  <2>2. pos \in 1 .. (IF phase \in Encoders THEN Len(program) + 1 ELSE Len(tokens))
    BY DEF ParserOK, BytesOK
  <2>3. \A k \in DOMAIN program : program[k].at \in DOMAIN tokens
    BY DEF ProgramOK
  <2>4. bytes \in Seq(Byte) /\ file \in Seq(Byte)
    BY DEF BytesOK, FileOK
  <2>5. phase \in Phases /\ errorAt \in 0 .. Len(tokens)
    BY DEF PhaseOK
  <2> QED
    BY <2>1, <2>2, <2>3, <2>4, <2>5 DEF AssemblerTypeOK, Encoders
<1> QED
  BY <1>1, AssemblerInvariant, PTL

\* The encoder throws for no program that the parser makes.
THEOREM EncoderNeverFails == AssemblerSpec => []EncoderAcceptsParser
<1>1. AssemblerIInv => EncoderAcceptsParser
  BY DEF AssemblerIInv, PhaseOK, EncoderAcceptsParser
<1> QED
  BY <1>1, AssemblerInvariant, PTL

\* A source with an error leaves the output file as it was.
THEOREM ErrorsKeepTheFile == AssemblerSpec => []ErrorKeepsOldFile
<1>1. AssemblerIInv => ErrorKeepsOldFile
  BY DEF AssemblerIInv, FileOK, ErrorKeepsOldFile
<1> QED
  BY <1>1, AssemblerInvariant, PTL

\* No value passes from one line to another through R31.
THEOREM TempStaysLocal == AssemblerSpec => []TempIsLocal
<1>1. AssemblerIInv => TempIsLocal
  BY DEF AssemblerIInv, ProgramOK, TempIsLocal
<1> QED
  BY <1>1, AssemblerInvariant, PTL

\* The words that are encoded: one for each of the first instructions.
LEMMA WordsOfProgram ==
    ASSUME AssemblerIInv, NEW k \in 1 .. Len(bytes) \div InstructionSize
    PROVE  /\ k \in DOMAIN program
           /\ WellFormed(program[k])
           /\ WordOf(k) = Decode(Encoded(program[k]))
<1> USE DEF AssemblerIInv
<1>1. CASE phase \notin Encoders
  <2>1. bytes = <<>>
    BY <1>1 DEF ParserOK
  <2> QED
    BY <2>1 DEF InstructionSize
<1>2. CASE phase \in Encoders
  <2>1. /\ pos \in 1 .. Len(program) + 1 /\ Len(bytes) = 4 * (pos - 1)
        /\ \A j \in 1 .. pos - 1 : SubSeq(bytes, 4 * j - 3, 4 * j) = Encoded(program[j])
    BY <1>2 DEF BytesOK
  <2>2. DOMAIN program = 1 .. Len(program) /\ Len(program) \in Nat
    BY ElementOfSequence DEF ProgramOK
  <2>3. k \in 1 .. pos - 1
    BY <2>1, <2>2 DEF InstructionSize
  <2>4. k \in DOMAIN program
    BY <2>1, <2>2, <2>3
  <2>5. WellFormed(program[k])
    BY <2>4 DEF ProgramOK
  <2> QED
    BY <2>1, <2>3, <2>4, <2>5 DEF WordOf
<1> QED
  BY <1>1, <1>2

\* The emulator takes every word for an instruction on existing registers.
THEOREM AssembledCodeIsExecutable == AssemblerSpec => []AssembledIsExecutable
<1>1. AssemblerIInv => AssembledIsExecutable
  <2> SUFFICES ASSUME AssemblerIInv, NEW k \in 1 .. Len(bytes) \div InstructionSize
               PROVE  IsExecutable(WordOf(k))
    BY DEF AssembledIsExecutable, IsExecutable
  <2> QED
    BY WordsOfProgram, EncodedIsWord
<1> QED
  BY <1>1, AssemblerInvariant, PTL

\* The emulator decodes what was written.
THEOREM EncodingRoundTrips == AssemblerSpec => []DecodesAsWritten
<1>1. AssemblerIInv => DecodesAsWritten
  <2> SUFFICES ASSUME AssemblerIInv, NEW k \in 1 .. Len(bytes) \div InstructionSize
               PROVE  IsWordOf(WordOf(k), program[k])
    BY DEF DecodesAsWritten, IsWordOf
  <2> QED
    BY WordsOfProgram, EncodedIsWord
<1> QED
  BY <1>1, AssemblerInvariant, PTL

\* An accepted source is one instruction on each line, and the program is these.
THEOREM EveryLineIsTranslated == AssemblerSpec => []TranslatesEveryLine
<1>1. LinesIInv => TranslatesEveryLine
  BY DEF LinesIInv, LinesOK, Done, TranslatesEveryLine, Encoders
<1> QED
  BY <1>1, LinesInvariant, PTL

\* An error points at the first fault of the first line that is no instruction.
THEOREM FirstFaultIsReported == AssemblerSpec => []ReportsFirstFault
<1>1. LinesIInv => ReportsFirstFault
  BY DEF LinesIInv
<1> QED
  BY <1>1, LinesInvariant, PTL
=============================================================================
