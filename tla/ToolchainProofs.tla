--------------------------- MODULE ToolchainProofs ---------------------------
(***************************************************************************)
(* What TLAPS proves about Toolchain: for all sources whose operations are *)
(* on registers, an assembled program that is executed behaves as          *)
(* SourceProgram says.                                                     *)
(*                                                                         *)
(* The assembler lays the instructions of every statement out where        *)
(* SourceProgram says the statement begins; the words of the output file   *)
(* decode to them; every one of them, executed, does its part of its       *)
(* statement; and so every step of the emulator is a step of the source    *)
(* program or none.                                                        *)
(***************************************************************************)
EXTENDS Toolchain, EmulatorProofs, AssemblerProofs, FiniteSetTheorems

-----------------------------------------------------------------------------
(* Where statements begin *)

Width(op) == Layout!Width(op)

\* How many instructions a statement becomes.
LEMMA WidthOf ==
    ASSUME NEW op
    PROVE  /\ Width(op) = IF op \in {NEG, LFI} THEN 2 ELSE IF op = NOT THEN 3 ELSE 1
           /\ Width(op) \in 1 .. 3
           /\ Source!Width(op) = Width(op)
<1>1. Width(op) = IF op \in {NEG, LFI} THEN 2 ELSE IF op = NOT THEN 3 ELSE 1
  BY DEF Width, Layout!Width, Layout!NEG, Layout!LFI, Layout!NOT, NEG, LFI, NOT
<1>2. Source!Width(op) = Width(op)
  BY DEF Width, Layout!Width, Layout!NEG, Layout!LFI, Layout!NOT,
     Source!Width, Source!NEG, Source!LFI, Source!NOT
<1> QED
  BY <1>1, <1>2

Wider(t, n, words) == {k \in 1 .. n - 1 : Width(t[k].op) >= words}

\* The address at which the n-th statement of t begins.
StartOf(t, n) ==
    InstructionSize * (n - 1 + Cardinality(Wider(t, n, 2)) + Cardinality(Wider(t, n, 3)))

\* The two copies of SourceProgram count alike.
LEMMA CountsAlike ==
    ASSUME NEW S
    PROVE  Source!Cardinality(S) = Cardinality(S) /\ Layout!Cardinality(S) = Cardinality(S)
BY Zenon DEF Source!Cardinality, Layout!Cardinality, Cardinality

\* The addresses that SourceProgram gives to statements.
LEMMA StartsOf ==
    /\ Layout!Starts = [n \in 1 .. Len(text) + 1 |-> StartOf(text, n)]
    /\ Source!Starts = [n \in 1 .. Len(text) + 1 |-> StartOf(text, n)]
<1>1. \A n, words : {k \in 1 .. n - 1 : Source!Width(text[k].op) >= words} = Wider(text, n, words)
  BY WidthOf DEF Wider
<1>2. \A n, words : {k \in 1 .. n - 1 : Layout!Width(text[k].op) >= words} = Wider(text, n, words)
  BY DEF Wider, Width
<1>3. Source!Starts = [n \in 1 .. Len(text) + 1 |-> StartOf(text, n)]
  BY <1>1, CountsAlike, Zenon DEF Source!Starts, Source!InstructionSize, StartOf, InstructionSize
<1>4. Layout!Starts = [n \in 1 .. Len(text) + 1 |-> StartOf(text, n)]
  BY <1>2, CountsAlike, Zenon DEF Layout!Starts, Layout!InstructionSize, StartOf, InstructionSize
<1> QED
  BY <1>3, <1>4

\* The sets that are counted: finite, and growing by at most one statement.
LEMMA WiderGrows ==
    ASSUME NEW t, NEW n \in Nat \ {0}, NEW words
    PROVE  /\ IsFiniteSet(Wider(t, n, words))
           /\ Cardinality(Wider(t, n, words)) \in Nat
           /\ Cardinality(Wider(t, n + 1, words)) =
                Cardinality(Wider(t, n, words)) + (IF Width(t[n].op) >= words THEN 1 ELSE 0)
<1>1. IsFiniteSet(1 .. n - 1)
  BY FS_Interval
<1>2. Wider(t, n, words) \in SUBSET (1 .. n - 1)
  BY DEF Wider
<1>3. IsFiniteSet(Wider(t, n, words))
  BY <1>1, <1>2, FS_Subset
<1>4. Cardinality(Wider(t, n, words)) \in Nat
  BY <1>3, FS_CardinalityType
<1>5. CASE Width(t[n].op) >= words
  <2>1. Wider(t, n + 1, words) = Wider(t, n, words) \union {n}
    BY <1>5 DEF Wider
  <2>2. n \notin Wider(t, n, words)
    BY DEF Wider
  <2> QED
    BY <1>3, <1>4, <1>5, <2>1, <2>2, FS_AddElement
<1>6. CASE ~(Width(t[n].op) >= words)
  <2>1. Wider(t, n + 1, words) = Wider(t, n, words)
    BY <1>6 DEF Wider
  <2> QED
    BY <1>3, <1>4, <1>6, <2>1
<1> QED
  BY <1>5, <1>6

\* A statement begins where the one before it ends.
LEMMA NextStart ==
    ASSUME NEW t, NEW n \in Nat \ {0}
    PROVE  /\ StartOf(t, n) \in Nat
           /\ StartOf(t, n) % InstructionSize = 0
           /\ StartOf(t, n + 1) = StartOf(t, n) + InstructionSize * Width(t[n].op)
<1> DEFINE a == Cardinality(Wider(t, n, 2))
           b == Cardinality(Wider(t, n, 3))
           w == Width(t[n].op)
<1>1. a \in Nat /\ b \in Nat
  BY WiderGrows
<1>2. /\ Cardinality(Wider(t, n + 1, 2)) = a + (IF w >= 2 THEN 1 ELSE 0)
      /\ Cardinality(Wider(t, n + 1, 3)) = b + (IF w >= 3 THEN 1 ELSE 0)
  BY WiderGrows
<1>3. w \in 1 .. 3
  BY WidthOf
<1>4. StartOf(t, n) = 4 * (n - 1 + a + b)
  BY DEF StartOf, InstructionSize
<1>5. StartOf(t, n + 1) = 4 * ((n + 1) - 1 + Cardinality(Wider(t, n + 1, 2))
                                         + Cardinality(Wider(t, n + 1, 3)))
  BY DEF StartOf, InstructionSize
<1> HIDE DEF a, b, w
<1>6. StartOf(t, n + 1) = StartOf(t, n) + 4 * w
  BY <1>1, <1>2, <1>3, <1>4, <1>5
<1> QED
  BY <1>1, <1>4, <1>6 DEF InstructionSize, w

\* A program begins at address 0.
LEMMA FirstStart ==
    ASSUME NEW t
    PROVE  StartOf(t, 1) = 0
<1>1. Wider(t, 1, 2) = {} /\ Wider(t, 1, 3) = {}
  BY DEF Wider
<1> QED
  BY <1>1, FS_EmptySet DEF StartOf, InstructionSize

\* No two statements share an address.
LEMMA StartsAreApart ==
    ASSUME NEW t, NEW m \in Nat \ {0}, NEW n \in Nat \ {0}, m < n
    PROVE  StartOf(t, m) + InstructionSize * Width(t[m].op) <= StartOf(t, n)
<1>1. ASSUME NEW words
      PROVE  Cardinality(Wider(t, m + 1, words)) <= Cardinality(Wider(t, n, words))
  <2>1. Wider(t, m + 1, words) \in SUBSET Wider(t, n, words)
    BY DEF Wider
  <2> QED
    BY <2>1, WiderGrows, FS_Subset
<1>2. \A k \in Nat \ {0} : /\ Cardinality(Wider(t, k, 2)) \in Nat
                           /\ Cardinality(Wider(t, k, 3)) \in Nat
  BY WiderGrows
<1>3. /\ Cardinality(Wider(t, m + 1, 2)) <= Cardinality(Wider(t, n, 2))
      /\ Cardinality(Wider(t, m + 1, 3)) <= Cardinality(Wider(t, n, 3))
  BY <1>1
<1>4. StartOf(t, m + 1) <= StartOf(t, n)
  BY <1>2, <1>3 DEF StartOf, InstructionSize
<1> QED
  BY <1>4, NextStart

\* An address inside the code is in one statement.
LEMMA StatementOf ==
    ASSUME NEW t, NEW past \in Nat \ {0}, NEW a \in Nat, a < StartOf(t, past)
    PROVE  \E n \in 1 .. past - 1 : StartOf(t, n) <= a /\ a < StartOf(t, n + 1)
<1> DEFINE S == {n \in Nat \ {0} : a < StartOf(t, n)}
<1>1. PICK k \in S : \A j \in S : k <= j
  <2>1. S \in SUBSET Nat /\ S # {}
    OBVIOUS
  <2> HIDE DEF S
  <2> QED
    BY <2>1, LeastOf
<1>2. k # 1
  BY FirstStart
<1>3. k - 1 \in 1 .. past - 1 /\ (k - 1) + 1 = k
  BY <1>1, <1>2
<1>4. ~(a < StartOf(t, k - 1))
  BY <1>1, <1>3
<1>5. StartOf(t, k - 1) \in Nat
  BY <1>3, NextStart
<1> QED
  BY <1>1, <1>3, <1>4, <1>5

\* The number of instructions before the n-th statement of t.
IndexOf(t, n) == StartOf(t, n) \div InstructionSize

\* A statement's instructions end where those of the next one begin.
LEMMA NextIndex ==
    ASSUME NEW t, NEW n \in Nat \ {0}
    PROVE  /\ IndexOf(t, n) \in Nat
           /\ StartOf(t, n) = InstructionSize * IndexOf(t, n)
           /\ IndexOf(t, n + 1) = IndexOf(t, n) + Width(t[n].op)
           /\ IndexOf(t, 1) = 0
<1> DEFINE s == StartOf(t, n)
           r == StartOf(t, n + 1)
           w == Width(t[n].op)
<1>1. s \in Nat /\ s % 4 = 0 /\ r = s + 4 * w /\ StartOf(t, 1) = 0
  BY NextStart, FirstStart DEF InstructionSize
<1>2. w \in Nat
  BY WidthOf
<1>3. IndexOf(t, n) = s \div 4 /\ IndexOf(t, n + 1) = r \div 4 /\ IndexOf(t, 1) = StartOf(t, 1) \div 4
  BY DEF IndexOf, InstructionSize
<1> HIDE DEF s, r, w
<1>4. s \div 4 \in Nat /\ s = 4 * (s \div 4) /\ r \div 4 = s \div 4 + w /\ 0 \div 4 = 0
  BY <1>1, <1>2
<1> QED
  BY <1>1, <1>3, <1>4 DEF s, w, InstructionSize

-----------------------------------------------------------------------------
(* Parsing, statement by statement *)

OperationsBefore(ts, i) == {j \in OperationsOf(ts) : j < i}

CountBefore(ts, i) == Cardinality(OperationsBefore(ts, i))

\* The operations of a sequence of tokens can be counted.
LEMMA OperationsAreFinite ==
    ASSUME NEW ts, ts \in Seq(Token)
    PROVE  /\ IsFiniteSet(OperationsOf(ts)) /\ Cardinality(OperationsOf(ts)) \in Nat
           /\ OperationsOf(ts) \in SUBSET (1 .. Len(ts))
           /\ \A k \in OperationsOf(ts) :
                 k \in Nat /\ ts[k].type = OperationKind /\ ts[k].value \in Operations
<1>1. Len(ts) \in Nat /\ DOMAIN ts = 1 .. Len(ts) /\ \A k \in DOMAIN ts : ts[k] \in Token
  BY ElementOfSequence
<1>2. OperationsOf(ts) \in SUBSET (1 .. Len(ts))
  BY <1>1 DEF OperationsOf
<1>3. IsFiniteSet(1 .. Len(ts))
  BY <1>1, FS_Interval
<1>4. IsFiniteSet(OperationsOf(ts))
  BY <1>2, <1>3, FS_Subset
<1>5. \A k \in OperationsOf(ts) :
        k \in Nat /\ ts[k].type = OperationKind /\ ts[k].value \in Operations
  BY <1>1, <1>2, KindsOfTokens DEF OperationsOf
<1> QED
  BY <1>2, <1>4, <1>5, FS_CardinalityType

\* So can those before a token.
LEMMA CountIsNatural ==
    ASSUME NEW ts, ts \in Seq(Token), NEW i
    PROVE  IsFiniteSet(OperationsBefore(ts, i)) /\ CountBefore(ts, i) \in Nat
<1>1. OperationsBefore(ts, i) \in SUBSET OperationsOf(ts)
  BY DEF OperationsBefore
<1>2. IsFiniteSet(OperationsBefore(ts, i))
  BY <1>1, OperationsAreFinite, FS_Subset
<1> QED
  BY <1>2, FS_CardinalityType DEF CountBefore

\* Behind an operation, one more has been counted.
LEMMA CountsOperation ==
    ASSUME NEW ts, ts \in Seq(Token), NEW i \in OperationsOf(ts), NEW j \in Nat, i < j,
           \A k \in OperationsOf(ts) : k < j => k <= i
    PROVE  CountBefore(ts, j) = CountBefore(ts, i) + 1
<1>1. i \in Nat
  BY OperationsAreFinite
<1>2. OperationsBefore(ts, j) = OperationsBefore(ts, i) \union {i}
  BY <1>1, OperationsAreFinite DEF OperationsBefore
<1>3. i \notin OperationsBefore(ts, i)
  BY <1>1 DEF OperationsBefore
<1> QED
  BY <1>2, <1>3, CountIsNatural, FS_AddElement DEF CountBefore

\* A statement has its number.
LEMMA NumberOfStatement ==
    ASSUME NEW ts, ts \in Seq(Token), NEW i \in OperationsOf(ts)
    PROVE  /\ CountBefore(ts, i) + 1 \in 1 .. Cardinality(OperationsOf(ts))
           /\ PlaceOfStatement(ts, CountBefore(ts, i) + 1) = i
<1>1. ASSUME NEW j \in OperationsOf(ts), NEW k \in OperationsOf(ts), j < k
      PROVE  CountBefore(ts, j) + 1 <= CountBefore(ts, k)
  <2>1. j \in Nat /\ k \in Nat
    BY OperationsAreFinite
  <2>2. OperationsBefore(ts, j) \union {j} \in SUBSET OperationsBefore(ts, k)
    BY <1>1, <2>1, OperationsAreFinite DEF OperationsBefore
  <2>3. j \notin OperationsBefore(ts, j)
    BY <2>1 DEF OperationsBefore
  <2>4. Cardinality(OperationsBefore(ts, j) \union {j}) = CountBefore(ts, j) + 1
    BY <2>3, CountIsNatural, FS_AddElement DEF CountBefore
  <2> QED
    BY <2>2, <2>4, CountIsNatural, FS_Subset DEF CountBefore
<1>2. \A j \in OperationsOf(ts) : j \in Nat /\ CountBefore(ts, j) \in Nat
  BY OperationsAreFinite, CountIsNatural
<1>3. CountBefore(ts, i) + 1 <= Cardinality(OperationsOf(ts))
  <2>1. OperationsBefore(ts, i) \union {i} \in SUBSET OperationsOf(ts)
    BY DEF OperationsBefore
  <2>2. i \notin OperationsBefore(ts, i)
    BY <1>2 DEF OperationsBefore
  <2>3. Cardinality(OperationsBefore(ts, i) \union {i}) = CountBefore(ts, i) + 1
    BY <2>2, CountIsNatural, FS_AddElement DEF CountBefore
  <2> QED
    BY <1>2, <2>1, <2>3, OperationsAreFinite, FS_Subset
<1>4. \A j \in OperationsOf(ts) : CountBefore(ts, j) = CountBefore(ts, i) => j = i
  <2> SUFFICES ASSUME NEW j \in OperationsOf(ts), CountBefore(ts, j) = CountBefore(ts, i), j # i
               PROVE  FALSE
    OBVIOUS
  <2>1. j < i \/ i < j
    BY <1>2
  <2> QED
    BY <1>1, <1>2, <2>1
<1>5. \A j \in OperationsOf(ts) :
        Cardinality({k \in OperationsOf(ts) : k < j}) = (CountBefore(ts, i) + 1) - 1 <=> j = i
  <2>1. (CountBefore(ts, i) + 1) - 1 = CountBefore(ts, i)
    BY <1>2
  <2>2. \A j : Cardinality({k \in OperationsOf(ts) : k < j}) = CountBefore(ts, j)
    BY Zenon DEF CountBefore, OperationsBefore
  <2> QED
    BY <1>4, <2>1, <2>2
<1>6. PlaceOfStatement(ts, CountBefore(ts, i) + 1) = i
  BY <1>5 DEF PlaceOfStatement
<1> QED
  BY <1>2, <1>3, <1>6, OperationsAreFinite

ValuesOf(operands) == [k \in DOMAIN operands |-> operands[k].value]

\* x is the k-th of the instructions that statement s is lowered to.
Becomes(x, s, k) ==
    \E operands \in Seq(Operand), at \in Nat :
        /\ Accepted(s.op, operands)
        /\ s.args = ValuesOf(operands)
        /\ x = Lowered(Make(s.op, operands, at))[k]

\* The first n statements of t are in the program, and the program is no longer.
LaidOut(ts, n) ==
    LET t == Statements(ts)
    IN  /\ Len(program) = IndexOf(t, n + 1)
        /\ \A m \in 1 .. n :
              /\ \E i \in OperationsOf(ts) : t[m] = StatementAt(ts, i)
              /\ \A k \in 1 .. Width(t[m].op) : Becomes(program[IndexOf(t, m) + k], t[m], k)

\* The parser has laid out the statements before pos, and at last all of them.
ParsedIInv ==
    /\ phase = "parsing" => LaidOut(tokens, CountBefore(tokens, pos))
    /\ phase \in Encoders => LaidOut(tokens, CountBefore(tokens, Len(tokens)))

\* What each statement is lowered to.
LEMMA LoweredTo ==
    ASSUME NEW op \in Operations, NEW operands, NEW at, NEW a, a = operands[1].value,
           NEW b, b = operands[2].value, NEW l, l = Lowered(Make(op, operands, at))
    PROVE  /\ op \in Opcodes => l = <<Make(op, operands, at)>>
           /\ op = MOV => l = <<RegisterInstruction(OR, a, b, b, at)>>
           /\ op = NEG => l = <<LoadInstruction(LI, AssemblerTemp, 0, at),
                                RegisterInstruction(SUB, a, AssemblerTemp, b, at)>>
           /\ op = NOT => l = <<LoadInstruction(LI, AssemblerTemp, HalfMod - 1, at),
                                LoadInstruction(LUI, AssemblerTemp, HalfMod - 1, at),
                                RegisterInstruction(XOR, a, a, AssemblerTemp, at)>>
           /\ op = LFI => l = <<LoadInstruction(LI, a, b % HalfMod, at),
                                LoadInstruction(LUI, a, b \div HalfMod, at)>>
           /\ op = RET => l = <<Make(AJMP, <<RegisterOperand(ReturnAddress)>>, at)>>
<1> DEFINE i == Make(op, operands, at)
<1>1. i.op = op /\ i.operands = operands /\ i.at = at
  BY DEF Make
<1> HIDE DEF i
<1> USE KindsOfOperations, OperationsDiffer
<1>2. CASE op \in Opcodes
  BY <1>1, <1>2 DEF Lowered, i, PseudoOperations
<1>3. CASE op = MOV
  BY <1>1, <1>3 DEF Lowered, AppendMov, i
<1>4. CASE op = NEG
  BY <1>1, <1>4 DEF Lowered, AppendNeg, i
<1>5. CASE op = NOT
  BY <1>1, <1>5 DEF Lowered, AppendNot, i
<1>6. CASE op = LFI
  BY <1>1, <1>6 DEF Lowered, AppendLfi, i
<1>7. CASE op = RET
  BY <1>1, <1>7 DEF Lowered, AppendRet, i
<1> QED
  BY <1>2, <1>3, <1>4, <1>5, <1>6, <1>7 DEF PseudoOperations

\* A statement becomes as many instructions as it is wide.
LEMMA LoweredHasWidth ==
    ASSUME NEW op \in Operations, NEW operands, NEW at
    PROVE  Len(Lowered(Make(op, operands, at))) = Width(op)
<1> DEFINE l == Lowered(Make(op, operands, at))
           a == operands[1].value
           b == operands[2].value
<1> HIDE DEF l, a, b
<1>1. CASE op \in Opcodes
  <2>1. Width(op) = 1
    BY <1>1, KindsOfOperations, WidthOf DEF PseudoOperations
  <2> QED
    BY <1>1, <2>1, LoweredTo DEF l, a, b
<1>2. CASE op = MOV
  <2>1. Width(op) = 1
    BY <1>2, OperationsDiffer, WidthOf
  <2> QED
    BY <1>2, <2>1, LoweredTo DEF l, a, b
<1>3. CASE op = NEG
  <2>1. Width(op) = 2
    BY <1>3, WidthOf
  <2> QED
    BY <1>3, <2>1, LoweredTo DEF l, a, b
<1>4. CASE op = NOT
  <2>1. Width(op) = 3
    BY <1>4, OperationsDiffer, WidthOf
  <2> QED
    BY <1>4, <2>1, LoweredTo DEF l, a, b
<1>5. CASE op = LFI
  <2>1. Width(op) = 2
    BY <1>5, WidthOf
  <2> QED
    BY <1>5, <2>1, LoweredTo DEF l, a, b
<1>6. CASE op = RET
  <2>1. Width(op) = 1
    BY <1>6, OperationsDiffer, WidthOf
  <2> QED
    BY <1>6, <2>1, LoweredTo DEF l, a, b
<1> QED
  BY <1>1, <1>2, <1>3, <1>4, <1>5, <1>6 DEF PseudoOperations, Operations

\* The instructions of a statement end before those of a later one begin.
LEMMA IndexesAreApart ==
    ASSUME NEW t, NEW m \in Nat \ {0}, NEW n \in Nat \ {0}, m < n
    PROVE  IndexOf(t, m) + Width(t[m].op) <= IndexOf(t, n)
<1>1. StartOf(t, m) + 4 * Width(t[m].op) <= StartOf(t, n)
  BY StartsAreApart DEF InstructionSize
<1>2. /\ IndexOf(t, m) \in Nat /\ StartOf(t, m) = 4 * IndexOf(t, m)
      /\ IndexOf(t, n) \in Nat /\ StartOf(t, n) = 4 * IndexOf(t, n)
  BY NextIndex DEF InstructionSize
<1>3. Width(t[m].op) \in Nat
  BY WidthOf
<1> QED
  BY <1>1, <1>2, <1>3

\* The statement at pos is the next one.
LEMMA ParsedStatement ==
    ASSUME AssemblerIInv, ParseInstruction
    PROVE  LET op == tokens[pos].value
               operands == SubSeq(tokens, pos + 1, pos + Len(Wanted))
               c == CountBefore(tokens, pos)
           IN  /\ op \in Operations /\ Accepted(op, operands) /\ pos \in Nat
               /\ CountBefore(tokens, pos') = c + 1 /\ c \in Nat
               /\ pos \in OperationsOf(tokens)
               /\ Statements(tokens)[c + 1] = StatementAt(tokens, pos)
               /\ Statements(tokens)[c + 1].op = op
               /\ Statements(tokens)[c + 1].args = ValuesOf(operands)
<1> USE DEF AssemblerIInv
<1> DEFINE op == tokens[pos].value
           n == Len(Wanted)
           operands == SubSeq(tokens, pos + 1, pos + n)
           c == CountBefore(tokens, pos)
           t == Statements(tokens)
<1>1. phase = "parsing" /\ ~EndsLine(tokens[pos]) /\ Unfit = {} /\ pos' = pos + n + 1
  BY DEF ParseInstruction
<1>2. pos \in 1 .. Len(tokens) /\ tokens \in Seq(Token)
  BY <1>1 DEF ParserOK, Encoders, TokensOK
<1>3. op \in Operations /\ Accepted(op, operands) /\ pos + n + 1 \in 1 .. Len(tokens)
  BY <1>1, <1>2, StatementIsAccepted
<1>4. tokens[pos].type = OperationKind
  BY <1>1 DEF Unfit
<1>5. Wanted = Format(op)
  BY <1>4 DEF Wanted
<1>6. n \in Nat /\ Len(operands) = n /\ operands \in Seq(Operand) /\ DOMAIN operands = 1 .. n
  <2>1. n \in 0 .. 3
    BY <1>3, <1>5, SlotsOfFormat
  <2> QED
    BY <1>3, <1>5, <2>1, ElementOfSequence DEF Accepted
<1>7. pos \in OperationsOf(tokens) /\ DOMAIN tokens = 1 .. Len(tokens)
  BY <1>2, <1>4, ElementOfSequence DEF OperationsOf
<1>8. \A k \in 1 .. n : operands[k] = tokens[pos + k]
  <2> SUFFICES ASSUME NEW k \in 1 .. n PROVE operands[k] = tokens[pos + k]
    OBVIOUS
  <2>1. pos + 1 \in Int /\ pos + n \in Int
    BY <1>2, <1>6
  <2>2. \A j \in pos + 1 .. pos + n : tokens[j] \in Token
    BY <1>2, <1>3, <1>6, ElementOfSequence
  <2> HIDE DEF n
  <2>3. \A j \in 1 .. (pos + n) - (pos + 1) + 1 : operands[j] = tokens[(pos + 1) + j - 1]
    BY <2>1, <2>2, SubSeqProperties
  <2>4. k \in 1 .. (pos + n) - (pos + 1) + 1 /\ (pos + 1) + k - 1 = pos + k
    BY <1>2, <1>6
  <2> QED
    BY <2>3, <2>4
<1>9. \A k \in 1 .. n : tokens[pos + k].type # OperationKind
  <2> SUFFICES ASSUME NEW k \in 1 .. n PROVE tokens[pos + k].type # OperationKind
    OBVIOUS
  <2>1. operands[k] \in Operand
    BY <1>6, ElementOfSequence
  <2> HIDE DEF operands
  <2> QED
    BY <1>8, <2>1, KindsOfTokens DEF Operand
<1>10. c \in Nat /\ CountBefore(tokens, pos + n + 1) = c + 1
  <2>1. \A k \in OperationsOf(tokens) : k < pos + n + 1 => k <= pos
    <3> SUFFICES ASSUME NEW k \in OperationsOf(tokens), k < pos + n + 1, ~(k <= pos)
                 PROVE  FALSE
      BY OperationsAreFinite, <1>2
    <3>1. k \in Nat /\ tokens[k].type = OperationKind
      BY <1>2, OperationsAreFinite
    <3>2. k - pos \in 1 .. n /\ pos + (k - pos) = k
      BY <1>2, <1>6, <3>1
    <3> QED
      BY <1>9, <3>1, <3>2
  <2>2. pos + n + 1 \in Nat /\ pos < pos + n + 1
    BY <1>2, <1>6
  <2> HIDE DEF n
  <2> QED
    BY <1>2, <1>7, <2>1, <2>2, CountsOperation, CountIsNatural
<1>11. t[c + 1] = StatementAt(tokens, pos)
  <2>1. c + 1 \in 1 .. Cardinality(OperationsOf(tokens)) /\ PlaceOfStatement(tokens, c + 1) = pos
    BY <1>2, <1>7, NumberOfStatement
  <2> HIDE DEF c
  <2> QED
    BY <2>1 DEF Statements
<1>12. StatementAt(tokens, pos).op = op /\ StatementAt(tokens, pos).args = ValuesOf(operands)
  <2>1. StatementAt(tokens, pos).op = op
    BY DEF StatementAt
  <2>2. StatementAt(tokens, pos).args = [k \in 1 .. n |-> tokens[pos + k].value]
    BY <1>5 DEF StatementAt
  <2> HIDE DEF operands, n
  <2>3. [k \in 1 .. n |-> tokens[pos + k].value] = ValuesOf(operands)
    BY <1>6, <1>8 DEF ValuesOf
  <2> QED
    BY <2>1, <2>2, <2>3
<1> QED
  BY <1>1, <1>2, <1>3, <1>7, <1>10, <1>11, <1>12

\* A statement is laid out behind those before it.
LEMMA ParsingLaysOut ==
    ASSUME AssemblerIInv, ParsedIInv, ParseInstruction
    PROVE  ParsedIInv'
<1> DEFINE op == tokens[pos].value
           operands == SubSeq(tokens, pos + 1, pos + Len(Wanted))
           lowered == Lowered(Make(op, operands, pos))
           c == CountBefore(tokens, pos)
           t == Statements(tokens)
<1>1. /\ phase = "parsing" /\ phase' = "parsing" /\ tokens' = tokens
      /\ program' = program \o lowered
  BY DEF ParseInstruction
<1>2. /\ op \in Operations /\ Accepted(op, operands) /\ pos \in Nat
      /\ CountBefore(tokens, pos') = c + 1 /\ c \in Nat
      /\ pos \in OperationsOf(tokens) /\ t[c + 1] = StatementAt(tokens, pos)
      /\ t[c + 1].op = op /\ t[c + 1].args = ValuesOf(operands)
  BY ParsedStatement
<1>3. /\ Len(program) = IndexOf(t, c + 1)
      /\ \A m \in 1 .. c :
            /\ \E i \in OperationsOf(tokens) : t[m] = StatementAt(tokens, i)
            /\ \A k \in 1 .. Width(t[m].op) : Becomes(program[IndexOf(t, m) + k], t[m], k)
  BY <1>1 DEF ParsedIInv, LaidOut
<1>4. /\ lowered \in Seq(MachineInstruction) /\ program \in Seq(MachineInstruction)
      /\ Len(lowered) = Width(op) /\ operands \in Seq(Operand)
  BY <1>2, LoweredIsGood, LoweredHasWidth DEF GoodLowering, AssemblerIInv, ProgramOK, Accepted
<1> HIDE DEF lowered, operands, t, c
<1>5. /\ Len(program') = Len(program) + Width(op)
      /\ \A k \in 1 .. Len(program) : program'[k] = program[k]
      /\ \A k \in 1 .. Width(op) : program'[Len(program) + k] = lowered[k]
  <2> DEFINE both == program \o lowered
  <2>1. /\ Len(both) = Len(program) + Len(lowered)
        /\ \A k \in 1 .. Len(program) : both[k] = program[k]
        /\ \A k \in 1 .. Len(lowered) : both[Len(program) + k] = lowered[k]
    <3>1. program \in Seq(MachineInstruction) /\ lowered \in Seq(MachineInstruction)
      BY <1>4
    <3> QED
      BY <3>1, Appended
  <2> HIDE DEF both
  <2>2. program' = both
    BY <1>1 DEF both
  <2> QED
    BY <1>4, <2>1, <2>2
<1>6. Len(program') = IndexOf(t, (c + 1) + 1)
  <2>1. c + 1 \in Nat \ {0}
    BY <1>2
  <2>2. IndexOf(t, (c + 1) + 1) = IndexOf(t, c + 1) + Width(t[c + 1].op)
    BY <2>1, NextIndex
  <2> QED
    BY <1>2, <1>3, <1>5, <2>2
<1>7. ASSUME NEW k \in 1 .. Width(op)
      PROVE  Becomes(program'[IndexOf(t, c + 1) + k], t[c + 1], k)
  <2>1. Make(t[c + 1].op, operands, pos) = Make(op, operands, pos)
    BY <1>2
  <2>2. program'[IndexOf(t, c + 1) + k] = lowered[k]
    BY <1>3, <1>5, <1>7
  <2> QED
    BY <1>2, <1>4, <1>7, <2>1, <2>2 DEF Becomes, lowered
<1>8. ASSUME NEW m \in 1 .. c, NEW k \in 1 .. Width(t[m].op)
      PROVE  Becomes(program'[IndexOf(t, m) + k], t[m], k)
  <2>1. IndexOf(t, m) + Width(t[m].op) <= IndexOf(t, c + 1)
    BY <1>2, IndexesAreApart
  <2>2. IndexOf(t, m) \in Nat /\ Width(t[m].op) \in Nat /\ IndexOf(t, c + 1) \in Nat
    BY <1>2, NextIndex, WidthOf
  <2>3. IndexOf(t, m) + k \in 1 .. Len(program)
    BY <1>3, <2>1, <2>2
  <2> QED
    BY <1>3, <1>5, <2>3
<1>9. \A m \in 1 .. c + 1 :
        /\ \E i \in OperationsOf(tokens) : t[m] = StatementAt(tokens, i)
        /\ \A k \in 1 .. Width(t[m].op) : Becomes(program'[IndexOf(t, m) + k], t[m], k)
  <2> SUFFICES ASSUME NEW m \in 1 .. c + 1
               PROVE  /\ \E i \in OperationsOf(tokens) : t[m] = StatementAt(tokens, i)
                      /\ \A k \in 1 .. Width(t[m].op) :
                            Becomes(program'[IndexOf(t, m) + k], t[m], k)
    OBVIOUS
  <2>1. CASE m \in 1 .. c
    BY <1>3, <1>8, <2>1
  <2>2. CASE m = c + 1
    BY <1>2, <1>7, <2>2
  <2> QED
    BY <1>2, <2>1, <2>2
<1>10. CountBefore(tokens, pos)' = c + 1 /\ Statements(tokens)' = t
  BY <1>1, <1>2 DEF t
<1>11. LaidOut(tokens, CountBefore(tokens, pos))'
  BY <1>1, <1>6, <1>9, <1>10 DEF LaidOut
<1> QED
  BY <1>1, <1>11 DEF ParsedIInv, Encoders

\* Whatever else the assembler does, it keeps what is laid out.
LEMMA AssemblerLaysOut ==
    ASSUME AssemblerIInv, ParsedIInv, [AssemblerNext]_assemblerVars
    PROVE  ParsedIInv'
<1>1. CASE Read
  <2>1. /\ phase = "reading" /\ phase' = "parsing" /\ tokens' \in Sources
        /\ program' = <<>> /\ pos' = 1
    BY <1>1 DEF Read, AssemblerIInv, PhaseOK
  <2>2. tokens' \in Seq(Token)
    BY <2>1, SourcesAssumption
  <2>3. OperationsBefore(tokens', 1) = {}
    BY <2>2, OperationsAreFinite DEF OperationsBefore
  <2>4. CountBefore(tokens', pos') = 0
    BY <2>1, <2>3, FS_EmptySet DEF CountBefore
  <2>5. Len(program') = IndexOf(Statements(tokens'), 0 + 1)
    BY <2>1, NextIndex
  <2>6. LaidOut(tokens, CountBefore(tokens, pos))'
    BY <2>4, <2>5 DEF LaidOut
  <2> QED
    BY <2>1, <2>6 DEF ParsedIInv, Encoders
<1>2. CASE SkipNewLine
  <2>1. /\ phase = "parsing" /\ phase' = "parsing" /\ tokens[pos] = NewLine
        /\ pos' = pos + 1 /\ UNCHANGED <<tokens, program>>
    BY <1>2 DEF SkipNewLine
  <2>2. tokens \in Seq(Token) /\ pos \in Nat
    BY <2>1 DEF AssemblerIInv, TokensOK, ParserOK, Encoders
  <2>3. pos \notin OperationsOf(tokens)
    BY <2>1 DEF OperationsOf, NewLine, OperationKind
  <2>4. OperationsBefore(tokens, pos + 1) = OperationsBefore(tokens, pos)
    BY <2>2, <2>3, OperationsAreFinite DEF OperationsBefore
  <2>5. CountBefore(tokens, pos)' = CountBefore(tokens, pos)
    BY <2>1, <2>4 DEF CountBefore
  <2>6. LaidOut(tokens, CountBefore(tokens, pos))
    BY <2>1 DEF ParsedIInv
  <2>7. LaidOut(tokens, CountBefore(tokens, pos))'
    BY <2>1, <2>5, <2>6 DEF LaidOut
  <2> QED
    BY <2>1, <2>7 DEF ParsedIInv, Encoders
<1>3. CASE EndParsing
  <2>1. /\ phase = "parsing" /\ phase' = "encoding" /\ tokens[pos] = EndOfFile
        /\ UNCHANGED <<tokens, program>>
    BY <1>3 DEF EndParsing
  <2>2. pos = Len(tokens)
    <3>1. pos \in DOMAIN tokens
      BY <2>1, TokensAhead DEF AssemblerIInv, ParserOK, Encoders
    <3> QED
      BY <2>1, <3>1 DEF AssemblerIInv, TokensOK
  <2>3. LaidOut(tokens, CountBefore(tokens, Len(tokens)))
    BY <2>1, <2>2 DEF ParsedIInv
  <2>4. LaidOut(tokens, CountBefore(tokens, Len(tokens)))'
    BY <2>1, <2>3 DEF LaidOut
  <2> QED
    BY <2>1, <2>4 DEF ParsedIInv
<1>4. CASE FailToRead \/ RefuseInstruction
  BY <1>4 DEF FailToRead, RefuseInstruction, ParsedIInv, Encoders
<1>5. CASE \/ EncodeInstruction \/ EndEncoding \/ FailToOpen \/ Write
           \/ \E n \in DOMAIN bytes : FailToWrite(n - 1)
           \/ UNCHANGED assemblerVars
  <2>1. phase' \in Encoders => phase \in Encoders
    BY <1>5 DEF EncodeInstruction, EndEncoding, FailToOpen, Write, FailToWrite, Encoders,
       assemblerVars
  <2>2. phase' = "parsing" => phase = "parsing" /\ pos' = pos
    BY <1>5 DEF EncodeInstruction, EndEncoding, FailToOpen, Write, FailToWrite, assemblerVars
  <2>3. UNCHANGED <<tokens, program>>
    BY <1>5 DEF EncodeInstruction, EndEncoding, FailToOpen, Write, FailToWrite, assemblerVars
  <2>4. \A n : LaidOut(tokens, n)' <=> LaidOut(tokens, n)
    BY <2>3 DEF LaidOut
  <2> QED
    BY <2>1, <2>2, <2>3, <2>4 DEF ParsedIInv
<1> QED
  BY <1>1, <1>2, <1>3, <1>4, <1>5, ParsingLaysOut DEF AssemblerNext, Proceed

-----------------------------------------------------------------------------
(* The instructions of a statement *)

UserRegisters == 0 .. 15
HalfWord == 0 .. HalfMod - 1

\* The arguments are those of an operation that touches registers only.
IsTyped(s) ==
    LET a == s.args[1]
        b == s.args[2]
        c == s.args[3]
    IN  /\ s.op \in RegisterOperations
        /\ s.op \in RRR => a \in UserRegisters /\ b \in UserRegisters /\ c \in UserRegisters
        /\ s.op \in {LI, LUI, BRZ, BRNZ} => a \in UserRegisters /\ b \in HalfWord
        /\ s.op \in {MOV, NEG} => a \in UserRegisters /\ b \in UserRegisters
        /\ s.op \in {NOT, AJMP, CALL} => a \in UserRegisters
        /\ s.op = LFI => a \in UserRegisters /\ b \in Word
        /\ s.op = RJMP => a \in HalfWord

\* The operation and the fields of an instruction word.
WithRegisters(w, op, a, b, c) == w.op = op /\ w.a = a /\ w.b = b /\ w.c = c
WithImmediate(w, op, a, v) == w.op = op /\ w.a = a /\ w.imm = v

\* The word w is the k-th instruction of statement s.
IsCode(w, s, k) ==
    LET a == s.args[1]
        b == s.args[2]
        c == s.args[3]
    IN  /\ s.op = MOV => WithRegisters(w, OR, a, b, b)
        /\ s.op = NEG /\ k = 1 => WithImmediate(w, LI, AssemblerTemp, 0)
        /\ s.op = NEG /\ k = 2 => WithRegisters(w, SUB, a, AssemblerTemp, b)
        /\ s.op = NOT /\ k = 1 => WithImmediate(w, LI, AssemblerTemp, HalfMod - 1)
        /\ s.op = NOT /\ k = 2 => WithImmediate(w, LUI, AssemblerTemp, HalfMod - 1)
        /\ s.op = NOT /\ k = 3 => WithRegisters(w, XOR, a, a, AssemblerTemp)
        /\ s.op = LFI /\ k = 1 => WithImmediate(w, LI, a, b % HalfMod)
        /\ s.op = LFI /\ k = 2 => WithImmediate(w, LUI, a, b \div HalfMod)
        /\ s.op = RET => w.op = AJMP /\ w.a = ReturnAddress
        /\ s.op \in RRR => WithRegisters(w, s.op, a, b, c)
        /\ s.op \in {LI, LUI, BRZ, BRNZ} => WithImmediate(w, s.op, a, b)
        /\ s.op = RJMP => w.op = RJMP /\ w.imm = a
        /\ s.op \in {AJMP, CALL} => w.op = s.op /\ w.a = a

\* A user register, and the numbers that fit a half-word and a word.
LEMMA SlotValues ==
    ASSUME NEW o \in Operand
    PROVE  /\ Fits(UserRegister, o) => o.value \in UserRegisters
           /\ Fits(Immediate16, o) => o.value \in HalfWord
           /\ Fits(Immediate32, o) => o.value \in Word
<1>1. o.value \in Nat /\ HalfMod \in Nat /\ WordMod \in Nat
  BY Sizes DEF Operand
<1>2. UserRegister.max = 15 /\ Immediate16.max = HalfMod - 1 /\ Immediate32.max = WordMod - 1
  BY DEF UserRegister, Immediate16, Immediate32, Slot
<1> QED
  BY <1>1, <1>2 DEF Fits, UserRegisters, HalfWord, Word

\* The operations without RAM, by their formats.
LEMMA RegisterOperationsAre ==
    ASSUME NEW op \in RegisterOperations
    PROVE  /\ op \in Operations
           /\ op \in RRR \/ op \in {LI, LUI, BRZ, BRNZ} \/ op \in {AJMP, CALL} \/ op = RJMP
              \/ op \in PseudoOperations
           /\ {LI, LUI, BRZ, BRNZ} \subseteq WordImmediates
           /\ {AJMP, CALL} = RegisterJumps
<1>1. {LI, LUI, BRZ, BRNZ} \subseteq WordImmediates /\ {AJMP, CALL} = RegisterJumps
  BY DEF WordImmediates, RegisterJumps
<1>2. {RJMP, LI, LUI, AJMP, CALL, BRZ, BRNZ} \subseteq Opcodes /\ RRR \subseteq Opcodes
  BY DEF Opcodes, RJMP, CALL, AJMP, BRZ, BRNZ
<1> QED
  BY <1>1, <1>2 DEF RegisterOperations, Operations, Branches

\* The arguments that the parser takes are those of its operation.
LEMMA AcceptedIsTyped ==
    ASSUME NEW s, s.op \in RegisterOperations, NEW operands, Accepted(s.op, operands),
           s.args = ValuesOf(operands)
    PROVE  IsTyped(s)
<1> DEFINE op == s.op
           f == Format(op)
<1>1. op \in Operations
  BY RegisterOperationsAre
<1>2. /\ Len(operands) = Len(f) /\ DOMAIN operands = 1 .. Len(f)
      /\ \A k \in 1 .. Len(f) : operands[k] \in Operand /\ Fits(f[k], operands[k])
  BY ElementOfSequence DEF Accepted
<1>3. \A k \in 1 .. Len(f) : s.args[k] = operands[k].value
  BY <1>2 DEF ValuesOf
<1> HIDE DEF op
<1>4. \A k \in 1 .. Len(f) :
        /\ f[k] = UserRegister => s.args[k] \in UserRegisters
        /\ f[k] = Immediate16 => s.args[k] \in HalfWord
        /\ f[k] = Immediate32 => s.args[k] \in Word
  BY <1>2, <1>3, SlotValues
<1>5. /\ op \in RRR => f = <<UserRegister, UserRegister, UserRegister>>
      /\ op \in {LI, LUI, BRZ, BRNZ} => f = <<UserRegister, Immediate16>>
      /\ op \in {MOV, NEG} => f = <<UserRegister, UserRegister>>
      /\ op \in {NOT, AJMP, CALL} => f = <<UserRegister>>
      /\ op = LFI => f = <<UserRegister, Immediate32>>
      /\ op = RJMP => f = <<Immediate16>>
  BY <1>1, FormatOfOperation, RegisterOperationsAre DEF op
<1> HIDE DEF f
<1>6. op \in RRR => /\ s.args[1] \in UserRegisters /\ s.args[2] \in UserRegisters
                    /\ s.args[3] \in UserRegisters
  <2> SUFFICES ASSUME op \in RRR
               PROVE  /\ s.args[1] \in UserRegisters /\ s.args[2] \in UserRegisters
                      /\ s.args[3] \in UserRegisters
    OBVIOUS
  <2>1. Len(f) = 3 /\ f[1] = UserRegister /\ f[2] = UserRegister /\ f[3] = UserRegister
    BY <1>5
  <2> QED
    BY <1>4, <2>1
<1>7. op \in {LI, LUI, BRZ, BRNZ} => s.args[1] \in UserRegisters /\ s.args[2] \in HalfWord
  BY <1>4, <1>5
<1>8. op \in {MOV, NEG} => s.args[1] \in UserRegisters /\ s.args[2] \in UserRegisters
  BY <1>4, <1>5
<1>9. op \in {NOT, AJMP, CALL} => s.args[1] \in UserRegisters
  BY <1>4, <1>5
<1>10. op = LFI => s.args[1] \in UserRegisters /\ s.args[2] \in Word
  BY <1>4, <1>5
<1>11. op = RJMP => s.args[1] \in HalfWord
  BY <1>4, <1>5
<1> QED
  BY <1>6, <1>7, <1>8, <1>9, <1>10, <1>11 DEF IsTyped, op

\* A word of an instruction on registers has them in its fields.
LEMMA WordOfRegisters ==
    ASSUME NEW op \in RRR, NEW a, NEW b, NEW c, NEW at, NEW w,
           IsWordOf(w, RegisterInstruction(op, a, b, c, at))
    PROVE  WithRegisters(w, op, a, b, c)
<1> DEFINE x == RegisterInstruction(op, a, b, c, at)
           v == [n \in DOMAIN x.operands |-> x.operands[n].value]
<1>1. x.op = op /\ x.operands = <<RegisterOperand(a), RegisterOperand(b), RegisterOperand(c)>>
  BY DEF RegisterInstruction, Make
<1>2. /\ RegisterOperand(a).value = a /\ RegisterOperand(b).value = b
      /\ RegisterOperand(c).value = c
  BY DEF RegisterOperand
<1>3. v = <<a, b, c>>
  <2> HIDE DEF x
  <2> QED
    BY <1>1, <1>2
<1>4. op \in Operations /\ op \notin WordImmediates /\ op # RJMP
  <2>1. op \in Operations
    BY DEF Operations, Opcodes
  <2> QED
    BY <2>1, KindsOfOperations
<1>5. w.op = op /\ v = <<w.a, w.b, w.c>>
  <2>1. w.op = x.op
    BY DEF IsWordOf
  <2> HIDE DEF x
  <2> QED
    BY <1>1, <1>4, <2>1 DEF IsWordOf, x
<1> HIDE DEF v
<1> QED
  BY <1>3, <1>5 DEF WithRegisters

\* A word of an instruction with an immediate has it in its fields.
LEMMA WordOfImmediate ==
    ASSUME NEW op \in {LI, LUI}, NEW r, NEW n, NEW at, NEW w,
           IsWordOf(w, LoadInstruction(op, r, n, at))
    PROVE  WithImmediate(w, op, r, n)
<1> DEFINE x == LoadInstruction(op, r, n, at)
           v == [k \in DOMAIN x.operands |-> x.operands[k].value]
<1>1. x.op = op /\ x.operands = <<RegisterOperand(r), ImmediateOperand(n)>>
  BY DEF LoadInstruction, Make
<1>2. RegisterOperand(r).value = r /\ ImmediateOperand(n).value = n
  BY DEF RegisterOperand, ImmediateOperand
<1>3. v = <<r, n>>
  <2> HIDE DEF x
  <2> QED
    BY <1>1, <1>2
<1>4. op \in WordImmediates
  BY DEF WordImmediates
<1>5. w.op = op /\ v = <<w.a, w.imm>>
  <2>1. w.op = x.op
    BY DEF IsWordOf
  <2> HIDE DEF x
  <2> QED
    BY <1>1, <1>4, <2>1 DEF IsWordOf, x
<1> HIDE DEF v
<1> QED
  BY <1>3, <1>5 DEF WithImmediate

\* The words of a statement that has an opcode are those of its arguments.
LEMMA WordOfItself ==
    ASSUME NEW s, s.op \in RegisterOperations, s.op \in Opcodes, NEW operands, NEW at, NEW w,
           s.args = ValuesOf(operands), IsWordOf(w, Make(s.op, operands, at))
    PROVE  IsCode(w, s, 1)
<1> DEFINE x == Make(s.op, operands, at)
           op == s.op
<1>1. x.op = op /\ x.operands = operands
  BY DEF Make
<1>2. /\ w.op = op
      /\ s.args = CASE w.op \in WordImmediates -> <<w.a, w.imm>>
                    [] w.op = RJMP -> <<w.imm>>
                    [] w.op \in RRR \union ByteImmediates -> <<w.a, w.b, w.c>>
                    [] w.op \in RegisterJumps -> <<w.a>>
                    [] OTHER -> <<w.a, w.b>>
  <2> HIDE DEF x, op
  <2> QED
    BY <1>1 DEF IsWordOf, ValuesOf, x, op
<1>3. op \in Operations /\ op \notin PseudoOperations
  BY RegisterOperationsAre, KindsOfOperations
<1> HIDE DEF op
<1>4. CASE op \in RRR
  <2>1. s.args = <<w.a, w.b, w.c>>
    BY <1>2, <1>3, <1>4, KindsOfOperations
  <2>2. /\ op \notin {LI, LUI, BRZ, BRNZ} /\ op # RJMP /\ op \notin {AJMP, CALL}
    BY <1>3, <1>4, KindsOfOperations, RegisterOperationsAre DEF op
  <2> QED
    BY <1>2, <1>3, <1>4, <2>1, <2>2 DEF IsCode, WithRegisters, op, PseudoOperations
<1>5. CASE op \in {LI, LUI, BRZ, BRNZ}
  <2>0. op \in WordImmediates
    BY <1>5, RegisterOperationsAre DEF op
  <2>1. s.args = <<w.a, w.imm>>
    <3>1. /\ op # RJMP /\ op \notin RRR \union ByteImmediates /\ op \notin RegisterJumps
      BY <1>3, <2>0, KindsOfOperations
    <3> QED
      BY <1>2, <2>0, <3>1
  <2>2. op \notin RRR /\ op # RJMP /\ op \notin {AJMP, CALL}
    BY <1>3, <2>0, KindsOfOperations, RegisterOperationsAre DEF op
  <2> QED
    BY <1>2, <1>3, <1>5, <2>1, <2>2 DEF IsCode, WithImmediate, op, PseudoOperations
<1>6. CASE op = RJMP
  <2>0. op \notin WordImmediates /\ op \notin RRR /\ op \notin RegisterJumps
    BY <1>3, <1>6, KindsOfOperations
  <2>1. s.args = <<w.imm>>
    <3>1. op \notin ByteImmediates
      BY <1>3, <1>6, KindsOfOperations
    <3> QED
      BY <1>2, <1>6, <2>0, <3>1
  <2>2. op \notin {LI, LUI, BRZ, BRNZ} /\ op \notin {AJMP, CALL}
    BY <2>0, RegisterOperationsAre DEF op
  <2> QED
    BY <1>2, <1>3, <1>6, <2>0, <2>1, <2>2 DEF IsCode, op, PseudoOperations
<1>7. CASE op \in {AJMP, CALL}
  <2>0. op \in RegisterJumps
    BY <1>7, RegisterOperationsAre DEF op
  <2>1. /\ op \notin WordImmediates /\ op \notin RRR \union ByteImmediates
        /\ op # RJMP
    BY <1>3, <2>0, KindsOfOperations
  <2>2. s.args = <<w.a>>
    BY <1>2, <2>0, <2>1
  <2>3. op \notin {LI, LUI, BRZ, BRNZ}
    BY <2>1, RegisterOperationsAre DEF op
  <2> QED
    BY <1>2, <1>3, <1>7, <2>1, <2>2, <2>3 DEF IsCode, op, PseudoOperations
<1> QED
  BY <1>3, <1>4, <1>5, <1>6, <1>7, RegisterOperationsAre DEF op

\* A return is a jump to R1.
LEMMA WordOfReturn ==
    ASSUME NEW at, NEW w, IsWordOf(w, Make(AJMP, <<RegisterOperand(ReturnAddress)>>, at))
    PROVE  w.op = AJMP /\ w.a = ReturnAddress
<1> DEFINE x == Make(AJMP, <<RegisterOperand(ReturnAddress)>>, at)
           v == [k \in DOMAIN x.operands |-> x.operands[k].value]
<1>1. x.op = AJMP /\ x.operands = <<RegisterOperand(ReturnAddress)>>
  BY DEF Make
<1>2. v = <<ReturnAddress>>
  <2>1. RegisterOperand(ReturnAddress).value = ReturnAddress
    BY DEF RegisterOperand
  <2> HIDE DEF x
  <2> QED
    BY <1>1, <2>1
<1>3. /\ AJMP \in RegisterJumps /\ AJMP \notin WordImmediates /\ AJMP # RJMP
      /\ AJMP \notin RRR \union ByteImmediates
  <2>1. AJMP \in RegisterJumps /\ AJMP \in Operations
    BY DEF RegisterJumps, Operations, Opcodes, RJMP, CALL, AJMP
  <2> QED
    BY <2>1, KindsOfOperations
<1>4. w.op = AJMP /\ v = <<w.a>>
  <2>1. w.op = x.op
    BY DEF IsWordOf
  <2> HIDE DEF x
  <2> QED
    BY <1>1, <1>3, <2>1 DEF IsWordOf, x
<1> HIDE DEF v
<1> QED
  BY <1>2, <1>4

\* A pseudo-operation is no other operation.
LEMMA OnlyPseudo ==
    ASSUME NEW op \in PseudoOperations
    PROVE  /\ op \notin RRR /\ op \notin {LI, LUI, BRZ, BRNZ}
           /\ op # RJMP /\ op \notin {AJMP, CALL}
           /\ op = MOV \/ op = NEG \/ op = NOT \/ op = LFI \/ op = RET
           /\ MOV \in PseudoOperations /\ NEG \in PseudoOperations
           /\ NOT \in PseudoOperations /\ LFI \in PseudoOperations
           /\ RET \in PseudoOperations
           /\ MOV # NEG /\ MOV # NOT /\ MOV # LFI /\ MOV # RET
           /\ NEG # NOT /\ NEG # LFI /\ NEG # RET
           /\ NOT # LFI /\ NOT # RET /\ LFI # RET
<1>1. op \in Operations
  BY DEF Operations
<1>2. /\ op \notin WordImmediates \union RRR /\ op # RJMP /\ op \notin RegisterJumps
  BY <1>1, KindsOfOperations DEF PseudoOperations
<1>3. {LI, LUI, BRZ, BRNZ} \subseteq WordImmediates /\ {AJMP, CALL} = RegisterJumps
  BY DEF WordImmediates, RegisterJumps
<1> QED
  BY <1>2, <1>3, OperationsDiffer DEF PseudoOperations

\* Every instruction word is the one that its statement wants at its place.
LEMMA WordIsCode ==
    ASSUME NEW s, s.op \in RegisterOperations, NEW k \in 1 .. Width(s.op),
           NEW x, Becomes(x, s, k), NEW w, IsWordOf(w, x)
    PROVE  IsCode(w, s, k) /\ IsTyped(s)
<1> DEFINE op == s.op
<1>1. PICK operands \in Seq(Operand), at \in Nat :
        /\ Accepted(op, operands) /\ s.args = ValuesOf(operands)
        /\ x = Lowered(Make(op, operands, at))[k]
  BY DEF Becomes
<1>2. op \in Operations /\ IsTyped(s)
  BY <1>1, RegisterOperationsAre, AcceptedIsTyped
<1> DEFINE l == Lowered(Make(op, operands, at))
           a == s.args[1]
           b == s.args[2]
<1>3. /\ 1 <= Len(Format(op)) => operands[1].value = a
      /\ 2 <= Len(Format(op)) => operands[2].value = b
  <2>1. DOMAIN operands = 1 .. Len(Format(op)) /\ Len(Format(op)) \in Nat
    BY <1>1, ElementOfSequence DEF Accepted
  <2> QED
    BY <1>1, <2>1 DEF ValuesOf
<1>4. {OR, SUB, XOR} \subseteq RRR
  BY DEF OR, SUB, XOR, RRR, ADD, SDIV, EQ, SGE
<1>5. l[k] = x
  BY <1>1
<1> HIDE DEF l, a, b, op
<1>6. CASE op \in Opcodes
  <2>1. l = <<Make(op, operands, at)>> /\ k = 1
    <3>1. Width(op) = 1
      BY <1>2, <1>6, KindsOfOperations, WidthOf DEF PseudoOperations
    <3> QED
      BY <1>2, <1>6, <3>1, LoweredTo DEF l, op
  <2>2. x = Make(op, operands, at)
    BY <1>5, <2>1
  <2> QED
    BY <1>1, <1>2, <1>6, <2>1, <2>2, WordOfItself DEF op
<1>7. CASE op = MOV
  <2>1. operands[1].value = a /\ operands[2].value = b
    <3>1. Format(op) = <<UserRegister, UserRegister>>
      BY <1>2, <1>7, FormatOfOperation
    <3>2. Len(Format(op)) = 2
      BY <3>1
    <3> QED
      BY <1>3, <3>2
  <2>2. l = <<RegisterInstruction(OR, a, b, b, at)>> /\ k = 1
    <3>1. Width(op) = 1
      BY <1>7, WidthOf, OperationsDiffer
    <3> QED
      BY <1>2, <1>7, <2>1, <3>1, LoweredTo DEF l, op
  <2>3. WithRegisters(w, OR, a, b, b)
    BY <1>4, <1>5, <2>2, WordOfRegisters
  <2>8. /\ op \notin RRR /\ op \notin {LI, LUI, BRZ, BRNZ}
        /\ op # RJMP /\ op \notin {AJMP, CALL}
    BY <1>7, OnlyPseudo DEF PseudoOperations
  <2>9. IsCode(w, s, k)
    BY <1>7, <2>3, <2>8, OperationsDiffer DEF IsCode, op, a, b
  <2> QED
    BY <1>2, <2>9
<1>8. CASE op = NEG
  <2>1. operands[1].value = a /\ operands[2].value = b
    <3>1. Format(op) = <<UserRegister, UserRegister>>
      BY <1>2, <1>8, FormatOfOperation
    <3>2. Len(Format(op)) = 2
      BY <3>1
    <3> QED
      BY <1>3, <3>2
  <2>2. l = <<LoadInstruction(LI, AssemblerTemp, 0, at),
              RegisterInstruction(SUB, a, AssemblerTemp, b, at)>>
    BY <1>2, <1>8, <2>1, LoweredTo DEF l
  <2>3. k = 1 => WithImmediate(w, LI, AssemblerTemp, 0)
    BY <1>5, <2>2, WordOfImmediate
  <2>4. k = 2 => WithRegisters(w, SUB, a, AssemblerTemp, b)
    BY <1>4, <1>5, <2>2, WordOfRegisters
  <2>8. /\ op \notin RRR /\ op \notin {LI, LUI, BRZ, BRNZ}
        /\ op # RJMP /\ op \notin {AJMP, CALL}
    BY <1>8, OnlyPseudo DEF PseudoOperations
  <2>9. IsCode(w, s, k)
    BY <1>8, <2>3, <2>4, <2>8, OperationsDiffer DEF IsCode, op, a, b
  <2> QED
    BY <1>2, <2>9
<1>9. CASE op = NOT
  <2>1. operands[1].value = a
    <3>1. Format(op) = <<UserRegister>>
      BY <1>2, <1>9, FormatOfOperation
    <3>2. Len(Format(op)) = 1
      BY <3>1
    <3> QED
      BY <1>3, <3>2
  <2>2. l = <<LoadInstruction(LI, AssemblerTemp, HalfMod - 1, at),
              LoadInstruction(LUI, AssemblerTemp, HalfMod - 1, at),
              RegisterInstruction(XOR, a, a, AssemblerTemp, at)>>
    BY <1>2, <1>9, <2>1, LoweredTo DEF l
  <2>3. k = 1 => WithImmediate(w, LI, AssemblerTemp, HalfMod - 1)
    BY <1>5, <2>2, WordOfImmediate
  <2>4. k = 2 => WithImmediate(w, LUI, AssemblerTemp, HalfMod - 1)
    BY <1>5, <2>2, WordOfImmediate
  <2>5. k = 3 => WithRegisters(w, XOR, a, a, AssemblerTemp)
    BY <1>4, <1>5, <2>2, WordOfRegisters
  <2>8. /\ op \notin RRR /\ op \notin {LI, LUI, BRZ, BRNZ}
        /\ op # RJMP /\ op \notin {AJMP, CALL}
    BY <1>9, OnlyPseudo DEF PseudoOperations
  <2>9. IsCode(w, s, k)
    BY <1>9, <2>3, <2>4, <2>5, <2>8, OperationsDiffer DEF IsCode, op, a, b
  <2> QED
    BY <1>2, <2>9
<1>10. CASE op = LFI
  <2>1. operands[1].value = a /\ operands[2].value = b
    <3>1. Format(op) = <<UserRegister, Immediate32>>
      BY <1>2, <1>10, FormatOfOperation
    <3>2. Len(Format(op)) = 2
      BY <3>1
    <3> QED
      BY <1>3, <3>2
  <2>2. l = <<LoadInstruction(LI, a, b % HalfMod, at),
              LoadInstruction(LUI, a, b \div HalfMod, at)>>
    BY <1>2, <1>10, <2>1, LoweredTo DEF l
  <2>3. k = 1 => WithImmediate(w, LI, a, b % HalfMod)
    BY <1>5, <2>2, WordOfImmediate
  <2>4. k = 2 => WithImmediate(w, LUI, a, b \div HalfMod)
    BY <1>5, <2>2, WordOfImmediate
  <2>8. /\ op \notin RRR /\ op \notin {LI, LUI, BRZ, BRNZ}
        /\ op # RJMP /\ op \notin {AJMP, CALL}
    BY <1>10, OnlyPseudo DEF PseudoOperations
  <2>9. IsCode(w, s, k)
    BY <1>10, <2>3, <2>4, <2>8, OperationsDiffer DEF IsCode, op, a, b
  <2> QED
    BY <1>2, <2>9
<1>11. CASE op = RET
  <2>1. l = <<Make(AJMP, <<RegisterOperand(ReturnAddress)>>, at)>> /\ k = 1
    <3>1. Width(op) = 1
      BY <1>11, WidthOf, OperationsDiffer
    <3> QED
      BY <1>2, <1>11, <3>1, LoweredTo DEF l, op
  <2>2. IsWordOf(w, Make(AJMP, <<RegisterOperand(ReturnAddress)>>, at))
    BY <1>5, <2>1
  <2>3. w.op = AJMP /\ w.a = ReturnAddress
    BY <2>2, WordOfReturn
  <2>8. /\ op \notin RRR /\ op \notin {LI, LUI, BRZ, BRNZ}
        /\ op # RJMP /\ op \notin {AJMP, CALL}
    BY <1>11, OnlyPseudo DEF PseudoOperations
  <2>9. IsCode(w, s, k)
    BY <1>11, <2>3, <2>8, OperationsDiffer DEF IsCode, op, a, b
  <2> QED
    BY <1>2, <2>9
<1> QED
  BY <1>2, <1>6, <1>7, <1>8, <1>9, <1>10, <1>11 DEF op, Operations, PseudoOperations

-----------------------------------------------------------------------------
(* What a step does to the registers and to the instruction pointer *)

\* The instruction sets register d and goes on.
StepSets(d, value) ==
    /\ Sets(machine, machine', d, value)
    /\ machine'.pc = machine.pc + InstructionSize

StepJumps(target) == machine'.regs = machine.regs /\ machine'.pc = target

Distance(w) == InstructionSize * SignedPart(w.imm, HalfMod)

\* What each instruction on registers does.
StepDoes ==
    LET w == Instruction
        r == machine.regs
        next == machine.pc + InstructionSize
        target == machine.pc + Distance(w)
    IN  /\ w.op = LI => StepSets(w.a, w.imm)
        /\ w.op = LUI => StepSets(w.a, (r[w.a] % HalfMod) + HalfMod * w.imm)
        /\ w.op \in RRR =>
              /\ StepSets(w.a, Alu(w.op, r[w.b], r[w.c]))
              /\ w.op \in {UDIV, SDIV} => r[w.c] # 0
        /\ w.op = RJMP => StepJumps(target)
        /\ w.op \in Branches => StepJumps(IF (r[w.a] = 0) = (w.op = BRZ) THEN target ELSE next)
        /\ w.op = AJMP => StepJumps(r[w.a])
        /\ w.op = CALL =>
              Sets(machine, machine', ReturnAddress, next) /\ machine'.pc = r[w.a]

\* The fetched machine has the registers and the instruction pointer of the machine.
LEMMA SetsAfterFetch ==
    ASSUME IInv, Ok(Fetched), Ok(machine'), NEW r, Outcome(Fetched, r), machine' = Retire(r),
           NEW d, NEW value
    PROVE  /\ Ok(r) /\ machine'.regs = r.regs /\ machine'.pc = r.pc
           /\ Fetched.regs = machine.regs /\ Fetched.pc = machine.pc
           /\ Ready(Fetched) /\ Fields(Instruction)
           /\ Sets(Fetched, r, d, value) => Sets(machine, machine', d, value)
           /\ OnlyRegisters(Fetched, r) => machine'.bytes = machine.bytes
<1>1. Ok(r) /\ machine'.regs = r.regs /\ machine'.pc = r.pc /\ OnlyRegisters(r, machine')
  BY ExecutedShows
<1>2. /\ Fetched.regs = machine.regs /\ Fetched.pc = machine.pc
      /\ Ready(Fetched) /\ Fields(Instruction) /\ OnlyRegisters(machine, Fetched)
  BY FetchedShows
<1> QED
  BY <1>1, <1>2 DEF Sets, OnlyRegisters

\* One lemma for each action of the emulator that a program on registers takes.
LEMMA LoadImmediateDoes ==
    ASSUME IInv, ExecuteLoadImmediate, Ok(machine')
    PROVE  StepDoes /\ machine'.bytes = machine.bytes
<1> DEFINE w == Instruction
           r == LoadImmediate(Fetched, w)
           value == IF w.op = LI THEN w.imm ELSE (machine.regs[w.a] % HalfMod) + HalfMod * w.imm
<1>1. Ok(Fetched) /\ machine' = Retire(r) /\ w.op \in {LI, LUI}
  BY DEF ExecuteLoadImmediate, Executing
<1>2. Ready(Fetched) /\ Fields(w) /\ Outcome(Fetched, r)
  BY <1>1, FetchedShows, LoadImmediateOutcome
<1>3. Ok(r) /\ Fetched.regs = machine.regs /\ Fetched.pc = machine.pc /\ machine'.pc = r.pc
  BY <1>1, <1>2, SetsAfterFetch
<1>4. /\ r.regs[w.a] = value /\ Sets(Fetched, r, w.a, r.regs[w.a])
      /\ r.pc = Fetched.pc + InstructionSize /\ OnlyRegisters(Fetched, r)
  BY <1>2, <1>3, LoadImmediateShows
<1> HIDE DEF r, w, value
<1>5. StepSets(w.a, value) /\ machine'.bytes = machine.bytes
  BY <1>1, <1>2, <1>3, <1>4, SetsAfterFetch DEF StepSets
<1>6. w.op \notin RRR \union Branches \union {RJMP, AJMP, CALL}
  BY <1>1, OpcodeNumbers
<1>7. LI # LUI
  BY OpcodeNumbers
<1>8. StepDoes
  BY <1>1, <1>5, <1>6, <1>7 DEF StepDoes, w, value
<1> QED
  BY <1>5, <1>8

LEMMA CalculateDoes ==
    ASSUME IInv, ExecuteCalculate, Ok(machine')
    PROVE  StepDoes /\ machine'.bytes = machine.bytes
<1> DEFINE w == Instruction
           r == Calculate(Fetched, w)
           value == Alu(w.op, machine.regs[w.b], machine.regs[w.c])
<1>1. Ok(Fetched) /\ machine' = Retire(r) /\ w.op \in RRR
  BY DEF ExecuteCalculate, Executing
<1>2. Ready(Fetched) /\ Fields(w) /\ Outcome(Fetched, r)
  BY <1>1, FetchedShows, CalculateOutcome
<1>3. Ok(r) /\ Fetched.regs = machine.regs /\ Fetched.pc = machine.pc /\ machine'.pc = r.pc
  BY <1>1, <1>2, SetsAfterFetch
<1>4. /\ r.regs[w.a] = value /\ Sets(Fetched, r, w.a, r.regs[w.a])
      /\ r.pc = Fetched.pc + InstructionSize /\ OnlyRegisters(Fetched, r)
      /\ w.op \in {UDIV, SDIV} => machine.regs[w.c] # 0
  BY <1>1, <1>2, <1>3, CalculateShows
<1> HIDE DEF r, w, value
<1>5. StepSets(w.a, value) /\ machine'.bytes = machine.bytes
  BY <1>1, <1>2, <1>3, <1>4, SetsAfterFetch DEF StepSets
<1>6. w.op \notin Branches \union {LI, LUI, RJMP, AJMP, CALL}
  BY <1>1, OpcodeNumbers
<1>8. StepDoes
  BY <1>1, <1>4, <1>5, <1>6 DEF StepDoes, w, value
<1> QED
  BY <1>5, <1>8

LEMMA RelativeJumpDoes ==
    ASSUME IInv, ExecuteRelativeJump, Ok(machine')
    PROVE  StepDoes /\ machine'.bytes = machine.bytes
<1> DEFINE w == Instruction
           r == RelativeJump(Fetched, w)
<1>1. Ok(Fetched) /\ machine' = Retire(r) /\ w.op = RJMP
  BY DEF ExecuteRelativeJump, Executing
<1>2. Ready(Fetched) /\ Fields(w) /\ Outcome(Fetched, r)
  BY <1>1, FetchedShows, RelativeJumpOutcome
<1>3. /\ Ok(r) /\ Fetched.regs = machine.regs /\ Fetched.pc = machine.pc
      /\ machine'.pc = r.pc /\ machine'.regs = r.regs
  BY <1>1, <1>2, SetsAfterFetch
<1>4. /\ r.regs = Fetched.regs /\ OnlyRegisters(Fetched, r)
      /\ r.pc = Fetched.pc + Distance(w)
  BY <1>2, <1>3, RelativeJumpShows DEF Distance
<1> HIDE DEF r, w
<1>5. StepJumps(machine.pc + Distance(w)) /\ machine'.bytes = machine.bytes
  BY <1>1, <1>2, <1>3, <1>4, SetsAfterFetch DEF StepJumps
<1>6. w.op \notin RRR \union Branches \union {LI, LUI, AJMP, CALL}
  BY <1>1, OpcodeNumbers
<1>8. StepDoes
  BY <1>1, <1>5, <1>6 DEF StepDoes, w
<1> QED
  BY <1>5, <1>8

LEMMA BranchDoes ==
    ASSUME IInv, ExecuteBranch, Ok(machine')
    PROVE  StepDoes /\ machine'.bytes = machine.bytes
<1> DEFINE w == Instruction
           r == Branch(Fetched, w)
           taken == (machine.regs[w.a] = 0) = (w.op = BRZ)
<1>1. Ok(Fetched) /\ machine' = Retire(r) /\ w.op \in Branches
  BY DEF ExecuteBranch, Executing
<1>2. Ready(Fetched) /\ Fields(w) /\ Outcome(Fetched, r)
  BY <1>1, FetchedShows, BranchOutcome
<1>3. /\ Ok(r) /\ Fetched.regs = machine.regs /\ Fetched.pc = machine.pc
      /\ machine'.pc = r.pc /\ machine'.regs = r.regs
  BY <1>1, <1>2, SetsAfterFetch
<1>4. /\ r.regs = Fetched.regs /\ OnlyRegisters(Fetched, r)
      /\ r.pc = Fetched.pc + InstructionSize *
                  (IF taken THEN SignedPart(w.imm, HalfMod) ELSE 1)
  BY <1>2, <1>3, BranchShows
<1> HIDE DEF r, w, taken
<1>5. /\ StepJumps(IF taken THEN machine.pc + Distance(w) ELSE machine.pc + InstructionSize)
      /\ machine'.bytes = machine.bytes
  <2>1. r.pc = IF taken THEN Fetched.pc + Distance(w) ELSE Fetched.pc + InstructionSize
    BY <1>4 DEF Distance, InstructionSize
  <2> QED
    BY <1>1, <1>2, <1>3, <1>4, <2>1, SetsAfterFetch DEF StepJumps
<1>6. w.op \notin RRR \union {LI, LUI, RJMP, AJMP, CALL}
  BY <1>1, OpcodeNumbers
<1>8. StepDoes
  BY <1>1, <1>5, <1>6 DEF StepDoes, w, taken
<1> QED
  BY <1>5, <1>8

LEMMA AbsoluteJumpDoes ==
    ASSUME IInv, ExecuteAbsoluteJump, Ok(machine')
    PROVE  StepDoes /\ machine'.bytes = machine.bytes
<1> DEFINE w == Instruction
           r == AbsoluteJump(Fetched, w)
<1>1. Ok(Fetched) /\ machine' = Retire(r) /\ w.op = AJMP
  BY DEF ExecuteAbsoluteJump, Executing
<1>2. Ready(Fetched) /\ Fields(w) /\ Outcome(Fetched, r)
  BY <1>1, FetchedShows, AbsoluteJumpOutcome
<1>3. /\ Ok(r) /\ Fetched.regs = machine.regs /\ Fetched.pc = machine.pc
      /\ machine'.pc = r.pc /\ machine'.regs = r.regs
  BY <1>1, <1>2, SetsAfterFetch
<1>4. r.regs = Fetched.regs /\ OnlyRegisters(Fetched, r) /\ r.pc = Fetched.regs[w.a]
  BY <1>2, <1>3, AbsoluteJumpShows
<1> HIDE DEF r, w
<1>5. StepJumps(machine.regs[w.a]) /\ machine'.bytes = machine.bytes
  BY <1>1, <1>2, <1>3, <1>4, SetsAfterFetch DEF StepJumps
<1>6. w.op \notin RRR \union Branches \union {LI, LUI, RJMP, CALL}
  BY <1>1, OpcodeNumbers
<1>8. StepDoes
  BY <1>1, <1>5, <1>6 DEF StepDoes, w
<1> QED
  BY <1>5, <1>8

LEMMA CallDoes ==
    ASSUME IInv, ExecuteCall, Ok(machine')
    PROVE  StepDoes /\ machine'.bytes = machine.bytes
<1> DEFINE w == Instruction
           r == CallSubroutine(Fetched, w)
           next == machine.pc + InstructionSize
<1>1. Ok(Fetched) /\ machine' = Retire(r) /\ w.op = CALL
  BY DEF ExecuteCall, Executing
<1>2. Ready(Fetched) /\ Fields(w) /\ Outcome(Fetched, r)
  BY <1>1, FetchedShows, CallSubroutineOutcome
<1>3. /\ Ok(r) /\ Fetched.regs = machine.regs /\ Fetched.pc = machine.pc
      /\ machine'.pc = r.pc /\ machine'.regs = r.regs
  BY <1>1, <1>2, SetsAfterFetch
<1>4. /\ r.regs = [Fetched.regs EXCEPT ![ReturnAddress] = Fetched.pc + InstructionSize]
      /\ r.pc = Fetched.regs[w.a] /\ OnlyRegisters(Fetched, r)
  BY <1>2, <1>3, CallShows
<1> HIDE DEF r, w
<1>5. /\ Sets(machine, machine', ReturnAddress, next) /\ machine'.pc = machine.regs[w.a]
      /\ machine'.bytes = machine.bytes
  <2>1. Sets(Fetched, r, ReturnAddress, next)
    BY <1>3, <1>4 DEF Sets
  <2> QED
    BY <1>1, <1>2, <1>3, <1>4, <2>1, SetsAfterFetch
<1>6. w.op \notin RRR \union Branches \union {LI, LUI, RJMP, AJMP}
  BY <1>1, OpcodeNumbers
<1>8. StepDoes
  BY <1>1, <1>5, <1>6 DEF StepDoes, w
<1> QED
  BY <1>5, <1>8

\* The operations of MachineCode that a program on registers has.
OnRegisters == {LI, LUI, RJMP, AJMP, CALL} \union Branches \union RRR

\* The steps together: the program in RAM and its place stay as they are.
LEMMA StepsDo ==
    ASSUME IInv, Step, Ok(machine'), Instruction.op \in OnRegisters
    PROVE  /\ StepDoes /\ Ok(Fetched) /\ machine'.bytes = machine.bytes
           /\ machine'.base = machine.base /\ machine'.end = machine.end
           /\ machine'.pc \in 0 .. WordMod
<1>1. ~FailToFetch
  BY DEF FailToFetch
<1>2. Ok(Fetched)
  BY <1>1 DEF Step, ExecuteLoadImmediate, ExecuteCalculate, ExecuteLoad,
     ExecuteStore, ExecuteConvert, ExecuteRelativeJump, ExecuteBranch,
     ExecuteAbsoluteJump, ExecuteCall, ExecuteWriteStatus, ExecuteReadStatus,
     ExecuteAdvanceStackPointer, ExecuteInvalidOpcode, Executing
<1>3. /\ Instruction.op \notin Loads \union Stores \union Conversions
      /\ Instruction.op \notin {SCRW, SCRR, ASPI, ASPR}
  BY OpcodeNumbers DEF OnRegisters
<1>4. Instruction.op \in Opcodes
  BY OpcodeNumbers DEF OnRegisters, Opcodes
<1>5. \/ ExecuteLoadImmediate \/ ExecuteCalculate \/ ExecuteRelativeJump \/ ExecuteBranch
      \/ ExecuteAbsoluteJump \/ ExecuteCall
  BY <1>1, <1>3, <1>4 DEF Step, ExecuteLoad, ExecuteStore, ExecuteConvert, ExecuteWriteStatus,
     ExecuteReadStatus, ExecuteAdvanceStackPointer, ExecuteInvalidOpcode, Executing
<1>6. StepDoes /\ machine'.bytes = machine.bytes
  BY <1>5, LoadImmediateDoes, CalculateDoes, RelativeJumpDoes, BranchDoes, AbsoluteJumpDoes,
     CallDoes
<1>7. StepResult
  BY StepsResult
<1>8. Typed(machine') /\ machine'.base = machine.base /\ machine'.end = machine.end
  BY <1>7 DEF StepResult
<1> QED
  BY <1>2, <1>6, <1>8 DEF Typed

-----------------------------------------------------------------------------
(* The statement that an address is in *)

\* What Current says of an address a in the program t.
PositionOf(t, a) ==
    IF a % InstructionSize # 0 \/ a > StartOf(t, Len(t) + 1) THEN 0
    ELSE CHOOSE n \in 1 .. Len(t) + 1 :
            StartOf(t, n) <= a /\ (n < Len(t) + 1 => a < StartOf(t, n + 1))

\* It is the statement whose code has the address, or the end of the program.
LEMMA PositionIs ==
    ASSUME NEW t, Len(t) \in Nat, NEW a \in Nat, NEW n \in 1 .. Len(t) + 1,
           StartOf(t, n) <= a, a % InstructionSize = 0,
           IF n <= Len(t) THEN a < StartOf(t, n + 1) ELSE a = StartOf(t, n)
    PROVE  PositionOf(t, a) = n
<1> DEFINE past == Len(t) + 1
           In(m) == StartOf(t, m) <= a /\ (m < past => a < StartOf(t, m + 1))
<1>1. \A m \in 1 .. past : StartOf(t, m) \in Nat
  BY NextStart
<1>2. ASSUME NEW m \in 1 .. past, NEW k \in 1 .. past, m < k
      PROVE  StartOf(t, m + 1) <= StartOf(t, k)
  <2>1. m \in Nat \ {0} /\ k \in Nat \ {0}
    OBVIOUS
  <2>2. StartOf(t, m + 1) = StartOf(t, m) + InstructionSize * Width(t[m].op)
    BY <2>1, NextStart
  <2>3. StartOf(t, m) + InstructionSize * Width(t[m].op) <= StartOf(t, k)
    BY <1>2, <2>1, StartsAreApart
  <2> QED
    BY <2>2, <2>3
<1>3. a <= StartOf(t, past)
  <2>1. CASE n <= Len(t)
    <3>1. n + 1 = past \/ n + 1 < past
      BY <2>1
    <3>2. StartOf(t, n + 1) <= StartOf(t, past)
      BY <1>2, <2>1
    <3>3. StartOf(t, n + 1) \in Nat
      BY <2>1, <1>1
    <3> QED
      BY <1>1, <2>1, <3>2, <3>3
  <2>2. CASE n = past
    BY <2>2, <1>1
  <2> QED
    BY <2>1, <2>2
<1>4. In(n)
  OBVIOUS
<1>5. ASSUME NEW m \in 1 .. past, In(m) PROVE m = n
  <2>1. ~(m < n)
    <3> SUFFICES ASSUME m < n PROVE FALSE
      OBVIOUS
    <3>1. a < StartOf(t, m + 1) /\ StartOf(t, m + 1) <= StartOf(t, n)
      BY <1>2, <1>5
    <3>2. StartOf(t, m + 1) \in Nat /\ StartOf(t, n) \in Nat
      BY <1>1
    <3> QED
      BY <3>1, <3>2
  <2>2. ~(n < m)
    <3> SUFFICES ASSUME n < m PROVE FALSE
      OBVIOUS
    <3>1. a < StartOf(t, n + 1) /\ StartOf(t, n + 1) <= StartOf(t, m) /\ StartOf(t, m) <= a
      BY <1>2, <1>5
    <3>2. StartOf(t, n + 1) \in Nat /\ StartOf(t, m) \in Nat
      BY <1>1
    <3> QED
      BY <3>1, <3>2
  <2> QED
    BY <2>1, <2>2
<1>6. ~(a % InstructionSize # 0 \/ a > StartOf(t, past))
  BY <1>1, <1>3
<1>7. PositionOf(t, a) = CHOOSE m \in 1 .. past : In(m)
  BY <1>6 DEF PositionOf
<1> HIDE DEF In
<1> QED
  BY <1>4, <1>5, <1>7

\* Where a statement begins, and behind the last one.
LEMMA PositionOfStart ==
    ASSUME NEW t, Len(t) \in Nat, NEW n \in 1 .. Len(t) + 1
    PROVE  PositionOf(t, StartOf(t, n)) = n
<1>1. StartOf(t, n) \in Nat /\ StartOf(t, n) % InstructionSize = 0
  BY NextStart
<1>2. n <= Len(t) => StartOf(t, n) < StartOf(t, n + 1)
  <2> SUFFICES ASSUME n <= Len(t) PROVE StartOf(t, n) < StartOf(t, n + 1)
    OBVIOUS
  <2>1. StartOf(t, n + 1) = StartOf(t, n) + InstructionSize * Width(t[n].op)
    BY NextStart
  <2>2. Width(t[n].op) \in 1 .. 3
    BY WidthOf
  <2> QED
    BY <1>1, <2>1, <2>2 DEF InstructionSize
<1> QED
  BY <1>1, <1>2, PositionIs

\* Every aligned address up to the end has its statement.
LEMMA PositionExists ==
    ASSUME NEW t, Len(t) \in Nat, NEW a \in Nat, PositionOf(t, a) # 0
    PROVE  LET n == PositionOf(t, a)
           IN  /\ n \in 1 .. Len(t) + 1 /\ StartOf(t, n) <= a
               /\ IF n <= Len(t) THEN a < StartOf(t, n + 1) ELSE a = StartOf(t, n)
<1>1. a % InstructionSize = 0 /\ a <= StartOf(t, Len(t) + 1)
  <2>1. StartOf(t, Len(t) + 1) \in Nat
    BY NextStart
  <2> QED
    BY <2>1 DEF PositionOf
<1>2. CASE a = StartOf(t, Len(t) + 1)
  <2>1. PositionOf(t, a) = Len(t) + 1
    BY <1>2, PositionOfStart
  <2>2. StartOf(t, Len(t) + 1) \in Nat
    BY NextStart
  <2> QED
    BY <1>2, <2>1, <2>2
<1>3. CASE a # StartOf(t, Len(t) + 1)
  <2>1. Len(t) + 1 \in Nat \ {0} /\ StartOf(t, Len(t) + 1) \in Nat
    BY NextStart
  <2>2. PICK n \in 1 .. Len(t) : StartOf(t, n) <= a /\ a < StartOf(t, n + 1)
    BY <1>1, <1>3, <2>1, StatementOf
  <2>3. PositionOf(t, a) = n
    BY <1>1, <2>2, PositionIs
  <2> QED
    BY <2>2, <2>3
<1> QED
  BY <1>2, <1>3

\* The place that an address leads to, if it is in no statement's middle.
LEMMA PlaceIsPosition ==
    ASSUME Len(text) \in Nat, NEW a \in Nat,
           PositionOf(text, a) # 0 => a = StartOf(text, PositionOf(text, a))
    PROVE  Source!PlaceOf(a) = PositionOf(text, a)
<1> DEFINE starts == [n \in 1 .. Len(text) + 1 |-> StartOf(text, n)]
           places == {n \in 1 .. Len(text) + 1 : StartOf(text, n) = a}
<1>1. Source!PlaceOf(a) = IF places = {} THEN 0 ELSE CHOOSE n \in places : TRUE
  <2>1. Source!Starts = starts
    BY StartsOf
  <2> DEFINE there(f) == {n \in DOMAIN f : f[n] = a}
  <2>2. there(starts) = places
    OBVIOUS
  <2>3. Source!PlaceOf(a) =
          IF there(Source!Starts) = {} THEN 0 ELSE CHOOSE n \in there(Source!Starts) : TRUE
    BY SMT DEF Source!PlaceOf
  <2> HIDE DEF there, starts, places
  <2> QED
    BY <2>1, <2>2, <2>3
<1>2. \A n \in places : n = PositionOf(text, a)
  BY PositionOfStart
<1>3. CASE PositionOf(text, a) = 0
  <2>1. places = {}
    BY <1>2, <1>3
  <2> QED
    BY <1>1, <1>3, <2>1
<1>4. CASE PositionOf(text, a) # 0
  <2>1. PositionOf(text, a) \in places
    BY <1>4, PositionExists
  <2> HIDE DEF places
  <2> QED
    BY <1>1, <1>2, <2>1
<1> QED
  BY <1>3, <1>4

\* What Toolchain calls the current statement.
LEMMA CurrentIs ==
    Len(text) \in Nat =>
        /\ Current = PositionOf(text, machine.pc)
        /\ Inside <=> /\ PositionOf(text, machine.pc) # 0
                      /\ machine.pc # Layout!Starts[PositionOf(text, machine.pc)]
<1> SUFFICES ASSUME Len(text) \in Nat
             PROVE  Current = PositionOf(text, machine.pc)
  BY DEF Inside
<1> DEFINE starts == [n \in 1 .. Len(text) + 1 |-> StartOf(text, n)]
           past == Len(text) + 1
<1>1. Layout!Starts = starts
  BY StartsOf
<1>2. Len(starts) = past /\ \A n \in 1 .. past : starts[n] = StartOf(text, n)
  OBVIOUS
<1> HIDE DEF starts
<1>3. past \in 1 .. past /\ \A n \in 1 .. past : n < past => n + 1 \in 1 .. past
  OBVIOUS
<1>4. \A n \in 1 .. past :
        (starts[n] <= machine.pc /\ (n < past => machine.pc < starts[n + 1]))
        <=> (StartOf(text, n) <= machine.pc /\ (n < past => machine.pc < StartOf(text, n + 1)))
  BY <1>2, <1>3
<1>5. (CHOOSE n \in 1 .. past :
          starts[n] <= machine.pc /\ (n < past => machine.pc < starts[n + 1]))
      = CHOOSE n \in 1 .. past :
          StartOf(text, n) <= machine.pc /\ (n < past => machine.pc < StartOf(text, n + 1))
  BY <1>4
<1> DEFINE position(f) ==
             IF machine.pc % InstructionSize # 0 \/ machine.pc > f[Len(f)] THEN 0
             ELSE CHOOSE n \in 1 .. Len(f) :
                     f[n] <= machine.pc /\ (n < Len(f) => machine.pc < f[n + 1])
<1>6. Current = position(starts)
  <2>1. Current = position(Layout!Starts)
    BY SMT DEF Current
  <2> HIDE DEF position
  <2> QED
    BY <1>1, <2>1
<1> HIDE DEF past
<1>7. PositionOf(text, machine.pc) =
        IF machine.pc % InstructionSize # 0 \/ machine.pc > StartOf(text, past) THEN 0
        ELSE CHOOSE n \in 1 .. past :
                StartOf(text, n) <= machine.pc /\ (n < past => machine.pc < StartOf(text, n + 1))
  BY Zenon DEF PositionOf, past
<1> QED
  BY <1>2, <1>3, <1>5, <1>6, <1>7

\* And after the step.
LEMMA NextCurrent ==
    /\ (Len(text) \in Nat =>
          /\ Current = PositionOf(text, machine.pc)
          /\ Inside <=> /\ PositionOf(text, machine.pc) # 0
                        /\ machine.pc # Layout!Starts[PositionOf(text, machine.pc)])'
    /\ (Layout!Starts = [n \in 1 .. Len(text) + 1 |-> StartOf(text, n)])'
<1>1. /\ Layout!Starts = [n \in 1 .. Len(text) + 1 |-> StartOf(text, n)]
      /\ Len(text) \in Nat =>
          /\ Current = PositionOf(text, machine.pc)
          /\ Inside <=> /\ PositionOf(text, machine.pc) # 0
                        /\ machine.pc # Layout!Starts[PositionOf(text, machine.pc)]
  BY StartsOf, CurrentIs
<1> QED
  BY <1>1, PTL

-----------------------------------------------------------------------------
(* The output file that is loaded *)

\* The file is opened only when the whole program is encoded.
WholeIInv == phase \in {"writing", "unwritable", "done"} => pos = Len(program) + 1

\* The assembler keeps it so.
LEMMA AssemblerEncodesAll ==
    ASSUME AssemblerIInv, WholeIInv, [AssemblerNext]_assemblerVars
    PROVE  WholeIInv'
<1>1. CASE EndEncoding \/ FailToOpen
  <2>1. /\ phase = "encoding" /\ pos \notin DOMAIN program /\ UNCHANGED <<pos, program>>
    BY <1>1 DEF EndEncoding, FailToOpen
  <2>2. pos \in 1 .. Len(program) + 1
    BY <2>1 DEF AssemblerIInv, BytesOK, Encoders
  <2>3. DOMAIN program = 1 .. Len(program) /\ Len(program) \in Nat
    BY ElementOfSequence DEF AssemblerIInv, ProgramOK
  <2>4. pos = Len(program) + 1
    BY <2>1, <2>2, <2>3
  <2> QED
    BY <2>1, <2>4 DEF WholeIInv
<1>2. CASE Write \/ (\E n \in DOMAIN bytes : FailToWrite(n - 1)) \/ UNCHANGED assemblerVars
  BY <1>2 DEF WholeIInv, Write, FailToWrite, assemblerVars
<1>3. CASE Read \/ FailToRead \/ SkipNewLine \/ ParseInstruction \/ RefuseInstruction
           \/ EndParsing \/ EncodeInstruction
  <2>1. phase' \notin {"writing", "unwritable", "done"}
    BY <1>3 DEF Read, FailToRead, SkipNewLine, ParseInstruction, RefuseInstruction, EndParsing,
       EncodeInstruction
  <2> QED
    BY <2>1 DEF WholeIInv
<1> QED
  BY <1>1, <1>2, <1>3 DEF AssemblerNext, Proceed

\* A file of no bytes would be a program, the old one is none.
LEMMA OldFileIsNoProgram == OldFile # <<>>
<1>1. Len(OldFile) % 4 # 0
  BY ToolchainAssumption, Zenon DEF InstructionSize
<1>2. Len(<<>>) = 0 /\ 0 % 4 = 0
  OBVIOUS
<1> QED
  BY <1>1, <1>2, Zenon

\* The file that is loaded as a program was written whole.
LEMMA LoadedFileIsWhole ==
    ASSUME AssemblerIInv, phase \in Ended, file = bytes
    PROVE  phase \in {"unwritable", "done"}
<1>1. phase \in {"done", "unreadable", "syntax error", "unwritable"}
  BY DEF AssemblerIInv, PhaseOK, Ended, Phases
<1>2. phase \in {"unreadable", "syntax error"} => FALSE
  <2> SUFFICES ASSUME phase \in {"unreadable", "syntax error"} PROVE FALSE
    OBVIOUS
  <2>1. bytes = <<>> /\ file = OldFile
    BY DEF AssemblerIInv, ParserOK, FileOK, Encoders
  <2> QED
    BY <2>1, OldFileIsNoProgram
<1> QED
  BY <1>1, <1>2

\* Every statement counts before the end of the file.
LEMMA AllAreCounted ==
    ASSUME TokensOK
    PROVE  /\ CountBefore(tokens, Len(tokens)) = Len(Statements(tokens))
           /\ Len(Statements(tokens)) \in Nat
<1>1. /\ tokens \in Seq(Token) /\ Len(tokens) \in Nat \ {0} /\ tokens[Len(tokens)] = EndOfFile
  BY TokensAhead DEF TokensOK
<1>2. Len(tokens) \notin OperationsOf(tokens)
  BY <1>1, KindsOfTokens DEF OperationsOf
<1>3. OperationsBefore(tokens, Len(tokens)) = OperationsOf(tokens)
  BY <1>1, <1>2, OperationsAreFinite DEF OperationsBefore
<1>4. Cardinality(OperationsOf(tokens)) \in Nat
  BY <1>1, OperationsAreFinite
<1> QED
  BY <1>3, <1>4 DEF CountBefore, Statements

\* The k-th word of the n-th statement of t.
WordAt(t, n, k) == StartOf(t, n) + InstructionSize * (k - 1)

\* What the loaded file holds: every instruction of every statement in its place.
LEMMA FileIsCode ==
    ASSUME AssemblerIInv, ParsedIInv, WholeIInv, phase \in Ended, file = bytes,
           tokens \in Executed
    PROVE  LET t == Statements(tokens)
           IN  /\ Len(t) \in Nat /\ bytes \in Seq(Byte)
               /\ Len(bytes) = StartOf(t, Len(t) + 1)
               /\ \A n \in 1 .. Len(t), k \in 1 .. 3 : k <= Width(t[n].op) =>
                     LET a == WordAt(t, n, k)
                     IN  /\ IsTyped(t[n]) /\ a \in Nat /\ a + InstructionSize <= Len(bytes)
                         /\ IsCode(Decode(SubSeq(bytes, a + 1, a + 4)), t[n], k)
<1> DEFINE t == Statements(tokens)
<1>1. phase \in {"unwritable", "done"} /\ phase \in Encoders /\ TokensOK
  BY LoadedFileIsWhole DEF Encoders, AssemblerIInv
<1>2. /\ program \in Seq(MachineInstruction) /\ Len(program) \in Nat
      /\ bytes \in Seq(Byte) /\ Len(bytes) = 4 * Len(program)
  <2>1. pos = Len(program) + 1 /\ Len(bytes) = 4 * (pos - 1) /\ bytes \in Seq(Byte)
    BY <1>1 DEF WholeIInv, AssemblerIInv, BytesOK
  <2>2. program \in Seq(MachineInstruction) /\ Len(program) \in Nat
    BY ElementOfSequence DEF AssemblerIInv, ProgramOK
  <2> QED
    BY <2>1, <2>2
<1>3. LaidOut(tokens, Len(t)) /\ Len(t) \in Nat
  BY <1>1, AllAreCounted DEF ParsedIInv
<1>4. /\ Len(program) = IndexOf(t, Len(t) + 1)
      /\ \A m \in 1 .. Len(t) :
            /\ \E i \in OperationsOf(tokens) : t[m] = StatementAt(tokens, i)
            /\ \A k \in 1 .. Width(t[m].op) : Becomes(program[IndexOf(t, m) + k], t[m], k)
  BY <1>3 DEF LaidOut
<1>5. \A m \in 1 .. Len(t) : t[m].op \in RegisterOperations
  <2> SUFFICES ASSUME NEW m \in 1 .. Len(t) PROVE t[m].op \in RegisterOperations
    OBVIOUS
  <2>1. PICK i \in OperationsOf(tokens) : t[m] = StatementAt(tokens, i)
    BY <1>4
  <2>2. tokens[i].type = OperationKind /\ i \in DOMAIN tokens
    BY DEF OperationsOf
  <2>3. t[m].op = tokens[i].value
    BY <2>1 DEF StatementAt
  <2> QED
    BY <2>2, <2>3, ToolchainAssumption
<1> HIDE DEF t
<1>6. Len(bytes) = StartOf(t, Len(t) + 1)
  <2>1. StartOf(t, Len(t) + 1) = InstructionSize * IndexOf(t, Len(t) + 1)
    BY <1>3, NextIndex
  <2> QED
    BY <1>2, <1>4, <2>1 DEF InstructionSize
<1>7. ASSUME NEW n \in 1 .. Len(t), NEW k \in 1 .. 3, k <= Width(t[n].op), NEW a, a = WordAt(t, n, k)
      PROVE  /\ IsTyped(t[n]) /\ a \in Nat /\ a + InstructionSize <= Len(bytes)
             /\ IsCode(Decode(SubSeq(bytes, a + 1, a + 4)), t[n], k)
  <2> DEFINE i == IndexOf(t, n)
             w == Width(t[n].op)
  <2>1. i \in Nat /\ w \in 1 .. 3 /\ k \in 1 .. w /\ StartOf(t, n) = 4 * i
    BY <1>3, <1>7, NextIndex, WidthOf DEF InstructionSize
  <2>2. i + w <= Len(program)
    BY <1>3, <1>4, IndexesAreApart
  <2>3. Becomes(program[i + k], t[n], k)
    BY <1>4, <2>1
  <2> HIDE DEF i, w
  <2>4. a = 4 * (i + k) - 4
    BY <1>7, <2>1 DEF WordAt, InstructionSize
  <2>5. i + k \in 1 .. Len(bytes) \div InstructionSize
    BY <1>2, <2>1, <2>2 DEF InstructionSize
  <2>6. WellFormed(program[i + k]) /\ WordOf(i + k) = Decode(Encoded(program[i + k]))
    BY <2>5, WordsOfProgram
  <2>7. IsWordOf(WordOf(i + k), program[i + k])
    BY <2>6, EncodedIsWord
  <2>8. IsCode(WordOf(i + k), t[n], k) /\ IsTyped(t[n])
    BY <1>5, <2>1, <2>3, <2>7, WordIsCode DEF w
  <2>9. WordOf(i + k) = Decode(SubSeq(bytes, a + 1, a + 4))
    <3>1. 4 * (i + k) - 3 = a + 1 /\ 4 * (i + k) = a + 4
      BY <2>1, <2>4
    <3> QED
      BY <3>1 DEF WordOf
  <2> QED
    BY <1>2, <2>1, <2>2, <2>4, <2>8, <2>9 DEF InstructionSize
<1> QED
  BY <1>2, <1>3, <1>6, <1>7 DEF t

-----------------------------------------------------------------------------
(* What the emulator's state stands for *)

SourceAt == IF LfiHalfDone THEN Current + 1 ELSE Current

SourceRegs ==
    [r \in UserRegisters |->
        IF LfiHalfDone /\ r = text[Current].args[1] THEN text[Current].args[2]
        ELSE machine.regs[r]]

\* The n-th statement is next, with the registers of the machine.
AtStatement(n) == SourceAt = n /\ SourceRegs = [r \in UserRegisters |-> machine.regs[r]]

\* The n-th statement is under way: an LFI has taken effect, another has not.
Within(n) ==
    IF text[n].op = LFI
    THEN /\ SourceAt = n + 1
         /\ SourceRegs = [r \in UserRegisters |->
                             IF r = text[n].args[1] THEN text[n].args[2] ELSE machine.regs[r]]
    ELSE AtStatement(n)

\* The mapping, by where the instruction pointer is.
Placement ==
    Len(text) \in Nat /\ machine.pc \in Nat =>
        /\ \A n \in 1 .. Len(text) + 1 :
              machine.pc = StartOf(text, n) => ~Inside /\ AtStatement(n)
        /\ PositionOf(text, machine.pc) = 0 => ~Inside /\ AtStatement(0)
        /\ \A n \in 1 .. Len(text), k \in 2 .. 3 :
              k <= Width(text[n].op) /\ machine.pc = WordAt(text, n, k) => Inside /\ Within(n)

\* A word of a statement is in it.
LEMMA PositionOfWord ==
    ASSUME NEW t, Len(t) \in Nat, NEW n \in 1 .. Len(t), NEW k \in 1 .. 3, k <= Width(t[n].op)
    PROVE  /\ WordAt(t, n, k) \in Nat /\ WordAt(t, n, k) % InstructionSize = 0
           /\ PositionOf(t, WordAt(t, n, k)) = n
           /\ WordAt(t, n, k) = StartOf(t, n) <=> k = 1
           /\ WordAt(t, n, k) + InstructionSize = IF k = Width(t[n].op) THEN StartOf(t, n + 1)
                                                  ELSE WordAt(t, n, k + 1)
<1> DEFINE s == StartOf(t, n)
           w == Width(t[n].op)
           a == WordAt(t, n, k)
           next == StartOf(t, n + 1)
<1>1. s \in Nat /\ s % 4 = 0 /\ next = s + 4 * w /\ w \in 1 .. 3
  BY NextStart, WidthOf DEF InstructionSize
<1>2. a = s + 4 * (k - 1) /\ WordAt(t, n, k + 1) = s + 4 * ((k + 1) - 1)
  BY DEF WordAt, InstructionSize
<1> HIDE DEF s, w, a, next
<1>3. /\ a \in Nat /\ a % 4 = 0 /\ s <= a /\ a < next
      /\ a + 4 = (IF k = w THEN next ELSE WordAt(t, n, k + 1))
      /\ a = s <=> k = 1
  BY <1>1, <1>2 DEF w
<1>4. PositionOf(t, a) = n
  BY <1>3, PositionIs DEF s, next, InstructionSize
<1> QED
  BY <1>3, <1>4 DEF InstructionSize, a, s, w, next

\* It holds now and after the step.
LEMMA Placed == Placement
<1> SUFFICES ASSUME Len(text) \in Nat, machine.pc \in Nat
             PROVE  /\ \A n \in 1 .. Len(text) + 1 :
                          machine.pc = StartOf(text, n) => ~Inside /\ AtStatement(n)
                    /\ PositionOf(text, machine.pc) = 0 => ~Inside /\ AtStatement(0)
                    /\ \A n \in 1 .. Len(text), k \in 2 .. 3 :
                          k <= Width(text[n].op) /\ machine.pc = WordAt(text, n, k)
                          => Inside /\ Within(n)
  BY DEF Placement
<1>1. Current = PositionOf(text, machine.pc)
  BY CurrentIs
<1>2. \A n \in 1 .. Len(text) + 1 : Layout!Starts[n] = StartOf(text, n)
  BY StartsOf
<1>3. ASSUME NEW n \in 1 .. Len(text) + 1, machine.pc = StartOf(text, n)
      PROVE  ~Inside /\ AtStatement(n)
  <2>1. Current = n
    BY <1>1, <1>3, PositionOfStart
  <2>2. ~Inside
    BY <1>2, <1>3, <2>1 DEF Inside
  <2>3. ~LfiHalfDone
    BY <2>2 DEF LfiHalfDone
  <2> QED
    BY <2>1, <2>2, <2>3 DEF AtStatement, SourceAt, SourceRegs
<1>4. ASSUME PositionOf(text, machine.pc) = 0 PROVE ~Inside /\ AtStatement(0)
  <2>1. Current = 0 /\ ~Inside
    BY <1>1, <1>4 DEF Inside
  <2>2. ~LfiHalfDone
    BY <2>1 DEF LfiHalfDone
  <2> QED
    BY <2>1, <2>2 DEF AtStatement, SourceAt, SourceRegs
<1>5. ASSUME NEW n \in 1 .. Len(text), NEW k \in 2 .. 3,
             k <= Width(text[n].op), machine.pc = WordAt(text, n, k)
      PROVE  Inside /\ Within(n)
  <2>1. Current = n /\ machine.pc # StartOf(text, n)
    BY <1>1, <1>5, PositionOfWord
  <2>2. Inside
    BY <1>2, <2>1 DEF Inside
  <2>3. LfiHalfDone <=> text[n].op = LFI
    BY <2>1, <2>2 DEF LfiHalfDone
  <2>4. CASE text[n].op = LFI
    BY <2>1, <2>2, <2>3, <2>4 DEF Within, SourceAt, SourceRegs
  <2>5. CASE text[n].op # LFI
    BY <2>1, <2>2, <2>3, <2>5 DEF Within, AtStatement, SourceAt, SourceRegs
  <2> QED
    BY <2>4, <2>5
<1> QED
  BY <1>3, <1>4, <1>5

LEMMA NextPlaced == Placement'
BY Placed, PTL

-----------------------------------------------------------------------------
(* The steps of the source program, in the emulator's terms *)

Arg(k) == text[SourceAt].args[k]
Op == text[SourceAt].op

\* The statement at SourceAt sets register d, or goes to an address.
SourceSets(d, value) ==
    /\ SourceRegs' = [SourceRegs EXCEPT ![d] = value]
    /\ SourceAt' = SourceAt + 1
    /\ UNCHANGED text

SourceGoes(address) ==
    /\ SourceAt' = Source!PlaceOf(address)
    /\ UNCHANGED text

\* The variables of the source program under the mapping.
LEMMA SourceState ==
    Source!vars = <<text, SourceAt, SourceRegs>>
BY DEF Source!vars, SourceAt, SourceRegs, UserRegisters

\* Statements that set their first operand.
LEMMA SourceAssigns ==
    ASSUME SourceAt \in DOMAIN text
    PROVE  /\ Op = MOV /\ SourceSets(Arg(1), SourceRegs[Arg(2)]) => Source!Execute
           /\ Op = NEG /\ SourceSets(Arg(1), Unsigned(-SourceRegs[Arg(2)])) => Source!Execute
           /\ Op = NOT /\ SourceSets(Arg(1), WordMod - 1 - SourceRegs[Arg(1)]) => Source!Execute
           /\ Op = LFI /\ SourceSets(Arg(1), Arg(2)) => Source!Execute
           /\ Op = LI /\ SourceSets(Arg(1), Arg(2)) => Source!Execute
           /\ Op = LUI /\ SourceSets(Arg(1), HalfMod * Arg(2) + (SourceRegs[Arg(1)] % HalfMod))
              => Source!Execute
           /\ Op \in RRR /\ (Op \in {UDIV, SDIV} => SourceRegs[Arg(3)] # 0)
              /\ SourceSets(Arg(1), Alu(Op, SourceRegs[Arg(2)], SourceRegs[Arg(3)]))
              => Source!Execute
<1> USE DEF Source!Executing, Source!Assign, Source!Of, Source!Arg, SourceSets, Arg, Op,
            SourceAt, SourceRegs, UserRegisters
<1>1. Op = MOV /\ SourceSets(Arg(1), SourceRegs[Arg(2)]) => Source!Move
  BY DEF Source!Move, Source!MOV, MOV
<1>2. Op = NEG /\ SourceSets(Arg(1), Unsigned(-SourceRegs[Arg(2)])) => Source!Negate
  BY DEF Source!Negate, Source!NEG, NEG, Source!Unsigned, Source!WordMod, Unsigned, WordMod
<1>3. Op = NOT /\ SourceSets(Arg(1), WordMod - 1 - SourceRegs[Arg(1)]) => Source!Invert
  BY DEF Source!Invert, Source!NOT, NOT, Source!WordMod, WordMod
<1>4. Op = LFI /\ SourceSets(Arg(1), Arg(2)) => Source!LoadFull
  BY DEF Source!LoadFull, Source!LFI, LFI
<1>5. Op = LI /\ SourceSets(Arg(1), Arg(2)) => Source!LoadLower
  BY DEF Source!LoadLower, Source!LI, LI
<1>6. Op = LUI /\ SourceSets(Arg(1), HalfMod * Arg(2) + (SourceRegs[Arg(1)] % HalfMod))
      => Source!LoadUpper
  BY DEF Source!LoadUpper, Source!LUI, LUI, Source!HalfMod, HalfMod
<1>7. Op \in RRR /\ (Op \in {UDIV, SDIV} => SourceRegs[Arg(3)] # 0)
      /\ SourceSets(Arg(1), Alu(Op, SourceRegs[Arg(2)], SourceRegs[Arg(3)]))
      => Source!Calculate
  BY DEF Source!Calculate, Source!RRR, RRR, Source!UDIV, Source!SDIV, UDIV, SDIV,
     Source!ADD, ADD, Source!EQ, EQ, Source!SGE, SGE
<1> QED
  BY <1>1, <1>2, <1>3, <1>4, <1>5, <1>6, <1>7 DEF Source!Execute

\* Statements that jump.
LEMMA SourceJumps ==
    ASSUME SourceAt \in DOMAIN text, Len(text) \in Nat, SourceAt \in 1 .. Len(text)
    PROVE  LET start == StartOf(text, SourceAt)
               target(k) == start + InstructionSize * SignedPart(Arg(k), HalfMod)
           IN  /\ Op = RJMP /\ target(1) \in 0 .. WordMod /\ SourceGoes(target(1))
                  /\ SourceRegs' = SourceRegs => Source!Execute
               /\ Op \in {BRZ, BRNZ} /\ SourceRegs' = SourceRegs
                  /\ (IF (SourceRegs[Arg(1)] = 0) = (Op = BRZ)
                      THEN target(2) \in 0 .. WordMod /\ SourceGoes(target(2))
                      ELSE SourceAt' = SourceAt + 1 /\ UNCHANGED text) => Source!Execute
               /\ Op = AJMP /\ SourceGoes(SourceRegs[Arg(1)]) /\ SourceRegs' = SourceRegs
                  => Source!Execute
               /\ Op = CALL /\ SourceGoes(SourceRegs[Arg(1)])
                  /\ SourceRegs' =
                       [SourceRegs EXCEPT ![ReturnAddress] = StartOf(text, SourceAt + 1)]
                  => Source!Execute
               /\ Op = RET /\ SourceGoes(SourceRegs[ReturnAddress])
                  /\ SourceRegs' = SourceRegs => Source!Execute
<1> DEFINE start == StartOf(text, SourceAt)
           target(k) == start + InstructionSize * SignedPart(Arg(k), HalfMod)
<1>1. \A n \in 1 .. Len(text) + 1 : Source!Starts[n] = StartOf(text, n)
  BY StartsOf
<1>2. Source!Starts[SourceAt] = start /\ Source!Starts[SourceAt + 1] = StartOf(text, SourceAt + 1)
  BY <1>1
<1>3. \A k : Source!Target(k) = target(k)
  <2>1. \A k : Source!Target(k) =
          Source!Starts[SourceAt] + InstructionSize * SignedPart(Arg(k), HalfMod)
    BY DEF Source!Target, Source!InstructionSize, InstructionSize, Source!SignedPart, SignedPart,
       Source!HalfMod, HalfMod, Source!Arg, Arg, SourceAt
  <2> QED
    BY <1>2, <2>1
<1> HIDE DEF start, target
<1>4. Op = RJMP /\ target(1) \in 0 .. WordMod /\ SourceGoes(target(1)) /\ SourceRegs' = SourceRegs
      => Source!Jump
  BY <1>3 DEF Source!Jump, Source!Executing, Source!RJMP, RJMP, Op, SourceAt, SourceRegs,
     UserRegisters, Source!Goto, SourceGoes, Source!WordMod, WordMod
<1>5. Op \in {BRZ, BRNZ} /\ SourceRegs' = SourceRegs
      /\ (IF (SourceRegs[Arg(1)] = 0) = (Op = BRZ)
          THEN target(2) \in 0 .. WordMod /\ SourceGoes(target(2))
          ELSE SourceAt' = SourceAt + 1 /\ UNCHANGED text) => Source!Branch
  BY <1>3 DEF Source!Branch, Source!Executing, Source!BRZ, BRZ, Source!BRNZ, BRNZ, Op, SourceAt,
     SourceRegs, UserRegisters, Source!Goto, SourceGoes, Source!WordMod, WordMod, Source!Of,
     Source!Arg, Arg
<1>6. Op = AJMP /\ SourceGoes(SourceRegs[Arg(1)]) /\ SourceRegs' = SourceRegs
      => Source!JumpToRegister
  BY DEF Source!JumpToRegister, Source!Executing, Source!AJMP, AJMP, Op, SourceAt, SourceRegs,
     UserRegisters, Source!Goto, SourceGoes, Source!Of, Source!Arg, Arg
<1>7. Op = CALL /\ SourceGoes(SourceRegs[Arg(1)])
      /\ SourceRegs' = [SourceRegs EXCEPT ![ReturnAddress] = StartOf(text, SourceAt + 1)]
      => Source!CallSubroutine
  <2>1. Op = CALL /\ SourceGoes(SourceRegs[Arg(1)])
        /\ SourceRegs' = [SourceRegs EXCEPT ![ReturnAddress] = Source!Starts[SourceAt + 1]]
        => Source!CallSubroutine
    BY DEF Source!CallSubroutine, Source!Executing, Source!CALL, CALL, Op, SourceAt, SourceRegs,
       UserRegisters, Source!Goto, SourceGoes, Source!Of, Source!Arg, Arg,
       Source!ReturnAddress, ReturnAddress
  <2> QED
    BY <1>2, <2>1
<1>8. Op = RET /\ SourceGoes(SourceRegs[ReturnAddress]) /\ SourceRegs' = SourceRegs
      => Source!ReturnFromSubroutine
  BY DEF Source!ReturnFromSubroutine, Source!Executing, Source!RET, RET, Op, SourceAt,
     SourceRegs, UserRegisters, Source!Goto, SourceGoes, Source!ReturnAddress, ReturnAddress
<1> QED
  BY <1>4, <1>5, <1>6, <1>7, <1>8 DEF Source!Execute, target, start

-----------------------------------------------------------------------------
(* The invariant of a program that is executed *)

\* RAM holds the instructions of every statement.
HoldsCode(t, store) ==
    \A n \in 1 .. Len(t), k \in 1 .. 3 : k <= Width(t[n].op) =>
        /\ IsTyped(t[n])
        /\ IsCode(Decode(BytesAt(store, WordAt(t, n, k), InstructionSize)), t[n], k)

\* What the registers r hold before the k-th instruction of statement s, k > 1.
Between(s, k, r) ==
    /\ s.op = NEG => r[AssemblerTemp] = 0
    /\ s.op = NOT => r[AssemblerTemp] = IF k = 2 THEN HalfMod - 1 ELSE WordMod - 1
    /\ s.op = LFI => r[s.args[1]] = s.args[2] % HalfMod

\* A statement that is under way has done its part.
Begun ==
    \A n \in 1 .. Len(text), k \in 2 .. 3 :
        k <= Width(text[n].op) /\ machine.pc = WordAt(text, n, k) =>
            Between(text[n], k, machine.regs)

Running ==
    /\ machine.base = 0 /\ machine.end = StartOf(text, Len(text) + 1)
    /\ HoldsCode(text, machine.bytes)
    /\ Begun

\* No program is in RAM, and none is executed.
Idle == machine.pc = 0 /\ machine.end = 0 /\ machine.regs = ZeroRegisters

TextOK ==
    /\ Len(text) \in Nat /\ DOMAIN text = 1 .. Len(text)
    /\ loads = 0 => text = <<>> /\ Idle
    /\ Idle \/ Running

\* The instruction at the instruction pointer is the k-th of the n-th statement.
AtWord(n, k) ==
    /\ n \in 1 .. Len(text) /\ k \in 1 .. 3 /\ k <= Width(text[n].op)
    /\ machine.pc = WordAt(text, n, k)
    /\ IsTyped(text[n]) /\ IsCode(Instruction, text[n], k)

\* Every instruction that a statement becomes is on registers.
LEMMA CodeIsOnRegisters ==
    ASSUME NEW s, s.op \in RegisterOperations, NEW k \in 1 .. 3, k <= Width(s.op),
           NEW w, IsCode(w, s, k)
    PROVE  w.op \in OnRegisters
<1> DEFINE op == s.op
<1>1. {OR, SUB, XOR} \subseteq RRR /\ {OR, SUB, XOR, LI, LUI, AJMP} \subseteq OnRegisters
      /\ RRR \subseteq OnRegisters /\ {LI, LUI, BRZ, BRNZ, RJMP, AJMP, CALL} \subseteq OnRegisters
  BY DEF OR, SUB, XOR, RRR, ADD, SDIV, EQ, SGE, OnRegisters, Branches
<1>2. /\ op \in {NEG, LFI} => k = 1 \/ k = 2
      /\ op = NOT => k = 1 \/ k = 2 \/ k = 3
  BY WidthOf DEF op
<1>3. \/ op \in RRR \/ op \in {LI, LUI, BRZ, BRNZ} \/ op = RJMP \/ op \in {AJMP, CALL}
      \/ op = MOV \/ op = NEG \/ op = NOT \/ op = LFI \/ op = RET
  BY RegisterOperationsAre DEF PseudoOperations, op
<1> HIDE DEF op
<1>4. CASE op \in RRR \/ op \in {LI, LUI, BRZ, BRNZ} \/ op = RJMP \/ op \in {AJMP, CALL}
  <2>1. w.op = op
    BY <1>4 DEF IsCode, WithRegisters, WithImmediate, op
  <2> QED
    BY <1>1, <1>4, <2>1
<1>5. CASE op = MOV \/ op = RET
  <2>1. w.op \in {OR, AJMP}
    BY <1>5 DEF IsCode, WithRegisters, op
  <2> QED
    BY <1>1, <2>1
<1>6. CASE op = NEG
  <2>1. w.op \in {LI, SUB}
    BY <1>2, <1>6 DEF IsCode, WithRegisters, WithImmediate, op
  <2> QED
    BY <1>1, <2>1
<1>7. CASE op = NOT
  <2>1. w.op \in {LI, LUI, XOR}
    BY <1>2, <1>7 DEF IsCode, WithRegisters, WithImmediate, op
  <2> QED
    BY <1>1, <2>1
<1>8. CASE op = LFI
  <2>1. w.op \in {LI, LUI}
    BY <1>2, <1>8 DEF IsCode, WithImmediate, op
  <2> QED
    BY <1>1, <2>1
<1> QED
  BY <1>3, <1>4, <1>5, <1>6, <1>7, <1>8

\* A step that does not throw executes an instruction of a statement.
LEMMA FetchesWord ==
    ASSUME IInv, TextOK, Step, Ok(machine')
    PROVE  /\ Running
           /\ \E n \in 1 .. Len(text), k \in 1 .. 3 : AtWord(n, k)
           /\ Instruction.op \in OnRegisters
<1>1. ~FailToFetch
  BY DEF FailToFetch
<1>2. Ok(Fetched) /\ ~Finished
  BY <1>1 DEF Step, ExecuteLoadImmediate, ExecuteCalculate, ExecuteLoad,
     ExecuteStore, ExecuteConvert, ExecuteRelativeJump, ExecuteBranch,
     ExecuteAbsoluteJump, ExecuteCall, ExecuteWriteStatus, ExecuteReadStatus,
     ExecuteAdvanceStackPointer, ExecuteInvalidOpcode, Executing
<1>3. machine.pc \in Nat /\ machine.end \in Nat /\ machine.pc < machine.end
  BY <1>2, Sizes DEF IInv, Typed, Finished
<1>4. Running /\ Len(text) \in Nat
  BY <1>3 DEF TextOK, Idle
<1>5. machine.pc % 4 = 0
  BY <1>2, FetchIsChecked DEF IInv, InstructionSize
<1>6. PICK n \in 1 .. Len(text) : StartOf(text, n) <= machine.pc /\ machine.pc < StartOf(text, n + 1)
  <2>1. Len(text) + 1 \in Nat \ {0} /\ (Len(text) + 1) - 1 = Len(text)
    BY <1>4
  <2>2. machine.pc < StartOf(text, Len(text) + 1)
    BY <1>3, <1>4 DEF Running
  <2> QED
    BY <1>3, <2>1, <2>2, StatementOf
<1> DEFINE s == StartOf(text, n)
           w == Width(text[n].op)
           pc == machine.pc
           k == (pc - s) \div 4 + 1
<1>7. s \in Nat /\ s % 4 = 0 /\ StartOf(text, n + 1) = s + 4 * w /\ w \in 1 .. 3
  BY NextStart, WidthOf DEF InstructionSize
<1>8. k \in 1 .. 3 /\ k <= w /\ pc = s + 4 * (k - 1)
  <2>1. pc \in Nat /\ pc % 4 = 0 /\ s <= pc /\ pc < s + 4 * w
    BY <1>3, <1>5, <1>6, <1>7
  <2> HIDE DEF s, w, pc
  <2> QED
    BY <1>7, <2>1
<1> HIDE DEF k
<1>9. machine.pc = WordAt(text, n, k)
  BY <1>8 DEF WordAt, InstructionSize
<1>10. IsTyped(text[n]) /\ IsCode(Instruction, text[n], k)
  BY <1>4, <1>8, <1>9 DEF Running, HoldsCode, Instruction
<1>11. AtWord(n, k)
  BY <1>8, <1>9, <1>10 DEF AtWord
<1>12. Instruction.op \in OnRegisters
  BY <1>8, <1>10, CodeIsOnRegisters DEF IsTyped
<1> QED
  BY <1>4, <1>8, <1>11, <1>12

\* An instruction that goes on comes to the next word, of this statement or the next.
LEMMA Continues ==
    ASSUME Len(text) \in Nat, machine.pc \in Nat, text' = text, NEW n, NEW k, AtWord(n, k),
           machine'.pc = machine.pc + InstructionSize,
           k < Width(text[n].op) => Between(text[n], k + 1, machine'.regs)
    PROVE  /\ Begun'
           /\ k = Width(text[n].op) => AtStatement(n + 1)'
           /\ k < Width(text[n].op) => Within(n)'
<1> DEFINE w == Width(text[n].op)
           pc == machine'.pc
<1>1. n \in 1 .. Len(text) /\ k \in 1 .. 3 /\ k <= w /\ w \in 1 .. 3
  BY WidthOf DEF AtWord
<1>2. pc = IF k = w THEN StartOf(text, n + 1) ELSE WordAt(text, n, k + 1)
  BY <1>1, PositionOfWord DEF AtWord
<1>3. /\ \A m \in 1 .. Len(text) + 1 : pc = StartOf(text, m) => ~Inside' /\ AtStatement(m)'
      /\ \A m \in 1 .. Len(text), j \in 2 .. 3 :
            j <= Width(text[m].op) /\ pc = WordAt(text, m, j) => Inside' /\ Within(m)'
  <2>1. machine'.pc \in Nat
    BY DEF InstructionSize
  <2> QED
    BY <2>1, NextPlaced DEF Placement
<1>4. CASE k = w
  <2>1. n + 1 \in 1 .. Len(text) + 1
    BY <1>1
  <2>2. ~Inside' /\ AtStatement(n + 1)'
    BY <1>2, <1>3, <1>4, <2>1
  <2>3. Begun'
    BY <1>3, <2>2 DEF Begun
  <2> QED
    BY <1>1, <1>4, <2>2, <2>3
<1>5. CASE k < w
  <2>1. k + 1 \in 2 .. 3 /\ k + 1 <= w /\ pc = WordAt(text, n, k + 1)
    BY <1>1, <1>2, <1>5
  <2>2. Within(n)'
    BY <1>1, <1>3, <2>1
  <2>3. ASSUME NEW m \in 1 .. Len(text), NEW j \in 2 .. 3, j <= Width(text[m].op),
               pc = WordAt(text, m, j)
        PROVE  m = n /\ j = k + 1
    <3>1. m = n
      <4>1. PositionOf(text, WordAt(text, m, j)) = m /\ j \in 1 .. 3
        BY <2>3, PositionOfWord
      <4>2. PositionOf(text, WordAt(text, n, k + 1)) = n /\ k + 1 \in 1 .. 3
        BY <1>1, <2>1, PositionOfWord
      <4> QED
        BY <2>1, <2>3, <4>1, <4>2
    <3>2. StartOf(text, n) \in Nat
      BY <1>1, NextStart
    <3>3. StartOf(text, n) + 4 * (j - 1) = StartOf(text, n) + 4 * ((k + 1) - 1)
      BY <2>1, <2>3, <3>1 DEF WordAt, InstructionSize
    <3> QED
      BY <1>1, <2>3, <3>1, <3>2, <3>3
  <2>4. Between(text[n], k + 1, machine'.regs)
    BY <1>5
  <2>5. Begun'
    BY <2>3, <2>4 DEF Begun
  <2> QED
    BY <1>1, <1>5, <2>2, <2>5
<1> QED
  BY <1>1, <1>4, <1>5

\* A jump comes to the statement at its target, if it is no middle of another.
LEMMA Turns ==
    ASSUME Len(text) \in Nat, machine.pc \in Nat, machine'.pc \in Nat, text' = text,
           NEW n, AtWord(n, 1), Width(text[n].op) = 1,
           Inside' => machine'.pc - machine.pc \in {0, InstructionSize}
    PROVE  /\ Begun'
           /\ SourceAt' = Source!PlaceOf(machine'.pc)
           /\ SourceRegs' = [r \in UserRegisters |-> machine'.regs[r]]
<1> DEFINE pc == machine'.pc
           p == PositionOf(text, pc)
<1>1. n \in 1 .. Len(text) /\ machine.pc = StartOf(text, n)
  BY PositionOfWord DEF AtWord
<1>2. machine.pc + InstructionSize = StartOf(text, n + 1)
  BY <1>1, NextStart DEF InstructionSize
<1>3. /\ \A m \in 1 .. Len(text) + 1 : pc = StartOf(text, m) => ~Inside' /\ AtStatement(m)'
      /\ p = 0 => ~Inside' /\ AtStatement(0)'
      /\ \A m \in 1 .. Len(text), j \in 2 .. 3 :
            j <= Width(text[m].op) /\ pc = WordAt(text, m, j) => Inside' /\ Within(m)'
  BY NextPlaced DEF Placement
<1>4. ~Inside'
  <2> SUFFICES ASSUME Inside' PROVE FALSE
    OBVIOUS
  <2>1. pc = machine.pc \/ pc = machine.pc + InstructionSize
    BY DEF InstructionSize
  <2>2. n \in 1 .. Len(text) + 1 /\ n + 1 \in 1 .. Len(text) + 1
    BY <1>1
  <2> QED
    BY <1>1, <1>2, <1>3, <2>1, <2>2
<1>5. Begun'
  BY <1>3, <1>4 DEF Begun
<1>6. p # 0 => p \in 1 .. Len(text) + 1 /\ pc = StartOf(text, p)
  <2> SUFFICES ASSUME p # 0 PROVE p \in 1 .. Len(text) + 1 /\ pc = StartOf(text, p)
    OBVIOUS
  <2>1. p \in 1 .. Len(text) + 1
    BY PositionExists
  <2>2. (Layout!Starts)'[p] = StartOf(text, p)
    BY <2>1, NextCurrent
  <2>3. Inside' <=> pc # (Layout!Starts)'[p]
    BY NextCurrent
  <2> QED
    BY <1>4, <2>1, <2>2, <2>3
<1>7. Source!PlaceOf(pc) = p
  BY <1>6, PlaceIsPosition
<1>8. SourceAt' = p /\ SourceRegs' = [r \in UserRegisters |-> machine'.regs[r]]
  BY <1>3, <1>6 DEF AtStatement
<1> QED
  BY <1>5, <1>7, <1>8

-----------------------------------------------------------------------------
(* Each instruction of each statement *)

\* The step executes the k-th instruction of the n-th statement.
Stepping(n, k) ==
    /\ Len(text) \in Nat /\ DOMAIN text = 1 .. Len(text) /\ text' = text
    /\ machine.pc \in Nat /\ machine'.pc \in 0 .. WordMod /\ machine.regs \in [Register -> Word]
    /\ AtWord(n, k) /\ Begun /\ StepDoes
    /\ Inside' => machine'.pc - machine.pc \in {0, InstructionSize}

\* The source program stays where it is, or takes its step.
Stays == SourceAt' = SourceAt /\ SourceRegs' = SourceRegs

Follows == Begun' /\ (Source!Execute \/ Stays)

UserPart(r) == [x \in UserRegisters |-> r[x]]

\* R31 is no register of the source program, R1 is one.
LEMMA UserRegistersAre ==
    /\ UserRegisters \subseteq Register /\ AssemblerTemp \in Register
    /\ AssemblerTemp \notin UserRegisters
    /\ ReturnAddress \in UserRegisters
BY DEF UserRegisters, Register, AssemblerTemp, ReturnAddress

\* What setting a register makes of those that the source program has.
LEMMA UserPartIsSet ==
    ASSUME NEW r, r \in [Register -> Word], NEW d, d \in Register, NEW v,
           NEW q, q = [r EXCEPT ![d] = v]
    PROVE  /\ q[d] = v
           /\ d \in UserRegisters => UserPart(q) = [UserPart(r) EXCEPT ![d] = v]
           /\ d \notin UserRegisters => UserPart(q) = UserPart(r)
<1>1. q[d] = v /\ \A x \in Register : x # d => q[x] = r[x]
  OBVIOUS
<1>2. \A x \in UserRegisters : x \in Register
  BY UserRegistersAre
<1>3. ASSUME d \in UserRegisters
      PROVE  UserPart(q) = [UserPart(r) EXCEPT ![d] = v]
  <2> DEFINE f == [UserPart(r) EXCEPT ![d] = v]
  <2>1. f = [x \in UserRegisters |-> IF x = d THEN v ELSE r[x]]
    BY <1>3 DEF UserPart
  <2>2. UserPart(q) = [x \in UserRegisters |-> IF x = d THEN v ELSE r[x]]
    BY <1>1, <1>2, <1>3 DEF UserPart
  <2> QED
    BY <2>1, <2>2
<1>4. ASSUME d \notin UserRegisters
      PROVE  UserPart(q) = UserPart(r)
  BY <1>1, <1>2, <1>4 DEF UserPart
<1> QED
  BY <1>1, <1>3, <1>4

\* Where the source program is before the step.
LEMMA SourceHere ==
    ASSUME NEW n, NEW k, Stepping(n, k)
    PROVE  /\ k = 1 \/ text[n].op # LFI => AtStatement(n)
           /\ k # 1 => Within(n) /\ Between(text[n], k, machine.regs)
           /\ n \in DOMAIN text
<1>1. /\ n \in 1 .. Len(text) /\ k \in 1 .. 3 /\ k <= Width(text[n].op)
      /\ machine.pc = WordAt(text, n, k) /\ Len(text) \in Nat /\ machine.pc \in Nat
  BY DEF Stepping, AtWord
<1>2. CASE k = 1
  <2>1. machine.pc = StartOf(text, n) /\ n \in 1 .. Len(text) + 1
    BY <1>1, <1>2, PositionOfWord
  <2> QED
    BY <1>1, <1>2, <2>1, Placed DEF Placement, Stepping
<1>3. CASE k # 1
  <2>1. k \in 2 .. 3
    BY <1>1, <1>3
  <2>2. Within(n) /\ Between(text[n], k, machine.regs)
    BY <1>1, <2>1, Placed DEF Placement, Stepping, Begun
  <2> QED
    BY <1>1, <1>3, <2>2 DEF Within, Stepping
<1> QED
  BY <1>2, <1>3

\* The last instruction of a statement other than LFI has the statement's effect.
LEMMA Finishes ==
    ASSUME NEW n, NEW k, Stepping(n, k), k = Width(text[n].op), text[n].op # LFI,
           NEW d, d \in UserRegisters, NEW v, StepSets(d, v)
    PROVE  /\ Begun' /\ SourceAt = n /\ SourceAt \in DOMAIN text
           /\ SourceRegs = UserPart(machine.regs) /\ SourceSets(d, v)
<1>1. AtStatement(n) /\ n \in DOMAIN text
  BY SourceHere
<1>2. k \in 1 .. 3
  BY DEF Stepping, AtWord
<1>3. Begun' /\ AtStatement(n + 1)'
  BY <1>2, Continues DEF Stepping, StepSets
<1>4. SourceAt' = n + 1 /\ SourceRegs' = UserPart(machine'.regs)
  BY <1>3 DEF AtStatement, UserPart
<1>5. SourceAt = n /\ SourceRegs = UserPart(machine.regs)
  BY <1>1 DEF AtStatement, UserPart
<1>6. UserPart(machine'.regs) = [UserPart(machine.regs) EXCEPT ![d] = v]
  <2>1. machine'.regs = [machine.regs EXCEPT ![d] = v] /\ machine.regs \in [Register -> Word]
    BY DEF Stepping, StepSets, Sets
  <2>2. d \in Register
    BY UserRegistersAre
  <2> QED
    BY <2>1, <2>2, UserPartIsSet
<1>7. text' = text
  BY DEF Stepping
<1> QED
  BY <1>1, <1>3, <1>4, <1>5, <1>6, <1>7 DEF SourceSets

\* An earlier one only prepares R31.
LEMMA Prepares ==
    ASSUME NEW n, NEW k, Stepping(n, k), k < Width(text[n].op), text[n].op # LFI,
           NEW v, StepSets(AssemblerTemp, v),
           Between(text[n], k + 1, machine'.regs)
    PROVE  Begun' /\ Stays
<1>1. AtStatement(n)
  BY SourceHere
<1>2. Begun' /\ Within(n)'
  BY Continues DEF Stepping, StepSets
<1>3. text' = text
  BY DEF Stepping
<1>4. AtStatement(n)'
  BY <1>2, <1>3 DEF Within
<1>5. UserPart(machine'.regs) = UserPart(machine.regs)
  <2>1. /\ machine'.regs = [machine.regs EXCEPT ![AssemblerTemp] = v]
        /\ machine.regs \in [Register -> Word]
    BY DEF Stepping, StepSets, Sets
  <2> QED
    BY <2>1, UserRegistersAre, UserPartIsSet
<1> QED
  BY <1>1, <1>2, <1>4, <1>5 DEF AtStatement, UserPart, Stays

\* R31 after a step that sets it.
LEMMA TempIsSet ==
    ASSUME NEW n, NEW k, Stepping(n, k), NEW d, d \in Register, NEW v, StepSets(d, v)
    PROVE  machine'.regs[d] = v
BY UserPartIsSet DEF Stepping, StepSets, Sets

\* The values that registers have in the source program are those of the machine.
LEMMA UserValue ==
    ASSUME NEW r, NEW x, x \in UserRegisters, r \in [Register -> Word]
    PROVE  UserPart(r)[x] = r[x] /\ r[x] \in Word
BY UserRegistersAre DEF UserPart

\* MOV is one OR.
LEMMA MovFollows ==
    ASSUME NEW n, NEW k, Stepping(n, k), text[n].op = MOV
    PROVE  Follows
<1> DEFINE a == text[n].args[1]
           b == text[n].args[2]
           r == machine.regs
<1>1. k = Width(text[n].op) /\ text[n].op # LFI
  BY WidthOf, OperationsDiffer DEF Stepping, AtWord
<1>2. a \in UserRegisters /\ b \in UserRegisters /\ WithRegisters(Instruction, OR, a, b, b)
  BY DEF Stepping, AtWord, IsTyped, IsCode
<1>3. OR \in RRR
  BY DEF OR, RRR, ADD, SDIV, EQ, SGE
<1>4. r[b] \in Word /\ UserPart(r)[b] = r[b]
  BY <1>2, UserValue DEF Stepping
<1>5. StepSets(a, Alu(OR, r[b], r[b]))
  BY <1>2, <1>3 DEF Stepping, StepDoes, WithRegisters
<1>6. StepSets(a, r[b])
  BY <1>4, <1>5, PseudoAssumption
<1>7. /\ Begun' /\ SourceAt = n /\ SourceAt \in DOMAIN text
      /\ SourceRegs = UserPart(r) /\ SourceSets(a, r[b])
  BY <1>1, <1>2, <1>6, Finishes
<1> QED
  BY <1>4, <1>7, SourceAssigns DEF Follows, Op, Arg

\* NEG is an LI of R31 and a SUB.
LEMMA NegFollows ==
    ASSUME NEW n, NEW k, Stepping(n, k), text[n].op = NEG
    PROVE  Follows
<1> DEFINE s == text[n]
           a == text[n].args[1]
           b == text[n].args[2]
           r == machine.regs
<1>1. (k = 1 \/ k = 2) /\ Width(s.op) = 2 /\ s.op # LFI
  BY WidthOf, OperationsDiffer DEF Stepping, AtWord
<1>2. /\ a \in UserRegisters /\ b \in UserRegisters
      /\ k = 1 => WithImmediate(Instruction, LI, AssemblerTemp, 0)
      /\ k = 2 => WithRegisters(Instruction, SUB, a, AssemblerTemp, b)
  BY DEF Stepping, AtWord, IsTyped, IsCode
<1>3. SUB \in RRR
  BY DEF SUB, RRR, ADD, SDIV, EQ, SGE
<1>4. r[b] \in Word /\ UserPart(r)[b] = r[b]
  BY <1>2, UserValue DEF Stepping
<1>5. CASE k = 1
  <2>1. StepSets(AssemblerTemp, 0)
    BY <1>2, <1>5 DEF Stepping, StepDoes, WithImmediate
  <2>2. machine'.regs[AssemblerTemp] = 0
    BY <2>1, TempIsSet, UserRegistersAre
  <2>3. Between(s, k + 1, machine'.regs)
    BY <1>1, <2>2, OperationsDiffer DEF Between
  <2> QED
    BY <1>1, <1>5, <2>1, <2>3, Prepares DEF Follows
<1>6. CASE k = 2
  <2>1. StepSets(a, Alu(SUB, r[AssemblerTemp], r[b]))
    BY <1>2, <1>3, <1>6 DEF Stepping, StepDoes, WithRegisters
  <2>2. r[AssemblerTemp] = 0
    BY <1>6, SourceHere DEF Between
  <2>3. StepSets(a, Unsigned(-r[b]))
    BY <1>4, <2>1, <2>2, PseudoAssumption
  <2>4. /\ Begun' /\ SourceAt = n /\ SourceAt \in DOMAIN text
        /\ SourceRegs = UserPart(r) /\ SourceSets(a, Unsigned(-r[b]))
    BY <1>1, <1>2, <1>6, <2>3, Finishes
  <2> QED
    BY <1>4, <2>4, SourceAssigns DEF Follows, Op, Arg
<1> QED
  BY <1>1, <1>5, <1>6

\* NOT is an LI and a LUI of R31 and an XOR.
LEMMA NotFollows ==
    ASSUME NEW n, NEW k, Stepping(n, k), text[n].op = NOT
    PROVE  Follows
<1> DEFINE s == text[n]
           a == text[n].args[1]
           r == machine.regs
<1>1. (k = 1 \/ k = 2 \/ k = 3) /\ Width(s.op) = 3 /\ s.op # LFI
  BY WidthOf, OperationsDiffer DEF Stepping, AtWord
<1>2. /\ a \in UserRegisters
      /\ k = 1 => WithImmediate(Instruction, LI, AssemblerTemp, HalfMod - 1)
      /\ k = 2 => WithImmediate(Instruction, LUI, AssemblerTemp, HalfMod - 1)
      /\ k = 3 => WithRegisters(Instruction, XOR, a, a, AssemblerTemp)
  BY DEF Stepping, AtWord, IsTyped, IsCode
<1>3. XOR \in RRR
  BY DEF XOR, RRR, ADD, SDIV, EQ, SGE
<1>4. r[a] \in Word /\ UserPart(r)[a] = r[a]
  BY <1>2, UserValue DEF Stepping
<1>5. CASE k = 1
  <2>1. StepSets(AssemblerTemp, HalfMod - 1)
    BY <1>2, <1>5 DEF Stepping, StepDoes, WithImmediate
  <2>2. machine'.regs[AssemblerTemp] = HalfMod - 1
    BY <2>1, TempIsSet, UserRegistersAre
  <2>3. Between(s, k + 1, machine'.regs)
    BY <1>1, <1>5, <2>2, OperationsDiffer DEF Between
  <2> QED
    BY <1>1, <1>5, <2>1, <2>3, Prepares DEF Follows
<1>6. CASE k = 2
  <2>1. StepSets(AssemblerTemp, (r[AssemblerTemp] % HalfMod) + HalfMod * (HalfMod - 1))
    BY <1>2, <1>6 DEF Stepping, StepDoes, WithImmediate
  <2>2. r[AssemblerTemp] = HalfMod - 1
    BY <1>6, SourceHere DEF Between
  <2>3. ((HalfMod - 1) % HalfMod) + HalfMod * (HalfMod - 1) = WordMod - 1
    <3>1. HalfMod \in Nat /\ HalfMod > 0 /\ WordMod = HalfMod * HalfMod
      BY Sizes
    <3>2. (HalfMod - 1) % HalfMod = HalfMod - 1
      BY <3>1
    <3> QED
      BY <3>1, <3>2
  <2>4. machine'.regs[AssemblerTemp] = WordMod - 1
    BY <2>1, <2>2, <2>3, TempIsSet, UserRegistersAre
  <2>5. Between(s, k + 1, machine'.regs)
    BY <1>1, <1>6, <2>4, OperationsDiffer DEF Between
  <2> QED
    BY <1>1, <1>6, <2>1, <2>5, Prepares DEF Follows
<1>7. CASE k = 3
  <2>1. StepSets(a, Alu(XOR, r[a], r[AssemblerTemp]))
    BY <1>2, <1>3, <1>7 DEF Stepping, StepDoes, WithRegisters
  <2>2. r[AssemblerTemp] = WordMod - 1
    BY <1>7, SourceHere DEF Between
  <2>3. StepSets(a, WordMod - 1 - r[a])
    BY <1>4, <2>1, <2>2, PseudoAssumption
  <2>4. /\ Begun' /\ SourceAt = n /\ SourceAt \in DOMAIN text
        /\ SourceRegs = UserPart(r) /\ SourceSets(a, WordMod - 1 - r[a])
    BY <1>1, <1>2, <1>7, <2>3, Finishes
  <2> QED
    BY <1>4, <2>4, SourceAssigns DEF Follows, Op, Arg
<1> QED
  BY <1>1, <1>5, <1>6, <1>7

\* LFI takes effect with its first instruction, and the second one completes it.
LEMMA LfiFollows ==
    ASSUME NEW n, NEW k, Stepping(n, k), text[n].op = LFI
    PROVE  Follows
<1> DEFINE s == text[n]
           a == text[n].args[1]
           b == text[n].args[2]
           r == machine.regs
           q == machine'.regs
           low == b % HalfMod
           high == b \div HalfMod
           full(f) == [x \in UserRegisters |-> IF x = a THEN b ELSE f[x]]
<1>1. (k = 1 \/ k = 2) /\ Width(s.op) = 2
  BY WidthOf DEF Stepping, AtWord
<1>2. /\ a \in UserRegisters /\ b \in Word /\ a \in Register
      /\ k = 1 => WithImmediate(Instruction, LI, a, low)
      /\ k = 2 => WithImmediate(Instruction, LUI, a, high)
  BY UserRegistersAre DEF Stepping, AtWord, IsTyped, IsCode
<1>3. /\ r \in [Register -> Word] /\ text' = text
      /\ \A x \in UserRegisters : x \in Register
  BY UserRegistersAre DEF Stepping
<1>4. CASE k = 1
  <2>1. StepSets(a, low)
    BY <1>2, <1>4 DEF Stepping, StepDoes, WithImmediate
  <2>2. q = [r EXCEPT ![a] = low] /\ q[a] = low
    BY <1>2, <1>3, <2>1 DEF StepSets, Sets
  <2>3. Between(s, k + 1, q)
    BY <1>1, <2>2, OperationsDiffer DEF Between
  <2>4. Begun' /\ Within(n)'
    BY <1>1, <1>4, <2>1, <2>3, Continues DEF Stepping, StepSets
  <2>5. SourceAt' = n + 1 /\ SourceRegs' = full(q)
    BY <1>3, <2>4 DEF Within
  <2>6. SourceAt = n /\ SourceRegs = UserPart(r) /\ n \in DOMAIN text
    BY <1>4, SourceHere DEF AtStatement, UserPart
  <2>7. full(q) = [UserPart(r) EXCEPT ![a] = b]
    <3>1. \A x \in UserRegisters : x # a => q[x] = r[x]
      BY <1>2, <1>3, <2>2
    <3>2. full(q) = [x \in UserRegisters |-> IF x = a THEN b ELSE r[x]]
      BY <3>1
    <3>3. [UserPart(r) EXCEPT ![a] = b] = [x \in UserRegisters |-> IF x = a THEN b ELSE r[x]]
      BY <1>2 DEF UserPart
    <3> QED
      BY <3>2, <3>3
  <2>8. SourceSets(a, b) /\ SourceAt \in DOMAIN text
    BY <1>3, <2>5, <2>6, <2>7 DEF SourceSets
  <2> QED
    BY <2>4, <2>6, <2>8, SourceAssigns DEF Follows, Op, Arg
<1>5. CASE k = 2
  <2>1. StepSets(a, (r[a] % HalfMod) + HalfMod * high)
    BY <1>2, <1>5 DEF Stepping, StepDoes, WithImmediate
  <2>2. Within(n) /\ r[a] = low
    BY <1>5, SourceHere DEF Between
  <2>3. (low % HalfMod) + HalfMod * high = b
    <3>1. HalfMod \in Nat /\ HalfMod > 0 /\ b \in Int
      BY <1>2, Sizes DEF Word
    <3>2. low \in 0 .. HalfMod - 1 /\ high \in Int /\ b = low + HalfMod * high
      BY <3>1, Divided
    <3> HIDE DEF low, high
    <3>3. low % HalfMod = low
      BY <3>1, <3>2
    <3> QED
      BY <3>2, <3>3
  <2>4. q = [r EXCEPT ![a] = b]
    BY <2>1, <2>2, <2>3 DEF StepSets, Sets
  <2>5. Begun' /\ AtStatement(n + 1)'
    BY <1>1, <1>5, <2>1, Continues DEF Stepping, StepSets
  <2>6. SourceAt' = n + 1 /\ SourceRegs' = UserPart(q)
    BY <2>5 DEF AtStatement, UserPart
  <2>7. SourceAt = n + 1 /\ SourceRegs = full(r)
    BY <2>2 DEF Within
  <2>8. full(r) = UserPart(q)
    BY <1>2, <1>3, <2>4 DEF UserPart
  <2> QED
    BY <2>5, <2>6, <2>7, <2>8 DEF Follows, Stays
<1> QED
  BY <1>1, <1>4, <1>5

\* The instructions that the source writes itself.
LEMMA OneInstruction ==
    ASSUME NEW n, NEW k, Stepping(n, k), text[n].op \notin {NEG, NOT, LFI}
    PROVE  /\ k = 1 /\ Width(text[n].op) = 1 /\ text[n].op # LFI
           /\ SourceAt = n /\ SourceAt \in DOMAIN text
           /\ SourceRegs = UserPart(machine.regs)
           /\ machine.pc = StartOf(text, n)
           /\ machine.pc + InstructionSize = StartOf(text, n + 1)
           /\ n \in 1 .. Len(text) /\ Len(text) \in Nat
           /\ IsTyped(text[n]) /\ IsCode(Instruction, text[n], 1)
<1>1. /\ n \in 1 .. Len(text) /\ Len(text) \in Nat /\ k \in 1 .. 3
      /\ k <= Width(text[n].op) /\ machine.pc = WordAt(text, n, k)
      /\ IsTyped(text[n]) /\ IsCode(Instruction, text[n], k)
  BY DEF Stepping, AtWord
<1>2. k = 1 /\ Width(text[n].op) = 1
  BY <1>1, WidthOf
<1>3. AtStatement(n) /\ n \in DOMAIN text
  BY SourceHere
<1>4. machine.pc = StartOf(text, n) /\ machine.pc + InstructionSize = StartOf(text, n + 1)
  BY <1>1, <1>2, PositionOfWord
<1> QED
  BY <1>1, <1>2, <1>3, <1>4 DEF AtStatement, UserPart

\* The statements that are one instruction.
LEMMA CalculateFollows ==
    ASSUME NEW n, NEW k, Stepping(n, k), text[n].op \in RRR
    PROVE  Follows
<1> DEFINE op == text[n].op
           a == text[n].args[1]
           b == text[n].args[2]
           c == text[n].args[3]
           r == machine.regs
<1>1. op \notin {NEG, NOT, LFI}
  BY OnlyPseudo DEF PseudoOperations
<1>2. k = 1 /\ Width(op) = 1 /\ op # LFI
  BY <1>1, OneInstruction
<1>3. /\ a \in UserRegisters /\ b \in UserRegisters /\ c \in UserRegisters
      /\ WithRegisters(Instruction, op, a, b, c)
  BY <1>1, OneInstruction DEF IsTyped, IsCode
<1>4. UserPart(r)[b] = r[b] /\ UserPart(r)[c] = r[c]
  BY <1>3, UserValue DEF Stepping
<1>5. StepSets(a, Alu(op, r[b], r[c])) /\ (op \in {UDIV, SDIV} => r[c] # 0)
  BY <1>3 DEF Stepping, StepDoes, WithRegisters
<1>6. /\ Begun' /\ SourceAt = n /\ SourceAt \in DOMAIN text
      /\ SourceRegs = UserPart(r) /\ SourceSets(a, Alu(op, r[b], r[c]))
  BY <1>2, <1>3, <1>5, Finishes
<1> QED
  BY <1>4, <1>5, <1>6, SourceAssigns DEF Follows, Op, Arg

LEMMA LoadImmediateFollows ==
    ASSUME NEW n, NEW k, Stepping(n, k), text[n].op \in {LI, LUI}
    PROVE  Follows
<1> DEFINE op == text[n].op
           a == text[n].args[1]
           b == text[n].args[2]
           r == machine.regs
           value == IF op = LI THEN b ELSE (r[a] % HalfMod) + HalfMod * b
<1>1. op \notin {NEG, NOT, LFI}
  BY OnlyPseudo DEF PseudoOperations
<1>2. k = 1 /\ Width(op) = 1 /\ op # LFI
  BY <1>1, OneInstruction
<1>3. a \in UserRegisters /\ b \in HalfWord /\ WithImmediate(Instruction, op, a, b)
  BY <1>1, OneInstruction DEF IsTyped, IsCode
<1>4. UserPart(r)[a] = r[a] /\ r[a] \in Word
  BY <1>3, UserValue DEF Stepping
<1>5. StepSets(a, value)
  BY <1>3 DEF Stepping, StepDoes, WithImmediate
<1>6. op = LUI => value = HalfMod * b + (r[a] % HalfMod)
  <2>1. /\ HalfMod \in Nat /\ HalfMod > 0 /\ b \in Int /\ r[a] \in Int
    BY <1>3, <1>4, Sizes DEF Word, HalfWord
  <2>2. HalfMod * b \in Int /\ r[a] % HalfMod \in Int
    BY <2>1
  <2>3. LI # LUI
    BY OpcodeNumbers
  <2> QED
    BY <2>2, <2>3
<1> HIDE DEF value
<1>7. /\ Begun' /\ SourceAt = n /\ SourceAt \in DOMAIN text
      /\ SourceRegs = UserPart(r) /\ SourceSets(a, value)
  BY <1>2, <1>3, <1>5, Finishes
<1>8. CASE op = LI
  <2>1. value = b
    BY <1>8 DEF value
  <2> QED
    BY <1>7, <1>8, <2>1, SourceAssigns DEF Follows, Op, Arg
<1>9. CASE op = LUI
  BY <1>4, <1>6, <1>7, <1>9, SourceAssigns DEF Follows, Op, Arg
<1> QED
  BY <1>8, <1>9

\* A jump of the machine is one of the source program.
LEMMA JumpsAlike ==
    ASSUME NEW n, NEW k, Stepping(n, k), text[n].op \notin {NEG, NOT, LFI}
    PROVE  /\ Begun' /\ SourceGoes(machine'.pc)
           /\ SourceRegs' = UserPart(machine'.regs)
<1>1. k = 1 /\ Width(text[n].op) = 1
  BY OneInstruction
<1>2. machine'.pc \in Nat
  BY Sizes DEF Stepping
<1>3. Begun' /\ SourceAt' = Source!PlaceOf(machine'.pc) /\ SourceRegs' = UserPart(machine'.regs)
  BY <1>1, <1>2, Turns DEF Stepping, UserPart
<1> QED
  BY <1>3 DEF SourceGoes, Stepping

LEMMA RelativeJumpFollows ==
    ASSUME NEW n, NEW k, Stepping(n, k), text[n].op = RJMP
    PROVE  Follows
<1> DEFINE a == text[n].args[1]
           target == StartOf(text, n) + InstructionSize * SignedPart(a, HalfMod)
<1>1. text[n].op \notin {NEG, NOT, LFI}
  BY OnlyPseudo DEF PseudoOperations
<1>2. /\ SourceAt = n /\ SourceAt \in DOMAIN text /\ SourceRegs = UserPart(machine.regs)
      /\ machine.pc = StartOf(text, n) /\ n \in 1 .. Len(text) /\ Len(text) \in Nat
      /\ IsCode(Instruction, text[n], 1)
  BY <1>1, OneInstruction
<1>3. Instruction.op = RJMP /\ Instruction.imm = a
  BY <1>2 DEF IsCode
<1>4. machine'.pc = target /\ machine'.regs = machine.regs /\ target \in 0 .. WordMod
  BY <1>2, <1>3 DEF Stepping, StepDoes, StepJumps, Distance
<1> HIDE DEF target
<1>5. Begun' /\ SourceGoes(target) /\ SourceRegs' = SourceRegs
  BY <1>1, <1>2, <1>4, JumpsAlike
<1> QED
  BY <1>2, <1>4, <1>5, SourceJumps DEF Follows, Op, Arg, target

LEMMA BranchFollows ==
    ASSUME NEW n, NEW k, Stepping(n, k), text[n].op \in {BRZ, BRNZ}
    PROVE  Follows
<1> DEFINE op == text[n].op
           a == text[n].args[1]
           b == text[n].args[2]
           r == machine.regs
           target == StartOf(text, n) + InstructionSize * SignedPart(b, HalfMod)
           taken == (r[a] = 0) = (op = BRZ)
<1>1. op \notin {NEG, NOT, LFI}
  BY OnlyPseudo DEF PseudoOperations
<1>2. /\ SourceAt = n /\ SourceAt \in DOMAIN text /\ SourceRegs = UserPart(r)
      /\ machine.pc = StartOf(text, n) /\ n \in 1 .. Len(text) /\ Len(text) \in Nat
      /\ IsCode(Instruction, text[n], 1) /\ IsTyped(text[n])
      /\ k = 1 /\ Width(op) = 1
  BY <1>1, OneInstruction
<1>3. /\ Instruction.op = op /\ Instruction.a = a /\ Instruction.imm = b
      /\ a \in UserRegisters
  BY <1>2 DEF IsCode, IsTyped, WithImmediate
<1>4. UserPart(r)[a] = r[a]
  BY <1>3, UserValue DEF Stepping
<1>5. StepJumps(IF taken THEN target ELSE machine.pc + InstructionSize)
  BY <1>2, <1>3 DEF Stepping, StepDoes, Distance, Branches
<1> HIDE DEF target
<1>6. CASE taken
  <2>1. machine'.pc = target /\ machine'.regs = r /\ target \in 0 .. WordMod
    BY <1>5, <1>6 DEF StepJumps, Stepping
  <2>2. Begun' /\ SourceGoes(target) /\ SourceRegs' = SourceRegs
    BY <1>1, <1>2, <2>1, JumpsAlike
  <2> QED
    BY <1>2, <1>4, <1>6, <2>1, <2>2, SourceJumps DEF Follows, Op, Arg, target
<1>7. CASE ~taken
  <2>1. machine'.pc = machine.pc + InstructionSize /\ machine'.regs = r
    BY <1>5, <1>7 DEF StepJumps
  <2>2. Begun' /\ AtStatement(n + 1)'
    BY <1>2, <2>1, Continues DEF Stepping
  <2>3. SourceAt' = SourceAt + 1 /\ SourceRegs' = SourceRegs /\ text' = text
    BY <1>2, <2>1, <2>2 DEF AtStatement, UserPart, Stepping
  <2> QED
    BY <1>2, <1>4, <1>7, <2>2, <2>3, SourceJumps DEF Follows, Op, Arg
<1> QED
  BY <1>6, <1>7

LEMMA RegisterJumpFollows ==
    ASSUME NEW n, NEW k, Stepping(n, k), text[n].op \in {AJMP, CALL, RET}
    PROVE  Follows
<1> DEFINE op == text[n].op
           a == text[n].args[1]
           r == machine.regs
<1>1. op \notin {NEG, NOT, LFI}
  BY OnlyPseudo DEF PseudoOperations
<1>2. /\ SourceAt = n /\ SourceAt \in DOMAIN text /\ SourceRegs = UserPart(r)
      /\ machine.pc + InstructionSize = StartOf(text, n + 1)
      /\ n \in 1 .. Len(text) /\ Len(text) \in Nat
      /\ IsCode(Instruction, text[n], 1) /\ IsTyped(text[n])
  BY <1>1, OneInstruction
<1>3. Begun' /\ SourceGoes(machine'.pc) /\ SourceRegs' = UserPart(machine'.regs)
  BY <1>1, JumpsAlike
<1>4. /\ op \in {AJMP, CALL} => a \in UserRegisters /\ Instruction.op = op /\ Instruction.a = a
      /\ op = RET => Instruction.op = AJMP /\ Instruction.a = ReturnAddress
  BY <1>2 DEF IsCode, IsTyped
<1>5. CASE op = AJMP
  <2>1. machine'.pc = r[a] /\ machine'.regs = r
    BY <1>4, <1>5 DEF Stepping, StepDoes, StepJumps
  <2>2. UserPart(r)[a] = r[a]
    BY <1>4, <1>5, UserValue DEF Stepping
  <2> QED
    BY <1>2, <1>3, <1>5, <2>1, <2>2, SourceJumps DEF Follows, Op, Arg
<1>6. CASE op = CALL
  <2>1. machine'.pc = r[a] /\ machine'.regs = [r EXCEPT ![ReturnAddress] = StartOf(text, n + 1)]
    BY <1>2, <1>4, <1>6 DEF Stepping, StepDoes, Sets
  <2>2. UserPart(r)[a] = r[a]
    BY <1>4, <1>6, UserValue DEF Stepping
  <2>3. UserPart(machine'.regs) =
          [UserPart(r) EXCEPT ![ReturnAddress] = StartOf(text, n + 1)]
    <3>1. r \in [Register -> Word] /\ ReturnAddress \in Register
      BY UserRegistersAre DEF Stepping
    <3> QED
      BY <2>1, <3>1, UserPartIsSet, UserRegistersAre
  <2> QED
    BY <1>2, <1>3, <1>6, <2>1, <2>2, <2>3, SourceJumps DEF Follows, Op, Arg
<1>7. CASE op = RET
  <2>1. machine'.pc = r[ReturnAddress] /\ machine'.regs = r
    BY <1>4, <1>7 DEF Stepping, StepDoes, StepJumps
  <2>2. UserPart(r)[ReturnAddress] = r[ReturnAddress]
    BY UserValue, UserRegistersAre DEF Stepping
  <2> QED
    BY <1>2, <1>3, <1>7, <2>1, <2>2, SourceJumps DEF Follows, Op, Arg
<1> QED
  BY <1>5, <1>6, <1>7

\* Every instruction does its part of its statement.
LEMMA InstructionFollows ==
    ASSUME NEW n, NEW k, Stepping(n, k)
    PROVE  Follows
<1>1. text[n].op \in RegisterOperations
  BY DEF Stepping, AtWord, IsTyped
<1> QED
  BY <1>1, RegisterOperationsAre, MovFollows, NegFollows, NotFollows, LfiFollows,
     CalculateFollows, LoadImmediateFollows, RelativeJumpFollows, BranchFollows,
     RegisterJumpFollows DEF PseudoOperations

-----------------------------------------------------------------------------
(* The two programs together *)

\* The inductive invariant: that of the emulator, that of the assembler with what its
\* program says of the source, and that RAM holds the code of the source's statements.
ChainIInv == IInv /\ AssemblerIInv /\ ParsedIInv /\ WholeIInv /\ TextOK

\* A source program that stays where it is does nothing.
LEMMA StayingIsNoStep ==
    ASSUME Stays, text' = text
    PROVE  UNCHANGED Source!vars
<1>1. (Source!vars = <<text, SourceAt, SourceRegs>>)'
  BY SourceState, PTL
<1> QED
  BY <1>1, SourceState DEF Stays

\* Where the registers and the instruction pointer stay, the source program stays.
LEMMA SamePlace ==
    ASSUME Len(text) \in Nat, text' = text, machine'.pc = machine.pc,
           machine'.regs = machine.regs
    PROVE  Stays /\ (Begun => Begun')
<1>1. Layout!Starts = [n \in 1 .. Len(text) + 1 |-> StartOf(text, n)]
  BY StartsOf
<1>2. (Layout!Starts)' = [n \in 1 .. Len(text) + 1 |-> StartOf(text, n)]
  BY NextCurrent
<1>3. Current' = Current /\ (Inside' <=> Inside)
  BY <1>1, <1>2, CurrentIs, NextCurrent
<1>4. LfiHalfDone' <=> LfiHalfDone
  BY <1>3 DEF LfiHalfDone
<1>5. SourceAt' = SourceAt
  BY <1>3, <1>4 DEF SourceAt
<1>6. SourceRegs' = SourceRegs
  BY <1>3, <1>4 DEF SourceRegs
<1>7. Begun => Begun'
  BY DEF Begun
<1> QED
  BY <1>5, <1>6, <1>7 DEF Stays

\* Of a machine that does not change, nothing changes.
LEMMA SameMachineKeepsText ==
    ASSUME TextOK, text' = text, loads' = loads,
           Architecture(machine') = Architecture(machine)
    PROVE  TextOK' /\ Stays
<1>1. /\ machine'.regs = machine.regs /\ machine'.pc = machine.pc /\ machine'.bytes = machine.bytes
      /\ machine'.base = machine.base /\ machine'.end = machine.end
  BY DEF Architecture
<1>2. Stays /\ (Begun => Begun')
  BY <1>1, SamePlace DEF TextOK
<1>3. Running => Running'
  BY <1>1, <1>2 DEF Running
<1>4. Idle => Idle'
  BY <1>1 DEF Idle
<1> QED
  BY <1>2, <1>3, <1>4 DEF TextOK

\* No step loads.
LEMMA StepsAreUnloaded ==
    ASSUME Step
    PROVE  loads' = loads /\ ~Finished
BY DEF Step, Unloaded, ExecuteLoadImmediate, ExecuteCalculate, ExecuteLoad,
   ExecuteStore, ExecuteConvert, ExecuteRelativeJump, ExecuteBranch,
   ExecuteAbsoluteJump, ExecuteCall, ExecuteWriteStatus, ExecuteReadStatus,
   ExecuteAdvanceStackPointer, ExecuteInvalidOpcode, FailToFetch, Executing

\* A step of the emulator is a step of the source program, or none.
LEMMA RunFollows ==
    ASSUME IInv, TextOK, Run,
           Inside' => machine'.pc - machine.pc \in {0, InstructionSize}
    PROVE  TextOK' /\ (Source!Execute \/ UNCHANGED Source!vars)
<1>1. Step /\ text' = text /\ loads' = loads /\ ~Finished
  BY StepsAreUnloaded DEF Run
<1>2. CASE ~Ok(machine')
  <2>1. Architecture(machine') = Architecture(machine)
    BY <1>1, <1>2, StepsResult DEF StepResult, Ok
  <2> QED
    BY <1>1, <2>1, SameMachineKeepsText, StayingIsNoStep
<1>3. CASE Ok(machine')
  <2>1. /\ Running /\ Instruction.op \in OnRegisters
        /\ \E n \in 1 .. Len(text), k \in 1 .. 3 : AtWord(n, k)
    BY <1>1, <1>3, FetchesWord
  <2>2. PICK n \in 1 .. Len(text), k \in 1 .. 3 : AtWord(n, k)
    BY <2>1
  <2>3. /\ StepDoes /\ machine'.bytes = machine.bytes /\ machine'.base = machine.base
        /\ machine'.end = machine.end /\ machine'.pc \in 0 .. WordMod
    BY <1>1, <1>3, <2>1, StepsDo
  <2>4. machine.pc \in Nat /\ machine.regs \in [Register -> Word]
    BY Sizes DEF IInv, Typed
  <2>5. Stepping(n, k)
    BY <1>1, <2>1, <2>2, <2>3, <2>4 DEF Stepping, TextOK, Running
  <2>6. Follows
    BY <2>5, InstructionFollows
  <2>7. Running'
    BY <1>1, <2>1, <2>3, <2>6 DEF Running, Follows
  <2>8. loads # 0
    <3>1. machine.pc < machine.end
      BY <1>1, <2>4, Sizes DEF Finished, IInv, Typed
    <3> QED
      BY <3>1 DEF TextOK, Idle
  <2>9. TextOK'
    BY <1>1, <2>7, <2>8 DEF TextOK
  <2> QED
    BY <1>1, <2>6, <2>9, StayingIsNoStep DEF Follows
<1> QED
  BY <1>2, <1>3

\* Of an image in RAM at address 0, the words are those of the image.
LEMMA ImageIsRead ==
    ASSUME NEW data \in Seq(Byte), NEW a \in Nat, a + InstructionSize <= Len(data),
           NEW store, store = Put(NoBytes, 0, data)
    PROVE  BytesAt(store, a, InstructionSize) = SubSeq(data, a + 1, a + 4)
<1>1. BytesAt(store, 0, Len(data)) = data
  BY NoBytesIsContents, PutIsRead
<1>2. Len(data) \in Nat /\ a + 4 <= Len(data)
  BY DEF InstructionSize
<1>3. ASSUME NEW k \in 1 .. 4
      PROVE  ByteAt(store, a + k - 1) = data[a + k]
  <2>1. a + k \in 1 .. Len(data) /\ 0 + (a + k) - 1 = a + k - 1
    BY <1>2
  <2>2. BytesAt(store, 0, Len(data))[a + k] = ByteAt(store, 0 + (a + k) - 1)
    BY <2>1 DEF BytesAt
  <2> QED
    BY <1>1, <2>1, <2>2
<1>4. BytesAt(store, a, InstructionSize) = [k \in 1 .. 4 |-> data[a + k]]
  BY <1>3 DEF BytesAt, InstructionSize
<1>5. SubSeq(data, a + 1, a + 4) = [k \in 1 .. 4 |-> data[a + k]]
  <2>1. \A i \in a + 1 .. a + 4 : data[i] \in Byte
    BY <1>2, ElementOfSequence
  <2>2. /\ SubSeq(data, a + 1, a + 4) \in Seq(Byte)
        /\ Len(SubSeq(data, a + 1, a + 4)) = 4
        /\ \A k \in 1 .. 4 : SubSeq(data, a + 1, a + 4)[k] = data[a + k]
    BY <1>2, <2>1
  <2> QED
    BY <2>2
<1> QED
  BY <1>4, <1>5

\* What loadProgram at address 0 makes of the machine.
LEMMA LoadedMachine ==
    ASSUME Typed(machine), NEW p, p.image \in Seq(Byte), p.base = 0, LoadProgram(p),
           NEW n, n = Len(p.image)
    PROVE  /\ machine'.regs = ZeroRegisters
           /\ InRange(0, n) => /\ machine'.bytes = Put(NoBytes, 0, p.image)
                               /\ machine'.base = 0 /\ machine'.pc = 0 /\ machine'.end = n
           /\ ~InRange(0, n) => machine'.pc = machine.pc /\ machine'.end = machine.end
<1> DEFINE w == Wiped(Begin(machine))
<1>1. /\ Typed(w) /\ Ok(w) /\ w.pc = machine.pc /\ w.end = machine.end
      /\ w.regs = ZeroRegisters /\ w.bytes = NoBytes
  <2>1. Typed(Begin(machine)) /\ Ok(Begin(machine))
    BY BeginIsTyped
  <2>2. Begin(machine).pc = machine.pc /\ Begin(machine).end = machine.end
    BY BeginIsTyped
  <2> DEFINE b == Begin(machine)
  <2> HIDE DEF b
  <2>3. Typed(Wiped(b)) /\ Wiped(b).pc = b.pc /\ Wiped(b).end = b.end /\ Wiped(b).error = b.error
    BY <2>1, WipedIsTyped DEF b
  <2>4. Wiped(b).regs = ZeroRegisters /\ Wiped(b).bytes = NoBytes
    BY <2>1 DEF Wiped, Typed, b
  <2> QED
    BY <2>1, <2>2, <2>3, <2>4 DEF b, Ok
<1>2. machine' = Loaded(Begin(machine), p)
  BY DEF LoadProgram
<1> HIDE DEF w
<1>3. CASE InRange(0, n)
  <2>1. Require(w, InRange(p.base, Len(p.image)), "program out of memory") = w
    BY <1>3 DEF Require
  <2>2. machine' = [w EXCEPT !.bytes = Put(@, 0, p.image), !.initialized = Span(0, n),
                             !.base = 0, !.end = 0 + n, !.pc = 0, !.tick = 0]
    BY <1>1, <1>2, <2>1 DEF Loaded, w
  <2>3. 0 + n = n
    OBVIOUS
  <2> QED
    BY <1>1, <1>3, <2>2, <2>3 DEF Typed
<1>4. CASE ~InRange(0, n)
  <2> DEFINE t == [w EXCEPT !.error = "program out of memory"]
  <2>1. Require(w, InRange(p.base, Len(p.image)), "program out of memory") = t
    BY <1>1, <1>4 DEF Require
  <2>2. ~Ok(t) /\ t.pc = w.pc /\ t.end = w.end /\ t.regs = w.regs
    BY <1>1 DEF Typed, Ok, NoError
  <2> HIDE DEF t
  <2>3. machine' = t
    BY <1>2, <2>1, <2>2 DEF Loaded, w
  <2> QED
    BY <1>1, <1>4, <2>2, <2>3
<1> QED
  BY <1>3, <1>4

\* A file that is a program, in RAM, is the code of its source.
LEMMA ProgramIsRunning ==
    ASSUME AssemblerIInv, ParsedIInv, WholeIInv, phase \in Ended, file = bytes,
           tokens \in Executed, text' = Statements(tokens),
           machine'.bytes = Put(NoBytes, 0, bytes), machine'.base = 0, machine'.pc = 0,
           machine'.end = Len(bytes)
    PROVE  Running'
<1> DEFINE t == Statements(tokens)
           store == Put(NoBytes, 0, bytes)
<1>1. /\ Len(t) \in Nat /\ bytes \in Seq(Byte)
      /\ Len(bytes) = StartOf(t, Len(t) + 1)
      /\ \A n \in 1 .. Len(t), k \in 1 .. 3 : k <= Width(t[n].op) =>
            LET a == WordAt(t, n, k)
            IN  /\ IsTyped(t[n]) /\ a \in Nat /\ a + InstructionSize <= Len(bytes)
                /\ IsCode(Decode(SubSeq(bytes, a + 1, a + 4)), t[n], k)
  BY FileIsCode
<1> HIDE DEF t, store
<1>2. HoldsCode(t, store)
  <2> SUFFICES ASSUME NEW n \in 1 .. Len(t), NEW k \in 1 .. 3, k <= Width(t[n].op)
               PROVE  /\ IsTyped(t[n])
                      /\ IsCode(Decode(BytesAt(store, WordAt(t, n, k), InstructionSize)), t[n], k)
    BY DEF HoldsCode
  <2> DEFINE a == WordAt(t, n, k)
  <2>1. /\ IsTyped(t[n]) /\ a \in Nat /\ a + InstructionSize <= Len(bytes)
        /\ IsCode(Decode(SubSeq(bytes, a + 1, a + 4)), t[n], k)
    BY <1>1
  <2> HIDE DEF a
  <2>2. BytesAt(store, a, InstructionSize) = SubSeq(bytes, a + 1, a + 4)
    BY <1>1, <2>1, ImageIsRead DEF store
  <2> QED
    BY <2>1, <2>2 DEF a
<1>3. text' = t /\ machine'.bytes = store
  BY DEF t, store
<1>4. Begun'
  <2>1. machine'.pc = StartOf(text', 1) /\ machine'.pc \in Nat /\ 1 \in 1 .. Len(text') + 1
        /\ Len(text') \in Nat
    BY <1>1, <1>3, FirstStart
  <2>2. /\ ~Inside'
        /\ \A n \in 1 .. Len(text'), k \in 2 .. 3 :
              k <= Width(text'[n].op) /\ machine'.pc = WordAt(text', n, k) => Inside'
    BY <2>1, NextPlaced DEF Placement
  <2> QED
    BY <2>2 DEF Begun
<1> QED
  BY <1>1, <1>2, <1>3, <1>4 DEF Running

\* Where the instruction pointer is 0, the first statement is next.
LEMMA FirstIsNext ==
    (Len(text) \in Nat /\ machine.pc = 0) => AtStatement(1)
<1> SUFFICES ASSUME Len(text) \in Nat, machine.pc = 0
             PROVE  AtStatement(1)
  OBVIOUS
<1>1. machine.pc = StartOf(text, 1) /\ machine.pc \in Nat /\ 1 \in 1 .. Len(text) + 1
  BY FirstStart
<1> QED
  BY <1>1, Placed DEF Placement

LEMMA NextFirstIsNext ==
    ((Len(text) \in Nat /\ machine.pc = 0) => AtStatement(1))'
BY FirstIsNext, PTL

\* The file becomes the program of its source, or no program.
LEMMA FileLoads ==
    ASSUME ChainIInv, LoadFile
    PROVE  IInv' /\ TextOK' /\ (Source!Load \/ UNCHANGED Source!vars)
<1> DEFINE p == [image |-> file, base |-> 0]
<1>1. /\ phase \in Ended /\ tokens \in Executed /\ file \in {OldFile, bytes}
      /\ LoadProgram(p) \/ RefuseProgram(p)
      /\ text' = IF file = bytes THEN Statements(tokens) ELSE <<>>
      /\ UNCHANGED assemblerVars
  BY DEF LoadFile
<1>2. p.image = file /\ p.base = 0 /\ file \in Seq(Byte) /\ 0 \in Word
  BY Sizes DEF ChainIInv, AssemblerIInv, FileOK, Word
<1> HIDE DEF p
<1>3. loads = 0 /\ loads' = 1 /\ text = <<>> /\ Idle
  <2>1. loads < MaxLoads /\ loads' = loads + 1
    BY <1>1 DEF LoadProgram, RefuseProgram
  <2>2. loads = 0 /\ loads' = 1
    BY <2>1, ToolchainAssumption DEF ChainIInv, IInv
  <2> QED
    BY <2>2 DEF ChainIInv, TextOK
<1>4. IInv'
  BY <1>1, <1>2, LoadIInv, RefuseIInv DEF ChainIInv
<1>5. file = bytes => Len(Statements(tokens)) \in Nat
  BY <1>1, FileIsCode DEF ChainIInv
<1>6. /\ Len(text') \in Nat /\ DOMAIN text' = 1 .. Len(text')
      /\ text' # <<>> => file = bytes
  <2>1. DOMAIN Statements(tokens) = 1 .. Cardinality(OperationsOf(tokens))
    BY DEF Statements
  <2>2. file = bytes => DOMAIN Statements(tokens) = 1 .. Len(Statements(tokens))
    BY <1>5, <2>1
  <2> QED
    BY <1>1, <1>5, <2>2
<1>7. machine'.pc = 0 /\ machine'.regs = machine.regs /\ (Idle' \/ Running')
  <2>1. CASE RefuseProgram(p)
    <3>1. Architecture(machine') = Architecture(machine)
      BY <2>1, RefuseIInv DEF ChainIInv
    <3>2. machine'.pc = machine.pc /\ machine'.end = machine.end /\ machine'.regs = machine.regs
      BY <3>1 DEF Architecture
    <3> QED
      BY <1>3, <3>2 DEF Idle
  <2>2. CASE LoadProgram(p)
    <3> DEFINE n == Len(file)
    <3>1. /\ machine'.regs = ZeroRegisters
          /\ InRange(0, n) => /\ machine'.bytes = Put(NoBytes, 0, file)
                              /\ machine'.base = 0 /\ machine'.pc = 0 /\ machine'.end = n
          /\ ~InRange(0, n) => machine'.pc = machine.pc /\ machine'.end = machine.end
      BY <1>2, <2>2, LoadedMachine DEF ChainIInv, IInv
    <3>2. CASE ~InRange(0, n)
      BY <1>3, <3>1, <3>2 DEF Idle
    <3>3. CASE InRange(0, n)
      <4>1. Len(file) % InstructionSize = 0
        BY <1>2, <2>2 DEF LoadProgram, Acceptable
      <4>2. file # OldFile
        BY <4>1, ToolchainAssumption, Zenon
      <4>3. file = bytes
        BY <1>1, <4>2
      <4>4. Running'
        BY <1>1, <3>1, <3>3, <4>3, ProgramIsRunning DEF ChainIInv
      <4> QED
        BY <1>3, <3>1, <3>3, <4>4 DEF Idle
    <3> QED
      BY <3>2, <3>3
  <2> QED
    BY <1>1, <2>1, <2>2
<1>8. TextOK'
  BY <1>3, <1>6, <1>7 DEF TextOK
<1>9. Stays
  <2>1. AtStatement(1)
    BY <1>3, FirstIsNext DEF Idle, ChainIInv, TextOK
  <2>2. AtStatement(1)'
    BY <1>6, <1>7, NextFirstIsNext
  <2> QED
    BY <1>7, <2>1, <2>2 DEF AtStatement, Stays
<1>10. CASE text' = <<>>
  BY <1>3, <1>4, <1>8, <1>9, <1>10, StayingIsNoStep
<1>11. CASE text' # <<>>
  <2>1. text' \in {Statements(source) : source \in Executed}
    BY <1>1, <1>6, <1>11
  <2>2. Source!Load
    BY <1>3, <1>9, <1>11, <2>1 DEF Source!Load, Stays, SourceAt, SourceRegs, UserRegisters
  <2> QED
    BY <1>4, <1>8, <2>2
<1> QED
  BY <1>10, <1>11

\* While the assembler runs, the emulator and the source program do not.
LEMMA AssemblingIsNoStep ==
    ASSUME TextOK, UNCHANGED <<vars, text>>
    PROVE  IInv' = IInv /\ TextOK' /\ UNCHANGED Source!vars
<1>1. machine' = machine /\ loads' = loads /\ text' = text
  BY DEF vars
<1>2. TextOK' /\ Stays
  BY <1>1, SameMachineKeepsText
<1>3. IInv' = IInv
  BY DEF IInv, vars
<1> QED
  BY <1>1, <1>2, <1>3, StayingIsNoStep

\* Before anything is assembled there is no source program.
LEMMA ChainStarts ==
    ASSUME ChainInit
    PROVE  ChainIInv /\ Source!Init
<1>1. IInv /\ AssemblerIInv
  BY InitIInv, InitialIInv DEF ChainInit
<1>2. ParsedIInv /\ WholeIInv
  BY DEF ChainInit, AssemblerInit, ParsedIInv, WholeIInv, Encoders
<1>3. /\ text = <<>> /\ machine.pc = 0 /\ machine.end = 0 /\ machine.regs = ZeroRegisters
      /\ Len(text) \in Nat /\ DOMAIN text = 1 .. Len(text)
  BY DEF ChainInit, Init
<1>4. TextOK
  BY <1>3 DEF TextOK, Idle
<1>5. Source!Init
  <2>1. SourceAt = 1 /\ SourceRegs = [r \in UserRegisters |-> machine.regs[r]]
    BY <1>3, FirstIsNext DEF AtStatement
  <2>2. \A r \in UserRegisters : machine.regs[r] = 0
    BY <1>3, UserRegistersAre DEF ZeroRegisters
  <2>3. SourceRegs = [r \in UserRegisters |-> 0]
    BY <2>1, <2>2
  <2> QED
    BY <1>3, <2>1, <2>3 DEF Source!Init, SourceAt, SourceRegs, UserRegisters, Source!UserRegisters
<1> QED
  BY <1>1, <1>2, <1>4, <1>5 DEF ChainIInv

\* Every step of the two programs is a step of the source program, or none.
LEMMA ChainFollows ==
    ASSUME ChainIInv, [ChainNext]_chainVars,
           [Inside' => machine'.pc - machine.pc \in {0, InstructionSize}]_chainVars
    PROVE  ChainIInv' /\ [Source!Load \/ Source!Execute]_(Source!vars)
<1>1. AssemblerIInv /\ ParsedIInv /\ WholeIInv /\ IInv /\ TextOK
  BY DEF ChainIInv
<1>2. [AssemblerNext]_assemblerVars => AssemblerIInv' /\ ParsedIInv' /\ WholeIInv'
  BY <1>1, NextAssemblerIInv, AssemblerLaysOut, AssemblerEncodesAll
<1>3. CASE Assemble
  <2>1. IInv' /\ TextOK' /\ UNCHANGED Source!vars
    BY <1>1, <1>3, AssemblingIsNoStep DEF Assemble
  <2> QED
    BY <1>2, <1>3, <2>1 DEF Assemble, ChainIInv
<1>4. CASE LoadFile
  <2>1. IInv' /\ TextOK' /\ (Source!Load \/ UNCHANGED Source!vars)
    BY <1>4, FileLoads
  <2>2. UNCHANGED assemblerVars
    BY <1>4 DEF LoadFile
  <2> QED
    BY <1>2, <2>1, <2>2 DEF ChainIInv
<1>5. CASE UNCHANGED chainVars
  <2>1. UNCHANGED <<vars, text>> /\ UNCHANGED assemblerVars
    BY <1>5 DEF chainVars
  <2>2. IInv' /\ TextOK' /\ UNCHANGED Source!vars
    BY <1>1, <2>1, AssemblingIsNoStep
  <2> QED
    BY <1>2, <2>1, <2>2 DEF ChainIInv
<1>6. CASE Run /\ ~UNCHANGED chainVars
  <2>1. Step /\ UNCHANGED assemblerVars
    BY <1>6 DEF Run
  <2>2. IInv'
    BY <1>1, <2>1, NextIInv DEF Next
  <2>3. TextOK' /\ (Source!Execute \/ UNCHANGED Source!vars)
    BY <1>1, <1>6, RunFollows
  <2> QED
    BY <1>2, <2>1, <2>2, <2>3 DEF ChainIInv
<1> QED
  BY <1>3, <1>4, <1>5, <1>6 DEF ChainNext

\* The assembler and the emulator together implement SourceProgram, for all sources
\* whose operations are on registers and every arithmetic unit as assumed: pseudo-
\* instructions take effect at once and on their destination alone, whatever R31 held,
\* and jumps, calls and returns reach the statement that the source counts
\* (appendLoweredInstruction, encode, loadProgram and execute).  The programs are those
\* whose jumps go to statements: what is executed in the middle of one has no source.
THEOREM AssembledProgramsFollowSource == ChainSpec /\ JumpsToStatements => ImplementsSource
<1>1. ChainInit => ChainIInv /\ Source!Init
  BY ChainStarts
<1>2. ChainIInv /\ [ChainNext]_chainVars
      /\ [Inside' => machine'.pc - machine.pc \in {0, InstructionSize}]_chainVars
      => ChainIInv' /\ [Source!Load \/ Source!Execute]_(Source!vars)
  BY ChainFollows
<1> QED
  BY <1>1, <1>2, PTL DEF ChainSpec, JumpsToStatements, ImplementsSource, Source!Spec
=============================================================================
