------------------------------ MODULE Assembler ------------------------------
(***************************************************************************)
(* Assembling a file (assembler/src): the tokens of the source become      *)
(* instructions, one line at a time, these become bytes, and the bytes     *)
(* replace the output file.  Each stage ends before the next one begins,   *)
(* and an error in any of them ends the program with exit status 1.        *)
(*                                                                         *)
(* A token has the type and the value the lexer gave it; its position in   *)
(* the sequence stands for its source location.                            *)
(***************************************************************************)
EXTENDS Assembly, FiniteSets

CONSTANTS
    Sources,  \* the token sequences of the source texts
    OldFile   \* what the output path holds before

VARIABLES
    phase,    \* how far assembleFile has come, or how it ended
    tokens,   \* tokens_
    pos,      \* pos_, and in the encoder the next instruction
    program,  \* Program::instructions
    bytes,    \* the encoder's bytes
    file,     \* the output file
    errorAt   \* the token that the error message points at; 0 for none

assemblerVars == <<phase, tokens, pos, program, bytes, file, errorAt>>

Phases == {"reading", "parsing", "encoding", "writing", "done",
           "unreadable", "syntax error", "encoding error", "unwritable"}

\* The phases in which main has returned: 0 after "done", else 1.
Ended == Phases \ {"reading", "parsing", "encoding", "writing"}

OperationKind == "operation"
NewLine == [type |-> "newline", value |-> 0]
EndOfFile == [type |-> "end", value |-> 0]

EndsLine(token) == token \in {NewLine, EndOfFile}

\* What tokenize makes: the value of an operation is its name in Assembly.
Token ==
    [type : {OperationKind}, value : Operations]
    \union [type : {RegisterKind, StatusKind, NumberKind}, value : Nat]
    \union {NewLine, EndOfFile}

\* tokenize ends every source with the end of the file, which is nowhere else in it.
ASSUME SourcesAssumption ==
    \A source \in Sources :
        /\ source \in Seq(Token) /\ source # <<>>
        /\ \A k \in DOMAIN source : source[k] = EndOfFile <=> k = Len(source)

ASSUME FileAssumption == OldFile \in Seq(Byte)

AssemblerInit ==
    /\ phase = "reading"
    /\ tokens = <<EndOfFile>> /\ pos = 1
    /\ program = <<>> /\ bytes = <<>>
    /\ file = OldFile
    /\ errorAt = 0

-----------------------------------------------------------------------------
(* Reading *)

\* The input file is read and the lexer accepts it.
Read ==
    /\ phase = "reading"
    /\ phase' = "parsing"
    /\ tokens' \in Sources
    /\ UNCHANGED <<pos, program, bytes, file, errorAt>>

\* It cannot be opened, or has a word, number or character that is no token.
FailToRead ==
    /\ phase = "reading"
    /\ phase' = "unreadable"
    /\ UNCHANGED <<tokens, pos, program, bytes, file, errorAt>>

-----------------------------------------------------------------------------
(* Parsing *)

\* Mutant: the new line is looked at but not passed.
SkipNewLineInPlace ==
    /\ phase = "parsing"
    /\ tokens[pos] = NewLine
    /\ UNCHANGED assemblerVars

SkipNewLine ==
    /\ phase = "parsing"
    /\ tokens[pos] = NewLine
    /\ pos' = pos + 1
    /\ UNCHANGED <<phase, tokens, program, bytes, file, errorAt>>

\* The tokens that the instruction at pos should have behind its operation.
Wanted == IF tokens[pos].type = OperationKind THEN Format(tokens[pos].value) ELSE <<>>

\* The parser never passes the end of the file.
TokenAt(k) == tokens[IF k <= Len(tokens) THEN k ELSE Len(tokens)]

\* Mutant: what follows the last operand is not looked at.
UnfitWithoutLineEnd ==
    IF tokens[pos].type # OperationKind THEN {pos}
    ELSE {pos + k : k \in {k \in DOMAIN Wanted : ~Fits(Wanted[k], TokenAt(pos + k))}}

\* The tokens of the instruction at pos that parseInstruction throws for; it throws
\* at the first of them.
Unfit ==
    IF tokens[pos].type # OperationKind THEN {pos}
    ELSE {pos + k : k \in {k \in DOMAIN Wanted : ~Fits(Wanted[k], TokenAt(pos + k))}}
         \union {k \in {pos + Len(Wanted) + 1} : ~EndsLine(TokenAt(k))}

\* parseInstruction and appendLoweredInstruction, one turn of the loop of parseProgram.
ParseInstruction ==
    /\ phase = "parsing"
    /\ ~EndsLine(tokens[pos])
    /\ Unfit = {}
    /\ program' = program \o Lowered(Make(tokens[pos].value,
                                          SubSeq(tokens, pos + 1, pos + Len(Wanted)), pos))
    /\ pos' = pos + Len(Wanted) + 1
    /\ UNCHANGED <<phase, tokens, bytes, file, errorAt>>

\* Mutant: the last of the faults is reported.
RefuseInstructionLast ==
    /\ phase = "parsing"
    /\ ~EndsLine(tokens[pos])
    /\ Unfit # {}
    /\ phase' = "syntax error"
    /\ errorAt' = CHOOSE k \in Unfit : \A j \in Unfit : j <= k
    /\ UNCHANGED <<tokens, pos, program, bytes, file>>

RefuseInstruction ==
    /\ phase = "parsing"
    /\ ~EndsLine(tokens[pos])
    /\ Unfit # {}
    /\ phase' = "syntax error"
    /\ errorAt' = CHOOSE k \in Unfit : \A j \in Unfit : k <= j
    /\ UNCHANGED <<tokens, pos, program, bytes, file>>

EndParsing ==
    /\ phase = "parsing"
    /\ tokens[pos] = EndOfFile
    /\ phase' = "encoding"
    /\ pos' = 1
    /\ UNCHANGED <<tokens, program, bytes, file, errorAt>>

-----------------------------------------------------------------------------
(* Encoding *)

\* One turn of the loop of encode.
EncodeInstruction ==
    /\ phase = "encoding"
    /\ pos \in DOMAIN program
    /\ LET i == program[pos]
       IN  IF Encodable(i)
           THEN bytes' = bytes \o Encoded(i) /\ pos' = pos + 1 /\ UNCHANGED <<phase, errorAt>>
           ELSE phase' = "encoding error" /\ errorAt' = i.at /\ UNCHANGED <<bytes, pos>>
    /\ UNCHANGED <<tokens, program, file>>

\* Mutant: the output file is opened before the last instruction is encoded.
EndEncodingEarly ==
    /\ phase \in {"parsing", "encoding"}
    /\ phase' = IF phase = "encoding" /\ pos \notin DOMAIN program THEN "writing" ELSE phase
    /\ file' = <<>>
    /\ UNCHANGED <<tokens, pos, program, bytes, errorAt>>

\* The output file is opened, which empties it.
EndEncoding ==
    /\ phase = "encoding"
    /\ pos \notin DOMAIN program
    /\ phase' = "writing"
    /\ file' = <<>>
    /\ UNCHANGED <<tokens, pos, program, bytes, errorAt>>

FailToOpen ==
    /\ phase = "encoding"
    /\ pos \notin DOMAIN program
    /\ phase' = "unwritable"
    /\ UNCHANGED <<tokens, pos, program, bytes, file, errorAt>>

-----------------------------------------------------------------------------
(* Writing *)

Write ==
    /\ phase = "writing"
    /\ phase' = "done"
    /\ file' = bytes
    /\ UNCHANGED <<tokens, pos, program, bytes, errorAt>>

\* The device takes only the first n bytes.  The stream notices when it writes; what
\* it has only buffered by then its destructor writes, where no error is seen.
FailToWrite(n) ==
    /\ phase = "writing"
    /\ n < Len(bytes)
    /\ phase' \in {"unwritable", "done"}
    /\ file' = SubSeq(bytes, 1, n)
    /\ UNCHANGED <<tokens, pos, program, bytes, errorAt>>

Proceed ==
    \/ Read
    \/ FailToRead
    \/ SkipNewLine
    \/ ParseInstruction
    \/ RefuseInstruction
    \/ EndParsing
    \/ EncodeInstruction
    \/ EndEncoding
    \/ FailToOpen
    \/ Write

AssemblerNext ==
    \/ Proceed
    \/ \E n \in DOMAIN bytes : FailToWrite(n - 1)

\* A sequential program: it goes on until it returns.
AssemblerSpec == AssemblerInit /\ [][AssemblerNext]_assemblerVars /\ WF_assemblerVars(AssemblerNext)

-----------------------------------------------------------------------------
(* Properties *)

\* Positions are those of tokens or instructions, and every byte fits a byte.
AssemblerTypeOK ==
    /\ phase \in Phases
    /\ tokens \in Seq(Token) /\ tokens[Len(tokens)] = EndOfFile
    /\ pos \in 1 .. (IF phase \in {"encoding", "encoding error", "writing", "unwritable", "done"}
                     THEN Len(program) + 1 ELSE Len(tokens))
    /\ \A k \in DOMAIN program : program[k].at \in DOMAIN tokens
    /\ bytes \in Seq(Byte) /\ file \in Seq(Byte)
    /\ errorAt \in 0 .. Len(tokens)

\* The lines of a source that are not empty: where they begin, and their tokens.
LineStarts(source) ==
    {i \in DOMAIN source : ~EndsLine(source[i]) /\ (i = 1 \/ source[i - 1] = NewLine)}

Line(source, i) ==
    LET next == CHOOSE k \in i .. Len(source) :
                    EndsLine(source[k]) /\ \A j \in i .. k - 1 : ~EndsLine(source[j])
    IN  SubSeq(source, i, next - 1)

\* How many tokens of a line begin an instruction, and whether all of it is one.
FitsUpTo(line, n) ==
    n > 0 => /\ line[1].type = OperationKind
             /\ n <= Len(Format(line[1].value)) + 1
             /\ \A k \in 2 .. n : Fits(Format(line[1].value)[k - 1], line[k])

IsStatement(line) ==
    FitsUpTo(line, Len(line)) /\ Len(line) = Len(Format(line[1].value)) + 1

\* The instructions of the line at i are its lowered instruction, behind the first n.
Translated(code, source, i) ==
    LET lowered == Lowered(Make(source[i].value, Tail(Line(source, i)), i))
    IN  \E n \in 0 .. Len(code) :
            /\ {k \in DOMAIN code : code[k].at = i} = {n + k : k \in DOMAIN lowered}
            /\ \A k \in DOMAIN lowered : code[n + k] = lowered[k]

\* Every instruction is of a line, and they are in the order of the lines.
InOrder(code, source) ==
    \A k \in DOMAIN code :
        /\ code[k].at \in LineStarts(source)
        /\ k > 1 => code[k - 1].at <= code[k].at

\* A source that the parser accepts is one instruction on every line that is not
\* empty, and the program is the lowered instructions of these lines, in their
\* order and none twice (docs/PROC.md on the format of a source, parseProgram).
TranslatesEveryLine ==
    phase \in {"encoding", "writing", "done"} =>
        /\ \A i \in LineStarts(tokens) :
              IsStatement(Line(tokens, i)) /\ Translated(program, tokens, i)
        /\ InOrder(program, tokens)

\* A syntax error is reported in the first line that is no instruction, at the first
\* token with which the line stops being the beginning of one; if the line is too
\* short, at what ends it (parseInstruction and the locations it passes to fail).
ReportsFirstFault ==
    phase = "syntax error" =>
        \E i \in LineStarts(tokens) :
            LET line == Line(tokens, i)
            IN  /\ ~IsStatement(line)
                /\ \A j \in LineStarts(tokens) : j < i => IsStatement(Line(tokens, j))
                /\ errorAt - i \in 0 .. Len(line)
                /\ FitsUpTo(line, errorAt - i)
                /\ errorAt - i < Len(line) => ~FitsUpTo(line, errorAt - i + 1)

\* The encoder takes every program that the parser makes: none of its errors
\* is ever seen (encodeInstruction's checks repeat the parser's).
EncoderAcceptsParser == phase # "encoding error"

WordOf(k) == Decode(SubSeq(bytes, 4 * k - 3, 4 * k))

\* The registers that the emulator demands of an instruction word.
RegistersOf(w) ==
    CASE w.op \in RRR -> {w.a, w.b, w.c}
      [] w.op \in ByteImmediates \union {ASPR} -> {w.a, w.b}
      [] w.op \in WordImmediates \union RegisterJumps \union {SCRR} -> {w.a}
      [] w.op = SCRW -> {w.b}
      [] OTHER -> {}

\* Every word that was encoded has an opcode, and in its register fields registers,
\* that the emulator executes without "invalid" errors (execute, validateRegisterIndex).
AssembledIsExecutable ==
    \A k \in 1 .. Len(bytes) \div InstructionSize :
        LET w == WordOf(k)
        IN  /\ w.op \in Opcodes
            /\ RegistersOf(w) \subseteq Register
            /\ w.op = SCRW => w.a \in StatusRegister
            /\ w.op = SCRR => w.b \in StatusRegister

\* The emulator decodes from every word the operation and the operands that were
\* written, up to the largest of each (encodeInstruction against decode).
DecodesAsWritten ==
    \A k \in 1 .. Len(bytes) \div InstructionSize :
        LET w == WordOf(k)
            v == [n \in DOMAIN program[k].operands |-> program[k].operands[n].value]
        IN  /\ w.op = program[k].op
            /\ v = CASE w.op \in WordImmediates -> <<w.a, w.imm>>
                     [] w.op = RJMP -> <<w.imm>>
                     [] w.op \in RRR \union ByteImmediates -> <<w.a, w.b, w.c>>
                     [] w.op \in RegisterJumps -> <<w.a>>
                     [] OTHER -> <<w.a, w.b>>

\* The instruction takes a value from R31; LUI keeps the lower half of its register.
ReadsTemp(i) ==
    \/ i.op = LUI /\ i.operands[1].value = AssemblerTemp
    \/ \E n \in DOMAIN i.operands :
          /\ n > 1 \/ i.op \in Stores \union Branches \union RegisterJumps
          /\ i.operands[n] = RegisterOperand(AssemblerTemp)

\* R31 belongs to one line of the source: whatever reads it comes after an LI of
\* R31 of the same line, so that no value passes from one line to another through
\* it unless a jump enters the middle of a line (docs/PROC.md on R31, appendNeg and
\* appendNot).
TempIsLocal ==
    \A k \in DOMAIN program :
        ReadsTemp(program[k]) =>
            \E j \in 1 .. k - 1 :
                /\ program[j].at = program[k].at
                /\ program[j].op = LI
                /\ program[j].operands[1] = RegisterOperand(AssemblerTemp)

\* A source with an error, wherever it is, leaves the output file as it was: it
\* is opened only when every instruction has been encoded (assembleFile).
ErrorKeepsOldFile ==
    phase \notin {"writing", "unwritable", "done"} => file = OldFile

\* The assembler returns, for every source and whatever the files do.
AssemblerEnds == <>(phase \in Ended)

\* binary_writer.cpp:15: an error while writing is an exception.  So status 0 means
\* that the file holds the program.
SuccessIsWritten == phase = "done" => file = bytes
=============================================================================
