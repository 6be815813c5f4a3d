------------------------------ MODULE Toolchain ------------------------------
(***************************************************************************)
(* The assembler and the emulator together: a source is assembled, and     *)
(* what the output file then holds is loaded and executed                  *)
(* (loadProgramFromFile and run).                                          *)
(***************************************************************************)
EXTENDS Emulator, Assembler

CONSTANT
    Executed  \* bound: the sources whose programs are executed

ASSUME ToolchainAssumption ==
    /\ Executed \subseteq Sources
    /\ \A source \in Executed : \A k \in DOMAIN source :
          source[k].type = OperationKind => source[k].value \in RegisterOperations
    /\ Len(OldFile) % InstructionSize # 0  \* it is no program
    /\ MaxLoads = 1                        \* main loads one program

VARIABLE
    text  \* history: the statements of the source whose program was loaded

chainVars == <<vars, assemblerVars, text>>

\* Where statements begin, and the place of the n-th of them.
OperationsOf(ts) == {i \in DOMAIN ts : ts[i].type = OperationKind}

PlaceOfStatement(ts, n) ==
    CHOOSE i \in OperationsOf(ts) : Cardinality({j \in OperationsOf(ts) : j < i}) = n - 1

StatementAt(ts, i) ==
    [op |-> ts[i].value,
     args |-> [k \in 1 .. Len(Format(ts[i].value)) |-> ts[i + k].value]]

\* The statements that a sequence of tokens stands for.
Statements(ts) ==
    [n \in 1 .. Cardinality(OperationsOf(ts)) |-> StatementAt(ts, PlaceOfStatement(ts, n))]

ChainInit == Init /\ AssemblerInit /\ text = <<>>

Assemble == AssemblerNext /\ UNCHANGED <<vars, text>>

\* loadProgramFromFile, as main calls it, at address 0, of a file that is as it was
\* or was written whole.
LoadFile ==
    /\ phase \in Ended
    /\ tokens \in Executed
    /\ file \in {OldFile, bytes}
    /\ LET p == [image |-> file, base |-> 0] IN LoadProgram(p) \/ RefuseProgram(p)
    /\ text' = IF file = bytes THEN Statements(tokens) ELSE <<>>
    /\ UNCHANGED assemblerVars

Run == Step /\ UNCHANGED <<assemblerVars, text>>

ChainNext == Assemble \/ LoadFile \/ Run

\* Two sequential programs, one after the other.
ChainSpec == ChainInit /\ [][ChainNext]_chainVars /\ WF_chainVars(ChainNext)

-----------------------------------------------------------------------------
(* What it means: the mapping to SourceProgram *)

\* SourceProgram before the mapping of its position, for its layout alone.
Layout == INSTANCE SourceProgram
            WITH at <- 0, regs <- machine.regs, Meaning <- Alu,
                 Texts <- {Statements(source) : source \in Executed}

\* The statement that the instruction pointer is in or at, 0 if it is outside.
Current ==
    LET starts == Layout!Starts
        past == Len(starts)
    IN  IF machine.pc % InstructionSize # 0 \/ machine.pc > starts[past] THEN 0
        ELSE CHOOSE n \in 1 .. past :
                starts[n] <= machine.pc /\ (n < past => machine.pc < starts[n + 1])

Inside == Current # 0 /\ machine.pc # Layout!Starts[Current]

\* No jump leads into the middle of a statement: only the instruction before does.
JumpsToStatements == [][Inside' => machine'.pc - machine.pc \in {0, InstructionSize}]_chainVars

\* LFI takes effect with its first instruction: the second writes the same register.
LfiHalfDone == Inside /\ text[Current].op = LFI

Source ==
    INSTANCE SourceProgram
      WITH Texts <- {Statements(source) : source \in Executed},
           Meaning <- Alu,
           at <- IF LfiHalfDone THEN Current + 1 ELSE Current,
           regs <- [r \in 0 .. 15 |->
                      IF LfiHalfDone /\ r = text[Current].args[1]
                      THEN text[Current].args[2]
                      ELSE machine.regs[r]]

\* A program whose jumps go to statements behaves as its source says: every
\* pseudo-instruction takes effect at once and on its destination alone, whatever
\* the temporary register held, and jumps and returns reach the statements that
\* follow from the lengths of the lowered instructions (appendLoweredInstruction,
\* encode, loadProgram and execute together).
ImplementsSource == Source!Spec

\* A program whose loops are counted comes to its end, or to a statement that is an
\* error by what the source says: the instructions that a statement becomes neither
\* throw nor stop between two statements.
ComesToItsEnd == loads > 0 ~> ~Source!CanExecute
=============================================================================
