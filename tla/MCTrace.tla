------------------------------ MODULE MCTrace ------------------------------
(***************************************************************************)
(* An instruction of every kind of operands, which overwrites its own      *)
(* sources where it can, on a stack below the program, followed by a       *)
(* release, traced in every way with the filters of the sets below; and    *)
(* one instruction at the very end of the address space.                   *)
(*                                                                         *)
(* And jumps of every kind, only disassembled, in a program low in RAM and *)
(* in one whose last instruction is the last word of the address space: to *)
(* both ends of the program, past them, between two instructions, and to   *)
(* 2^32.                                                                   *)
(***************************************************************************)
EXTENDS MachineCode, TracedEmulator

Prologue ==
    <<WordImm(LI, 2, 40), Word3(SCRW, SpTop, 2, 0), Word3(SCRW, SpSize, 2, 0),
      WordImm(LI, 3, -2), WordImm(ASPI, 4, -4)>>

\* R2 and R4 point into the stack, R3 is an odd number with all bytes used.
Pool ==
    {WordImm(LUI, 2, 0), Word3(SUB, 3, 3, 2), Word3(MUL, 4, 3, 4), Word3(ADD, 16, 2, 2),
     Word3(LDW, 4, 4, 0), Word3(STW, 3, 4, 2), Word3(STB, 2, 4, 0), Word3(STW, 2, 2, 62),
     Word3(SXT, 3, 3, 0), Word3(BSWAP, 3, 3, 2), Word3(SCRW, SpSize, 3, 0),
     Word3(SCRR, 2, SpTop, 0), Word3(SCRR, 5, Ip, 0), WordImm(ASPI, 4, 3), Word3(ASPR, 2, 2, 0),
     WordImm(RJMP, 0, 1), WordImm(BRNZ, 3, 1), WordImm(BRZ, 3, 1),
     Word3(AJMP, 2, 0, 0), Word3(CALL, ReturnAddress, 0, 0)}

\* Another instruction, and a release that clears what it stored.
TracePrograms ==
    {Program(Prologue \o <<i, WordImm(ASPI, 4, 3), Word3(CALL, ReturnAddress, 0, 0)>>, 40) :
        i \in Pool}
    \union {Program(<<Word3(SCRR, 5, Ip, 0)>>, WordMod - InstructionSize),
            Program(<<<<LI, 5>>>>, 0)}

JumpPool ==
    {WordImm(RJMP, 0, offset) : offset \in {-4, -1, 1, 2}}
    \union {WordImm(BRZ, 0, 2), WordImm(BRNZ, 3, -2), WordImm(BRZ, 3, 5)}
    \union {Word3(AJMP, 3, 0, 0), Word3(CALL, 3, 0, 0), Word3(AJMP, ReturnAddress, 0, 0)}
    \union {Word3(SCRW, Ip, 3, 0), Word3(SCRR, 3, Ip, 0), Word3(STW, 0, 3, 0)}

LastProgram == WordMod - 4 * InstructionSize

Targets(base) == {base - 4, base, base + 6, base + 12, (base + 16) % WordMod}

JumpPrograms ==
    UNION {{Program(SetTo(3, target) \o s, base) :
                target \in Targets(base), s \in [1 .. 2 -> JumpPool]} :
           base \in {8, LastProgram}}

TracedPrograms == TracePrograms \union JumpPrograms

SomeTicks == {<<[begin |-> 1, end |-> 2], [begin |-> 6, end |-> 6]>>}
SomeAddresses == {<<>>, <<[begin |-> 39, end |-> 41]>>}

OfJumps == machine.base \in {8, LastProgram}

\* Jump programs run with the disassembly on and nothing else.
JumpsAreDisassembled ==
    OfJumps => disasm /\ ~ramWrites /\ ~clearStack /\ ~warning /\ ticks = <<>>

TracedRuns ==
    TracedInit /\ [][ConfiguredNext /\ JumpsAreDisassembled']_<<vars, traceVars>>
=============================================================================
