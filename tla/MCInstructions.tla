--------------------------- MODULE MCInstructions ---------------------------
(***************************************************************************)
(* Two instructions of every kind one after the other, valid and not, on   *)
(* words at the boundaries: zero, the end of RAM, the sign bit and -1.     *)
(*                                                                         *)
(* And one object that loads several programs, some of which loadProgram   *)
(* refuses and some of which do not fit into RAM, and steps between the    *)
(* loads.  Each of these leaves something in the registers, the status     *)
(* registers or RAM.                                                       *)
(***************************************************************************)
EXTENDS MachineCode

SignBit == WordMod \div 2

\* R5 is computed from R2 and R3; R16 does not exist, R31 does.
Pool ==
    {Word3(op, 5, 2, 3) : op \in {ADD, MUL, UDIV, SDIV, SRA, SLT}}
    \union {Word3(ADD, 16, 2, 3), Word3(ADD, 5, 16, 3), Word3(SUB, 2, 2, AssemblerTemp)}
    \union {Word3(op, 3, 2, 1) : op \in Loads \union Stores \union Conversions}
    \union {Word3(LDW, 3, 16, 0), Word3(STB, 16, 3, 0), Word3(SXT, 3, 16, 0)}
    \union {Word3(SCRW, scr, 2, 0) : scr \in 0 .. 3} \union {Word3(SCRW, SpSize, 16, 0)}
    \union {Word3(SCRR, 5, scr, 0) : scr \in 0 .. 3} \union {Word3(SCRR, 16, Ip, 0)}
    \union {WordImm(ASPI, 4, -4), WordImm(ASPI, 16, 4), Word3(ASPR, 4, 3, 0)}
    \union {WordImm(RJMP, 0, offset) : offset \in {-9, -2}}
    \union {WordImm(BRZ, 2, 2), WordImm(BRNZ, 2, -1), WordImm(BRZ, 16, 2)}
    \union {Word3(AJMP, 3, 0, 0), Word3(AJMP, 16, 0, 0)}
    \union {Word3(CALL, 3, 0, 0), Word3(CALL, 16, 0, 0)}
    \union {WordImm(LI, 16, 1), Word3(15, 0, 0, 0)}

\* A stack above RAM: releasing it runs into the end of RAM.
StackBeyondRam ==
    SetTo(2, SignBit) \o
    <<Word3(SCRW, SpTop, 2, 0), Word3(SCRW, SpSize, 2, 0),
      WordImm(ASPI, 4, -8), WordImm(ASPI, 4, 8)>>

InstructionPrograms ==
    {Program(SetTo(2, v[1]) \o SetTo(3, v[2]) \o s, 0) :
        v \in {<<60, 0>>, <<SignBit, WordMod - 1>>}, s \in [1 .. 2 -> Pool]}
    \union {Program(StackBeyondRam, 0)}

Writer == <<WordImm(LI, 2, 8), Word3(STB, 2, 2, 3), Word3(SCRW, SpTop, 2, 0)>>
Caller == <<WordImm(LI, 2, 6), Word3(CALL, 2, 0, 0)>>

ReloadPrograms ==
    {Program(Writer, 0), Program(Caller, 4), Program(Caller, Size - 4), Program(Writer, Size),
     Program(<<>>, 8), Program(Caller, 2), Program(<<<<LI, 2, 1>>>>, 0),
     Program(Caller, WordMod - 4)}

VARIABLE series  \* several programs are loaded, and these are chosen from ReloadPrograms

Load ==
    \E p \in IF series THEN ReloadPrograms ELSE InstructionPrograms :
        /\ series \/ loads = 0
        /\ LoadProgram(p) \/ RefuseProgram(p)

LoadsNext ==
    /\ Step \/ Load \/ EnableClearStack \/ EnableUninitializedRamWarnings
    /\ UNCHANGED series

LoadsSpec == Init /\ series \in BOOLEAN /\ [][LoadsNext]_<<vars, series>>
=============================================================================
