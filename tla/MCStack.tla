------------------------------ MODULE MCStack ------------------------------
(***************************************************************************)
(* Programs that set up a stack of 16 bytes at [0, 16), below their own    *)
(* code, and then allocate, release, store and load through R2, which      *)
(* always holds SP_TOP.  Allocations of 8 overflow the third time, and     *)
(* releases underflow whenever the stack is empty.                         *)
(***************************************************************************)
EXTENDS MachineCode

Prologue ==
    <<WordImm(LI, 2, 16), Word3(SCRW, SpTop, 2, 0), Word3(SCRW, SpSize, 2, 0),
      WordImm(LI, 4, 8)>>

StackPool ==
    {WordImm(ASPI, 2, -8), WordImm(ASPI, 2, 4), Word3(ASPR, 2, 4, 0),
     Word3(STW, 4, 2, 0), Word3(LDW, 5, 2, 0)}

StackPrograms == {Program(Prologue \o s, 16) : s \in [1 .. 4 -> StackPool]}
=============================================================================
