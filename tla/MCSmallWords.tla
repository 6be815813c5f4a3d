---------------------------- MODULE MCSmallWords ----------------------------
(***************************************************************************)
(* Words of eight bits, which can be enumerated.                           *)
(*                                                                         *)
(* The operations of ArithmeticUnit and the conversions of Isa compared,   *)
(* on every pair of operands, with what docs/PROC.md says of them in terms *)
(* of the integers: the properties IntegerArithmetic and                   *)
(* ConversionsRoundTrip of EmulatorProofs, and that of the shifts, below.  *)
(*                                                                         *)
(* The inductive invariant of EmulatorProofs and its assumptions on the    *)
(* arithmetic unit: every program of one or two instructions out of a      *)
(* pool, at bases inside RAM, next to its end and past it.  With bytes of  *)
(* two bits only LI, LUI, ADD and SUB have opcodes below ByteMod.          *)
(***************************************************************************)
EXTENDS EmulatorProofs, ArithmeticUnit

SmallPool ==
    {<<LI, 2, 3, 3>>, <<LUI, 2, 1, 0>>, <<ADD, 3, 2, 2>>, <<SUB, 2, 3, 2>>}

ReloadPrograms ==
    {[image |-> s, base |-> b] : s \in SmallPool, b \in {0, 12, 16}}
    \union {[image |-> s \o t, base |-> b] : s, t \in SmallPool, b \in {0, 4, 12}}

\* LI and LUI put every word into R2.
WordPrograms ==
    {[image |-> <<LI, 2, w[1], w[2], LUI, 2, w[3], w[4]>>, base |-> 0] :
        w \in [1 .. 4 -> Byte]}

SmallPrograms == ReloadPrograms \union WordPrograms

VARIABLE reload  \* several programs are loaded, and these are chosen from ReloadPrograms

Load ==
    \E p \in IF reload THEN ReloadPrograms ELSE WordPrograms :
        /\ reload \/ loads = 0
        /\ LoadProgram(p) \/ RefuseProgram(p)

SmallNext ==
    /\ Step \/ Load \/ (reload /\ (EnableClearStack \/ EnableUninitializedRamWarnings))
    /\ UNCHANGED reload

SmallSpec == Init /\ reload \in BOOLEAN /\ [][SmallNext]_<<vars, reload>>

-----------------------------------------------------------------------------
\* A left shift multiplies by a power of two and a right shift divides by one;
\* the arithmetic one rounds the signed value down.  Only the low bits of a
\* distance count.
ShiftsScale ==
    \A x \in HeldWords, y \in Word :
        LET factor == 2 ^ (y % RegisterBits)
        IN  /\ Compute(SLL, x, y) = (x * factor) % WordMod
            /\ Compute(SRL, x, y) = x \div factor
            /\ Signed(Compute(SRA, x, y)) = Signed(x) \div factor
=============================================================================
