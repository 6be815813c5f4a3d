---------------------------- MODULE MachineCode ----------------------------
(***************************************************************************)
(* Programs for the model-checking runs of Emulator, put together from     *)
(* instruction words.                                                      *)
(***************************************************************************)
EXTENDS Emulator, ArithmeticUnit, SequencesExt

\* An instruction with three byte operands, and one with a 16-bit immediate.
Word3(op, a, b, c) == <<op, a, b, c>>
WordImm(op, a, imm) ==
    LET v == imm % HalfMod IN <<op, a, v % ByteMod, v \div ByteMod>>

\* The program of a sequence of instruction words.
Program(words, base) == [image |-> FlattenSeq(words), base |-> base]

\* Two words that put a 32-bit value into a register, as the assembler does.
SetTo(r, value) ==
    <<WordImm(LI, r, value % HalfMod), WordImm(LUI, r, value \div HalfMod)>>
=============================================================================
