----------------------------- MODULE MCToolchain -----------------------------
(***************************************************************************)
(* Sources that are assembled and executed: every pair of statements that  *)
(* mix pseudo-instructions with instructions behind one that sets R2, and  *)
(* programs with loops, calls and errors.                                  *)
(*                                                                         *)
(* Sources that are only assembled: every short sequence of a few tokens,  *)
(* and for every operation a line with the largest operands and lines that *)
(* differ from it in one token.                                            *)
(***************************************************************************)
EXTENDS Toolchain, ArithmeticUnit, SequencesExt

Op(op) == [type |-> OperationKind, value |-> op]
Reg(n) == RegisterOperand(n)
Num(v) == ImmediateOperand(v)

Text(op, operands) == <<Op(op)>> \o operands \o <<NewLine>>

Large == WordMod - 5

Pool ==
    {Text(LFI, <<Reg(2), Num(Large)>>), Text(LFI, <<Reg(3), Num(HalfMod)>>),
     Text(NEG, <<Reg(2), Reg(2)>>), Text(NEG, <<Reg(3), Reg(2)>>),
     Text(NOT, <<Reg(2)>>), Text(MOV, <<Reg(3), Reg(2)>>),
     Text(LUI, <<Reg(2), Num(1)>>), Text(ADD, <<Reg(2), Reg(2), Reg(3)>>),
     Text(UDIV, <<Reg(3), Reg(2), Reg(3)>>)}

\* The subroutine at 24 inverts R2; it is called twice.
Calls ==
    Text(LI, <<Reg(4), Num(24)>>)
    \o Text(CALL, <<Reg(4)>>)
    \o Text(LFI, <<Reg(3), Num(Large)>>)
    \o Text(CALL, <<Reg(4)>>)
    \o Text(RJMP, <<Num(5)>>)
    \o Text(NOT, <<Reg(2)>>)
    \o Text(RET, <<>>)

\* The loop negates R2 twice in each turn and skips an LFI.
Loop(n) ==
    Text(LI, <<Reg(2), Num(n)>>)
    \o Text(LI, <<Reg(3), Num(1)>>)
    \o Text(NEG, <<Reg(2), Reg(2)>>)
    \o Text(ADD, <<Reg(2), Reg(2), Reg(3)>>)
    \o Text(RJMP, <<Num(3)>>)
    \o Text(LFI, <<Reg(3), Num(Large)>>)
    \o Text(NEG, <<Reg(2), Reg(2)>>)
    \o Text(BRNZ, <<Reg(2), Num(HalfMod - 8)>>)
    \o Text(BRZ, <<Reg(3), Num(1)>>)

\* To an address far behind the end, and to the middle of an instruction.
Leave(address) == Text(LFI, <<Reg(5), Num(address)>>) \o Text(AJMP, <<Reg(5)>>)

\* The jump would lead to a negative address.
Backwards == <<NewLine>> \o Text(RJMP, <<Num(HalfMod - 1)>>)

Refused == Text(NOT, <<Reg(2)>>) \o Text(NOT, <<Num(2)>>)

\* No jump of these leads into the middle of a statement.
ExecutedTexts ==
    {Text(LFI, <<Reg(2), Num(Large)>>) \o i \o j : i \in Pool, j \in Pool}
    \union {Calls, Loop(1), Loop(3), Leave(Large), Leave(2), Backwards, Refused, <<>>}

-----------------------------------------------------------------------------
(* Sources that are only assembled *)

FewTokens == {Op(MOV), Op(NOT), Op(RET), Reg(3), Reg(16), Num(5), NewLine}

ShortTexts == BoundedSeq(FewTokens, 4)

\* Operands at the largest value, or past it.
Largest(slot) == [type |-> slot.type, value |-> slot.max]
TooLarge(slot) == [type |-> slot.type, value |-> slot.max + 1]

FullLine(op) == <<Op(op)>> \o [k \in DOMAIN Format(op) |-> Largest(Format(op)[k])]

\* Only the lexer's names of the status registers give a status token.
Spoiled(op) ==
    {ReplaceAt(FullLine(op), k + 1, TooLarge(Format(op)[k])) :
        k \in {k \in DOMAIN Format(op) : Format(op)[k].type # StatusKind}}
    \union {ReplaceAt(FullLine(op), k + 1, other) :
        k \in DOMAIN Format(op), other \in {Reg(2), Num(1), [type |-> StatusKind, value |-> 0]}}
    \union {Front(FullLine(op)), FullLine(op) \o <<Reg(1)>>, <<NewLine>> \o FullLine(op)}

LineTexts ==
    UNION {{line \o <<NewLine, NewLine, Op(NOT), Reg(4)>> :
               line \in {FullLine(op)} \union Spoiled(op)} : op \in Operations}

WithEnd(texts) == {body \o <<EndOfFile>> : body \in texts}

MCExecuted == WithEnd(ExecutedTexts)
MCSources == WithEnd(ExecutedTexts \union ShortTexts \union LineTexts)

MCOldFile == <<7, 7>>
=============================================================================
