-------------------------------- MODULE Isa --------------------------------
(***************************************************************************)
(* The instruction set that the emulator and the assembler share           *)
(* (common/include/isa.h), and the conversions between bytes, words and    *)
(* signed numbers that executing an instruction needs.                     *)
(***************************************************************************)
EXTENDS Ram

\* Opcode: the first byte of an instruction.
LI == 0
LUI == 1
ADD == 2
SUB == 3
AND == 4
OR == 5
XOR == 6
SLL == 7
SRL == 8
SRA == 9
MUL == 10
UDIV == 11
SDIV == 12
LDB == 16
LDH == 17
LDW == 18
STB == 19
STH == 20
STW == 21
SXT == 22
BSWAP == 23
SCRW == 32
SCRR == 33
ASPI == 34
ASPR == 35
RJMP == 48
BRZ == 49
BRNZ == 50
AJMP == 51
CALL == 52
EQ == 64
NE == 65
LT == 66
GE == 67
SLT == 68
SGE == 69

RRR == ADD .. SDIV \union EQ .. SGE
Loads == LDB .. LDW
Stores == STB .. STW
Branches == {BRZ, BRNZ}
Conversions == {SXT, BSWAP}
Opcodes ==
    {LI, LUI} \union RRR \union Loads \union Stores \union Conversions
    \union SCRW .. ASPR \union RJMP .. CALL

\* How many bytes a load or a store moves.
AccessSize(op) ==
    CASE op \in {LDB, STB} -> 1
      [] op \in {LDH, STH} -> 2
      [] op \in {LDW, STW} -> 4

InstructionSize == 4

\* R0 .. R15, and R31, which belongs to the assembler.
ReturnAddress == 1
AssemblerTemp == 31
Register == 0 .. 15 \union {AssemblerTemp}

\* The status registers: IP, SP_TOP and SP_SIZE.
Ip == 0
SpTop == 1
SpSize == 2
StatusRegister == {Ip, SpTop, SpSize}

-----------------------------------------------------------------------------
(* Words *)

HalfMod == ByteMod * ByteMod

\* The word or half-word that a sequence of bytes stands for.
FromBytes(s) ==
    CASE Len(s) = 1 -> s[1]
      [] Len(s) = 2 -> s[1] + ByteMod * s[2]
      [] OTHER -> s[1] + ByteMod * s[2] + HalfMod * (s[3] + ByteMod * s[4])

\* The n lowest bytes of a word.
ToBytes(w, n) ==
    SubSeq(<<w % ByteMod, (w \div ByteMod) % ByteMod,
             (w \div HalfMod) % ByteMod, (w \div (HalfMod * ByteMod)) % ByteMod>>, 1, n)

\* The number that the low part of a word, below modulus, stands for.
SignedPart(w, modulus) ==
    LET low == w % modulus IN IF low < modulus \div 2 THEN low ELSE low - modulus

Signed(w) == SignedPart(w, WordMod)
Unsigned(v) == v % WordMod

\* Mutant: the modes are swapped.
SignExtendSwapped(w, mode) ==
    CASE mode = 0 -> Unsigned(SignedPart(w, HalfMod))
      [] mode = 1 -> Unsigned(SignedPart(w, ByteMod))
      [] OTHER -> w

\* signExtend: mode 0 extends a byte, mode 1 a half-word.
SignExtend(w, mode) ==
    CASE mode = 0 -> Unsigned(SignedPart(w, ByteMod))
      [] mode = 1 -> Unsigned(SignedPart(w, HalfMod))
      [] OTHER -> w

\* byteSwap: mode 1 swaps the two low bytes, mode 2 all four.
ByteSwap(w, mode) ==
    LET s == ToBytes(w, 4)
    IN  CASE mode = 1 -> FromBytes(<<s[2], s[1], s[3], s[4]>>)
          [] mode = 2 -> FromBytes(<<s[4], s[3], s[2], s[1]>>)
          [] OTHER -> w

\* decode: the fields of an instruction word.
Decode(s) == [op |-> s[1], a |-> s[2], b |-> s[3], c |-> s[4],
              imm |-> s[3] + ByteMod * s[4]]
=============================================================================
