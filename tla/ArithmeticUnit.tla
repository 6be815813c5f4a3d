--------------------------- MODULE ArithmeticUnit ---------------------------
(***************************************************************************)
(* What all RRR instructions compute (Emulator::execute): the operations   *)
(* on numbers of Arithmetic, and those on words of RegisterBits bits.      *)
(***************************************************************************)
EXTENDS Arithmetic, Bitwise

\* registerSize: 32 when a byte has 8 bits.
RegisterBits == CHOOSE n \in 0 .. 32 : 2 ^ n = WordMod

\* The low bits of the second operand are the distance of a shift.
Distance(y) == y % RegisterBits

ShiftLeft(x, n) == (x % 2 ^ (RegisterBits - n)) * 2 ^ n
ShiftRight(x, n) == x \div 2 ^ n

\* Mutant: the mask of sign bits is one bit too low.
ShiftRightMaskTooLow(x, n) ==
    LET shifted == ShiftRight(x, n)
    IN  IF n = 0 \/ 2 * ShiftRight(x, 1) < WordMod \div 2 THEN shifted
        ELSE shifted + (2 ^ n - 1) * 2 ^ (RegisterBits - 1 - n)

\* sraWithoutCast: the vacated bits are copies of the sign bit.
ShiftRightArithmetic(x, n) ==
    LET shifted == ShiftRight(x, n)
    IN  IF n = 0 \/ 2 * ShiftRight(x, 1) < WordMod \div 2 THEN shifted
        ELSE shifted + (2 ^ n - 1) * 2 ^ (RegisterBits - n)

\* The result of operation op; a divisor is not zero.
Compute(op, x, y) ==
    CASE op = AND -> x & y
      [] op = OR -> x | y
      [] op = XOR -> x ^^ y
      [] op = SLL -> ShiftLeft(x, Distance(y))
      [] op = SRL -> ShiftRight(x, Distance(y))
      [] op = SRA -> ShiftRightArithmetic(x, Distance(y))
      [] OTHER -> Calculation(op, x, y)
=============================================================================
