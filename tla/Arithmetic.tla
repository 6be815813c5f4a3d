----------------------------- MODULE Arithmetic -----------------------------
(***************************************************************************)
(* What those RRR instructions compute whose operands are numbers: the     *)
(* arithmetic and comparison opcodes of Emulator::execute.                 *)
(***************************************************************************)
EXTENDS Isa

\* Mutant: one of the cross products is missing.
MultiplyWithoutCross(x, y) ==
    LET xl == x % HalfMod
        yl == y % HalfMod  yh == y \div HalfMod
    IN  (xl * yl + HalfMod * ((xl * yh) % HalfMod)) % WordMod

\* The low word of a product, by half-words: TLC's integers are 32 bits wide.
Multiply(x, y) ==
    LET xl == x % HalfMod  xh == x \div HalfMod
        yl == y % HalfMod  yh == y \div HalfMod
    IN  (xl * yl + HalfMod * ((xh * yl + xl * yh) % HalfMod)) % WordMod

\* Mutant: the sign of the divisor is ignored.
DivideBySize(x, y) ==
    LET abs(v) == IF v < 0 THEN -v ELSE v
        quotient == abs(Signed(x)) \div abs(Signed(y))
    IN  Unsigned(IF Signed(x) < 0 THEN -quotient ELSE quotient)

\* Signed division rounds towards zero.
Divide(x, y) ==
    LET abs(v) == IF v < 0 THEN -v ELSE v
        quotient == abs(Signed(x)) \div abs(Signed(y))
    IN  Unsigned(IF (Signed(x) < 0) = (Signed(y) < 0) THEN quotient ELSE -quotient)

Truth(condition) == IF condition THEN 1 ELSE 0

\* The result of operation op on numbers; a divisor is not zero.
Calculation(op, x, y) ==
    CASE op = ADD -> (x + y) % WordMod
      [] op = SUB -> (x - y) % WordMod
      [] op = MUL -> Multiply(x, y)
      [] op = UDIV -> x \div y
      [] op = SDIV -> Divide(x, y)
      [] op = EQ -> Truth(x = y)
      [] op = NE -> Truth(x # y)
      [] op = LT -> Truth(x < y)
      [] op = GE -> Truth(x >= y)
      [] op = SLT -> Truth(Signed(x) < Signed(y))
      [] op = SGE -> Truth(Signed(x) >= Signed(y))
=============================================================================
