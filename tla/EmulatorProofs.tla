--------------------------- MODULE EmulatorProofs ---------------------------
(***************************************************************************)
(* What TLAPS proves about Emulator for every width of a byte, every RAM   *)
(* size and every set of programs, with any arithmetic unit that computes  *)
(* words.                                                                  *)
(*                                                                         *)
(* The first part is about data alone: words, bytes and RAM contents, and  *)
(* that the arithmetic and the conversions are those of docs/PROC.md.  The *)
(* proofs about TracedEmulator, Assembler and Toolchain use it too.        *)
(***************************************************************************)
EXTENDS Emulator, Arithmetic, TLAPS

Abs(v) == IF v < 0 THEN -v ELSE v

\* The smallest number by -1: the only quotient that does not fit a word.
QuotientTooLarge(x, y) == Signed(x) = -(WordMod \div 2) /\ Signed(y) = -1

\* The results for x and y are those of the integers modulo 2^32, whether the
\* operands of a sum, a difference or a product are taken as signed or as unsigned
\* numbers.  Signed division truncates: the remainder is smaller than the divisor
\* and has the sign of the dividend.  The one quotient that does not fit wraps.
CalculatesAsIntegers(x, y) ==
    /\ Signed(Calculation(ADD, x, y)) = SignedPart(Signed(x) + Signed(y), WordMod)
    /\ Signed(Calculation(SUB, x, y)) = SignedPart(Signed(x) - Signed(y), WordMod)
    /\ Calculation(MUL, x, y) = (x * y) % WordMod
    /\ Calculation(MUL, x, y) = Unsigned(Signed(x) * Signed(y))
    /\ y # 0 /\ ~QuotientTooLarge(x, y) =>
          LET remainder == Signed(x) - Signed(Calculation(SDIV, x, y)) * Signed(y)
          IN  /\ Abs(remainder) < Abs(Signed(y))
              /\ remainder # 0 => (remainder < 0) = (Signed(x) < 0)
    /\ QuotientTooLarge(x, y) => Calculation(SDIV, x, y) = x

\* SXT does not change a number that fits the narrow width, is idempotent, and
\* BSWAP undoes itself; storing and loading a word gives it back.
ConvertsBack(x) ==
    /\ \A mode \in 0 .. 2 :
          /\ SignExtend(SignExtend(x, mode), mode) = SignExtend(x, mode)
          /\ ByteSwap(ByteSwap(x, mode), mode) = x
    /\ Signed(x) \in -(HalfMod \div 2) .. HalfMod \div 2 - 1 <=> SignExtend(x, 1) = x
    /\ Signed(x) \in -(ByteMod \div 2) .. ByteMod \div 2 - 1 <=> SignExtend(x, 0) = x
    /\ FromBytes(ToBytes(x, 4)) = x
    /\ FromBytes(ToBytes(x, 2)) = x % HalfMod

-----------------------------------------------------------------------------

\* The fields of an instruction word.
Fields(i) ==
    /\ {i.op, i.a, i.b, i.c} \subseteq Byte
    /\ i.imm \in 0 .. HalfMod - 1

LEMMA Sizes ==
    /\ ByteMod \in Nat /\ ByteMod > 0 /\ ByteMod % 2 = 0
    /\ HalfMod \in Nat /\ HalfMod > 0
    /\ HalfMod = ByteMod * ByteMod
    /\ WordMod \in Nat /\ WordMod > 0
    /\ WordMod = HalfMod * HalfMod
    /\ ByteMod <= HalfMod /\ HalfMod <= WordMod
<1>1. ByteMod \in Nat /\ ByteMod >= 1 /\ ByteMod % 2 = 0
  BY RamAssumption
<1>2. HalfMod = ByteMod * ByteMod /\ HalfMod \in Nat /\ HalfMod >= ByteMod
  BY <1>1 DEF HalfMod
<1>3. WordMod = HalfMod * HalfMod
  <2>1. WordMod = ((ByteMod * ByteMod) * ByteMod) * ByteMod
    BY DEF WordMod
  <2>2. ((ByteMod * ByteMod) * ByteMod) * ByteMod = (ByteMod * ByteMod) * (ByteMod * ByteMod)
    BY <1>1
  <2> QED
    BY <2>1, <2>2 DEF HalfMod
<1>4. WordMod \in Nat /\ WordMod >= HalfMod
  BY <1>1, <1>2, <1>3
<1> QED
  BY <1>1, <1>2, <1>3, <1>4

\* Two digits of a base b make a number below b * b.
LEMMA TwoDigits ==
    ASSUME NEW b \in Nat, b > 0, NEW x \in 0 .. b - 1, NEW y \in 0 .. b - 1
    PROVE  x + b * y \in 0 .. b * b - 1
<1>1. b * y <= b * (b - 1) /\ b * y >= 0 /\ b * y \in Int
  OBVIOUS
<1>2. b * (b - 1) = b * b - b /\ b * b \in Nat
  OBVIOUS
<1> QED
  BY <1>1, <1>2

LEMMA HalfIsWord ==
    ASSUME NEW h \in 0 .. HalfMod - 1, NEW k \in 0 .. HalfMod - 1
    PROVE  h + HalfMod * k \in Word
BY Sizes, TwoDigits DEF Word

LEMMA BytesMakeAWord ==
    ASSUME NEW s \in Seq(Byte), Len(s) \in {1, 2, 4}
    PROVE  FromBytes(s) \in Word
<1>1. \A x, y \in Byte : x + ByteMod * y \in 0 .. HalfMod - 1
  BY Sizes, TwoDigits DEF Byte
<1>2. \A k \in 1 .. Len(s) : s[k] \in Byte
  OBVIOUS
<1>3. CASE Len(s) = 1
  BY <1>2, <1>3, Sizes DEF FromBytes, Byte, Word
<1>4. CASE Len(s) = 2
  <2>1. s[1] + ByteMod * s[2] \in 0 .. HalfMod - 1
    BY <1>1, <1>2, <1>4
  <2>2. FromBytes(s) = s[1] + ByteMod * s[2]
    BY <1>4 DEF FromBytes
  <2> QED
    BY <2>1, <2>2, Sizes DEF Word
<1>5. CASE Len(s) = 4
  <2>1. s[1] + ByteMod * s[2] \in 0 .. HalfMod - 1
    BY <1>1, <1>2, <1>5
  <2>2. s[3] + ByteMod * s[4] \in 0 .. HalfMod - 1
    BY <1>1, <1>2, <1>5
  <2>3. (s[1] + ByteMod * s[2]) + HalfMod * (s[3] + ByteMod * s[4]) \in Word
    BY <2>1, <2>2, HalfIsWord
  <2>4. FromBytes(s) = s[1] + ByteMod * s[2] + HalfMod * (s[3] + ByteMod * s[4])
    BY <1>5 DEF FromBytes
  <2> QED
    BY <2>3, <2>4
<1> QED
  BY <1>3, <1>4, <1>5

LEMMA WordHasBytes ==
    ASSUME NEW w \in Word, NEW n \in {1, 2, 4}
    PROVE  ToBytes(w, n) \in Seq(Byte) /\ Len(ToBytes(w, n)) = n
<1> DEFINE s == <<w % ByteMod, (w \div ByteMod) % ByteMod,
                  (w \div HalfMod) % ByteMod, (w \div (HalfMod * ByteMod)) % ByteMod>>
<1>1. /\ w % ByteMod \in Byte /\ (w \div ByteMod) % ByteMod \in Byte
      /\ (w \div HalfMod) % ByteMod \in Byte
      /\ (w \div (HalfMod * ByteMod)) % ByteMod \in Byte
  <2>1. \A v \in Nat : v % ByteMod \in Byte
    BY Sizes DEF Byte
  <2>2. \A d \in Nat : d > 0 => w \div d \in Nat
    BY Sizes DEF Word
  <2>3. HalfMod * ByteMod \in Nat /\ HalfMod * ByteMod > 0
    BY Sizes
  <2> QED
    BY <2>1, <2>2, <2>3, Sizes DEF Word
<1>2. s \in Seq(Byte) /\ Len(s) = 4
  BY <1>1
<1> HIDE DEF s
<1>3. SubSeq(s, 1, n) \in Seq(Byte) /\ Len(SubSeq(s, 1, n)) = n
  BY <1>2
<1> QED
  BY <1>3 DEF ToBytes, s

LEMMA SignedIsInteger ==
    ASSUME NEW v \in Int
    PROVE  /\ SignedPart(v, WordMod) \in Int
           /\ SignedPart(v, HalfMod) \in Int
           /\ SignedPart(v, ByteMod) \in Int
BY Sizes DEF SignedPart

LEMMA UnsignedIsWord ==
    ASSUME NEW v \in Int
    PROVE  Unsigned(v) \in Word
BY Sizes DEF Unsigned, Word

LEMMA SignExtensionIsWord ==
    ASSUME NEW w \in Word, NEW mode
    PROVE  SignExtend(w, mode) \in Word
<1>1. w \in Int
  BY Sizes DEF Word
<1> QED
  BY <1>1, SignedIsInteger, UnsignedIsWord DEF SignExtend

LEMMA ElementsAreBytes ==
    ASSUME NEW s \in Seq(Byte)
    PROVE  \A k \in 1 .. Len(s) : s[k] \in Byte
OBVIOUS

LEMMA FourBytes ==
    ASSUME NEW s \in Seq(Byte), Len(s) = 4
    PROVE  s[1] \in Byte /\ s[2] \in Byte /\ s[3] \in Byte /\ s[4] \in Byte
BY ElementsAreBytes

LEMMA SwapIsWord ==
    ASSUME NEW w \in Word, NEW mode
    PROVE  ByteSwap(w, mode) \in Word
<1> DEFINE s == ToBytes(w, 4)
<1>1. s \in Seq(Byte) /\ Len(s) = 4
  BY WordHasBytes
<1> HIDE DEF s
<1>2. /\ <<s[2], s[1], s[3], s[4]>> \in Seq(Byte) /\ Len(<<s[2], s[1], s[3], s[4]>>) = 4
      /\ <<s[4], s[3], s[2], s[1]>> \in Seq(Byte) /\ Len(<<s[4], s[3], s[2], s[1]>>) = 4
  BY <1>1, FourBytes
<1>3. /\ FromBytes(<<s[2], s[1], s[3], s[4]>>) \in Word
      /\ FromBytes(<<s[4], s[3], s[2], s[1]>>) \in Word
  BY <1>2, BytesMakeAWord
<1> QED
  BY <1>3 DEF ByteSwap, s

LEMMA DecodedFields ==
    ASSUME NEW s \in Seq(Byte), Len(s) = 4
    PROVE  Fields(Decode(s))
<1>1. s[1] \in Byte /\ s[2] \in Byte /\ s[3] \in Byte /\ s[4] \in Byte
  BY FourBytes
<1>2. s[3] + ByteMod * s[4] \in 0 .. HalfMod - 1
  BY <1>1, Sizes, TwoDigits DEF Byte
<1> QED
  BY <1>1, <1>2 DEF Decode, Fields

-----------------------------------------------------------------------------
(* Residues and the numbers that words stand for *)

\* Quotient and remainder are the only ones.
LEMMA UniqueDivision ==
    ASSUME NEW m \in Nat, m > 0, NEW q \in Int, NEW r \in 0 .. m - 1
    PROVE  (r + m * q) % m = r /\ (r + m * q) \div m = q
<1> DEFINE a == r + m * q
           d == a \div m
           e == a % m
<1>1. a \in Int /\ d \in Int /\ e \in 0 .. m - 1 /\ a = m * d + e
  OBVIOUS
<1>2. \A k \in Int : k > 0 => m * k >= m
  OBVIOUS
<1>3. m * (q - d) = e - r /\ m * (d - q) = r - e
  BY <1>1
<1> HIDE DEF a, d, e
<1>4. ~(q - d > 0) /\ ~(d - q > 0)
  BY <1>1, <1>2, <1>3
<1>5. d = q
  BY <1>1, <1>4
<1>6. e = r
  BY <1>1, <1>3, <1>5
<1> QED
  BY <1>5, <1>6 DEF a, d, e

LEMMA Divided ==
    ASSUME NEW m \in Nat, m > 0, NEW v \in Int
    PROVE  /\ v % m \in 0 .. m - 1 /\ v \div m \in Int
           /\ v = (v % m) + m * (v \div m)
           /\ v \in Nat => v \div m \in Nat
OBVIOUS

LEMMA Congruent ==
    ASSUME NEW m \in Nat, m > 0, NEW v \in Int, NEW k \in Int
    PROVE  (v + m * k) % m = v % m
<1> DEFINE r == v % m
           q == v \div m
<1>1. r \in 0 .. m - 1 /\ q \in Int /\ v = r + m * q
  BY Divided
<1> HIDE DEF r, q
<1>2. v + m * k = r + m * (q + k)
  BY <1>1
<1>3. (r + m * (q + k)) % m = r
  BY <1>1, UniqueDivision
<1> QED
  BY <1>2, <1>3 DEF r

\* A modulus that SignedPart is used with.
Modulus(m) == m \in Nat /\ m > 0 /\ m = 2 * (m \div 2)

LEMMA Moduli ==
    /\ Modulus(ByteMod) /\ Modulus(HalfMod) /\ Modulus(WordMod)
    /\ WordMod = ByteMod * (ByteMod * HalfMod)
<1> DEFINE b == ByteMod \div 2
<1>1. b \in Nat /\ ByteMod = 2 * b
  BY Sizes
<1> HIDE DEF b
<1>2. \A k \in Nat : (2 * k) \div 2 = k
  OBVIOUS
<1>3. HalfMod = 2 * (b * ByteMod) /\ b * ByteMod \in Nat
  BY <1>1, Sizes
<1>4. WordMod = 2 * ((b * ByteMod) * HalfMod) /\ (b * ByteMod) * HalfMod \in Nat
  BY <1>3, Sizes
<1>5. WordMod = ByteMod * (ByteMod * HalfMod)
  BY Sizes
<1> QED
  BY <1>1, <1>2, <1>3, <1>4, <1>5, Sizes DEF Modulus

\* SignedPart picks, of the numbers congruent to v, the one around zero.
LEMMA SignedPartIsCongruent ==
    ASSUME NEW m, Modulus(m), NEW v \in Int
    PROVE  /\ SignedPart(v, m) \in -(m \div 2) .. m \div 2 - 1
           /\ \E k \in Int : SignedPart(v, m) = v + m * k
<1> DEFINE r == v % m
           q == v \div m
           h == m \div 2
<1>1. r \in 0 .. m - 1 /\ q \in Int /\ v = r + m * q
  BY Divided DEF Modulus
<1>2. h \in Nat /\ m = 2 * h /\ m \in Nat
  BY DEF Modulus
<1>3. SignedPart(v, m) = IF r < h THEN r ELSE r - m
  BY DEF SignedPart
<1> HIDE DEF r, q, h
<1>4. r = v + m * (-q) /\ r - m = v + m * (-q - 1)
  BY <1>1, <1>2
<1>5. -q \in Int /\ -q - 1 \in Int
  BY <1>1
<1>6. SignedPart(v, m) \in -h .. h - 1
  BY <1>1, <1>2, <1>3
<1>7. \E k \in Int : SignedPart(v, m) = v + m * k
  BY <1>3, <1>4, <1>5
<1> QED
  BY <1>6, <1>7 DEF h

LEMMA SignedPartIsUnique ==
    ASSUME NEW m, Modulus(m), NEW s \in -(m \div 2) .. m \div 2 - 1,
           NEW v \in Int, NEW k \in Int, v = s + m * k
    PROVE  SignedPart(v, m) = s
<1> DEFINE h == m \div 2
<1>1. h \in Nat /\ m = 2 * h /\ m \in Nat /\ m > 0 /\ s \in Int
  BY DEF Modulus
<1>2. v % m = s % m
  BY <1>1, Congruent
<1>3. s % m = IF s < 0 THEN s + m ELSE s
  <2> HIDE DEF h
  <2>1. CASE s < 0
    <3>1. s + m \in 0 .. m - 1 /\ s = (s + m) + m * (-1)
      BY <1>1, <2>1 DEF h
    <3>2. ((s + m) + m * (-1)) % m = s + m
      BY <1>1, <3>1, UniqueDivision
    <3> QED
      BY <2>1, <3>1, <3>2
  <2>2. CASE ~(s < 0)
    <3>1. s \in 0 .. m - 1 /\ s = s + m * 0
      BY <1>1, <2>2 DEF h
    <3>2. (s + m * 0) % m = s
      BY <1>1, <3>1, UniqueDivision
    <3> QED
      BY <2>2, <3>1, <3>2
  <2> QED
    BY <2>1, <2>2
<1>4. SignedPart(v, m) = IF v % m < h THEN v % m ELSE (v % m) - m
  BY DEF SignedPart
<1>5. s \in -h .. h - 1
  OBVIOUS
<1> HIDE DEF h
<1> QED
  BY <1>1, <1>2, <1>3, <1>4, <1>5

LEMMA SignedOfSum ==
    ASSUME NEW v \in Int, NEW k \in Int
    PROVE  SignedPart(v + WordMod * k, WordMod) = SignedPart(v, WordMod)
<1>1. (v + WordMod * k) % WordMod = v % WordMod
  BY Congruent, Sizes
<1> QED
  BY <1>1 DEF SignedPart

LEMMA SignedOfUnsigned ==
    ASSUME NEW v \in Int
    PROVE  Signed(Unsigned(v)) = SignedPart(v, WordMod)
<1>1. v % WordMod \in 0 .. WordMod - 1 /\ v \div WordMod \in Int
      /\ v = (v % WordMod) + WordMod * (v \div WordMod)
  BY Divided, Sizes
<1>2. SignedPart((v % WordMod) + WordMod * (v \div WordMod), WordMod) = SignedPart(v % WordMod, WordMod)
  BY <1>1, SignedOfSum
<1> QED
  BY <1>1, <1>2 DEF Signed, Unsigned

LEMMA WordAsSigned ==
    ASSUME NEW x \in Word
    PROVE  /\ x \in Int
           /\ Signed(x) \in -(WordMod \div 2) .. WordMod \div 2 - 1
           /\ \E k \in Int : Signed(x) = x + WordMod * k
           /\ Unsigned(Signed(x)) = x
<1>1. x \in Int /\ x \in 0 .. WordMod - 1
  BY Sizes DEF Word
<1>2. /\ Signed(x) \in -(WordMod \div 2) .. WordMod \div 2 - 1
      /\ \E k \in Int : Signed(x) = x + WordMod * k
  BY <1>1, Moduli, SignedPartIsCongruent DEF Signed
<1>3. PICK k \in Int : Signed(x) = x + WordMod * k
  BY <1>2
<1>4. (x + WordMod * k) % WordMod = x
  BY <1>1, UniqueDivision, Sizes
<1> QED
  BY <1>1, <1>2, <1>3, <1>4 DEF Unsigned
-----------------------------------------------------------------------------
(* The conversions *)

LEMMA NarrowRange ==
    ASSUME NEW m \in {ByteMod, HalfMod}
    PROVE  /\ Modulus(m)
           /\ -(m \div 2) .. m \div 2 - 1 \subseteq -(WordMod \div 2) .. WordMod \div 2 - 1
           /\ \E n \in Nat : WordMod = m * n
<1>1. /\ Modulus(m) /\ Modulus(WordMod) /\ m <= WordMod
      /\ \E n \in Nat : WordMod = m * n
  <2>1. ByteMod * HalfMod \in Nat /\ HalfMod \in Nat
    BY Sizes
  <2> QED
    BY <2>1, Moduli, Sizes
<1>2. m \div 2 \in Nat /\ WordMod \div 2 \in Nat /\ m \div 2 <= WordMod \div 2
  BY <1>1 DEF Modulus
<1> QED
  BY <1>1, <1>2

\* Extending the sign of the low part of a word.
LEMMA Extension ==
    ASSUME NEW m \in {ByteMod, HalfMod}, NEW x \in Word
    PROVE  LET s == SignedPart(x, m)
           IN  /\ SignedPart(Unsigned(s), m) = s
               /\ Signed(x) \in -(m \div 2) .. m \div 2 - 1 <=> Unsigned(s) = x
<1> DEFINE s == SignedPart(x, m)
           narrow == -(m \div 2) .. m \div 2 - 1
<1>1. /\ x \in Int
      /\ Signed(x) \in -(WordMod \div 2) .. WordMod \div 2 - 1
      /\ \E k \in Int : Signed(x) = x + WordMod * k
      /\ Unsigned(Signed(x)) = x
  BY WordAsSigned
<1>2. /\ Modulus(m) /\ m \in Nat
      /\ narrow \subseteq -(WordMod \div 2) .. WordMod \div 2 - 1
      /\ \E n \in Nat : WordMod = m * n
  BY NarrowRange DEF Modulus
<1>3. s \in narrow /\ \E k \in Int : s = x + m * k
  BY <1>1, <1>2, SignedPartIsCongruent
<1>4. s \in Int /\ SignedPart(s, WordMod) = s
  <2>1. s \in Int /\ s \in -(WordMod \div 2) .. WordMod \div 2 - 1
    BY <1>2, <1>3
  <2> HIDE DEF s
  <2>2. s = s + WordMod * 0 /\ Modulus(WordMod)
    BY <2>1, Sizes, Moduli
  <2> QED
    BY <2>1, <2>2, SignedPartIsUnique
<1> HIDE DEF s
<1>5. Signed(Unsigned(s)) = s
  BY <1>4, SignedOfUnsigned
<1>6. PICK n \in Nat : WordMod = m * n
  BY <1>2
<1>7. SignedPart(Unsigned(s), m) = s
  <2>1. Unsigned(s) \in Int /\ s \div WordMod \in Int
        /\ s = Unsigned(s) + WordMod * (s \div WordMod)
    BY <1>4, Divided, Sizes DEF Unsigned
  <2>2. \A j \in Int : (m * n) * j = m * (n * j) /\ n * j \in Int
    BY <1>2, <1>6
  <2>3. PICK j \in Int : s = Unsigned(s) + WordMod * j
    BY <2>1
  <2>4. WordMod * j = m * (n * j) /\ n * j \in Int
    BY <1>6, <2>2
  <2>5. m * (-(n * j)) = -(m * (n * j)) /\ m * (n * j) \in Int /\ -(n * j) \in Int
    BY <1>2, <2>4
  <2>6. Unsigned(s) = s + m * (-(n * j))
    BY <1>4, <2>1, <2>3, <2>4, <2>5
  <2> QED
    BY <1>2, <1>3, <2>1, <2>5, <2>6, SignedPartIsUnique
<1>8. ASSUME Signed(x) \in narrow PROVE Unsigned(s) = x
  <2>1. PICK k \in Int : Signed(x) = x + WordMod * k
    BY <1>1
  <2>2. Signed(x) \in Int /\ (m * n) * k = m * (n * k) /\ n * k \in Int
    BY <1>1, <1>2, <1>6
  <2>3. x = Signed(x) + m * (-(n * k)) /\ -(n * k) \in Int
    BY <1>1, <1>2, <1>6, <2>1, <2>2
  <2>4. SignedPart(x, m) = Signed(x)
    BY <1>1, <1>2, <1>8, <2>3, SignedPartIsUnique
  <2> QED
    BY <1>1, <2>4 DEF s
<1>9. ASSUME Unsigned(s) = x PROVE Signed(x) \in narrow
  BY <1>3, <1>5, <1>9
<1> QED
  BY <1>7, <1>8, <1>9 DEF s

\* The digits of a number are those it is made of.
LEMMA DigitsOfSum ==
    ASSUME NEW a \in Byte, NEW b \in Byte, NEW c \in Byte, NEW d \in Byte,
           NEW w, w = a + ByteMod * b + HalfMod * (c + ByteMod * d)
    PROVE  /\ w % ByteMod = a
           /\ (w \div ByteMod) % ByteMod = b
           /\ (w \div HalfMod) % ByteMod = c
           /\ (w \div (HalfMod * ByteMod)) % ByteMod = d
<1>1. /\ a \in Nat /\ b \in Nat /\ c \in Nat /\ d \in Nat
      /\ ByteMod \in Nat /\ ByteMod > 0 /\ HalfMod \in Nat /\ HalfMod > 0
  BY Sizes DEF Byte
<1>2. \A v \in Byte : v \in 0 .. ByteMod - 1
  BY DEF Byte
<1> DEFINE upper == c + ByteMod * d
           low == a + ByteMod * b
           mod3 == HalfMod * ByteMod
           low3 == low + HalfMod * c
<1>3. upper \in Nat /\ low \in 0 .. HalfMod - 1 /\ w = low + HalfMod * upper
  BY <1>1, <1>2, TwoDigits, Sizes
<1>4. low3 \in 0 .. mod3 - 1 /\ mod3 \in Nat /\ mod3 > 0
  <2>1. HalfMod * c <= HalfMod * (ByteMod - 1)
    BY <1>1, <1>2
  <2>2. HalfMod * (ByteMod - 1) = HalfMod * ByteMod - HalfMod
        /\ HalfMod * ByteMod \in Nat /\ HalfMod * c \in Nat
    BY <1>1
  <2>3. HalfMod * ByteMod > 0
    BY <1>1
  <2> HIDE DEF low
  <2> QED
    BY <1>1, <1>3, <2>1, <2>2, <2>3
<1>5. w = low3 + mod3 * d
  BY <1>1, <1>3
<1>6. w = a + ByteMod * (b + ByteMod * upper)
  <2>1. HalfMod * upper = ByteMod * (ByteMod * upper)
    BY <1>1, <1>3, Sizes
  <2> HIDE DEF upper
  <2> QED
    BY <1>1, <1>3, <2>1
<1> HIDE DEF upper, low, low3, mod3
<1>7. b + ByteMod * upper \in Int
  BY <1>1, <1>3
<1>8. w % ByteMod = a /\ w \div ByteMod = b + ByteMod * upper
  BY <1>1, <1>2, <1>6, <1>7, UniqueDivision
<1>9. (b + ByteMod * upper) % ByteMod = b
  BY <1>1, <1>2, <1>3, UniqueDivision
<1>10. w \div HalfMod = upper
  BY <1>1, <1>3, UniqueDivision
<1>11. (c + ByteMod * d) % ByteMod = c
  BY <1>1, <1>2, UniqueDivision
<1>12. w \div mod3 = d
  BY <1>1, <1>4, <1>5, UniqueDivision
<1>13. (d + ByteMod * 0) % ByteMod = d /\ d + ByteMod * 0 = d
  BY <1>1, <1>2, UniqueDivision
<1> QED
  BY <1>8, <1>9, <1>10, <1>11, <1>12, <1>13 DEF upper, mod3

LEMMA DigitsOfWord ==
    ASSUME NEW s \in Seq(Byte), Len(s) = 4
    PROVE  ToBytes(FromBytes(s), 4) = s
<1> DEFINE w == FromBytes(s)
<1>1. s[1] \in Byte /\ s[2] \in Byte /\ s[3] \in Byte /\ s[4] \in Byte
  BY FourBytes
<1>2. w = s[1] + ByteMod * s[2] + HalfMod * (s[3] + ByteMod * s[4])
  BY DEF FromBytes
<1> HIDE DEF w
<1>3. /\ w % ByteMod = s[1]
      /\ (w \div ByteMod) % ByteMod = s[2]
      /\ (w \div HalfMod) % ByteMod = s[3]
      /\ (w \div (HalfMod * ByteMod)) % ByteMod = s[4]
  BY <1>1, <1>2, DigitsOfSum
<1>4. ToBytes(w, 4) = SubSeq(<<s[1], s[2], s[3], s[4]>>, 1, 4)
  BY <1>3 DEF ToBytes
<1>5. s = <<s[1], s[2], s[3], s[4]>>
  OBVIOUS
<1>6. SubSeq(s, 1, 4) = s
  OBVIOUS
<1> QED
  BY <1>4, <1>5, <1>6 DEF w

\* A word is the number its bytes stand for.
LEMMA WordOfDigits ==
    ASSUME NEW x \in Word
    PROVE  /\ FromBytes(ToBytes(x, 4)) = x
           /\ FromBytes(ToBytes(x, 2)) = x % HalfMod
<1> DEFINE d1 == x % ByteMod
           q1 == x \div ByteMod
           d2 == q1 % ByteMod
           q2 == q1 \div ByteMod
           d3 == q2 % ByteMod
           q3 == q2 \div ByteMod
<1>1. x \in Nat /\ x < WordMod /\ ByteMod \in Nat /\ ByteMod > 0
  BY Sizes DEF Word
<1>2. d1 \in Byte /\ q1 \in Nat /\ x = d1 + ByteMod * q1
  BY <1>1, Divided DEF Byte
<1> HIDE DEF q1
<1>3. d2 \in Byte /\ q2 \in Nat /\ q1 = d2 + ByteMod * q2
  BY <1>1, <1>2, Divided DEF Byte
<1> HIDE DEF q2
<1>4. d3 \in Byte /\ q3 \in Nat /\ q2 = d3 + ByteMod * q3
  BY <1>1, <1>3, Divided DEF Byte
<1> HIDE DEF d1, d2, d3, q3
<1>5. d1 \in Nat /\ d2 \in Nat /\ d3 \in Nat
  BY <1>2, <1>3, <1>4, Sizes DEF Byte
<1>6. d1 + ByteMod * d2 \in 0 .. HalfMod - 1
  BY <1>2, <1>3, Sizes, TwoDigits DEF Byte
<1>7. x = (d1 + ByteMod * d2) + HalfMod * q2
  <2>1. x = d1 + ByteMod * (d2 + ByteMod * q2)
    BY <1>2, <1>3
  <2>2. ByteMod * (d2 + ByteMod * q2) = ByteMod * d2 + HalfMod * q2
    BY <1>3, <1>5, Sizes
  <2>3. ByteMod * d2 \in Int /\ HalfMod * q2 \in Int
    BY <1>3, <1>5, Sizes
  <2> QED
    BY <1>5, <2>1, <2>2, <2>3
<1>8. x \div HalfMod = q2 /\ x % HalfMod = d1 + ByteMod * d2
  BY <1>3, <1>6, <1>7, UniqueDivision, Sizes
<1>9. q3 < ByteMod /\ x \div (HalfMod * ByteMod) = q3
  <2> DEFINE c == HalfMod * ByteMod
             low == (d1 + ByteMod * d2) + HalfMod * d3
  <2>1. x = low + c * q3 /\ c \in Nat /\ c > 0
    BY <1>3, <1>4, <1>5, <1>7, Sizes
  <2>2. low \in 0 .. c - 1
    <3>1. HalfMod * d3 <= HalfMod * (ByteMod - 1)
      BY <1>4, <1>5, Sizes DEF Byte
    <3>2. HalfMod * (ByteMod - 1) = c - HalfMod /\ HalfMod * d3 \in Nat
      BY <1>5, Sizes
    <3> QED
      BY <1>6, <2>1, <3>1, <3>2, Sizes
  <2>3. WordMod = c * ByteMod
    BY Sizes
  <2> HIDE DEF c, low
  <2>4. x \div c = q3
    BY <1>4, <2>1, <2>2, UniqueDivision
  <2>5. q3 < ByteMod
    <3>1. q3 >= ByteMod => c * q3 >= c * ByteMod
      BY <1>1, <1>4, <2>1
    <3>2. c * q3 \in Int /\ c * ByteMod \in Int
      BY <1>1, <1>4, <2>1
    <3> QED
      BY <1>1, <1>4, <2>1, <2>2, <2>3, <3>1, <3>2
  <2> QED
    BY <2>4, <2>5 DEF c
<1>10. q3 % ByteMod = q3
  BY <1>1, <1>4, <1>9
<1>11. /\ ToBytes(x, 4) = SubSeq(<<d1, d2, d3, q3>>, 1, 4)
       /\ ToBytes(x, 2) = SubSeq(<<d1, d2, d3, q3>>, 1, 2)
  BY <1>8, <1>9, <1>10 DEF ToBytes, d1, d2, d3, q1
<1>12. /\ SubSeq(<<d1, d2, d3, q3>>, 1, 4) = <<d1, d2, d3, q3>>
       /\ SubSeq(<<d1, d2, d3, q3>>, 1, 2) = <<d1, d2>>
  <2> DEFINE t == <<d1, d2, d3, q3>>
  <2>1. t \in Seq(Nat) /\ Len(t) = 4 /\ t[1] = d1 /\ t[2] = d2
    BY <1>4, <1>5
  <2> HIDE DEF t
  <2>2. SubSeq(t, 1, 4) = t
    BY <2>1
  <2>3. SubSeq(t, 1, 2) = [k \in 1 .. 2 |-> t[k]]
    <3>1. SubSeq(t, 1, 2) = [k \in 1 .. (2 - 1 + 1) |-> t[1 + k - 1]]
      OBVIOUS
    <3> QED
      BY <3>1
  <2>4. <<d1, d2>> = [k \in 1 .. 2 |-> t[k]]
    BY <2>1
  <2>5. SubSeq(t, 1, 2) = <<d1, d2>>
    BY <2>3, <2>4
  <2> QED
    BY <2>2, <2>5 DEF t
<1>13. /\ FromBytes(<<d1, d2, d3, q3>>) = d1 + ByteMod * d2 + HalfMod * (d3 + ByteMod * q3)
       /\ FromBytes(<<d1, d2>>) = d1 + ByteMod * d2
  BY DEF FromBytes
<1> QED
  BY <1>4, <1>7, <1>8, <1>11, <1>12, <1>13

LEMMA SwapUndoesItself ==
    ASSUME NEW x \in Word, NEW mode \in 0 .. 2
    PROVE  ByteSwap(ByteSwap(x, mode), mode) = x
<1> DEFINE s == ToBytes(x, 4)
<1>1. s \in Seq(Byte) /\ Len(s) = 4 /\ FromBytes(s) = x
  BY WordHasBytes, WordOfDigits
<1> HIDE DEF s
<1>2. s[1] \in Byte /\ s[2] \in Byte /\ s[3] \in Byte /\ s[4] \in Byte
  BY <1>1, FourBytes
<1>3. s = <<s[1], s[2], s[3], s[4]>>
  BY <1>1
<1>4. CASE mode = 0
  BY <1>4 DEF ByteSwap
<1>5. CASE mode = 1
  <2> DEFINE t == <<s[2], s[1], s[3], s[4]>>
  <2>1. t \in Seq(Byte) /\ Len(t) = 4
    BY <1>2
  <2>2. ByteSwap(x, 1) = FromBytes(t)
    BY DEF ByteSwap, s
  <2>3. ToBytes(FromBytes(t), 4) = t
    BY <2>1, DigitsOfWord
  <2>4. ByteSwap(FromBytes(t), 1) = FromBytes(<<t[2], t[1], t[3], t[4]>>)
    <3> HIDE DEF t
    <3> QED
      BY <2>3 DEF ByteSwap
  <2>5. <<t[2], t[1], t[3], t[4]>> = <<s[1], s[2], s[3], s[4]>>
    OBVIOUS
  <2> QED
    BY <1>1, <1>3, <1>5, <2>2, <2>4, <2>5
<1>6. CASE mode = 2
  <2> DEFINE t == <<s[4], s[3], s[2], s[1]>>
  <2>1. t \in Seq(Byte) /\ Len(t) = 4
    BY <1>2
  <2>2. ByteSwap(x, 2) = FromBytes(t)
    BY DEF ByteSwap, s
  <2>3. ToBytes(FromBytes(t), 4) = t
    BY <2>1, DigitsOfWord
  <2>4. ByteSwap(FromBytes(t), 2) = FromBytes(<<t[4], t[3], t[2], t[1]>>)
    <3> HIDE DEF t
    <3> QED
      BY <2>3 DEF ByteSwap
  <2>5. <<t[4], t[3], t[2], t[1]>> = <<s[1], s[2], s[3], s[4]>>
    OBVIOUS
  <2> QED
    BY <1>1, <1>3, <1>6, <2>2, <2>4, <2>5
<1> QED
  BY <1>4, <1>5, <1>6

\* For every width of a byte, the conversions of every word undo themselves.
THEOREM ConversionsAreFaithful == \A x \in Word : ConvertsBack(x)
<1> SUFFICES ASSUME NEW x \in Word
             PROVE  /\ \A mode \in 0 .. 2 :
                         /\ SignExtend(SignExtend(x, mode), mode) = SignExtend(x, mode)
                         /\ ByteSwap(ByteSwap(x, mode), mode) = x
                    /\ Signed(x) \in -(HalfMod \div 2) .. HalfMod \div 2 - 1 <=> SignExtend(x, 1) = x
                    /\ Signed(x) \in -(ByteMod \div 2) .. ByteMod \div 2 - 1 <=> SignExtend(x, 0) = x
                    /\ FromBytes(ToBytes(x, 4)) = x
                    /\ FromBytes(ToBytes(x, 2)) = x % HalfMod
  BY DEF ConvertsBack
<1>1. \A w : /\ SignExtend(w, 0) = Unsigned(SignedPart(w, ByteMod))
             /\ SignExtend(w, 1) = Unsigned(SignedPart(w, HalfMod))
             /\ SignExtend(w, 2) = w
  BY DEF SignExtend
<1>2. /\ SignedPart(Unsigned(SignedPart(x, ByteMod)), ByteMod) = SignedPart(x, ByteMod)
      /\ Signed(x) \in -(ByteMod \div 2) .. ByteMod \div 2 - 1
           <=> Unsigned(SignedPart(x, ByteMod)) = x
  BY Extension
<1>3. /\ SignedPart(Unsigned(SignedPart(x, HalfMod)), HalfMod) = SignedPart(x, HalfMod)
      /\ Signed(x) \in -(HalfMod \div 2) .. HalfMod \div 2 - 1
           <=> Unsigned(SignedPart(x, HalfMod)) = x
  BY Extension
<1>4. \A mode \in 0 .. 2 : SignExtend(SignExtend(x, mode), mode) = SignExtend(x, mode)
  <2>1. \A mode \in 0 .. 2 : mode = 0 \/ mode = 1 \/ mode = 2
    OBVIOUS
  <2> QED
    BY <1>1, <1>2, <1>3, <2>1
<1> QED
  BY <1>1, <1>2, <1>3, <1>4, SwapUndoesItself, WordOfDigits
-----------------------------------------------------------------------------
(* Arithmetic *)

LEMMA CalculationOf ==
    ASSUME NEW x, NEW y
    PROVE  /\ Calculation(ADD, x, y) = (x + y) % WordMod
           /\ Calculation(SUB, x, y) = (x - y) % WordMod
           /\ Calculation(MUL, x, y) = Multiply(x, y)
           /\ Calculation(UDIV, x, y) = x \div y
           /\ Calculation(SDIV, x, y) = Divide(x, y)
           /\ Calculation(EQ, x, y) = Truth(x = y)
           /\ Calculation(NE, x, y) = Truth(x # y)
           /\ Calculation(LT, x, y) = Truth(x < y)
           /\ Calculation(GE, x, y) = Truth(x >= y)
           /\ Calculation(SLT, x, y) = Truth(Signed(x) < Signed(y))
           /\ Calculation(SGE, x, y) = Truth(Signed(x) >= Signed(y))
BY DEF Calculation, ADD, SUB, MUL, UDIV, SDIV, EQ, NE, LT, GE, SLT, SGE

LEMMA AdditionIsModular ==
    ASSUME NEW x \in Word, NEW y \in Word
    PROVE  /\ Signed(Calculation(ADD, x, y)) = SignedPart(Signed(x) + Signed(y), WordMod)
           /\ Signed(Calculation(SUB, x, y)) = SignedPart(Signed(x) - Signed(y), WordMod)
<1>1. PICK k \in Int : Signed(x) = x + WordMod * k
  BY WordAsSigned
<1>2. PICK l \in Int : Signed(y) = y + WordMod * l
  BY WordAsSigned
<1>3. x \in Int /\ y \in Int /\ WordMod \in Int
  BY WordAsSigned, Sizes
<1>4. /\ Calculation(ADD, x, y) = Unsigned(x + y)
      /\ Calculation(SUB, x, y) = Unsigned(x - y)
  BY CalculationOf DEF Unsigned
<1>5. /\ WordMod * k \in Int /\ WordMod * l \in Int
      /\ WordMod * (k + l) = WordMod * k + WordMod * l
      /\ WordMod * (k - l) = WordMod * k - WordMod * l
  BY <1>3
<1>6. /\ Signed(x) + Signed(y) = (x + y) + WordMod * (k + l)
      /\ Signed(x) - Signed(y) = (x - y) + WordMod * (k - l)
  BY <1>1, <1>2, <1>3, <1>5
<1>7. /\ SignedPart((x + y) + WordMod * (k + l), WordMod) = SignedPart(x + y, WordMod)
      /\ SignedPart((x - y) + WordMod * (k - l), WordMod) = SignedPart(x - y, WordMod)
  <2>1. x + y \in Int /\ x - y \in Int /\ k + l \in Int /\ k - l \in Int
    BY <1>3
  <2> QED
    BY ONLY <2>1, SignedOfSum
<1>8. /\ Signed(Unsigned(x + y)) = SignedPart(x + y, WordMod)
      /\ Signed(Unsigned(x - y)) = SignedPart(x - y, WordMod)
  BY <1>3, SignedOfUnsigned
<1> QED
  BY <1>4, <1>6, <1>7, <1>8

\* The product of the high halves and the carry of the cross products lie above
\* a word.
LEMMA MultiplicationIsModular ==
    ASSUME NEW x \in Word, NEW y \in Word
    PROVE  /\ Calculation(MUL, x, y) = (x * y) % WordMod
           /\ Calculation(MUL, x, y) = Unsigned(Signed(x) * Signed(y))
<1> DEFINE xl == x % HalfMod  xh == x \div HalfMod
           yl == y % HalfMod  yh == y \div HalfMod
           cross == xh * yl + xl * yh
           c == cross % HalfMod
           q == cross \div HalfMod
<1>1. x \in Int /\ y \in Int /\ HalfMod \in Int /\ WordMod \in Int /\ WordMod = HalfMod * HalfMod
  BY WordAsSigned, Sizes
<1>2. /\ xl \in Int /\ xh \in Int /\ x = xl + HalfMod * xh
      /\ yl \in Int /\ yh \in Int /\ y = yl + HalfMod * yh
  BY <1>1, Divided, Sizes
<1>3. Multiply(x, y) = (xl * yl + HalfMod * c) % WordMod
  BY DEF Multiply
<1> HIDE DEF xl, xh, yl, yh
<1>4. cross \in Int
  BY <1>2
<1>5. c \in Int /\ q \in Int /\ cross = c + HalfMod * q
  <2> HIDE DEF cross
  <2> QED
    BY <1>4, Divided, Sizes
<1> HIDE DEF c, q
<1>6. x * y = (xl * yl + HalfMod * c) + WordMod * (q + xh * yh)
  <2>1. x * y = xl * yl + HalfMod * cross + HalfMod * (HalfMod * (xh * yh))
    BY <1>1, <1>2
  <2>2. HalfMod * cross = HalfMod * c + HalfMod * (HalfMod * q)
    <3> HIDE DEF cross
    <3> QED
      BY <1>1, <1>5
  <2>3. HalfMod * (HalfMod * q) = WordMod * q
        /\ HalfMod * (HalfMod * (xh * yh)) = WordMod * (xh * yh)
    BY <1>1, <1>2, <1>5
  <2>4. WordMod * (q + xh * yh) = WordMod * q + WordMod * (xh * yh)
    BY <1>1, <1>2, <1>5
  <2>5. /\ xl * yl \in Int /\ HalfMod * c \in Int /\ WordMod * q \in Int
        /\ WordMod * (xh * yh) \in Int
    BY <1>1, <1>2, <1>5
  <2> HIDE DEF cross
  <2> QED
    BY <2>1, <2>2, <2>3, <2>4, <2>5
<1>7. Multiply(x, y) = (x * y) % WordMod
  <2>1. xl * yl + HalfMod * c \in Int /\ q + xh * yh \in Int
    BY <1>1, <1>2, <1>5
  <2>2. \A v, j \in Int : (v + WordMod * j) % WordMod = v % WordMod
    BY Congruent, Sizes
  <2> QED
    BY ONLY <1>3, <1>6, <2>1, <2>2
<1>8. Calculation(MUL, x, y) = Multiply(x, y)
  BY CalculationOf
<1>9. PICK k \in Int : Signed(x) = x + WordMod * k
  BY WordAsSigned
<1>10. PICK l \in Int : Signed(y) = y + WordMod * l
  BY WordAsSigned
<1>11. Signed(x) * Signed(y) = x * y + WordMod * (x * l + y * k + WordMod * (k * l))
  BY <1>1, <1>9, <1>10
<1>12. (Signed(x) * Signed(y)) % WordMod = (x * y) % WordMod
  <2>1. x * y \in Int /\ x * l + y * k + WordMod * (k * l) \in Int
    BY <1>1
  <2>2. \A v, j \in Int : (v + WordMod * j) % WordMod = v % WordMod
    BY Congruent, Sizes
  <2> QED
    BY ONLY <1>11, <2>1, <2>2
<1> QED
  BY <1>7, <1>8, <1>12 DEF Unsigned

\* Truncating division of integers by their absolute values.
LEMMA TruncatingDivision ==
    ASSUME NEW a \in Int, NEW b \in Int, b # 0
    PROVE  LET q == Abs(a) \div Abs(b)
               t == IF (a < 0) = (b < 0) THEN q ELSE -q
               remainder == a - t * b
           IN  /\ q \in 0 .. Abs(a)
               /\ q = Abs(a) => a = 0 \/ b \in {1, -1}
               /\ t \in Int
               /\ Abs(remainder) < Abs(b)
               /\ remainder # 0 => (remainder < 0) = (a < 0)
<1> DEFINE m == Abs(a)
           n == Abs(b)
           q == m \div n
           r == m % n
           t == IF (a < 0) = (b < 0) THEN q ELSE -q
<1>1. /\ m \in Nat /\ n \in Nat /\ n > 0
      /\ (a < 0 => m = -a) /\ (a >= 0 => m = a)
      /\ (b < 0 => n = -b) /\ (b >= 0 => n = b)
  BY DEF Abs
<1> HIDE DEF m, n
<1>2. r \in 0 .. n - 1 /\ q \in Nat /\ m = r + n * q
  BY <1>1, Divided
<1>3. (a < 0) = (b < 0) => t = q
  OBVIOUS
<1>4. (a < 0) # (b < 0) => t = -q
  OBVIOUS
<1> HIDE DEF q, r, t
<1>5. n * q >= q /\ (n > 1 /\ q > 0 => n * q > q) /\ n * q \in Int
  BY <1>1, <1>2
<1>6. q \in 0 .. m /\ (q = m => m = 0 \/ n = 1)
  BY <1>1, <1>2, <1>5
<1>7. /\ a < 0 => a - t * b = -r
      /\ a >= 0 => a - t * b = r
  <2>1. CASE a < 0 /\ b < 0
    <3>1. q * b = -(n * q) /\ t = q
      BY <1>1, <1>2, <1>3, <2>1
    <3> QED
      BY <1>1, <1>2, <1>5, <2>1, <3>1
  <2>2. CASE a < 0 /\ b >= 0
    <3>1. (-q) * b = -(n * q) /\ t = -q
      BY <1>1, <1>2, <1>4, <2>2
    <3> QED
      BY <1>1, <1>2, <1>5, <2>2, <3>1
  <2>3. CASE a >= 0 /\ b < 0
    <3>1. (-q) * b = n * q /\ t = -q
      BY <1>1, <1>2, <1>4, <2>3
    <3> QED
      BY <1>1, <1>2, <1>5, <2>3, <3>1
  <2>4. CASE a >= 0 /\ b >= 0
    <3>1. q * b = n * q /\ t = q
      BY <1>1, <1>2, <1>3, <2>4
    <3> QED
      BY <1>1, <1>2, <1>5, <2>4, <3>1
  <2> QED
    BY <2>1, <2>2, <2>3, <2>4
<1>8. t \in Int
  BY <1>2 DEF t
<1>9. /\ q = m => a = 0 \/ b \in {1, -1}
  BY <1>1, <1>6
<1>10. Abs(a - t * b) < n /\ (a - t * b # 0 => (a - t * b < 0) = (a < 0))
  BY <1>1, <1>2, <1>7 DEF Abs
<1> QED
  BY <1>6, <1>8, <1>9, <1>10 DEF m, n, q, t

LEMMA DivisionTruncates ==
    ASSUME NEW x \in Word, NEW y \in Word, y # 0
    PROVE  /\ ~QuotientTooLarge(x, y) =>
                 LET remainder == Signed(x) - Signed(Calculation(SDIV, x, y)) * Signed(y)
                 IN  /\ Abs(remainder) < Abs(Signed(y))
                     /\ remainder # 0 => (remainder < 0) = (Signed(x) < 0)
           /\ QuotientTooLarge(x, y) => Calculation(SDIV, x, y) = x
<1> DEFINE a == Signed(x)
           b == Signed(y)
           h == WordMod \div 2
           q == Abs(a) \div Abs(b)
           t == IF (a < 0) = (b < 0) THEN q ELSE -q
<1>1. h \in Nat /\ WordMod = 2 * h /\ h > 0 /\ Modulus(WordMod)
  BY Moduli DEF Modulus
<1>2. a \in -h .. h - 1 /\ b \in -h .. h - 1 /\ Unsigned(a) = x /\ Unsigned(b) = y
  BY WordAsSigned
<1>3. Calculation(SDIV, x, y) = Unsigned(t)
  <2>1. Calculation(SDIV, x, y) = Divide(x, y)
    BY CalculationOf
  <2>2. Divide(x, y) = Unsigned(t)
    BY DEF Divide, Abs
  <2> QED
    BY <2>1, <2>2
<1>4. QuotientTooLarge(x, y) <=> a = -h /\ b = -1
  BY DEF QuotientTooLarge
<1> HIDE DEF a, b, h
<1>5. a \in Int /\ b \in Int /\ b # 0
  <2>1. Unsigned(0) = 0
    BY Sizes DEF Unsigned
  <2> QED
    BY <1>1, <1>2, <2>1
<1>6. /\ q \in 0 .. Abs(a)
      /\ q = Abs(a) => a = 0 \/ b \in {1, -1}
      /\ t \in Int
      /\ Abs(a - t * b) < Abs(b)
      /\ a - t * b # 0 => (a - t * b < 0) = (a < 0)
  BY <1>5, TruncatingDivision
<1>7. Abs(a) \in Nat /\ (a < 0 => Abs(a) = -a) /\ (a >= 0 => Abs(a) = a)
  BY <1>5 DEF Abs
<1>8. ((a < 0) = (b < 0) => t = q) /\ ((a < 0) # (b < 0) => t = -q)
  OBVIOUS
<1>9. ASSUME ~(a = -h /\ b = -1)
      PROVE  Signed(Unsigned(t)) = t
  <2>1. t \in -h .. h - 1
    <3> HIDE DEF q, t
    <3>1. CASE a >= 0
      BY <1>1, <1>2, <1>6, <1>7, <1>8, <3>1
    <3>2. CASE a < 0 /\ b >= 0
      BY <1>1, <1>2, <1>6, <1>7, <1>8, <3>2
    <3>3. CASE a < 0 /\ b < 0
      <4>1. q # h
        BY <1>1, <1>2, <1>5, <1>6, <1>7, <1>9, <3>3
      <4> QED
        BY <1>1, <1>2, <1>6, <1>7, <1>8, <3>3, <4>1
    <3> QED
      BY <1>5, <3>1, <3>2, <3>3
  <2> HIDE DEF t
  <2>2. t = t + WordMod * 0 /\ t \in Int
    BY <1>1, <2>1
  <2>3. SignedPart(t, WordMod) = t
    BY <1>1, <2>1, <2>2, SignedPartIsUnique DEF h
  <2> QED
    BY <2>2, <2>3, SignedOfUnsigned
<1>10. ASSUME a = -h, b = -1
       PROVE  Unsigned(t) = x
  <2>1. Abs(-1) = 1 /\ Abs(-h) = h
    <3>1. \A n \in Int : n >= 0 => Abs(-n) = n
      BY DEF Abs
    <3>2. h \in Int /\ h >= 0
      BY <1>1
    <3> QED
      BY <3>1, <3>2
  <2>2. t = h
    <3>1. h \div 1 = h
      BY <1>1
    <3> QED
      BY <1>1, <1>10, <2>1, <3>1 DEF q, t
  <2>3. h = a + WordMod * 1
    BY <1>1, <1>10
  <2>4. (a + WordMod * 1) % WordMod = a % WordMod
    BY <1>5, Congruent, Sizes, 1 \in Int
  <2> HIDE DEF t
  <2> QED
    BY <1>2, <2>2, <2>3, <2>4 DEF Unsigned
<1> HIDE DEF q, t
<1>11. CASE QuotientTooLarge(x, y)
  BY <1>3, <1>4, <1>10, <1>11
<1>12. CASE ~QuotientTooLarge(x, y)
  BY <1>3, <1>4, <1>6, <1>9, <1>12 DEF a, b
<1> QED
  BY <1>11, <1>12

\* For every width of a byte and every two words, ADD, SUB, MUL and SDIV compute
\* what docs/PROC.md says in terms of the integers.
THEOREM ArithmeticIsThatOfIntegers == \A x, y \in Word : CalculatesAsIntegers(x, y)
<1> SUFFICES ASSUME NEW x \in Word, NEW y \in Word
             PROVE  /\ Signed(Calculation(ADD, x, y)) = SignedPart(Signed(x) + Signed(y), WordMod)
                    /\ Signed(Calculation(SUB, x, y)) = SignedPart(Signed(x) - Signed(y), WordMod)
                    /\ Calculation(MUL, x, y) = (x * y) % WordMod
                    /\ Calculation(MUL, x, y) = Unsigned(Signed(x) * Signed(y))
                    /\ y # 0 /\ ~QuotientTooLarge(x, y) =>
                          LET remainder == Signed(x) - Signed(Calculation(SDIV, x, y)) * Signed(y)
                          IN  /\ Abs(remainder) < Abs(Signed(y))
                              /\ remainder # 0 => (remainder < 0) = (Signed(x) < 0)
                    /\ QuotientTooLarge(x, y) => Calculation(SDIV, x, y) = x
  BY DEF CalculatesAsIntegers
<1>1. QuotientTooLarge(x, y) => y # 0
  <2>1. Signed(0) = 0
    <3>1. 0 % WordMod = 0 /\ 0 < WordMod \div 2
      BY Moduli, Sizes DEF Modulus
    <3> QED
      BY <3>1 DEF Signed, SignedPart
  <2> QED
    BY <2>1 DEF QuotientTooLarge
<1> QED
  BY <1>1, AdditionIsModular, MultiplicationIsModular, DivisionTruncates
Numeric == {ADD, SUB, MUL, UDIV, SDIV} \union EQ .. SGE

\* The operations on numbers return words, as EmulatorProofs assumes of the
\* arithmetic unit.
THEOREM CalculationIsWord ==
    ASSUME NEW op \in Numeric, NEW x \in Word, NEW y \in Word, op \in {UDIV, SDIV} => y # 0
    PROVE  Calculation(op, x, y) \in Word
<1>1. x \in Nat /\ y \in Nat /\ x < WordMod /\ WordMod \in Nat /\ Word = 0 .. WordMod - 1
  BY Sizes DEF Word
<1>2. \A v \in Int : v % WordMod \in Word
  BY <1>1
<1>3. \A condition : Truth(condition) \in Word
  <2>1. 0 \in Word /\ 1 \in Word
    BY <1>1, Moduli, Sizes DEF Modulus
  <2> QED
    BY <2>1 DEF Truth
<1>4. Multiply(x, y) \in Word
  <2>1. Multiply(x, y) = (x * y) % WordMod
    BY MultiplicationIsModular, CalculationOf
  <2>2. x * y \in Int
    BY <1>1
  <2> QED
    BY <1>2, <2>1, <2>2
<1>5. y # 0 => x \div y \in Word
  <2>1. y # 0 => x \div y \in Nat /\ x \div y <= x
    <3> SUFFICES ASSUME y # 0 PROVE x \div y \in Nat /\ x \div y <= x
      OBVIOUS
    <3> DEFINE q == x \div y
               r == x % y
    <3>1. r \in Nat /\ q \in Nat /\ x = r + y * q /\ y >= 1
      BY <1>1, Divided
    <3> HIDE DEF q, r
    <3>2. y * q >= q /\ y * q \in Nat
      BY <1>1, <3>1
    <3> QED
      BY <1>1, <3>1, <3>2 DEF q
  <2> QED
    BY <1>1, <2>1
<1>6. y # 0 => Divide(x, y) \in Word
  <2> DEFINE q == Abs(Signed(x)) \div Abs(Signed(y))
  <2>1. ASSUME y # 0 PROVE q \in Int
    <3>1. Signed(x) \in Int /\ Signed(y) \in Int /\ Signed(y) # 0
      <4>1. Unsigned(0) = 0
        BY Sizes DEF Unsigned
      <4>2. WordMod \div 2 \in Int
        BY Sizes
      <4> QED
        BY <2>1, <4>1, <4>2, WordAsSigned
    <3> QED
      BY <3>1, TruncatingDivision
  <2>2. Divide(x, y) = Unsigned(IF (Signed(x) < 0) = (Signed(y) < 0) THEN q ELSE -q)
    BY DEF Divide, Abs
  <2> HIDE DEF q
  <2> QED
    BY <2>1, <2>2, UnsignedIsWord
<1>7. op \in {ADD, SUB, MUL, UDIV, SDIV, EQ, NE, LT, GE, SLT, SGE}
  BY DEF Numeric, EQ, NE, LT, GE, SLT, SGE
<1>8. CASE op \in {ADD, SUB}
  <2>1. x + y \in Int /\ x - y \in Int
    BY <1>1
  <2> QED
    BY <1>2, <1>8, <2>1, CalculationOf
<1>9. CASE op \in {MUL, UDIV, SDIV}
  BY <1>4, <1>5, <1>6, <1>9, CalculationOf
<1>10. CASE op \in {EQ, NE, LT, GE, SLT, SGE}
  BY <1>3, <1>10, CalculationOf
<1> QED
  BY <1>7, <1>8, <1>9, <1>10

-----------------------------------------------------------------------------
(* Contents of RAM *)

LEMMA BytesAreRead ==
    ASSUME NEW store, IsContents(store), NEW a \in Int, NEW n \in Nat
    PROVE  BytesAt(store, a, n) \in Seq(Byte) /\ Len(BytesAt(store, a, n)) = n
<1>1. \A x : ByteAt(store, x) \in Byte
  BY Sizes DEF IsContents, ByteAt, Byte
<1> QED
  BY <1>1 DEF BytesAt

LEMMA RangeIsAddressed ==
    ASSUME NEW a \in Nat, NEW n \in Nat, InRange(a, n)
    PROVE  Span(a, n) \subseteq Address
BY RamAssumption DEF InRange, Span, Address

LEMMA PutKeepsContents ==
    ASSUME NEW store, IsContents(store), NEW a \in Nat, NEW data \in Seq(Byte),
           InRange(a, Len(data))
    PROVE  IsContents(Put(store, a, data))
<1> DEFINE span == Span(a, Len(data))
           nonzero == {y \in span : data[y - a + 1] # 0}
<1>1. span \subseteq Address
  BY RangeIsAddressed
<1>2. \A y \in nonzero : data[y - a + 1] \in Byte \ {0}
  BY DEF Span
<1>3. \A x \in DOMAIN store : x \in Address /\ store[x] \in Byte \ {0}
  BY DEF IsContents
<1>4. Put(store, a, data) = [x \in (DOMAIN store \ span) \union nonzero |->
                               IF x \in span THEN data[x - a + 1] ELSE store[x]]
  BY DEF Put
<1>5. \A x \in (DOMAIN store \ span) \union nonzero :
        /\ x \in Address
        /\ (IF x \in span THEN data[x - a + 1] ELSE store[x]) \in Byte \ {0}
  <2> HIDE DEF span
  <2> QED
    BY <1>1, <1>2, <1>3
<1> HIDE DEF span, nonzero
<1> QED
  BY <1>4, <1>5 DEF IsContents

LEMMA WipeKeepsContents ==
    ASSUME NEW store, IsContents(store), NEW a, NEW n
    PROVE  IsContents(Wipe(store, a, n))
BY DEF IsContents, Wipe

LEMMA NoBytesIsContents == IsContents(NoBytes)
BY DEF IsContents, NoBytes

\* What a store writes is what a load of the same bytes reads.
LEMMA PutIsRead ==
    ASSUME NEW store, IsContents(store), NEW a \in Nat, NEW data \in Seq(Byte)
    PROVE  BytesAt(Put(store, a, data), a, Len(data)) = data
<1> DEFINE put == Put(store, a, data)
<1>1. \A k \in 1 .. Len(data) : ByteAt(put, a + k - 1) = data[k]
  <2> SUFFICES ASSUME NEW k \in 1 .. Len(data)
               PROVE  ByteAt(put, a + k - 1) = data[k]
    OBVIOUS
  <2> DEFINE x == a + k - 1
             span == Span(a, Len(data))
             nonzero == {y \in span : data[y - a + 1] # 0}
  <2>1. x \in span /\ x - a + 1 = k
    BY DEF Span
  <2>2. put = [z \in (DOMAIN store \ span) \union nonzero |->
                 IF z \in span THEN data[z - a + 1] ELSE store[z]]
    BY DEF Put
  <2>3. x \in nonzero <=> data[k] # 0
    BY <2>1
  <2> HIDE DEF x, span, nonzero, put
  <2>4. DOMAIN put = (DOMAIN store \ span) \union nonzero
    BY <2>2
  <2>5. x \in DOMAIN put <=> data[k] # 0
    BY <2>1, <2>3, <2>4
  <2>6. x \in DOMAIN put => put[x] = data[k]
    BY <2>1, <2>2, <2>4
  <2>7. ByteAt(put, x) = data[k]
    BY <2>5, <2>6 DEF ByteAt
  <2> QED
    BY <2>7 DEF x
<1> HIDE DEF put
<1>2. BytesAt(put, a, Len(data)) = [k \in 1 .. Len(data) |-> data[k]]
  BY <1>1 DEF BytesAt
<1> QED
  BY <1>2 DEF put

-----------------------------------------------------------------------------
(* The machine and what an instruction may make of it *)

\* The arithmetic unit returns a word; a divisor is not zero.
ASSUME AluAssumption ==
    \A op \in RRR, x, y \in Word :
        (op \in {UDIV, SDIV} => y # 0) => Alu(op, x, y) \in Word

\* What the assembler makes of MOV, NEG and NOT computes what they say.
ASSUME PseudoAssumption ==
    \A x \in Word :
        /\ Alu(OR, x, x) = x
        /\ Alu(SUB, 0, x) = Unsigned(-x)
        /\ Alu(XOR, x, WordMod - 1) = WordMod - 1 - x

Typed(m) ==
    /\ m \in [regs : [Register -> Word], spTop : Word, spSize : Word, stackBottom : Word,
              bytes : {m.bytes}, initialized : SUBSET Address,
              pc : 0 .. WordMod, base : Word, end : 0 .. WordMod, tick : Nat,
              error : Errors, warned : SUBSET Address]
    /\ IsContents(m.bytes)

\* The machine as it is when an instruction starts: fetchInstructionWord has
\* found the four bytes of the instruction below 2^32.
Ready(m) ==
    /\ Typed(m) /\ Ok(m)
    /\ m.pc + InstructionSize <= WordMod

Failed(m, r) == \E e \in Errors \ {NoError} : r = [m EXCEPT !.error = e]

\* What a chain of checks makes of m: nothing, or an error.
Checked(m, r) == r = m \/ Failed(m, r)

\* What an instruction may make of m.
Outcome(m, r) ==
    /\ Typed(r)
    /\ r.base = m.base /\ r.end = m.end /\ r.tick = m.tick
    /\ r.error # NoError => Architecture(r) = Architecture(m)

SameStack(m, r) ==
    r.spTop = m.spTop /\ r.spSize = m.spSize /\ r.stackBottom = m.stackBottom

StackKept(m, r) ==
    StackWellFormed(m) =>
        /\ StackWellFormed(r)
        /\ StackLimit(r) = StackLimit(m)
        /\ r.stackBottom = m.stackBottom

\* What the registers hold.
HeldWords == {machine.regs[r] : r \in Register}

\* Whatever a register holds, as the first operand: ADD, SUB, MUL and SDIV compute
\* on integers (Emulator::execute).
IntegerArithmetic == \A x \in HeldWords, y \in Word : CalculatesAsIntegers(x, y)

\* Whatever a register holds, SXT, BSWAP, and a store with the load of what it
\* wrote lose nothing that they may not lose.
ConversionsRoundTrip == \A x \in HeldWords : ConvertsBack(x)

-----------------------------------------------------------------------------
(* Checks and effects *)

LEMMA ErrorsAreErrors ==
    {"invalid program", "program out of memory", "fetch past the program",
     "fetch misaligned", "instruction pointer out of range", "invalid register",
     "invalid status register", "division by zero", "memory out of range",
     "stack overflow", "stack underflow", "invalid opcode"} \subseteq Errors \ {NoError}
BY DEF Errors, NoError

LEMMA CheckFails ==
    ASSUME NEW m, Ready(m), NEW e \in Errors \ {NoError}
    PROVE  Checked(m, [m EXCEPT !.error = e]) /\ ~Ok([m EXCEPT !.error = e])
<1>1. [m EXCEPT !.error = e].error = e
  BY DEF Ready, Typed
<1> QED
  BY <1>1 DEF Checked, Failed, Ok

LEMMA RequireChecks ==
    ASSUME NEW m, Ready(m), NEW c, Checked(m, c), NEW condition,
           NEW e \in Errors \ {NoError}
    PROVE  /\ Checked(m, Require(c, condition, e))
           /\ Ok(Require(c, condition, e)) =>
                Ok(c) /\ condition /\ Require(c, condition, e) = m
<1>1. CASE c = m
  <2>1. CASE condition
    BY <1>1, <2>1 DEF Require, Checked, Ready, Ok
  <2>2. CASE ~condition
    <3>1. Require(c, condition, e) = [m EXCEPT !.error = e]
      BY <1>1, <2>2 DEF Require, Ready
    <3>2. [m EXCEPT !.error = e].error = e
      BY DEF Ready, Typed
    <3> QED
      BY <3>1, <3>2 DEF Checked, Failed, Ok
  <2> QED
    BY <2>1, <2>2
<1>2. CASE Failed(m, c)
  <2>1. ~Ok(c)
    BY <1>2 DEF Failed, Ready, Typed, Ok
  <2> QED
    BY <1>2, <2>1 DEF Require, Checked
<1> QED
  BY <1>1, <1>2 DEF Checked

LEMMA ReadyIsChecked ==
    ASSUME NEW m
    PROVE  Checked(m, m)
BY DEF Checked

\* An error before any effect changes nothing.
LEMMA FailureChangesNothing ==
    ASSUME NEW m, Ready(m), NEW r, Checked(m, r), ~Ok(r)
    PROVE  Outcome(m, r) /\ SameStack(m, r)
<1>1. PICK e \in Errors \ {NoError} : r = [m EXCEPT !.error = e]
  BY DEF Checked, Failed, Ready
<1>2. /\ r.regs = m.regs /\ r.spTop = m.spTop /\ r.spSize = m.spSize
      /\ r.stackBottom = m.stackBottom /\ r.bytes = m.bytes
      /\ r.initialized = m.initialized /\ r.pc = m.pc /\ r.base = m.base
      /\ r.end = m.end /\ r.tick = m.tick
  BY <1>1 DEF Ready, Typed
<1>3. Typed(r)
  BY <1>1, <1>2 DEF Ready, Typed
<1> QED
  BY <1>2, <1>3 DEF Outcome, SameStack, Architecture

LEMMA EffectsStop ==
    ASSUME NEW m, ~Ok(m), NEW x, NEW y
    PROVE  /\ SetRegister(m, x, y) = m
           /\ SetPc(m, y) = m
           /\ AdvancePc(m) = m
BY DEF SetRegister, SetPc, AdvancePc, Require

\* The last effect of an instruction that has not failed: the next address.
LEMMA AdvanceSucceeds ==
    ASSUME NEW m, Ready(m), NEW d, Typed(d), Ok(d),
           d.pc = m.pc, d.base = m.base, d.end = m.end, d.tick = m.tick
    PROVE  Outcome(m, AdvancePc(d)) /\ SameStack(d, AdvancePc(d))
<1>1. AdvancePc(d) = [d EXCEPT !.pc = d.pc + InstructionSize]
  <2>1. d.pc <= WordMod - InstructionSize
    BY Sizes DEF Ready, Typed, InstructionSize
  <2>2. Require(d, d.pc <= WordMod - InstructionSize, "instruction pointer out of range") = d
    BY <2>1 DEF Require
  <2> QED
    BY <2>2 DEF AdvancePc, SetPc
<1>2. d.pc + InstructionSize \in 0 .. WordMod
  BY Sizes DEF Ready, Typed, InstructionSize
<1> DEFINE r == [d EXCEPT !.pc = d.pc + InstructionSize]
<1>3. Typed(r)
  BY <1>2 DEF Typed
<1>4. r.base = m.base /\ r.end = m.end /\ r.tick = m.tick /\ r.error = NoError
  BY DEF Typed, Ok
<1>5. SameStack(d, r)
  BY DEF Typed, SameStack
<1> HIDE DEF r
<1> QED
  BY <1>1, <1>3, <1>4, <1>5 DEF Outcome, r

\* An instruction that checks, then sets one register and goes on.
LEMMA RegisterIsSet ==
    ASSUME NEW m, Ready(m), NEW c, Checked(m, c), NEW d, NEW value,
           Ok(c) => d \in Register /\ value \in Word
    PROVE  /\ Outcome(m, AdvancePc(SetRegister(c, d, value)))
           /\ SameStack(m, AdvancePc(SetRegister(c, d, value)))
<1>1. CASE ~Ok(c)
  BY <1>1, EffectsStop, FailureChangesNothing
<1>2. CASE Ok(c)
  <2>1. c = m
    BY <1>2 DEF Checked, Failed, Ready, Typed, Ok
  <2> DEFINE s == [m EXCEPT !.regs[d] = value]
  <2>2. SetRegister(c, d, value) = s
    BY <1>2, <2>1 DEF SetRegister
  <2>3. /\ Typed(s) /\ Ok(s)
        /\ s.pc = m.pc /\ s.base = m.base /\ s.end = m.end /\ s.tick = m.tick
        /\ SameStack(m, s)
    BY <1>2 DEF Ready, Typed, Ok, SameStack
  <2> HIDE DEF s
  <2>4. Outcome(m, AdvancePc(s)) /\ SameStack(s, AdvancePc(s))
    BY <2>3, AdvanceSucceeds
  <2> QED
    BY <2>2, <2>3, <2>4 DEF SameStack
<1> QED
  BY <1>1, <1>2

\* An instruction that checks, then jumps.
LEMMA PcIsSet ==
    ASSUME NEW m, Ready(m), NEW c, Checked(m, c), NEW target,
           Ok(c) => target \in 0 .. WordMod
    PROVE  Outcome(m, SetPc(c, target)) /\ SameStack(m, SetPc(c, target))
<1>1. CASE ~Ok(c)
  BY <1>1, EffectsStop, FailureChangesNothing
<1>2. CASE Ok(c)
  <2>1. c = m
    BY <1>2 DEF Checked, Failed, Ready, Typed, Ok
  <2> DEFINE s == [m EXCEPT !.pc = target]
  <2>2. SetPc(c, target) = s
    BY <1>2, <2>1 DEF SetPc
  <2>3. /\ Typed(s) /\ s.error = NoError
        /\ s.base = m.base /\ s.end = m.end /\ s.tick = m.tick
        /\ SameStack(m, s)
    BY <1>2 DEF Ready, Typed, Ok, SameStack
  <2> QED
    BY <2>2, <2>3 DEF Outcome
<1> QED
  BY <1>1, <1>2

-----------------------------------------------------------------------------
(* Instructions *)

LEMMA ReadyFacts ==
    ASSUME NEW m, Ready(m)
    PROVE  /\ m.regs \in [Register -> Word]
           /\ {m.spTop, m.spSize, m.stackBottom} \subseteq Word
           /\ m.pc \in Nat /\ m.pc + InstructionSize <= WordMod
           /\ m.initialized \subseteq Address
           /\ IsContents(m.bytes)
BY Sizes DEF Ready, Typed, Word

\* After validateRegisterIndex, the indices are those of registers.
LEMMA RegistersChecked ==
    ASSUME NEW m, Ready(m), NEW indices
    PROVE  /\ Checked(m, RequireRegisters(m, indices))
           /\ Ok(RequireRegisters(m, indices)) =>
                indices \subseteq Register /\ RequireRegisters(m, indices) = m
BY ReadyIsChecked, RequireChecks, ErrorsAreErrors DEF RequireRegisters

LEMMA LoadImmediateOutcome ==
    ASSUME NEW m, Ready(m), NEW i, Fields(i)
    PROVE  Outcome(m, LoadImmediate(m, i)) /\ SameStack(m, LoadImmediate(m, i))
<1> DEFINE value == IF i.op = LI THEN i.imm ELSE (m.regs[i.a] % HalfMod) + HalfMod * i.imm
           c == RequireRegisters(m, {i.a})
<1>1. Checked(m, c) /\ (Ok(c) => i.a \in Register)
  BY RegistersChecked
<1>2. i.a \in Register => value \in Word
  <2> SUFFICES ASSUME i.a \in Register
               PROVE  value \in Word
    OBVIOUS
  <2>1. m.regs[i.a] \in Nat
    BY ReadyFacts, Sizes DEF Word
  <2>2. m.regs[i.a] % HalfMod \in 0 .. HalfMod - 1
    BY <2>1, Sizes
  <2>3. (m.regs[i.a] % HalfMod) + HalfMod * i.imm \in Word
    BY <2>2, HalfIsWord DEF Fields
  <2>4. i.imm \in Word
    BY Sizes DEF Fields, Word
  <2> QED
    BY <2>3, <2>4
<1> HIDE DEF value, c
<1>3. /\ Outcome(m, AdvancePc(SetRegister(c, i.a, value)))
      /\ SameStack(m, AdvancePc(SetRegister(c, i.a, value)))
  BY <1>1, <1>2, RegisterIsSet
<1> QED
  BY <1>3 DEF LoadImmediate, value, c

LEMMA CalculateOutcome ==
    ASSUME NEW m, Ready(m), NEW i, Fields(i), i.op \in RRR
    PROVE  Outcome(m, Calculate(m, i)) /\ SameStack(m, Calculate(m, i))
<1> DEFINE r == RequireRegisters(m, {i.a, i.b, i.c})
           divides == i.op \in {UDIV, SDIV} => m.regs[i.c] # 0
           c == Require(r, divides, "division by zero")
           value == Alu(i.op, m.regs[i.b], m.regs[i.c])
<1>1. Checked(m, r) /\ (Ok(r) => {i.a, i.b, i.c} \subseteq Register)
  BY RegistersChecked
<1>2. Checked(m, c) /\ (Ok(c) => Ok(r) /\ divides)
  <2>1. "division by zero" \in Errors \ {NoError}
    BY ErrorsAreErrors
  <2> HIDE DEF r
  <2> QED
    BY <1>1, <2>1, RequireChecks
<1>3. Ok(c) => i.a \in Register /\ value \in Word
  <2> SUFFICES ASSUME Ok(c)
               PROVE  i.a \in Register /\ value \in Word
    OBVIOUS
  <2>1. {i.a, i.b, i.c} \subseteq Register /\ divides
    BY <1>1, <1>2
  <2>2. m.regs[i.b] \in Word /\ m.regs[i.c] \in Word
    BY <2>1, ReadyFacts
  <2> QED
    BY <2>1, <2>2, AluAssumption
<1> HIDE DEF c, value
<1>4. /\ Outcome(m, AdvancePc(SetRegister(c, i.a, value)))
      /\ SameStack(m, AdvancePc(SetRegister(c, i.a, value)))
  BY <1>2, <1>3, RegisterIsSet
<1> QED
  BY <1>4 DEF Calculate, c, value

LEMMA ConvertOutcome ==
    ASSUME NEW m, Ready(m), NEW i, Fields(i)
    PROVE  Outcome(m, Convert(m, i)) /\ SameStack(m, Convert(m, i))
<1> DEFINE c == RequireRegisters(m, {i.a, i.b})
           value == IF i.op = SXT THEN SignExtend(m.regs[i.b], i.c)
                    ELSE ByteSwap(m.regs[i.b], i.c)
<1>1. Checked(m, c) /\ (Ok(c) => {i.a, i.b} \subseteq Register)
  BY RegistersChecked
<1>2. {i.a, i.b} \subseteq Register => i.a \in Register /\ value \in Word
  BY ReadyFacts, SignExtensionIsWord, SwapIsWord
<1> HIDE DEF c, value
<1>3. /\ Outcome(m, AdvancePc(SetRegister(c, i.a, value)))
      /\ SameStack(m, AdvancePc(SetRegister(c, i.a, value)))
  BY <1>1, <1>2, RegisterIsSet
<1> QED
  BY <1>3 DEF Convert, c, value

LEMMA AbsoluteJumpOutcome ==
    ASSUME NEW m, Ready(m), NEW i, Fields(i)
    PROVE  Outcome(m, AbsoluteJump(m, i)) /\ SameStack(m, AbsoluteJump(m, i))
<1> DEFINE c == RequireRegisters(m, {i.a})
<1>1. Checked(m, c) /\ (Ok(c) => i.a \in Register)
  BY RegistersChecked
<1>2. i.a \in Register => m.regs[i.a] \in 0 .. WordMod
  BY ReadyFacts, Sizes DEF Word
<1> HIDE DEF c
<1> QED
  BY <1>1, <1>2, PcIsSet DEF AbsoluteJump, c

LEMMA RelativeJumpOutcome ==
    ASSUME NEW m, Ready(m), NEW i, Fields(i)
    PROVE  Outcome(m, RelativeJump(m, i)) /\ SameStack(m, RelativeJump(m, i))
<1> DEFINE target == m.pc + InstructionSize * SignedPart(i.imm, HalfMod)
           c == Require(m, target \in 0 .. WordMod, "instruction pointer out of range")
<1>1. Checked(m, c) /\ (Ok(c) => target \in 0 .. WordMod)
  <2> HIDE DEF target
  <2> QED
    BY ReadyIsChecked, CheckFails, ErrorsAreErrors DEF Require, Ready
<1> HIDE DEF target, c
<1>2. Outcome(m, SetPc(c, target)) /\ SameStack(m, SetPc(c, target))
  BY <1>1, PcIsSet
<1> QED
  BY <1>2 DEF RelativeJump, c, target

\* No effect but the next address.
LEMMA AdvanceOutcome ==
    ASSUME NEW m, Ready(m), NEW c, Checked(m, c)
    PROVE  Outcome(m, AdvancePc(c)) /\ SameStack(m, AdvancePc(c))
<1>1. CASE ~Ok(c)
  BY <1>1, EffectsStop, FailureChangesNothing
<1>2. CASE Ok(c)
  <2>1. c = m
    BY <1>2 DEF Checked, Failed, Ready, Typed, Ok
  <2> QED
    BY <2>1, AdvanceSucceeds DEF Ready
<1> QED
  BY <1>1, <1>2

LEMMA BranchOutcome ==
    ASSUME NEW m, Ready(m), NEW i, Fields(i)
    PROVE  Outcome(m, Branch(m, i)) /\ SameStack(m, Branch(m, i))
<1> DEFINE c == RequireRegisters(m, {i.a})
<1>1. Checked(m, c) /\ (Ok(c) => c = m)
  BY RegistersChecked
<1> HIDE DEF c
<1>2. Branch(m, i) = AdvancePc(c) \/ (Ok(c) /\ Branch(m, i) = RelativeJump(c, i))
  BY DEF Branch, c
<1> QED
  BY <1>1, <1>2, AdvanceOutcome, RelativeJumpOutcome

LEMMA AddressIsWord ==
    ASSUME NEW m, Ready(m), NEW i, Fields(i), i.b \in Register
    PROVE  EffectiveAddress(m, i) \in Nat
<1>1. m.regs[i.b] \in Nat /\ i.c \in Nat
  BY ReadyFacts, Sizes DEF Word, Fields, Byte
<1> QED
  BY <1>1, Sizes DEF EffectiveAddress

LEMMA AccessIsChecked ==
    ASSUME NEW m, Ready(m), NEW i
    PROVE  /\ Checked(m, CheckedAccess(m, i))
           /\ Ok(CheckedAccess(m, i)) =>
                /\ CheckedAccess(m, i) = m
                /\ {i.a, i.b} \subseteq Register
                /\ InRange(EffectiveAddress(m, i), AccessSize(i.op))
<1> DEFINE r == RequireRegisters(m, {i.a, i.b})
<1>1. Checked(m, r) /\ (Ok(r) => {i.a, i.b} \subseteq Register /\ r = m)
  BY RegistersChecked
<1> HIDE DEF r
<1>2. CheckedAccess(m, i) =
        Require(r, InRange(EffectiveAddress(m, i), AccessSize(i.op)), "memory out of range")
  BY DEF CheckedAccess, r
<1>3. "memory out of range" \in Errors \ {NoError}
  BY ErrorsAreErrors
<1> QED
  BY <1>1, <1>2, <1>3, CheckFails DEF Require

LEMMA LoadMemoryOutcome ==
    ASSUME NEW m, Ready(m), NEW i, Fields(i), i.op \in Loads
    PROVE  Outcome(m, LoadMemory(m, i)) /\ SameStack(m, LoadMemory(m, i))
<1> DEFINE a == EffectiveAddress(m, i)
           n == AccessSize(i.op)
           c == CheckedAccess(m, i)
           read == IF Ok(c) /\ warning
                   THEN [c EXCEPT !.warned = Span(a, n) \ m.initialized] ELSE c
           value == FromBytes(BytesAt(m.bytes, a, n))
<1>1. n \in {1, 2, 4}
  BY DEF AccessSize, Loads, LDB, LDH, LDW, Stores, STB, STH, STW
<1>2. Checked(m, c) /\ (Ok(c) => c = m /\ {i.a, i.b} \subseteq Register /\ InRange(a, n))
  BY AccessIsChecked
<1>3. LoadMemory(m, i) = AdvancePc(SetRegister(read, i.a, value))
  BY DEF LoadMemory
<1>4. CASE ~Ok(c)
  <2>1. read = c
    BY <1>4
  <2> HIDE DEF read, value, c
  <2> QED
    BY <1>2, <1>3, <1>4, <2>1, EffectsStop, FailureChangesNothing
<1>5. CASE Ok(c)
  <2>1. c = m /\ i.a \in Register /\ i.b \in Register /\ InRange(a, n)
    BY <1>2, <1>5
  <2>2. a \in Nat
    BY <2>1, AddressIsWord
  <2>3. value \in Word
    <3> HIDE DEF n, a
    <3>1. BytesAt(m.bytes, a, n) \in Seq(Byte) /\ Len(BytesAt(m.bytes, a, n)) = n
      BY <1>1, <2>2, ReadyFacts, BytesAreRead
    <3> QED
      BY <1>1, <3>1, BytesMakeAWord
  <2>4. Span(a, n) \subseteq Address
    <3> HIDE DEF n, a
    <3> QED
      BY <1>1, <2>1, <2>2, RangeIsAddressed
  <2> HIDE DEF value, a, n, c
  <2>5. /\ Ready(read)
        /\ read.pc = m.pc /\ read.base = m.base /\ read.end = m.end /\ read.tick = m.tick
        /\ SameStack(m, read)
    <3>1. CASE warning
      <4>1. read = [m EXCEPT !.warned = Span(a, n) \ m.initialized]
        BY <1>5, <2>1, <3>1
      <4> QED
        BY <2>4, <4>1 DEF Ready, Typed, Ok, SameStack
    <3>2. CASE ~warning
      BY <2>1, <3>2 DEF SameStack, Ready
    <3> QED
      BY <3>1, <3>2
  <2> HIDE DEF read
  <2> DEFINE s == [read EXCEPT !.regs[i.a] = value]
  <2>6. SetRegister(read, i.a, value) = s
    BY <2>5 DEF SetRegister, Ready
  <2>7. /\ Typed(s) /\ Ok(s)
        /\ s.pc = m.pc /\ s.base = m.base /\ s.end = m.end /\ s.tick = m.tick
        /\ SameStack(m, s)
    BY <2>1, <2>3, <2>5 DEF Ready, Typed, Ok, SameStack
  <2> HIDE DEF s
  <2>8. Outcome(m, AdvancePc(s)) /\ SameStack(s, AdvancePc(s))
    BY <2>7, AdvanceSucceeds
  <2> QED
    BY <1>3, <2>6, <2>7, <2>8 DEF SameStack
<1> QED
  BY <1>4, <1>5

LEMMA StoreMemoryOutcome ==
    ASSUME NEW m, Ready(m), NEW i, Fields(i), i.op \in Stores
    PROVE  Outcome(m, StoreMemory(m, i)) /\ SameStack(m, StoreMemory(m, i))
<1> DEFINE a == EffectiveAddress(m, i)
           n == AccessSize(i.op)
           c == CheckedAccess(m, i)
           data == ToBytes(m.regs[i.a], n)
           put == Put(m.bytes, a, data)
           all == m.initialized \union Span(a, n)
<1>1. n \in {1, 2, 4}
  BY DEF AccessSize, Loads, LDB, LDH, LDW, Stores, STB, STH, STW
<1>2. Checked(m, c) /\ (Ok(c) => c = m /\ {i.a, i.b} \subseteq Register /\ InRange(a, n))
  BY AccessIsChecked
<1>3. CASE ~Ok(c)
  <2>1. StoreMemory(m, i) = AdvancePc(c)
    BY <1>3 DEF StoreMemory
  <2> HIDE DEF c
  <2> QED
    BY <1>2, <1>3, <2>1, AdvanceOutcome
<1>4. CASE Ok(c)
  <2>1. c = m /\ i.a \in Register /\ i.b \in Register /\ InRange(a, n)
    BY <1>2, <1>4
  <2>2. a \in Nat
    BY <2>1, AddressIsWord
  <2>3. data \in Seq(Byte) /\ Len(data) = n
    <3> HIDE DEF n
    <3> QED
      BY <1>1, <2>1, ReadyFacts, WordHasBytes
  <2>4. IsContents(put) /\ all \subseteq Address
    <3> HIDE DEF a, n, data
    <3>1. IsContents(put)
      BY <2>1, <2>2, <2>3, ReadyFacts, PutKeepsContents
    <3>2. Span(a, n) \subseteq Address
      BY <1>1, <2>1, <2>2, RangeIsAddressed
    <3> QED
      BY <3>1, <3>2, ReadyFacts
  <2> DEFINE s == [m EXCEPT !.bytes = put, !.initialized = all]
  <2>5. StoreMemory(m, i) = AdvancePc(s)
    BY <1>4, <2>1 DEF StoreMemory
  <2> HIDE DEF put, all
  <2>6. /\ Typed(s) /\ Ok(s)
        /\ s.pc = m.pc /\ s.base = m.base /\ s.end = m.end /\ s.tick = m.tick
        /\ SameStack(m, s)
    BY <2>4 DEF Ready, Typed, Ok, SameStack
  <2> HIDE DEF s
  <2>7. Outcome(m, AdvancePc(s)) /\ SameStack(s, AdvancePc(s))
    BY <2>6, AdvanceSucceeds
  <2> QED
    BY <2>5, <2>6, <2>7 DEF SameStack
<1> QED
  BY <1>3, <1>4

LEMMA CallSubroutineOutcome ==
    ASSUME NEW m, Ready(m), NEW i, Fields(i)
    PROVE  Outcome(m, CallSubroutine(m, i)) /\ SameStack(m, CallSubroutine(m, i))
<1> DEFINE r == RequireRegisters(m, {i.a})
           c == Require(r, m.pc <= WordMod - 1 - InstructionSize,
                        "instruction pointer out of range")
<1>1. Checked(m, r) /\ (Ok(r) => i.a \in Register /\ r = m)
  BY RegistersChecked
<1>2. /\ Checked(m, c)
      /\ Ok(c) => c = m /\ i.a \in Register /\ m.pc <= WordMod - 1 - InstructionSize
  <2>1. "instruction pointer out of range" \in Errors \ {NoError}
    BY ErrorsAreErrors
  <2> HIDE DEF r
  <2> QED
    BY <1>1, <2>1, CheckFails DEF Require
<1>3. CallSubroutine(m, i) =
        SetPc(SetRegister(c, ReturnAddress, m.pc + InstructionSize), m.regs[i.a])
  BY DEF CallSubroutine
<1> HIDE DEF c
<1>4. CASE ~Ok(c)
  BY <1>2, <1>3, <1>4, EffectsStop, FailureChangesNothing
<1>5. CASE Ok(c)
  <2> DEFINE s == [m EXCEPT !.regs[ReturnAddress] = m.pc + InstructionSize]
  <2>1. SetRegister(c, ReturnAddress, m.pc + InstructionSize) = s
    BY <1>2, <1>5 DEF SetRegister
  <2>2. m.pc + InstructionSize \in Word /\ ReturnAddress \in Register
    BY <1>2, <1>5, ReadyFacts, Sizes
       DEF Word, InstructionSize, Register, ReturnAddress
  <2>3. /\ Typed(s) /\ Ok(s)
        /\ s.base = m.base /\ s.end = m.end /\ s.tick = m.tick
        /\ SameStack(m, s)
    BY <2>2 DEF Ready, Typed, Ok, SameStack
  <2>4. m.regs[i.a] \in 0 .. WordMod
    BY <1>2, <1>5, ReadyFacts, Sizes DEF Word
  <2> HIDE DEF s
  <2> DEFINE t == [s EXCEPT !.pc = m.regs[i.a]]
  <2>5. SetPc(s, m.regs[i.a]) = t
    BY <2>3 DEF SetPc
  <2>6. /\ Typed(t) /\ t.error = NoError
        /\ t.base = m.base /\ t.end = m.end /\ t.tick = m.tick
        /\ SameStack(m, t)
    BY <2>3, <2>4 DEF Typed, Ok, SameStack
  <2> QED
    BY <1>3, <2>1, <2>5, <2>6 DEF Outcome
<1> QED
  BY <1>4, <1>5

LEMMA ReadStatusOutcome ==
    ASSUME NEW m, Ready(m), NEW i, Fields(i)
    PROVE  Outcome(m, ReadStatus(m, i)) /\ SameStack(m, ReadStatus(m, i))
<1> DEFINE r == RequireRegisters(m, {i.a})
           known == Require(r, i.b \in StatusRegister, "invalid status register")
           c == Require(known, i.b = Ip => m.pc < WordMod, "instruction pointer out of range")
           value == StatusValue(m, i.b)
<1>1. Checked(m, r) /\ (Ok(r) => i.a \in Register /\ r = m)
  BY RegistersChecked
<1>2. /\ Checked(m, known)
      /\ Ok(known) => i.a \in Register /\ i.b \in StatusRegister /\ known = m
  <2>1. "invalid status register" \in Errors \ {NoError}
    BY ErrorsAreErrors
  <2> HIDE DEF r
  <2> QED
    BY <1>1, <2>1, CheckFails DEF Require
<1>3. Checked(m, c) /\ (Ok(c) => i.a \in Register /\ i.b \in StatusRegister)
  <2>1. "instruction pointer out of range" \in Errors \ {NoError}
    BY ErrorsAreErrors
  <2> HIDE DEF known
  <2> QED
    BY <1>2, <2>1, CheckFails DEF Require
<1>4. i.b \in StatusRegister => value \in Word
  BY ReadyFacts, Sizes DEF StatusValue, StatusRegister, Word, InstructionSize, Ip, SpTop, SpSize
<1> HIDE DEF c, value
<1>5. /\ Outcome(m, AdvancePc(SetRegister(c, i.a, value)))
      /\ SameStack(m, AdvancePc(SetRegister(c, i.a, value)))
  BY <1>3, <1>4, RegisterIsSet
<1> QED
  BY <1>5 DEF ReadStatus, c, value

\* The one instruction that may set up another stack.
LEMMA WriteStatusOutcome ==
    ASSUME NEW m, Ready(m), NEW i, Fields(i)
    PROVE  /\ Outcome(m, WriteStatus(m, i))
           /\ i.a \notin {SpTop, SpSize} => SameStack(m, WriteStatus(m, i))
<1> DEFINE value == m.regs[i.b]
           r == RequireRegisters(m, {i.b})
           c == Require(r, i.a \in StatusRegister, "invalid status register")
<1>1. Checked(m, r) /\ (Ok(r) => i.b \in Register /\ r = m)
  BY RegistersChecked
<1>2. Checked(m, c) /\ (Ok(c) => c = m /\ i.b \in Register /\ i.a \in StatusRegister)
  <2>1. "invalid status register" \in Errors \ {NoError}
    BY ErrorsAreErrors
  <2> HIDE DEF r
  <2> QED
    BY <1>1, <2>1, CheckFails DEF Require
<1>3. Ok(c) => value \in Word /\ value \in 0 .. WordMod
  <2> HIDE DEF c
  <2> QED
    BY <1>2, ReadyFacts, Sizes DEF Word
<1> DEFINE written(v) ==
             CASE ~Ok(c) -> c
               [] Ok(c) /\ i.a = Ip -> SetPc(c, v)
               [] Ok(c) /\ i.a = SpTop ->
                     AdvancePc([c EXCEPT !.spTop = v, !.stackBottom = v])
               [] Ok(c) /\ i.a = SpSize -> AdvancePc([c EXCEPT !.spSize = v])
<1>a. WriteStatus(m, i) = written(value)
  BY DEF WriteStatus
<1>b. Ip # SpTop /\ Ip # SpSize /\ SpTop # SpSize
  BY DEF Ip, SpTop, SpSize
<1> HIDE DEF c, value
<1>4. CASE ~Ok(c)
  <2>1. WriteStatus(m, i) = c
    BY <1>4, <1>a
  <2> QED
    BY <1>2, <1>4, <2>1, FailureChangesNothing
<1>5. CASE Ok(c) /\ i.a = Ip
  <2>1. WriteStatus(m, i) = SetPc(c, value)
    BY <1>5, <1>a, <1>b
  <2> QED
    BY <1>2, <1>3, <2>1, PcIsSet
<1>6. CASE Ok(c) /\ i.a = SpTop
  <2> DEFINE s == [m EXCEPT !.spTop = value, !.stackBottom = value]
  <2>1. WriteStatus(m, i) = AdvancePc(s)
    BY <1>2, <1>6, <1>a, <1>b
  <2>2. /\ Typed(s) /\ Ok(s)
        /\ s.pc = m.pc /\ s.base = m.base /\ s.end = m.end /\ s.tick = m.tick
    BY <1>3, <1>6 DEF Ready, Typed, Ok
  <2> HIDE DEF s
  <2>3. Outcome(m, WriteStatus(m, i))
    BY <2>1, <2>2, AdvanceSucceeds
  <2> QED
    BY <1>6, <2>3
<1>7. CASE Ok(c) /\ i.a = SpSize
  <2> DEFINE s == [m EXCEPT !.spSize = value]
  <2>1. WriteStatus(m, i) = AdvancePc(s)
    BY <1>2, <1>7, <1>a, <1>b
  <2>2. /\ Typed(s) /\ Ok(s)
        /\ s.pc = m.pc /\ s.base = m.base /\ s.end = m.end /\ s.tick = m.tick
    BY <1>3, <1>7 DEF Ready, Typed, Ok
  <2> HIDE DEF s
  <2>3. Outcome(m, WriteStatus(m, i))
    BY <2>1, <2>2, AdvanceSucceeds
  <2> QED
    BY <1>7, <2>3
<1> QED
  BY <1>2, <1>4, <1>5, <1>6, <1>7 DEF StatusRegister

LEMMA InvalidOpcodeOutcome ==
    ASSUME NEW m, Ready(m), NEW i, i.op \notin Opcodes
    PROVE  Outcome(m, InvalidOpcode(m, i)) /\ SameStack(m, InvalidOpcode(m, i))
<1>1. "invalid opcode" \in Errors \ {NoError}
  BY ErrorsAreErrors
<1>2. Checked(m, InvalidOpcode(m, i)) /\ ~Ok(InvalidOpcode(m, i))
  BY <1>1, CheckFails DEF InvalidOpcode, Require, Ready
<1> QED
  BY <1>2, FailureChangesNothing

LEMMA WordIsUnsigned ==
    ASSUME NEW v \in Word
    PROVE  Unsigned(v) = v
BY Sizes DEF Unsigned, Word

\* Within a well-formed stack no sum or difference wraps around.
LEMMA StackArithmetic ==
    ASSUME NEW m, Ready(m), NEW delta \in Int,
           -delta <= m.spSize, delta > 0 => m.spTop + delta <= m.stackBottom,
           NEW r, r.spTop = Unsigned(m.spTop + delta), r.spSize = Unsigned(m.spSize + delta),
           r.stackBottom = m.stackBottom
    PROVE  StackKept(m, r)
<1> SUFFICES ASSUME StackWellFormed(m)
             PROVE  /\ StackWellFormed(r)
                    /\ StackLimit(r) = StackLimit(m)
                    /\ r.stackBottom = m.stackBottom
  BY DEF StackKept
<1>1. /\ m.spTop \in 0 .. WordMod - 1 /\ m.spSize \in 0 .. WordMod - 1
      /\ m.stackBottom \in 0 .. WordMod - 1
  BY ReadyFacts DEF Word
<1>2. 0 <= m.spTop - m.spSize /\ m.spTop <= m.stackBottom
  BY DEF StackWellFormed, StackLimit
<1>3. m.spTop + delta \in 0 .. m.stackBottom /\ m.spSize + delta \in 0 .. m.spTop + delta
  BY <1>1, <1>2, Sizes
<1>4. m.spTop + delta \in Word /\ m.spSize + delta \in Word
  BY <1>1, <1>3, Sizes DEF Word
<1>5. r.spTop = m.spTop + delta /\ r.spSize = m.spSize + delta
  BY <1>4, WordIsUnsigned
<1> QED
  BY <1>1, <1>2, <1>3, <1>5 DEF StackWellFormed, StackLimit

\* The machine with another RAM.
WithRam(m, bytes, initialized) == [m EXCEPT !.bytes = bytes, !.initialized = initialized]

\* Releasing memory fails without a trace or changes only RAM.
LEMMA ReleaseOutcome ==
    ASSUME NEW m, Ready(m), NEW a \in Nat, NEW n \in Nat
    PROVE  \/ Failed(m, ReleaseStack(m, a, n))
           \/ \E bytes : \E initialized \in SUBSET Address :
                 /\ IsContents(bytes)
                 /\ ReleaseStack(m, a, n) = WithRam(m, bytes, initialized)
<1>1. CASE ~InRange(a, n)
  <2>1. "memory out of range" \in Errors \ {NoError}
    BY ErrorsAreErrors
  <2>2. Require(m, InRange(a, n), "memory out of range") =
          [m EXCEPT !.error = "memory out of range"]
    BY <1>1 DEF Require, Ready
  <2>3. ~Ok([m EXCEPT !.error = "memory out of range"])
    BY <2>1, CheckFails
  <2>4. ReleaseStack(m, a, n) = [m EXCEPT !.error = "memory out of range"]
    BY <2>2, <2>3 DEF ReleaseStack
  <2> QED
    BY <2>1, <2>4 DEF Failed
<1>2. CASE InRange(a, n)
  <2> DEFINE bytes == IF clearStack THEN Wipe(m.bytes, a, n) ELSE m.bytes
             initialized == m.initialized \ Span(a, n)
  <2>1. Require(m, InRange(a, n), "memory out of range") = m
    BY <1>2 DEF Require
  <2>2. ReleaseStack(m, a, n) = WithRam(m, bytes, initialized)
    BY <2>1 DEF ReleaseStack, Ready, WithRam
  <2>3. IsContents(bytes) /\ initialized \in SUBSET Address
    BY ReadyFacts, WipeKeepsContents
  <2> HIDE DEF bytes, initialized
  <2> QED
    BY <2>2, <2>3
<1> QED
  BY <1>1, <1>2

LEMMA DeltaIsInteger ==
    ASSUME NEW m, Ready(m), NEW i, Fields(i),
           i.op = ASPI \/ i.b \in Register
    PROVE  StackDelta(m, i) \in Int
<1>1. i.imm \in Int
  BY Sizes DEF Fields
<1>2. i.b \in Register => m.regs[i.b] \in Int
  BY ReadyFacts, Sizes DEF Word
<1> QED
  BY <1>1, <1>2, SignedIsInteger DEF StackDelta, Signed

LEMMA AdvanceStackPointerOutcome ==
    ASSUME NEW m, Ready(m), NEW i, Fields(i), i.op \in {ASPI, ASPR}
    PROVE  /\ Outcome(m, AdvanceStackPointer(m, i))
           /\ StackKept(m, AdvanceStackPointer(m, i))
<1> DEFINE delta == StackDelta(m, i)
           top == m.spTop + delta
           indices == IF i.op = ASPI THEN {i.a} ELSE {i.a, i.b}
           registers == RequireRegisters(m, indices)
           fits == Require(registers, -delta <= m.spSize, "stack overflow")
           c == Require(fits, delta > 0 => top <= m.stackBottom, "stack underflow")
           released == IF Ok(c) /\ delta > 0 THEN ReleaseStack(c, m.spTop, delta) ELSE c
           moved == IF Ok(released)
                    THEN [released EXCEPT !.spTop = Unsigned(top),
                                          !.spSize = Unsigned(@ + delta)]
                    ELSE released
           last == AdvancePc(SetRegister(moved, i.a, Unsigned(top)))
<1>1. Checked(m, registers) /\ (Ok(registers) => indices \subseteq Register /\ registers = m)
  BY RegistersChecked
<1>2. /\ Checked(m, fits)
      /\ Ok(fits) => indices \subseteq Register /\ -delta <= m.spSize /\ fits = m
  <2>1. "stack overflow" \in Errors \ {NoError}
    BY ErrorsAreErrors
  <2> HIDE DEF registers, delta, indices
  <2> QED
    BY <1>1, <2>1, CheckFails DEF Require
<1>3. /\ Checked(m, c)
      /\ Ok(c) =>
           /\ indices \subseteq Register
           /\ -delta <= m.spSize
           /\ delta > 0 => top <= m.stackBottom
           /\ c = m
  <2>1. "stack underflow" \in Errors \ {NoError}
    BY ErrorsAreErrors
  <2> HIDE DEF fits, delta, indices, top
  <2> QED
    BY <1>2, <2>1, CheckFails DEF Require
<1>4. AdvanceStackPointer(m, i) = last
  BY DEF AdvanceStackPointer
<1> HIDE DEF c, delta, indices
<1>5. CASE ~Ok(released)
  <2>1. Checked(m, released)
    <3>1. CASE Ok(c) /\ delta > 0
      <4>1. delta \in Nat
        <5>1. i.op = ASPI \/ i.b \in Register
          BY <1>3, <3>1 DEF indices
        <5> QED
          BY <3>1, <5>1, DeltaIsInteger DEF delta
      <4>2. m.spTop \in Nat
        BY ReadyFacts, Sizes DEF Word
      <4>3. released = ReleaseStack(m, m.spTop, delta)
        BY <1>3, <3>1
      <4>4. \A bytes, initialized : Ok(WithRam(m, bytes, initialized))
        BY DEF Ready, Typed, Ok, WithRam
      <4> HIDE DEF released
      <4>5. Failed(m, released)
        BY <1>5, <4>1, <4>2, <4>3, <4>4, ReleaseOutcome
      <4> QED
        BY <4>5 DEF Checked
    <3>2. CASE ~(Ok(c) /\ delta > 0)
      BY <1>3, <3>2
    <3> QED
      BY <3>1, <3>2
  <2>2. last = released
    BY <1>5, EffectsStop
  <2> HIDE DEF released, last
  <2>3. Outcome(m, released) /\ SameStack(m, released)
    BY <1>5, <2>1, FailureChangesNothing
  <2> QED
    BY <1>4, <2>2, <2>3 DEF SameStack, StackKept, StackWellFormed, StackLimit
<1>6. CASE Ok(released)
  <2>1. Ok(c)
    BY <1>6
  <2>2. /\ i.a \in Register
        /\ delta \in Int
    <3>1. i.a \in Register /\ (i.op = ASPI \/ i.b \in Register)
      BY <1>3, <2>1 DEF indices
    <3> QED
      BY <3>1, DeltaIsInteger DEF delta
  <2>3. m.spTop \in Nat /\ m.spSize \in Nat
    BY ReadyFacts, Sizes DEF Word
  <2>4. PICK bytes : \E initialized \in SUBSET Address :
          /\ IsContents(bytes)
          /\ released = WithRam(m, bytes, initialized)
    <3>1. CASE delta > 0
      <4>1. released = ReleaseStack(m, m.spTop, delta) /\ delta \in Nat
        BY <1>3, <2>1, <2>2, <3>1
      <4>2. ~Failed(m, released)
        BY <1>6 DEF Failed, Ready, Typed, Ok
      <4> HIDE DEF released
      <4> QED
        BY <2>3, <4>1, <4>2, ReleaseOutcome
    <3>2. CASE ~(delta > 0)
      <4>1. released = m
        BY <1>3, <2>1, <3>2
      <4>2. m = [m EXCEPT !.bytes = m.bytes, !.initialized = m.initialized]
        BY DEF Ready, Typed
      <4> QED
        BY <4>1, <4>2, ReadyFacts DEF WithRam
    <3> QED
      BY <3>1, <3>2
  <2>5. PICK initialized \in SUBSET Address :
          /\ IsContents(bytes)
          /\ released = [m EXCEPT !.bytes = bytes, !.initialized = initialized]
    BY <2>4 DEF WithRam
  <2>6. Unsigned(top) \in Word /\ Unsigned(m.spSize + delta) \in Word
    BY <2>2, <2>3, UnsignedIsWord
  <2> DEFINE s == [m EXCEPT !.bytes = bytes, !.initialized = initialized,
                            !.spTop = Unsigned(top), !.spSize = Unsigned(m.spSize + delta)]
  <2>7. moved = s
    <3> HIDE DEF released
    <3>1. moved = [released EXCEPT !.spTop = Unsigned(top),
                                   !.spSize = Unsigned(released.spSize + delta)]
      BY <1>6
    <3>2. released.spSize = m.spSize
      BY <2>5 DEF Ready, Typed
    <3> QED
      BY <2>5, <3>1, <3>2 DEF Ready, Typed
  <2> HIDE DEF top, moved
  <2>8. /\ Typed(s) /\ Ok(s)
        /\ s.pc = m.pc /\ s.base = m.base /\ s.end = m.end /\ s.tick = m.tick
        /\ s.spTop = Unsigned(top) /\ s.spSize = Unsigned(m.spSize + delta)
        /\ s.stackBottom = m.stackBottom
    BY <2>5, <2>6 DEF Ready, Typed, Ok
  <2> HIDE DEF s
  <2> DEFINE t == [s EXCEPT !.regs[i.a] = Unsigned(top)]
  <2>9. SetRegister(s, i.a, Unsigned(top)) = t
    BY <2>8 DEF SetRegister
  <2>10. /\ Typed(t) /\ Ok(t)
         /\ t.pc = m.pc /\ t.base = m.base /\ t.end = m.end /\ t.tick = m.tick
         /\ SameStack(s, t)
    BY <2>2, <2>6, <2>8 DEF Typed, Ok, SameStack
  <2> HIDE DEF t
  <2>11. Outcome(m, AdvancePc(t)) /\ SameStack(t, AdvancePc(t))
    BY <2>10, AdvanceSucceeds
  <2>12. last = AdvancePc(t)
    BY <2>7, <2>9
  <2>13. /\ last.spTop = Unsigned(m.spTop + delta)
         /\ last.spSize = Unsigned(m.spSize + delta)
         /\ last.stackBottom = m.stackBottom
    BY <2>8, <2>10, <2>11, <2>12 DEF SameStack, top
  <2>14. StackKept(m, last)
    <3> HIDE DEF last
    <3>1. -delta <= m.spSize /\ (delta > 0 => m.spTop + delta <= m.stackBottom)
      BY <1>3, <2>1 DEF top
    <3> QED
      BY <2>2, <2>13, <3>1, StackArithmetic
  <2> QED
    BY <1>4, <2>11, <2>12, <2>14
<1> QED
  BY <1>5, <1>6

-----------------------------------------------------------------------------
(* What an instruction has done that did not throw *)

\* It changed at most registers and the instruction pointer.
OnlyRegisters(m, r) ==
    /\ r.bytes = m.bytes /\ r.initialized = m.initialized
    /\ r.spTop = m.spTop /\ r.spSize = m.spSize

\* Its last effect moved the instruction pointer on.
LEMMA AdvanceShows ==
    ASSUME NEW m, Ready(m), NEW d, Typed(d), Ok(d), d.pc = m.pc
    PROVE  /\ Ok(AdvancePc(d))
           /\ AdvancePc(d).regs = d.regs
           /\ OnlyRegisters(d, AdvancePc(d))
           /\ AdvancePc(d).pc = m.pc + InstructionSize
<1> DEFINE r == [d EXCEPT !.pc = d.pc + InstructionSize]
<1>1. d.pc <= WordMod - InstructionSize
  BY Sizes DEF Ready, Typed, InstructionSize
<1>2. AdvancePc(d) = r
  BY <1>1 DEF AdvancePc, SetPc, Require
<1>3. /\ r.error = d.error /\ r.regs = d.regs
      /\ r.bytes = d.bytes /\ r.initialized = d.initialized
      /\ r.spTop = d.spTop /\ r.spSize = d.spSize
      /\ r.pc = d.pc + InstructionSize
  BY DEF Typed
<1> HIDE DEF r
<1> QED
  BY <1>2, <1>3 DEF Ok, OnlyRegisters

\* If the checks before it failed, so did the instruction.
LEMMA ChecksSucceeded ==
    ASSUME NEW m, Ready(m), NEW c, Checked(m, c), Ok(c)
    PROVE  c = m
BY DEF Checked, Failed, Ready, Typed, Ok

\* An instruction that sets a register and goes on.
LEMMA RegisterShows ==
    ASSUME NEW m, Ready(m), NEW c, Checked(m, c), NEW d, NEW value,
           Ok(c) => d \in Register /\ value \in Word,
           Ok(AdvancePc(SetRegister(c, d, value)))
    PROVE  /\ Ok(c) /\ d \in Register
           /\ AdvancePc(SetRegister(c, d, value)).regs[d] = value
           /\ OnlyRegisters(m, AdvancePc(SetRegister(c, d, value)))
           /\ AdvancePc(SetRegister(c, d, value)).pc = m.pc + InstructionSize
<1>1. Ok(c)
  BY EffectsStop
<1>2. c = m /\ d \in Register /\ value \in Word
  BY <1>1, ChecksSucceeded
<1> DEFINE s == [m EXCEPT !.regs[d] = value]
<1>3. SetRegister(c, d, value) = s
  BY <1>1, <1>2 DEF SetRegister
<1>4. /\ Typed(s) /\ Ok(s) /\ s.pc = m.pc
      /\ s.regs[d] = value /\ OnlyRegisters(m, s)
  BY <1>2 DEF Ready, Typed, Ok, OnlyRegisters
<1> HIDE DEF s
<1>5. /\ AdvancePc(s).regs = s.regs /\ OnlyRegisters(s, AdvancePc(s))
      /\ AdvancePc(s).pc = m.pc + InstructionSize
  BY <1>4, AdvanceShows
<1> QED
  BY <1>1, <1>2, <1>3, <1>4, <1>5 DEF OnlyRegisters

\* In r, register d has the value and every other one what it has in m.
Sets(m, r, d, value) == r.regs = [m.regs EXCEPT ![d] = value]

\* It sets no other register.
LEMMA OneRegisterIsSet ==
    ASSUME NEW m, Ready(m), NEW c, Checked(m, c), NEW d, NEW value,
           Ok(c) => d \in Register /\ value \in Word,
           Ok(AdvancePc(SetRegister(c, d, value)))
    PROVE  Sets(m, AdvancePc(SetRegister(c, d, value)), d, value)
<1>1. Ok(c)
  BY EffectsStop
<1>2. c = m /\ d \in Register /\ value \in Word
  BY <1>1, ChecksSucceeded
<1> DEFINE s == [m EXCEPT !.regs[d] = value]
<1>3. SetRegister(c, d, value) = s
  BY <1>1, <1>2 DEF SetRegister
<1>4. Typed(s) /\ Ok(s) /\ s.pc = m.pc /\ s.regs = [m.regs EXCEPT ![d] = value]
  BY <1>2 DEF Ready, Typed, Ok
<1> HIDE DEF s
<1> QED
  BY <1>3, <1>4, AdvanceShows DEF Sets

\* An instruction that jumps.
LEMMA JumpShows ==
    ASSUME NEW m, Ready(m), NEW c, Checked(m, c), NEW target, Ok(SetPc(c, target))
    PROVE  /\ Ok(c) /\ SetPc(c, target).pc = target /\ SetPc(c, target).regs = m.regs
           /\ OnlyRegisters(m, SetPc(c, target))
<1>1. Ok(c)
  BY EffectsStop
<1>2. SetPc(c, target) = [m EXCEPT !.pc = target]
  BY <1>1, ChecksSucceeded DEF SetPc
<1> QED
  BY <1>1, <1>2 DEF Ready, Typed, OnlyRegisters

\* LI and LUI.
LEMMA LoadImmediateShows ==
    ASSUME NEW m, Ready(m), NEW i, Fields(i), Ok(LoadImmediate(m, i))
    PROVE  /\ LoadImmediate(m, i).regs[i.a] =
                IF i.op = LI THEN i.imm ELSE (m.regs[i.a] % HalfMod) + HalfMod * i.imm
           /\ Sets(m, LoadImmediate(m, i), i.a, LoadImmediate(m, i).regs[i.a])
           /\ LoadImmediate(m, i).pc = m.pc + InstructionSize
           /\ OnlyRegisters(m, LoadImmediate(m, i))
<1> DEFINE value == IF i.op = LI THEN i.imm ELSE (m.regs[i.a] % HalfMod) + HalfMod * i.imm
           c == RequireRegisters(m, {i.a})
<1>1. Checked(m, c) /\ (Ok(c) => i.a \in Register)
  BY RegistersChecked
<1>2. i.a \in Register => value \in Word
  <2> SUFFICES ASSUME i.a \in Register
               PROVE  value \in Word
    OBVIOUS
  <2>1. m.regs[i.a] % HalfMod \in 0 .. HalfMod - 1
    BY ReadyFacts, Sizes DEF Word
  <2>2. (m.regs[i.a] % HalfMod) + HalfMod * i.imm \in Word
    BY <2>1, HalfIsWord DEF Fields
  <2>3. i.imm \in Word
    BY Sizes DEF Fields, Word
  <2> QED
    BY <2>2, <2>3
<1>3. LoadImmediate(m, i) = AdvancePc(SetRegister(c, i.a, value))
  BY DEF LoadImmediate
<1> HIDE DEF value, c
<1>4. /\ AdvancePc(SetRegister(c, i.a, value)).regs[i.a] = value
      /\ AdvancePc(SetRegister(c, i.a, value)).pc = m.pc + InstructionSize
      /\ OnlyRegisters(m, AdvancePc(SetRegister(c, i.a, value)))
  BY <1>1, <1>2, <1>3, RegisterShows
<1>5. Sets(m, AdvancePc(SetRegister(c, i.a, value)), i.a, value)
  <2>1. Ok(AdvancePc(SetRegister(c, i.a, value)))
    BY <1>3
  <2>2. Checked(m, c) /\ (Ok(c) => i.a \in Register /\ value \in Word)
    BY <1>1, <1>2
  <2> QED
    BY <2>1, <2>2, OneRegisterIsSet
<1> QED
  BY <1>3, <1>4, <1>5 DEF value

\* An operation on three registers.
LEMMA CalculateShows ==
    ASSUME NEW m, Ready(m), NEW i, Fields(i), i.op \in RRR, Ok(Calculate(m, i))
    PROVE  /\ Calculate(m, i).regs[i.a] = Alu(i.op, m.regs[i.b], m.regs[i.c])
           /\ Sets(m, Calculate(m, i), i.a, Calculate(m, i).regs[i.a])
           /\ Calculate(m, i).pc = m.pc + InstructionSize
           /\ i.op \in {UDIV, SDIV} => m.regs[i.c] # 0
           /\ OnlyRegisters(m, Calculate(m, i))
<1> DEFINE r == RequireRegisters(m, {i.a, i.b, i.c})
           divides == i.op \in {UDIV, SDIV} => m.regs[i.c] # 0
           c == Require(r, divides, "division by zero")
           value == Alu(i.op, m.regs[i.b], m.regs[i.c])
<1>1. Checked(m, r) /\ (Ok(r) => {i.a, i.b, i.c} \subseteq Register)
  BY RegistersChecked
<1>2. Checked(m, c) /\ (Ok(c) => Ok(r) /\ divides)
  <2>1. "division by zero" \in Errors \ {NoError}
    BY ErrorsAreErrors
  <2> HIDE DEF r
  <2> QED
    BY <1>1, <2>1, RequireChecks
<1>3. Ok(c) => i.a \in Register /\ value \in Word
  <2> SUFFICES ASSUME Ok(c)
               PROVE  i.a \in Register /\ value \in Word
    OBVIOUS
  <2>1. {i.a, i.b, i.c} \subseteq Register /\ divides
    BY <1>1, <1>2
  <2>2. m.regs[i.b] \in Word /\ m.regs[i.c] \in Word
    BY <2>1, ReadyFacts
  <2> QED
    BY <2>1, <2>2, AluAssumption
<1>4. Calculate(m, i) = AdvancePc(SetRegister(c, i.a, value))
  BY DEF Calculate
<1> HIDE DEF c, value, divides
<1>5. /\ Ok(c) /\ AdvancePc(SetRegister(c, i.a, value)).regs[i.a] = value
      /\ AdvancePc(SetRegister(c, i.a, value)).pc = m.pc + InstructionSize
      /\ OnlyRegisters(m, AdvancePc(SetRegister(c, i.a, value)))
  BY <1>2, <1>3, <1>4, RegisterShows
<1>6. Sets(m, AdvancePc(SetRegister(c, i.a, value)), i.a, value)
  <2>1. Ok(AdvancePc(SetRegister(c, i.a, value)))
    BY <1>4
  <2>2. Checked(m, c) /\ (Ok(c) => i.a \in Register /\ value \in Word)
    BY <1>2, <1>3
  <2> QED
    BY <2>1, <2>2, OneRegisterIsSet
<1> QED
  BY <1>2, <1>4, <1>5, <1>6 DEF value, divides

\* SXT and BSWAP.
LEMMA ConvertShows ==
    ASSUME NEW m, Ready(m), NEW i, Fields(i), Ok(Convert(m, i))
    PROVE  /\ Convert(m, i).regs[i.a] = IF i.op = SXT THEN SignExtend(m.regs[i.b], i.c)
                                        ELSE ByteSwap(m.regs[i.b], i.c)
           /\ OnlyRegisters(m, Convert(m, i))
<1> DEFINE c == RequireRegisters(m, {i.a, i.b})
           value == IF i.op = SXT THEN SignExtend(m.regs[i.b], i.c)
                    ELSE ByteSwap(m.regs[i.b], i.c)
<1>1. Checked(m, c) /\ (Ok(c) => {i.a, i.b} \subseteq Register)
  BY RegistersChecked
<1>2. {i.a, i.b} \subseteq Register => i.a \in Register /\ value \in Word
  BY ReadyFacts, SignExtensionIsWord, SwapIsWord
<1>3. Convert(m, i) = AdvancePc(SetRegister(c, i.a, value))
  BY DEF Convert
<1> HIDE DEF c, value
<1>4. /\ AdvancePc(SetRegister(c, i.a, value)).regs[i.a] = value
      /\ OnlyRegisters(m, AdvancePc(SetRegister(c, i.a, value)))
  BY <1>1, <1>2, <1>3, RegisterShows
<1> QED
  BY <1>3, <1>4 DEF value
LEMMA AbsoluteJumpShows ==
    ASSUME NEW m, Ready(m), NEW i, Ok(AbsoluteJump(m, i))
    PROVE  /\ AbsoluteJump(m, i).pc = m.regs[i.a] /\ AbsoluteJump(m, i).regs = m.regs
           /\ OnlyRegisters(m, AbsoluteJump(m, i))
<1> DEFINE c == RequireRegisters(m, {i.a})
<1>1. Checked(m, c)
  BY RegistersChecked
<1> HIDE DEF c
<1> QED
  BY <1>1, JumpShows DEF AbsoluteJump, c

LEMMA RelativeJumpShows ==
    ASSUME NEW m, Ready(m), NEW i, Ok(RelativeJump(m, i))
    PROVE  /\ RelativeJump(m, i).pc = m.pc + InstructionSize * SignedPart(i.imm, HalfMod)
           /\ RelativeJump(m, i).regs = m.regs
           /\ OnlyRegisters(m, RelativeJump(m, i))
<1> DEFINE target == m.pc + InstructionSize * SignedPart(i.imm, HalfMod)
           c == Require(m, target \in 0 .. WordMod, "instruction pointer out of range")
<1>1. Checked(m, c)
  <2> HIDE DEF target
  <2> QED
    BY ReadyIsChecked, CheckFails, ErrorsAreErrors DEF Require, Ready
<1>2. RelativeJump(m, i) = SetPc(c, target)
  BY DEF RelativeJump
<1> HIDE DEF target, c
<1>3. /\ SetPc(c, target).pc = target /\ SetPc(c, target).regs = m.regs
      /\ OnlyRegisters(m, SetPc(c, target))
  BY <1>1, <1>2, JumpShows
<1> QED
  BY <1>2, <1>3 DEF target

\* BRZ and BRNZ.
LEMMA BranchShows ==
    ASSUME NEW m, Ready(m), NEW i, Ok(Branch(m, i))
    PROVE  /\ Branch(m, i).pc = m.pc + InstructionSize *
                (IF (m.regs[i.a] = 0) = (i.op = BRZ) THEN SignedPart(i.imm, HalfMod) ELSE 1)
           /\ Branch(m, i).regs = m.regs
           /\ OnlyRegisters(m, Branch(m, i))
<1> DEFINE c == RequireRegisters(m, {i.a})
           taken == (m.regs[i.a] = 0) = (i.op = BRZ)
<1>1. Checked(m, c) /\ (Ok(c) => c = m)
  BY RegistersChecked
<1>2. Branch(m, i) = IF Ok(c) /\ taken THEN RelativeJump(c, i) ELSE AdvancePc(c)
  BY DEF Branch
<1> HIDE DEF c, taken
<1>3. Ok(c) /\ c = m
  BY <1>1, <1>2, EffectsStop
<1>4. CASE taken
  <2>1. Branch(m, i) = RelativeJump(m, i)
    BY <1>2, <1>3, <1>4
  <2>2. RelativeJump(m, i).pc = m.pc + InstructionSize * SignedPart(i.imm, HalfMod)
    BY <2>1, RelativeJumpShows
  <2>3. OnlyRegisters(m, RelativeJump(m, i)) /\ RelativeJump(m, i).regs = m.regs
    BY <2>1, RelativeJumpShows
  <2>4. Branch(m, i).pc =
          m.pc + InstructionSize * (IF taken THEN SignedPart(i.imm, HalfMod) ELSE 1)
    BY <1>4, <2>1, <2>2
  <2> QED
    BY <2>1, <2>3, <2>4 DEF taken
<1>5. CASE ~taken
  <2>1. Branch(m, i) = AdvancePc(m)
    BY <1>2, <1>3, <1>5
  <2>2. /\ AdvancePc(m).pc = m.pc + InstructionSize /\ AdvancePc(m).regs = m.regs
        /\ OnlyRegisters(m, AdvancePc(m))
    BY AdvanceShows DEF Ready
  <2>3. Branch(m, i).pc =
          m.pc + InstructionSize * (IF taken THEN SignedPart(i.imm, HalfMod) ELSE 1)
    BY <1>5, <2>1, <2>2 DEF InstructionSize
  <2> QED
    BY <2>1, <2>2, <2>3 DEF taken
<1> QED
  BY <1>4, <1>5

\* CALL jumps to what its register held before R1 was written.
LEMMA CallShows ==
    ASSUME NEW m, Ready(m), NEW i, Ok(CallSubroutine(m, i))
    PROVE  /\ CallSubroutine(m, i).pc = m.regs[i.a]
           /\ CallSubroutine(m, i).regs =
                [m.regs EXCEPT ![ReturnAddress] = m.pc + InstructionSize]
           /\ OnlyRegisters(m, CallSubroutine(m, i))
<1> DEFINE r == RequireRegisters(m, {i.a})
           below == m.pc <= WordMod - 1 - InstructionSize
           c == Require(r, below, "instruction pointer out of range")
           s == [m EXCEPT !.regs[ReturnAddress] = m.pc + InstructionSize]
<1>1. Checked(m, r)
  BY RegistersChecked
<1>2. Checked(m, c)
  <2>1. "instruction pointer out of range" \in Errors \ {NoError}
    BY ErrorsAreErrors
  <2> HIDE DEF r, below
  <2> QED
    BY <1>1, <2>1, RequireChecks
<1>3. CallSubroutine(m, i) =
        SetPc(SetRegister(c, ReturnAddress, m.pc + InstructionSize), m.regs[i.a])
  BY DEF CallSubroutine
<1> HIDE DEF c
<1>4. Ok(c)
  BY <1>3, EffectsStop
<1>5. SetRegister(c, ReturnAddress, m.pc + InstructionSize) = s
  BY <1>2, <1>4, ChecksSucceeded DEF SetRegister
<1>6. s = [m EXCEPT !.regs = [m.regs EXCEPT ![ReturnAddress] = m.pc + InstructionSize]]
  BY DEF Ready, Typed
<1>7. Ok(s)
  BY <1>6 DEF Ready, Typed, Ok
<1>8. SetPc(s, m.regs[i.a]) = [s EXCEPT !.pc = m.regs[i.a]]
  BY <1>7 DEF SetPc
<1>9. /\ [s EXCEPT !.pc = m.regs[i.a]].pc = m.regs[i.a]
      /\ [s EXCEPT !.pc = m.regs[i.a]].regs =
            [m.regs EXCEPT ![ReturnAddress] = m.pc + InstructionSize]
      /\ OnlyRegisters(m, [s EXCEPT !.pc = m.regs[i.a]])
  BY <1>6 DEF Ready, Typed, OnlyRegisters
<1> HIDE DEF s
<1> QED
  BY <1>3, <1>5, <1>8, <1>9

\* SCRW: the status register has the value, IP by a jump.
LEMMA WriteStatusShows ==
    ASSUME NEW m, Ready(m), NEW i, Ok(WriteStatus(m, i))
    PROVE  /\ i.a \in StatusRegister
           /\ StatusValue(WriteStatus(m, i), i.a) = m.regs[i.b]
           /\ WriteStatus(m, i).bytes = m.bytes
           /\ WriteStatus(m, i).initialized = m.initialized
           /\ i.a = Ip => OnlyRegisters(m, WriteStatus(m, i))
<1> DEFINE value == m.regs[i.b]
           r == RequireRegisters(m, {i.b})
           c == Require(r, i.a \in StatusRegister, "invalid status register")
           written(v) ==
             CASE ~Ok(c) -> c
               [] Ok(c) /\ i.a = Ip -> SetPc(c, v)
               [] Ok(c) /\ i.a = SpTop ->
                     AdvancePc([c EXCEPT !.spTop = v, !.stackBottom = v])
               [] Ok(c) /\ i.a = SpSize -> AdvancePc([c EXCEPT !.spSize = v])
<1>1. Checked(m, r) /\ (Ok(r) => i.b \in Register /\ r = m)
  BY RegistersChecked
<1>2. Checked(m, c) /\ (Ok(c) => c = m /\ i.b \in Register /\ i.a \in StatusRegister)
  <2>1. "invalid status register" \in Errors \ {NoError}
    BY ErrorsAreErrors
  <2> HIDE DEF r
  <2> QED
    BY <1>1, <2>1, CheckFails DEF Require
<1>3. WriteStatus(m, i) = written(value)
  BY DEF WriteStatus
<1>4. Ip # SpTop /\ Ip # SpSize /\ SpTop # SpSize
  BY DEF Ip, SpTop, SpSize
<1> HIDE DEF c
<1>5. Ok(c) /\ c = m /\ i.b \in Register /\ i.a \in {Ip, SpTop, SpSize}
  <2>1. ~Ok(c) => WriteStatus(m, i) = c
    BY <1>3
  <2> QED
    BY <1>2, <2>1 DEF StatusRegister
<1>6. value \in Word
  BY <1>5, ReadyFacts
<1> HIDE DEF value
<1>7. CASE i.a = Ip
  <2>1. WriteStatus(m, i) = SetPc(c, value)
    BY <1>3, <1>4, <1>5, <1>7
  <2>2. SetPc(c, value).pc = value /\ OnlyRegisters(m, SetPc(c, value))
    BY <1>2, <1>5, <2>1, JumpShows
  <2> QED
    BY <1>4, <1>5, <1>7, <2>1, <2>2 DEF StatusValue, StatusRegister, OnlyRegisters, value
<1>8. CASE i.a = SpTop
  <2> DEFINE s == [m EXCEPT !.spTop = value, !.stackBottom = value]
  <2>1. WriteStatus(m, i) = AdvancePc(s)
    BY <1>3, <1>4, <1>5, <1>8
  <2>2. /\ Typed(s) /\ Ok(s) /\ s.pc = m.pc /\ s.spTop = value
        /\ s.bytes = m.bytes /\ s.initialized = m.initialized
    BY <1>6 DEF Ready, Typed, Ok
  <2> HIDE DEF s
  <2>3. /\ AdvancePc(s).spTop = value
        /\ AdvancePc(s).bytes = m.bytes /\ AdvancePc(s).initialized = m.initialized
    BY <2>2, AdvanceShows DEF OnlyRegisters
  <2> QED
    BY <1>4, <1>5, <1>8, <2>1, <2>3 DEF StatusValue, StatusRegister, value
<1>9. CASE i.a = SpSize
  <2> DEFINE s == [m EXCEPT !.spSize = value]
  <2>1. WriteStatus(m, i) = AdvancePc(s)
    BY <1>3, <1>4, <1>5, <1>9
  <2>2. /\ Typed(s) /\ Ok(s) /\ s.pc = m.pc /\ s.spSize = value
        /\ s.bytes = m.bytes /\ s.initialized = m.initialized
    BY <1>6 DEF Ready, Typed, Ok
  <2> HIDE DEF s
  <2>3. /\ AdvancePc(s).spSize = value
        /\ AdvancePc(s).bytes = m.bytes /\ AdvancePc(s).initialized = m.initialized
    BY <2>2, AdvanceShows DEF OnlyRegisters
  <2> QED
    BY <1>4, <1>5, <1>9, <2>1, <2>3 DEF StatusValue, StatusRegister, value
<1> QED
  BY <1>5, <1>7, <1>8, <1>9

\* SCRR: the register has what the status register held, and holds unless it is IP.
LEMMA ReadStatusShows ==
    ASSUME NEW m, Ready(m), NEW i, Ok(ReadStatus(m, i))
    PROVE  /\ i.b # Ip => ReadStatus(m, i).regs[i.a] = StatusValue(ReadStatus(m, i), i.b)
           /\ OnlyRegisters(m, ReadStatus(m, i))
<1> DEFINE r == RequireRegisters(m, {i.a})
           known == Require(r, i.b \in StatusRegister, "invalid status register")
           c == Require(known, i.b = Ip => m.pc < WordMod, "instruction pointer out of range")
           value == StatusValue(m, i.b)
           result == AdvancePc(SetRegister(c, i.a, value))
<1>1. Checked(m, r) /\ (Ok(r) => i.a \in Register /\ r = m)
  BY RegistersChecked
<1>2. /\ Checked(m, known)
      /\ Ok(known) => i.a \in Register /\ known = m /\ i.b \in StatusRegister
  <2>1. "invalid status register" \in Errors \ {NoError}
    BY ErrorsAreErrors
  <2> HIDE DEF r
  <2> QED
    BY <1>1, <2>1, CheckFails DEF Require
<1>3. Checked(m, c) /\ (Ok(c) => i.a \in Register /\ i.b \in StatusRegister)
  <2>1. "instruction pointer out of range" \in Errors \ {NoError}
    BY ErrorsAreErrors
  <2> HIDE DEF known
  <2> QED
    BY <1>2, <2>1, CheckFails DEF Require
<1>4. i.b \in StatusRegister => value \in Word
  BY ReadyFacts, Sizes DEF StatusValue, StatusRegister, Word, InstructionSize, Ip, SpTop, SpSize
<1>5. ReadStatus(m, i) = result
  BY DEF ReadStatus
<1> HIDE DEF c, value
<1>6. Ok(c) /\ result.regs[i.a] = value /\ OnlyRegisters(m, result)
  BY <1>3, <1>4, <1>5, RegisterShows
<1> HIDE DEF result
<1>7. i.b # Ip => value = StatusValue(result, i.b)
  BY <1>3, <1>6
     DEF value, StatusValue, StatusRegister, OnlyRegisters, Ip, SpTop, SpSize
<1> QED
  BY <1>5, <1>6, <1>7
\* The loads.
LEMMA LoadShows ==
    ASSUME NEW m, Ready(m), NEW i, Fields(i), i.op \in Loads, Ok(LoadMemory(m, i))
    PROVE  /\ LoadMemory(m, i).regs[i.a] =
                FromBytes(BytesAt(m.bytes, EffectiveAddress(m, i), AccessSize(i.op)))
           /\ OnlyRegisters(m, LoadMemory(m, i))
<1> DEFINE a == EffectiveAddress(m, i)
           n == AccessSize(i.op)
           c == CheckedAccess(m, i)
           read == IF Ok(c) /\ warning
                   THEN [c EXCEPT !.warned = Span(a, n) \ m.initialized] ELSE c
           value == FromBytes(BytesAt(m.bytes, a, n))
<1>1. n \in {1, 2, 4}
  BY DEF AccessSize, Loads, LDB, LDH, LDW, Stores, STB, STH, STW
<1>2. Checked(m, c) /\ (Ok(c) => c = m /\ {i.a, i.b} \subseteq Register /\ InRange(a, n))
  BY AccessIsChecked
<1>3. LoadMemory(m, i) = AdvancePc(SetRegister(read, i.a, value))
  BY DEF LoadMemory
<1>4. Ok(c)
  <2>1. ~Ok(c) => read = c
    OBVIOUS
  <2> HIDE DEF read, value, c
  <2> QED
    BY <1>3, <2>1, EffectsStop
<1>5. c = m /\ i.a \in Register /\ i.b \in Register /\ InRange(a, n)
  BY <1>2, <1>4
<1>6. a \in Nat
  BY <1>5, AddressIsWord
<1>7. value \in Word /\ Span(a, n) \subseteq Address
  <2> HIDE DEF n, a
  <2>1. BytesAt(m.bytes, a, n) \in Seq(Byte) /\ Len(BytesAt(m.bytes, a, n)) = n
    <3>1. IsContents(m.bytes) /\ a \in Int /\ n \in Nat
      BY <1>1, <1>6, ReadyFacts
    <3> QED
      BY <3>1, BytesAreRead
  <2>2. value \in Word
    BY <1>1, <2>1, BytesMakeAWord
  <2>3. Span(a, n) \subseteq Address
    BY <1>1, <1>5, <1>6, RangeIsAddressed
  <2> QED
    BY <2>2, <2>3
<1> HIDE DEF value, a, n, c
<1>8. Ready(read) /\ read.pc = m.pc /\ OnlyRegisters(m, read)
  <2>1. CASE warning
    <3>1. read = [m EXCEPT !.warned = Span(a, n) \ m.initialized]
      BY <1>4, <1>5, <2>1
    <3> QED
      BY <1>7, <3>1 DEF Ready, Typed, Ok, OnlyRegisters
  <2>2. CASE ~warning
    BY <1>5, <2>2 DEF OnlyRegisters, Ready
  <2> QED
    BY <2>1, <2>2
<1> HIDE DEF read
<1>9. /\ AdvancePc(SetRegister(read, i.a, value)).regs[i.a] = value
      /\ OnlyRegisters(read, AdvancePc(SetRegister(read, i.a, value)))
  BY <1>3, <1>5, <1>7, <1>8, ReadyIsChecked, RegisterShows
<1> QED
  BY <1>3, <1>8, <1>9 DEF OnlyRegisters, value, a, n

\* The stores.
LEMMA StoreShows ==
    ASSUME NEW m, Ready(m), NEW i, Fields(i), i.op \in Stores, Ok(StoreMemory(m, i))
    PROVE  /\ i.a \in Register /\ i.b \in Register
           /\ EffectiveAddress(m, i) \in Nat
           /\ AccessSize(i.op) \in {1, 2, 4}
           /\ ToBytes(m.regs[i.a], AccessSize(i.op)) \in Seq(Byte)
           /\ Len(ToBytes(m.regs[i.a], AccessSize(i.op))) = AccessSize(i.op)
           /\ StoreMemory(m, i).bytes =
                Put(m.bytes, EffectiveAddress(m, i), ToBytes(m.regs[i.a], AccessSize(i.op)))
           /\ StoreMemory(m, i).initialized =
                m.initialized \union Span(EffectiveAddress(m, i), AccessSize(i.op))
           /\ StoreMemory(m, i).spTop = m.spTop /\ StoreMemory(m, i).spSize = m.spSize
<1> DEFINE a == EffectiveAddress(m, i)
           n == AccessSize(i.op)
           c == CheckedAccess(m, i)
           data == ToBytes(m.regs[i.a], n)
           put == Put(m.bytes, a, data)
           all == m.initialized \union Span(a, n)
           s == [m EXCEPT !.bytes = put, !.initialized = all]
<1>1. n \in {1, 2, 4}
  BY DEF AccessSize, Loads, LDB, LDH, LDW, Stores, STB, STH, STW
<1>2. Checked(m, c) /\ (Ok(c) => c = m /\ {i.a, i.b} \subseteq Register /\ InRange(a, n))
  BY AccessIsChecked
<1>3. Ok(c)
  <2>1. ~Ok(c) => StoreMemory(m, i) = AdvancePc(c)
    BY DEF StoreMemory
  <2> HIDE DEF c
  <2> QED
    BY <2>1, EffectsStop
<1>4. c = m /\ i.a \in Register /\ i.b \in Register /\ InRange(a, n)
  BY <1>2, <1>3
<1>5. a \in Nat
  BY <1>4, AddressIsWord
<1>6. data \in Seq(Byte) /\ Len(data) = n
  <2> HIDE DEF n
  <2> QED
    BY <1>1, <1>4, ReadyFacts, WordHasBytes
<1>7. StoreMemory(m, i) = AdvancePc(s)
  BY <1>3, <1>4 DEF StoreMemory
<1>8. IsContents(put) /\ all \subseteq Address
  <2> HIDE DEF a, n, data
  <2>1. IsContents(put)
    BY <1>4, <1>5, <1>6, ReadyFacts, PutKeepsContents
  <2>2. Span(a, n) \subseteq Address
    BY <1>1, <1>4, <1>5, RangeIsAddressed
  <2> QED
    BY <2>1, <2>2, ReadyFacts
<1> HIDE DEF put, all
<1>9. /\ Typed(s) /\ Ok(s) /\ s.pc = m.pc
      /\ s.bytes = put /\ s.initialized = all
      /\ s.spTop = m.spTop /\ s.spSize = m.spSize
  BY <1>8 DEF Ready, Typed, Ok
<1> HIDE DEF s
<1>10. /\ AdvancePc(s).bytes = put /\ AdvancePc(s).initialized = all
       /\ AdvancePc(s).spTop = m.spTop /\ AdvancePc(s).spSize = m.spSize
  BY <1>9, AdvanceShows DEF OnlyRegisters
<1> QED
  BY <1>1, <1>4, <1>5, <1>6, <1>7, <1>10 DEF put, all

\* The bytes a release leaves, and those of them that were written.
BytesReleased(m, a, n) == IF clearStack THEN Wipe(m.bytes, a, n) ELSE m.bytes
InitializedReleased(m, a, n) == m.initialized \ Span(a, n)

LEMMA ReleaseShows ==
    ASSUME NEW m, Ready(m), NEW a \in Nat, NEW n \in Nat, Ok(ReleaseStack(m, a, n))
    PROVE  /\ IsContents(BytesReleased(m, a, n))
           /\ InitializedReleased(m, a, n) \in SUBSET Address
           /\ ReleaseStack(m, a, n) =
                WithRam(m, BytesReleased(m, a, n), InitializedReleased(m, a, n))
<1> DEFINE c == Require(m, InRange(a, n), "memory out of range")
<1>1. Checked(m, c)
  <2> DEFINE inside == InRange(a, n)
  <2> HIDE DEF inside
  <2>1. Checked(m, Require(m, inside, "memory out of range"))
    BY ErrorsAreErrors, ReadyIsChecked, RequireChecks
  <2> QED
    BY <2>1 DEF inside
<1> HIDE DEF c
<1>2. ReleaseStack(m, a, n) =
        IF Ok(c)
        THEN [c EXCEPT !.bytes = IF clearStack THEN Wipe(@, a, n) ELSE @,
                       !.initialized = @ \ Span(a, n)]
        ELSE c
  BY DEF ReleaseStack, c
<1>3. Ok(c) /\ c = m
  BY <1>1, <1>2, ChecksSucceeded
<1>4. ReleaseStack(m, a, n) =
        WithRam(m, BytesReleased(m, a, n), InitializedReleased(m, a, n))
  BY <1>2, <1>3 DEF Ready, WithRam, BytesReleased, InitializedReleased
<1>5. IsContents(BytesReleased(m, a, n)) /\ InitializedReleased(m, a, n) \in SUBSET Address
  BY ReadyFacts, WipeKeepsContents DEF BytesReleased, InitializedReleased
<1> QED
  BY <1>4, <1>5

\* ASPI and ASPR: the new SP_TOP is also the result, and only a release that clears
\* changes RAM.
LEMMA AdvanceStackShows ==
    ASSUME NEW m, Ready(m), NEW i, Fields(i), i.op \in {ASPI, ASPR},
           Ok(AdvanceStackPointer(m, i))
    PROVE  /\ i.op = ASPI \/ i.b \in Register
           /\ StackDelta(m, i) \in Int
           /\ -StackDelta(m, i) <= m.spSize
           /\ StackDelta(m, i) > 0 => m.spTop + StackDelta(m, i) <= m.stackBottom
           /\ AdvanceStackPointer(m, i).spTop = Unsigned(m.spTop + StackDelta(m, i))
           /\ AdvanceStackPointer(m, i).regs[i.a] = AdvanceStackPointer(m, i).spTop
           /\ AdvanceStackPointer(m, i).bytes =
                IF StackDelta(m, i) > 0 THEN BytesReleased(m, m.spTop, StackDelta(m, i))
                ELSE m.bytes
           /\ AdvanceStackPointer(m, i).initialized =
                IF StackDelta(m, i) > 0
                THEN InitializedReleased(m, m.spTop, StackDelta(m, i))
                ELSE m.initialized
<1> DEFINE delta == StackDelta(m, i)
           top == m.spTop + delta
           indices == IF i.op = ASPI THEN {i.a} ELSE {i.a, i.b}
           registers == RequireRegisters(m, indices)
           fits == Require(registers, -delta <= m.spSize, "stack overflow")
           c == Require(fits, delta > 0 => top <= m.stackBottom, "stack underflow")
           released == IF Ok(c) /\ delta > 0 THEN ReleaseStack(c, m.spTop, delta) ELSE c
           moved == IF Ok(released)
                    THEN [released EXCEPT !.spTop = Unsigned(top),
                                          !.spSize = Unsigned(@ + delta)]
                    ELSE released
           last == AdvancePc(SetRegister(moved, i.a, Unsigned(top)))
           bytes == IF delta > 0 THEN BytesReleased(m, m.spTop, delta) ELSE m.bytes
           initialized ==
             IF delta > 0 THEN InitializedReleased(m, m.spTop, delta) ELSE m.initialized
<1>1. Checked(m, registers) /\ (Ok(registers) => indices \subseteq Register /\ registers = m)
  BY RegistersChecked
<1>2. /\ Checked(m, fits)
      /\ Ok(fits) => indices \subseteq Register /\ fits = m /\ -delta <= m.spSize
  <2>1. "stack overflow" \in Errors \ {NoError}
    BY ErrorsAreErrors
  <2> HIDE DEF registers, delta, indices
  <2> QED
    BY <1>1, <2>1, CheckFails DEF Require
<1>3. /\ Checked(m, c)
      /\ Ok(c) =>
           /\ indices \subseteq Register /\ c = m
           /\ -delta <= m.spSize
           /\ delta > 0 => top <= m.stackBottom
  <2>1. "stack underflow" \in Errors \ {NoError}
    BY ErrorsAreErrors
  <2> HIDE DEF fits, delta, indices, top
  <2> QED
    BY <1>2, <2>1, CheckFails DEF Require
<1>4. AdvanceStackPointer(m, i) = last
  BY DEF AdvanceStackPointer
<1> HIDE DEF c
<1>5. Ok(released)
  <2>1. ~Ok(released) => moved = released
    OBVIOUS
  <2> HIDE DEF released, moved
  <2> QED
    BY <1>4, <2>1, EffectsStop
<1>6. /\ Ok(c) /\ c = m /\ indices \subseteq Register
      /\ -delta <= m.spSize
      /\ delta > 0 => top <= m.stackBottom
  <2>1. Ok(c)
    BY <1>5
  <2> HIDE DEF delta, indices, top
  <2> QED
    BY <1>3, <2>1
<1>7. i.a \in Register /\ (i.op = ASPI \/ i.b \in Register)
  BY <1>6
<1>8. delta \in Int
  BY <1>7, DeltaIsInteger
<1>9. m.spTop \in Nat /\ m.spSize \in Nat
  BY ReadyFacts, Sizes DEF Word
<1> HIDE DEF delta, indices
<1>10. /\ released = WithRam(m, bytes, initialized)
       /\ IsContents(bytes) /\ initialized \in SUBSET Address
  <2>1. CASE delta > 0
    <3>1. released = ReleaseStack(m, m.spTop, delta) /\ delta \in Nat
      BY <1>6, <1>8, <2>1
    <3>2. /\ bytes = BytesReleased(m, m.spTop, delta)
          /\ initialized = InitializedReleased(m, m.spTop, delta)
      BY <2>1
    <3>3. Ok(ReleaseStack(m, m.spTop, delta))
      BY <1>5, <3>1
    <3> HIDE DEF released, bytes, initialized
    <3> QED
      BY <1>9, <3>1, <3>2, <3>3, ReleaseShows
  <2>2. CASE ~(delta > 0)
    <3>1. released = m /\ bytes = m.bytes /\ initialized = m.initialized
      BY <1>6, <2>2
    <3>2. m = WithRam(m, m.bytes, m.initialized)
      BY DEF Ready, Typed, WithRam
    <3> HIDE DEF released, bytes, initialized
    <3> QED
      BY <3>1, <3>2, ReadyFacts
  <2> QED
    BY <2>1, <2>2
<1>11. Unsigned(top) \in Word /\ Unsigned(m.spSize + delta) \in Word
  BY <1>8, <1>9, UnsignedIsWord
<1> DEFINE s == [m EXCEPT !.bytes = bytes, !.initialized = initialized,
                          !.spTop = Unsigned(top), !.spSize = Unsigned(m.spSize + delta)]
<1>12. moved = s
  <2> HIDE DEF released, bytes, initialized
  <2>1. moved = [released EXCEPT !.spTop = Unsigned(top),
                                 !.spSize = Unsigned(released.spSize + delta)]
    BY <1>5
  <2>2. released.spSize = m.spSize
    BY <1>10 DEF Ready, Typed, WithRam
  <2> QED
    BY <1>10, <2>1, <2>2 DEF Ready, Typed, WithRam
<1> HIDE DEF top, moved, bytes, initialized
<1>13. /\ Typed(s) /\ Ok(s) /\ s.pc = m.pc
       /\ s.spTop = Unsigned(top) /\ s.bytes = bytes /\ s.initialized = initialized
  BY <1>10, <1>11 DEF Ready, Typed, Ok
<1> HIDE DEF s
<1> DEFINE t == [s EXCEPT !.regs[i.a] = Unsigned(top)]
<1>14. SetRegister(s, i.a, Unsigned(top)) = t
  BY <1>13 DEF SetRegister
<1>15. /\ Typed(t) /\ Ok(t) /\ t.pc = m.pc
       /\ t.spTop = Unsigned(top) /\ t.regs[i.a] = Unsigned(top)
       /\ t.bytes = bytes /\ t.initialized = initialized
  BY <1>7, <1>11, <1>13 DEF Typed, Ok
<1> HIDE DEF t
<1>16. AdvancePc(t).regs = t.regs /\ OnlyRegisters(t, AdvancePc(t))
  BY <1>15, AdvanceShows
<1>17. last = AdvancePc(t)
  BY <1>12, <1>14
<1> HIDE DEF last
<1> QED
  BY <1>4, <1>6, <1>7, <1>8, <1>15, <1>16, <1>17
     DEF OnlyRegisters, top, bytes, initialized, delta

\* Counting the instruction changes nothing else.
LEMMA RetireShows ==
    ASSUME NEW r, Typed(r), NEW t, t = Retire(r), Ok(t)
    PROVE  /\ Ok(r) /\ t.regs = r.regs /\ t.pc = r.pc
           /\ OnlyRegisters(r, t)
<1>1. Ok(r)
  BY DEF Retire
<1>2. t = [r EXCEPT !.tick = r.tick + 1]
  BY <1>1 DEF Retire
<1> QED
  BY <1>1, <1>2 DEF Typed, OnlyRegisters

\* The numbers of the opcodes.
LEMMA OpcodeNumbers ==
    /\ LI = 0 /\ LUI = 1 /\ RRR = 2 .. 12 \union 64 .. 69
    /\ Loads = 16 .. 18 /\ Stores = 19 .. 21
    /\ SXT = 22 /\ BSWAP = 23 /\ Conversions = {22, 23}
    /\ SCRW = 32 /\ SCRR = 33 /\ ASPI = 34 /\ ASPR = 35
    /\ RJMP = 48 /\ BRZ = 49 /\ BRNZ = 50 /\ Branches = {49, 50}
    /\ AJMP = 51 /\ CALL = 52
BY DEF RRR, Loads, Stores, Conversions, Branches, ADD, SDIV, EQ, SGE, LI, LUI, LDB, LDW,
   STB, STW, SXT, BSWAP, SCRW, SCRR, ASPI, ASPR, RJMP, BRZ, BRNZ, AJMP, CALL

-----------------------------------------------------------------------------
(* Steps *)

\* The inductive invariant: types, and a loaded program that lies in RAM.
IInv ==
    /\ Typed(machine)
    /\ machine.end <= Size
    /\ machine.tick <= MaxTicks
    /\ clearStack \in BOOLEAN /\ warning \in BOOLEAN /\ halfLoaded \in BOOLEAN
    /\ loads \in 0 .. MaxLoads

\* What a step may do.
StepResult ==
    /\ Typed(machine')
    /\ machine'.base = machine.base /\ machine'.end = machine.end
    /\ machine'.tick \in {machine.tick, machine.tick + 1}
    /\ machine'.tick # machine.tick => Ok(Fetched)
    /\ Ok(machine') => machine'.tick = machine.tick + 1
    /\ machine'.tick <= MaxTicks
    /\ machine'.error # NoError => Architecture(machine') = Architecture(machine)
    /\ ~SetsUpStack => StackKept(machine, machine')

LEMMA BeginIsTyped ==
    ASSUME NEW m, Typed(m)
    PROVE  /\ Typed(Begin(m)) /\ Ok(Begin(m))
           /\ Architecture(Begin(m)) = Architecture(m)
           /\ Begin(m).pc = m.pc /\ Begin(m).base = m.base /\ Begin(m).end = m.end
           /\ Begin(m).tick = m.tick
           /\ SameStack(m, Begin(m))
<1>1. NoError \in Errors
  BY DEF Errors
<1> QED
  BY <1>1 DEF Typed, Begin, Ok, Architecture, SameStack

\* A fetch changes nothing but the error; if there is none, the instruction is
\* aligned and lies inside the program.
LEMMA FetchIsChecked ==
    ASSUME Typed(machine)
    PROVE  /\ Fetched = Begin(machine) \/ Failed(Begin(machine), Fetched)
           /\ Ok(Fetched) =>
                /\ Fetched = Begin(machine)
                /\ machine.base <= machine.pc
                /\ machine.end - machine.pc >= InstructionSize
                /\ machine.pc % InstructionSize = 0
<1> DEFINE m == Begin(machine)
           inside == Require(m, m.base <= m.pc /\ m.end - m.pc >= InstructionSize,
                             "fetch past the program")
           aligned == Require(inside, m.pc % InstructionSize = 0, "fetch misaligned")
<1>1. Typed(m) /\ Ok(m) /\ m.pc = machine.pc /\ m.base = machine.base /\ m.end = machine.end
  BY BeginIsTyped
<1> HIDE DEF m
<1>2. Fetched = Require(aligned, m.pc < WordMod, "instruction pointer out of range")
  BY DEF Fetched, m
<1>3. \A e \in Errors \ {NoError} :
        Failed(m, [m EXCEPT !.error = e]) /\ ~Ok([m EXCEPT !.error = e])
  <2> SUFFICES ASSUME NEW e \in Errors \ {NoError}
               PROVE  Failed(m, [m EXCEPT !.error = e]) /\ ~Ok([m EXCEPT !.error = e])
    OBVIOUS
  <2>1. [m EXCEPT !.error = e].error = e
    BY <1>1 DEF Typed
  <2> QED
    BY <2>1 DEF Failed, Ok
<1>4. {"fetch past the program", "fetch misaligned", "instruction pointer out of range"}
        \subseteq Errors \ {NoError}
  BY ErrorsAreErrors
<1>5. \/ inside = m /\ m.base <= m.pc /\ m.end - m.pc >= InstructionSize
      \/ Failed(m, inside) /\ ~Ok(inside)
  BY <1>1, <1>3, <1>4 DEF Require
<1> HIDE DEF inside
<1>6. \/ /\ aligned = m /\ m.base <= m.pc /\ m.end - m.pc >= InstructionSize
         /\ m.pc % InstructionSize = 0
      \/ Failed(m, aligned) /\ ~Ok(aligned)
  BY <1>1, <1>3, <1>4, <1>5 DEF Require
<1> HIDE DEF aligned
<1>7. \/ /\ Fetched = m /\ m.base <= m.pc /\ m.end - m.pc >= InstructionSize
         /\ m.pc % InstructionSize = 0
      \/ Failed(m, Fetched) /\ ~Ok(Fetched)
  BY <1>1, <1>2, <1>3, <1>4, <1>6 DEF Require
<1> QED
  BY <1>1, <1>7 DEF m

LEMMA FetchIsReady ==
    ASSUME Typed(machine), Ok(Fetched)
    PROVE  Ready(Fetched) /\ Fetched = Begin(machine)
<1>1. Fetched = Begin(machine) /\ machine.end - machine.pc >= InstructionSize
  BY FetchIsChecked
<1>2. machine.pc + InstructionSize <= WordMod
  BY <1>1, Sizes DEF Typed, InstructionSize
<1> QED
  BY <1>1, <1>2, BeginIsTyped DEF Ready

LEMMA InstructionHasFields ==
    ASSUME Typed(machine)
    PROVE  Fields(Instruction)
<1>1. IsContents(machine.bytes) /\ machine.pc \in Int /\ InstructionSize \in Nat
  BY Sizes DEF Typed, InstructionSize
<1>2. /\ BytesAt(machine.bytes, machine.pc, InstructionSize) \in Seq(Byte)
      /\ Len(BytesAt(machine.bytes, machine.pc, InstructionSize)) = 4
  BY <1>1, BytesAreRead DEF InstructionSize
<1> QED
  BY <1>2, DecodedFields DEF Instruction

\* The step of an instruction whose outcome is r.
LEMMA ExecutedStep ==
    ASSUME IInv, Ok(Fetched), machine.tick < MaxTicks,
           NEW r, Outcome(Fetched, r), machine' = Retire(r),
           ~SetsUpStack => StackKept(Fetched, r)
    PROVE  StepResult
<1> DEFINE b == Begin(machine)
<1>1. Fetched = b /\ Ready(b)
  BY FetchIsReady DEF IInv
<1>2. /\ Architecture(b) = Architecture(machine)
      /\ b.base = machine.base /\ b.end = machine.end /\ b.tick = machine.tick
      /\ SameStack(machine, b)
  BY BeginIsTyped DEF IInv
<1> HIDE DEF b
<1>3. /\ Typed(r)
      /\ r.base = machine.base /\ r.end = machine.end /\ r.tick = machine.tick
      /\ r.error # NoError => Architecture(r) = Architecture(machine)
      /\ ~SetsUpStack => StackKept(b, r)
  BY <1>1, <1>2 DEF Outcome
<1>4. machine.tick \in Nat /\ MaxTicks \in Nat
  BY ProgramAssumption DEF IInv, Typed
<1>5. CASE ~Ok(r)
  <2>1. machine' = r
    BY <1>5 DEF Retire
  <2>2. ~SetsUpStack => StackKept(machine, r)
    BY <1>2, <1>3 DEF StackKept, SameStack, StackWellFormed, StackLimit
  <2> QED
    BY <1>3, <1>4, <1>5, <2>1, <2>2 DEF StepResult
<1>6. CASE Ok(r)
  <2> DEFINE t == [r EXCEPT !.tick = r.tick + 1]
  <2>1. machine' = t
    BY <1>6 DEF Retire
  <2>2. /\ Typed(t) /\ t.error = NoError
        /\ t.base = machine.base /\ t.end = machine.end /\ t.tick = machine.tick + 1
        /\ SameStack(r, t)
    BY <1>3, <1>4, <1>6 DEF Typed, Ok, SameStack
  <2>3. ~SetsUpStack => StackKept(machine, t)
    BY <1>2, <1>3, <2>2 DEF StackKept, SameStack, StackWellFormed, StackLimit
  <2> HIDE DEF t
  <2> QED
    BY <1>4, <2>1, <2>2, <2>3 DEF StepResult
<1> QED
  BY <1>5, <1>6

LEMMA FailedFetchStep ==
    ASSUME IInv, FailToFetch
    PROVE  StepResult
<1> DEFINE b == Begin(machine)
<1>1. PICK e \in Errors \ {NoError} : Fetched = [b EXCEPT !.error = e]
  <2>1. Fetched # b
    BY BeginIsTyped DEF IInv, FailToFetch
  <2> QED
    BY <2>1, FetchIsChecked DEF IInv, Failed
<1>2. /\ Typed(b) /\ Architecture(b) = Architecture(machine)
      /\ b.base = machine.base /\ b.end = machine.end /\ b.tick = machine.tick
      /\ SameStack(machine, b)
  BY BeginIsTyped DEF IInv
<1> HIDE DEF b
<1> DEFINE t == [b EXCEPT !.error = e]
<1>3. /\ Typed(t) /\ ~Ok(t) /\ Architecture(t) = Architecture(b)
      /\ t.base = b.base /\ t.end = b.end /\ t.tick = b.tick
      /\ SameStack(b, t)
  BY <1>2 DEF Typed, Ok, Architecture, SameStack
<1>4. machine' = t
  BY <1>1 DEF FailToFetch
<1> HIDE DEF t
<1>5. StackKept(machine, t)
  BY <1>2, <1>3 DEF StackKept, SameStack, StackWellFormed, StackLimit
<1> QED
  BY <1>2, <1>3, <1>4, <1>5 DEF StepResult, IInv

LEMMA SameStackIsKept ==
    ASSUME NEW m, NEW r, SameStack(m, r)
    PROVE  StackKept(m, r)
BY DEF SameStack, StackKept, StackWellFormed, StackLimit

LEMMA StepsResult ==
    ASSUME IInv, Step
    PROVE  StepResult
<1> DEFINE m == Fetched
           i == Instruction
<1>1. Ok(m) => Ready(m)
  BY FetchIsReady DEF IInv
<1>2. Fields(i)
  BY InstructionHasFields DEF IInv
<1> HIDE DEF m, i
<1>3. CASE ExecuteLoadImmediate
  <2>1. Ok(m) /\ machine.tick < MaxTicks /\ machine' = Retire(LoadImmediate(m, i))
    BY <1>3 DEF ExecuteLoadImmediate, Executing, m, i
  <2> QED
    BY <1>1, <1>2, <2>1, LoadImmediateOutcome, SameStackIsKept, ExecutedStep DEF m
<1>4. CASE ExecuteCalculate
  <2>1. /\ Ok(m) /\ machine.tick < MaxTicks /\ machine' = Retire(Calculate(m, i))
        /\ i.op \in RRR
    BY <1>4 DEF ExecuteCalculate, Executing, m, i
  <2> QED
    BY <1>1, <1>2, <2>1, CalculateOutcome, SameStackIsKept, ExecutedStep DEF m
<1>5. CASE ExecuteLoad
  <2>1. /\ Ok(m) /\ machine.tick < MaxTicks /\ machine' = Retire(LoadMemory(m, i))
        /\ i.op \in Loads
    BY <1>5 DEF ExecuteLoad, Executing, m, i
  <2> QED
    BY <1>1, <1>2, <2>1, LoadMemoryOutcome, SameStackIsKept, ExecutedStep DEF m
<1>6. CASE ExecuteStore
  <2>1. /\ Ok(m) /\ machine.tick < MaxTicks /\ machine' = Retire(StoreMemory(m, i))
        /\ i.op \in Stores
    BY <1>6 DEF ExecuteStore, Executing, m, i
  <2> QED
    BY <1>1, <1>2, <2>1, StoreMemoryOutcome, SameStackIsKept, ExecutedStep DEF m
<1>7. CASE ExecuteConvert
  <2>1. Ok(m) /\ machine.tick < MaxTicks /\ machine' = Retire(Convert(m, i))
    BY <1>7 DEF ExecuteConvert, Executing, m, i
  <2> QED
    BY <1>1, <1>2, <2>1, ConvertOutcome, SameStackIsKept, ExecutedStep DEF m
<1>8. CASE ExecuteRelativeJump
  <2>1. Ok(m) /\ machine.tick < MaxTicks /\ machine' = Retire(RelativeJump(m, i))
    BY <1>8 DEF ExecuteRelativeJump, Executing, m, i
  <2> QED
    BY <1>1, <1>2, <2>1, RelativeJumpOutcome, SameStackIsKept, ExecutedStep DEF m
<1>9. CASE ExecuteBranch
  <2>1. Ok(m) /\ machine.tick < MaxTicks /\ machine' = Retire(Branch(m, i))
    BY <1>9 DEF ExecuteBranch, Executing, m, i
  <2> QED
    BY <1>1, <1>2, <2>1, BranchOutcome, SameStackIsKept, ExecutedStep DEF m
<1>10. CASE ExecuteAbsoluteJump
  <2>1. Ok(m) /\ machine.tick < MaxTicks /\ machine' = Retire(AbsoluteJump(m, i))
    BY <1>10 DEF ExecuteAbsoluteJump, Executing, m, i
  <2> QED
    BY <1>1, <1>2, <2>1, AbsoluteJumpOutcome, SameStackIsKept, ExecutedStep DEF m
<1>11. CASE ExecuteCall
  <2>1. Ok(m) /\ machine.tick < MaxTicks /\ machine' = Retire(CallSubroutine(m, i))
    BY <1>11 DEF ExecuteCall, Executing, m, i
  <2> QED
    BY <1>1, <1>2, <2>1, CallSubroutineOutcome, SameStackIsKept, ExecutedStep DEF m
<1>12. CASE ExecuteWriteStatus
  <2>1. /\ Ok(m) /\ machine.tick < MaxTicks /\ machine' = Retire(WriteStatus(m, i))
        /\ ~SetsUpStack => i.a \notin {SpTop, SpSize}
    BY <1>12 DEF ExecuteWriteStatus, Executing, SetsUpStack, m, i
  <2> QED
    BY <1>1, <1>2, <2>1, WriteStatusOutcome, SameStackIsKept, ExecutedStep DEF m
<1>13. CASE ExecuteReadStatus
  <2>1. Ok(m) /\ machine.tick < MaxTicks /\ machine' = Retire(ReadStatus(m, i))
    BY <1>13 DEF ExecuteReadStatus, Executing, m, i
  <2> QED
    BY <1>1, <1>2, <2>1, ReadStatusOutcome, SameStackIsKept, ExecutedStep DEF m
<1>14. CASE ExecuteAdvanceStackPointer
  <2>1. /\ Ok(m) /\ machine.tick < MaxTicks /\ machine' = Retire(AdvanceStackPointer(m, i))
        /\ i.op \in {ASPI, ASPR}
    BY <1>14 DEF ExecuteAdvanceStackPointer, Executing, m, i
  <2> QED
    BY <1>1, <1>2, <2>1, AdvanceStackPointerOutcome, ExecutedStep DEF m
<1>15. CASE ExecuteInvalidOpcode
  <2>1. /\ Ok(m) /\ machine.tick < MaxTicks /\ machine' = Retire(InvalidOpcode(m, i))
        /\ i.op \notin Opcodes
    BY <1>15 DEF ExecuteInvalidOpcode, Executing, m, i
  <2> QED
    BY <1>1, <1>2, <2>1, InvalidOpcodeOutcome, SameStackIsKept, ExecutedStep DEF m
<1>16. CASE FailToFetch
  BY <1>16, FailedFetchStep
<1> QED
  BY <1>3, <1>4, <1>5, <1>6, <1>7, <1>8, <1>9, <1>10, <1>11, <1>12, <1>13, <1>14,
     <1>15, <1>16 DEF Step

-----------------------------------------------------------------------------
(* Loads, and the invariant *)

LEMMA WipedIsTyped ==
    ASSUME NEW m, Typed(m)
    PROVE  /\ Typed(Wiped(m))
           /\ Wiped(m).pc = m.pc /\ Wiped(m).base = m.base /\ Wiped(m).end = m.end
           /\ Wiped(m).tick = m.tick /\ Wiped(m).error = m.error
<1>1. ZeroRegisters \in [Register -> Word] /\ 0 \in Word
  BY Sizes DEF ZeroRegisters, Word
<1> QED
  BY <1>1, NoBytesIsContents DEF Wiped, Typed

\* A load that fails after the wipe keeps the program's addresses; one that
\* succeeds has its program in RAM.
LEMMA LoadedIsTyped ==
    ASSUME NEW m, Typed(m), Ok(m), m.end <= Size, m.tick <= MaxTicks,
           NEW p, p.image \in Seq(Byte), p.base \in Word, Acceptable(p)
    PROVE  /\ Typed(Loaded(m, p))
           /\ Loaded(m, p).end <= Size
           /\ Loaded(m, p).tick <= MaxTicks
<1> DEFINE w == Wiped(m)
           n == Len(p.image)
           s == Require(w, InRange(p.base, n), "program out of memory")
<1>1. /\ Typed(w) /\ Ok(w)
      /\ w.end = m.end /\ w.tick = m.tick
  BY WipedIsTyped DEF Ok
<1>2. p.image \in Seq(Byte) /\ n \in Nat /\ p.base \in Word
  OBVIOUS
<1>3. p.base \in Nat
  BY <1>2, Sizes DEF Word
<1> HIDE DEF w
<1>4. CASE ~InRange(p.base, n)
  <2>1. "program out of memory" \in Errors /\ "program out of memory" # NoError
    BY ErrorsAreErrors
  <2> DEFINE t == [w EXCEPT !.error = "program out of memory"]
  <2>2. s = t
    BY <1>1, <1>4 DEF Require
  <2>3. Typed(t) /\ ~Ok(t) /\ t.end = m.end /\ t.tick = m.tick
    BY <1>1, <2>1 DEF Typed, Ok
  <2> HIDE DEF t
  <2>4. Loaded(m, p) = t
    BY <2>2, <2>3 DEF Loaded, w
  <2> QED
    BY <2>3, <2>4
<1>5. CASE InRange(p.base, n)
  <2>1. s = w
    BY <1>5 DEF Require
  <2> DEFINE bytes == Put(w.bytes, p.base, p.image)
             t == [w EXCEPT !.bytes = bytes, !.initialized = Span(p.base, n),
                            !.base = p.base, !.end = p.base + n,
                            !.pc = p.base, !.tick = 0]
  <2>2. Loaded(m, p) = t
    BY <1>1, <2>1 DEF Loaded, w
  <2>3. IsContents(bytes)
    BY <1>1, <1>2, <1>3, <1>5, PutKeepsContents DEF Typed
  <2>4. Span(p.base, n) \subseteq Address
    BY <1>2, <1>3, <1>5, RangeIsAddressed
  <2>5. /\ p.base + n \in 0 .. WordMod /\ p.base + n <= Size
        /\ p.base \in 0 .. WordMod
    BY <1>2, <1>3, <1>5, Sizes, RamAssumption DEF InRange, Word
  <2>6. 0 <= MaxTicks
    BY ProgramAssumption
  <2> HIDE DEF bytes, n
  <2>7. Typed(t) /\ t.end = p.base + n /\ t.tick = 0
    BY <1>1, <1>2, <2>3, <2>4, <2>5 DEF Typed
  <2> HIDE DEF t
  <2> QED
    BY <2>2, <2>5, <2>6, <2>7
<1> QED
  BY <1>4, <1>5

LEMMA InitIInv ==
    ASSUME Init
    PROVE  IInv
<1>1. ZeroRegisters \in [Register -> Word] /\ 0 \in Word /\ 0 \in 0 .. WordMod
  BY Sizes DEF ZeroRegisters, Word
<1>2. NoError \in Errors
  BY DEF Errors
<1>3. Typed(machine) /\ machine.end = 0 /\ machine.tick = 0
  BY <1>1, <1>2, NoBytesIsContents DEF Init, Typed
<1> QED
  <2>1. 0 <= Size /\ 0 <= MaxTicks /\ 0 \in 0 .. MaxLoads
    BY RamAssumption, ProgramAssumption
  <2> QED
    BY <1>3, <2>1 DEF Init, IInv

LEMMA LoadIInv ==
    ASSUME IInv, NEW p, p.image \in Seq(Byte), p.base \in Word, LoadProgram(p)
    PROVE  IInv'
<1> DEFINE b == Begin(machine)
<1>1. Typed(b) /\ Ok(b) /\ b.end <= Size /\ b.tick <= MaxTicks
  BY BeginIsTyped DEF IInv
<1>2. machine' = Loaded(b, p) /\ Acceptable(p)
  BY DEF LoadProgram
<1> HIDE DEF b
<1>3. Typed(machine') /\ machine'.end <= Size /\ machine'.tick <= MaxTicks
  BY <1>1, <1>2, LoadedIsTyped
<1>4. halfLoaded' \in BOOLEAN
  BY DEF LoadProgram
<1>5. loads' \in 0 .. MaxLoads
  BY ProgramAssumption DEF LoadProgram, IInv
<1>6. clearStack' \in BOOLEAN /\ warning' \in BOOLEAN
  BY DEF LoadProgram, IInv
<1> QED
  BY <1>3, <1>4, <1>5, <1>6 DEF IInv

LEMMA RefuseIInv ==
    ASSUME IInv, NEW p, RefuseProgram(p)
    PROVE  /\ IInv'
           /\ Architecture(machine') = Architecture(machine)
<1> DEFINE b == Begin(machine)
           t == [b EXCEPT !.error = "invalid program"]
<1>1. /\ Typed(b) /\ Ok(b) /\ b.end = machine.end /\ b.tick = machine.tick
      /\ Architecture(b) = Architecture(machine)
  BY BeginIsTyped DEF IInv
<1> HIDE DEF b
<1>2. machine' = t
  BY <1>1 DEF RefuseProgram, Require, b
<1>3. "invalid program" \in Errors
  BY ErrorsAreErrors
<1>4. Typed(t) /\ t.end = b.end /\ t.tick = b.tick /\ Architecture(t) = Architecture(b)
  BY <1>1, <1>3 DEF Typed, Architecture
<1> HIDE DEF t
<1>5. Typed(machine') /\ machine'.end <= Size /\ machine'.tick <= MaxTicks
  BY <1>1, <1>2, <1>4 DEF IInv
<1>6. loads' \in 0 .. MaxLoads
  <2>1. loads < MaxLoads /\ loads' = loads + 1
    BY DEF RefuseProgram
  <2> QED
    BY <2>1, ProgramAssumption DEF IInv
<1>7. clearStack' \in BOOLEAN /\ warning' \in BOOLEAN /\ halfLoaded' \in BOOLEAN
  BY DEF RefuseProgram, IInv
<1> QED
  BY <1>1, <1>2, <1>4, <1>5, <1>6, <1>7 DEF IInv

LEMMA NextIInv ==
    ASSUME IInv, [Next]_vars
    PROVE  IInv'
<1>1. CASE Step
  <2>1. StepResult
    BY <1>1, StepsResult
  <2>2. UNCHANGED <<clearStack, warning, loads, halfLoaded>>
    BY <1>1 DEF Step, Unloaded, ExecuteLoadImmediate, ExecuteCalculate, ExecuteLoad,
       ExecuteStore, ExecuteConvert, ExecuteRelativeJump, ExecuteBranch,
       ExecuteAbsoluteJump, ExecuteCall, ExecuteWriteStatus, ExecuteReadStatus,
       ExecuteAdvanceStackPointer, ExecuteInvalidOpcode, FailToFetch
  <2>3. Typed(machine') /\ machine'.end <= Size /\ machine'.tick <= MaxTicks
    BY <2>1 DEF StepResult, IInv
  <2>4. /\ clearStack' \in BOOLEAN /\ warning' \in BOOLEAN /\ halfLoaded' \in BOOLEAN
        /\ loads' \in 0 .. MaxLoads
    BY <2>2 DEF IInv
  <2> QED
    BY <2>3, <2>4 DEF IInv
<1>2. ASSUME NEW p \in Programs, LoadProgram(p)
      PROVE  IInv'
  BY <1>2, LoadIInv, ProgramAssumption
<1>3. ASSUME NEW p \in Programs, RefuseProgram(p)
      PROVE  IInv'
  BY <1>3, RefuseIInv
<1>4. CASE EnableClearStack
  BY <1>4 DEF EnableClearStack, IInv
<1>5. CASE EnableUninitializedRamWarnings
  BY <1>5 DEF EnableUninitializedRamWarnings, IInv
<1>6. CASE UNCHANGED vars
  BY <1>6 DEF vars, IInv
<1> QED
  BY <1>1, <1>2, <1>3, <1>4, <1>5, <1>6 DEF Next

\* The inductive invariant holds: the machine has its types and the loaded program
\* lies in RAM, whatever is loaded, refused or executed.
THEOREM IInvAlways == Spec => []IInv
<1>1. Init => IInv
  BY InitIInv
<1>2. IInv /\ [Next]_vars => IInv'
  BY NextIInv
<1> QED
  BY <1>1, <1>2, PTL DEF Spec

-----------------------------------------------------------------------------
(* What a step that does not throw makes of RAM and of the stack *)

LEMMA FetchedShows ==
    ASSUME IInv, Ok(Fetched)
    PROVE  /\ Ready(Fetched) /\ Fields(Instruction)
           /\ Fetched.regs = machine.regs /\ Fetched.pc = machine.pc
           /\ OnlyRegisters(machine, Fetched)
           /\ Fetched.stackBottom = machine.stackBottom
           /\ machine.spTop \in Word /\ machine.spTop \in Nat
           /\ machine.regs \in [Register -> Word]
           /\ IsContents(machine.bytes)
<1>1. Ready(Fetched) /\ Fetched = Begin(machine) /\ Fields(Instruction)
  BY FetchIsReady, InstructionHasFields DEF IInv
<1>2. /\ Begin(machine).regs = machine.regs /\ Begin(machine).pc = machine.pc
      /\ OnlyRegisters(machine, Begin(machine))
      /\ Begin(machine).stackBottom = machine.stackBottom
  BY DEF IInv, Typed, Begin, OnlyRegisters
<1>3. /\ machine.spTop \in Word /\ machine.spTop \in Nat
      /\ machine.regs \in [Register -> Word] /\ IsContents(machine.bytes)
  BY Sizes DEF IInv, Typed, Word
<1> QED
  BY <1>1, <1>2, <1>3

\* The addresses and displacements that a fetched instruction names.
LEMMA FetchedOperands ==
    ASSUME IInv, Ok(Fetched), NEW i
    PROVE  /\ EffectiveAddress(Fetched, i) = EffectiveAddress(machine, i)
           /\ StackDelta(Fetched, i) = StackDelta(machine, i)
BY FetchedShows DEF EffectiveAddress, StackDelta

\* After the count of the instruction, what it did can still be seen.
LEMMA ExecutedShows ==
    ASSUME NEW m, NEW r, Outcome(m, r), machine' = Retire(r), Ok(machine')
    PROVE  /\ Ok(r) /\ machine'.regs = r.regs /\ machine'.pc = r.pc
           /\ OnlyRegisters(r, machine')
BY RetireShows DEF Outcome

\* A store writes its span, ASPI and ASPR release what they pass, and no other
\* instruction touches RAM; only a write of a status register sets SP_TOP or SP_SIZE.
RamShows(i) ==
    \/ /\ i.op \in Stores
       /\ EffectiveAddress(machine, i) \in Nat
       /\ AccessSize(i.op) \in {1, 2, 4}
       /\ ToBytes(machine.regs[i.a], AccessSize(i.op)) \in Seq(Byte)
       /\ Len(ToBytes(machine.regs[i.a], AccessSize(i.op))) = AccessSize(i.op)
       /\ machine'.bytes = Put(machine.bytes, EffectiveAddress(machine, i),
                               ToBytes(machine.regs[i.a], AccessSize(i.op)))
       /\ machine'.initialized = machine.initialized \union
                                 Span(EffectiveAddress(machine, i), AccessSize(i.op))
       /\ machine'.spTop = machine.spTop /\ machine'.spSize = machine.spSize
    \/ /\ i.op \in {ASPI, ASPR}
       /\ StackDelta(machine, i) \in Int
       /\ -StackDelta(machine, i) <= machine.spSize
       /\ StackDelta(machine, i) > 0 =>
            machine.spTop + StackDelta(machine, i) <= machine.stackBottom
       /\ machine.spTop \in Nat
       /\ machine'.spTop = Unsigned(machine.spTop + StackDelta(machine, i))
       /\ machine'.bytes = IF StackDelta(machine, i) > 0
                           THEN BytesReleased(machine, machine.spTop, StackDelta(machine, i))
                           ELSE machine.bytes
       /\ machine'.initialized =
            IF StackDelta(machine, i) > 0
            THEN InitializedReleased(machine, machine.spTop, StackDelta(machine, i))
            ELSE machine.initialized
    \/ /\ i.op \notin Stores \union {ASPI, ASPR}
       /\ machine'.bytes = machine.bytes /\ machine'.initialized = machine.initialized
       /\ \/ i.op = SCRW /\ i.a \in {SpTop, SpSize}
          \/ machine'.spTop = machine.spTop /\ machine'.spSize = machine.spSize

\* Instructions that only touch registers and the instruction pointer.
LEMMA RegisterStep ==
    ASSUME IInv, Ok(Fetched), Ok(machine'),
           NEW r, Outcome(Fetched, r), Ok(r) => OnlyRegisters(Fetched, r),
           machine' = Retire(r), Instruction.op \notin Stores \union {ASPI, ASPR}
    PROVE  RamShows(Instruction)
<1>1. Ok(r) /\ OnlyRegisters(r, machine')
  BY ExecutedShows
<1>2. OnlyRegisters(machine, Fetched)
  BY FetchedShows
<1> QED
  BY <1>1, <1>2 DEF RamShows, OnlyRegisters

LEMMA WriteStatusRam ==
    ASSUME IInv, ExecuteWriteStatus, Ok(machine')
    PROVE  RamShows(Instruction)
<1> DEFINE m == Fetched
           i == Instruction
           r == WriteStatus(m, i)
<1>1. Ok(m) /\ i.op = SCRW /\ machine' = Retire(r)
  BY DEF ExecuteWriteStatus, Executing
<1>2. Ready(m) /\ Fields(i) /\ OnlyRegisters(machine, m)
  BY <1>1, FetchedShows
<1> HIDE DEF m, i
<1>3. Outcome(m, r)
  BY <1>2, WriteStatusOutcome
<1>4. Ok(r) /\ OnlyRegisters(r, machine')
  BY <1>1, <1>3, ExecutedShows
<1>5. /\ i.a \in StatusRegister /\ r.bytes = m.bytes /\ r.initialized = m.initialized
      /\ i.a = Ip => OnlyRegisters(m, r)
  BY <1>2, <1>4, WriteStatusShows
<1>6. i.op \notin Stores \union {ASPI, ASPR}
  BY <1>1, OpcodeNumbers
<1> HIDE DEF r
<1> QED
  BY <1>1, <1>2, <1>4, <1>5, <1>6 DEF RamShows, OnlyRegisters, StatusRegister, i

LEMMA StoreRam ==
    ASSUME IInv, ExecuteStore, Ok(machine')
    PROVE  RamShows(Instruction)
<1> DEFINE m == Fetched
           i == Instruction
           r == StoreMemory(m, i)
           a == EffectiveAddress(machine, i)
           n == AccessSize(i.op)
           data == ToBytes(machine.regs[i.a], n)
<1>1. Ok(m) /\ i.op \in Stores /\ machine' = Retire(r)
  BY DEF ExecuteStore, Executing
<1>2. Ready(m) /\ Fields(i) /\ m.regs = machine.regs /\ OnlyRegisters(machine, m)
  BY <1>1, FetchedShows
<1>3. EffectiveAddress(m, i) = a
  BY <1>1, FetchedOperands
<1> HIDE DEF m, i
<1>4. Outcome(m, r)
  BY <1>1, <1>2, StoreMemoryOutcome
<1>5. Ok(r) /\ OnlyRegisters(r, machine')
  BY <1>1, <1>4, ExecutedShows
<1>6. /\ a \in Nat /\ n \in {1, 2, 4}
      /\ data \in Seq(Byte) /\ Len(data) = n
      /\ r.bytes = Put(m.bytes, a, data)
      /\ r.initialized = m.initialized \union Span(a, n)
      /\ r.spTop = m.spTop /\ r.spSize = m.spSize
  BY <1>1, <1>2, <1>3, <1>5, StoreShows
<1> HIDE DEF r
<1> QED
  BY <1>1, <1>2, <1>5, <1>6 DEF RamShows, OnlyRegisters, i

LEMMA AdvanceStackRam ==
    ASSUME IInv, ExecuteAdvanceStackPointer, Ok(machine')
    PROVE  RamShows(Instruction)
<1> DEFINE m == Fetched
           i == Instruction
           r == AdvanceStackPointer(m, i)
           delta == StackDelta(machine, i)
<1>1. Ok(m) /\ i.op \in {ASPI, ASPR} /\ machine' = Retire(r)
  BY DEF ExecuteAdvanceStackPointer, Executing
<1>2. /\ Ready(m) /\ Fields(i) /\ OnlyRegisters(machine, m)
      /\ machine.spTop \in Nat /\ m.stackBottom = machine.stackBottom
  BY <1>1, FetchedShows
<1>3. StackDelta(m, i) = delta
  BY <1>1, FetchedOperands
<1> HIDE DEF m, i
<1>4. Outcome(m, r)
  BY <1>1, <1>2, AdvanceStackPointerOutcome
<1>5. Ok(r) /\ OnlyRegisters(r, machine')
  BY <1>1, <1>4, ExecutedShows
<1>6. /\ delta \in Int
      /\ -delta <= m.spSize
      /\ delta > 0 => m.spTop + delta <= m.stackBottom
      /\ r.spTop = Unsigned(m.spTop + delta)
      /\ r.bytes = IF delta > 0 THEN BytesReleased(m, m.spTop, delta) ELSE m.bytes
      /\ r.initialized =
           IF delta > 0 THEN InitializedReleased(m, m.spTop, delta) ELSE m.initialized
  BY <1>1, <1>2, <1>3, <1>5, AdvanceStackShows
<1> HIDE DEF r, delta
<1>7. /\ -delta <= machine.spSize
      /\ delta > 0 => machine.spTop + delta <= machine.stackBottom
      /\ machine'.spTop = Unsigned(machine.spTop + delta)
      /\ machine'.bytes =
           IF delta > 0 THEN BytesReleased(machine, machine.spTop, delta) ELSE machine.bytes
      /\ machine'.initialized =
           IF delta > 0 THEN InitializedReleased(machine, machine.spTop, delta)
           ELSE machine.initialized
  BY <1>2, <1>5, <1>6 DEF OnlyRegisters, BytesReleased, InitializedReleased
<1> QED
  BY <1>1, <1>2, <1>6, <1>7 DEF RamShows, i, delta

LEMMA StepsShowRam ==
    ASSUME IInv, Step, Ok(machine')
    PROVE  RamShows(Instruction)
<1> DEFINE m == Fetched
           i == Instruction
<1>1. Ok(m)
  BY DEF Step, Executing, FailToFetch, ExecuteLoadImmediate, ExecuteCalculate, ExecuteLoad,
     ExecuteStore, ExecuteConvert, ExecuteRelativeJump, ExecuteBranch, ExecuteAbsoluteJump,
     ExecuteCall, ExecuteWriteStatus, ExecuteReadStatus, ExecuteAdvanceStackPointer,
     ExecuteInvalidOpcode
<1>2. Ready(m) /\ Fields(i)
  BY <1>1, FetchedShows
<1>3. CASE ExecuteLoadImmediate
  <2>1. i.op \in {LI, LUI} /\ machine' = Retire(LoadImmediate(m, i))
    BY <1>3 DEF ExecuteLoadImmediate, Executing
  <2>2. i.op \notin Stores \union {ASPI, ASPR}
    BY <2>1, OpcodeNumbers
  <2> HIDE DEF m, i
  <2>3. /\ Outcome(m, LoadImmediate(m, i))
        /\ Ok(LoadImmediate(m, i)) => OnlyRegisters(m, LoadImmediate(m, i))
    BY <1>2, LoadImmediateOutcome, LoadImmediateShows
  <2> QED
    BY <1>1, <2>1, <2>2, <2>3, RegisterStep DEF m, i
<1>4. CASE ExecuteCalculate
  <2>1. i.op \in RRR /\ machine' = Retire(Calculate(m, i))
    BY <1>4 DEF ExecuteCalculate, Executing
  <2>2. i.op \notin Stores \union {ASPI, ASPR}
    BY <2>1, OpcodeNumbers
  <2> HIDE DEF m, i
  <2>3. /\ Outcome(m, Calculate(m, i))
        /\ Ok(Calculate(m, i)) => OnlyRegisters(m, Calculate(m, i))
    BY <1>2, <2>1, CalculateOutcome, CalculateShows
  <2> QED
    BY <1>1, <2>1, <2>2, <2>3, RegisterStep DEF m, i
<1>5. CASE ExecuteLoad
  <2>1. i.op \in Loads /\ machine' = Retire(LoadMemory(m, i))
    BY <1>5 DEF ExecuteLoad, Executing
  <2>2. i.op \notin Stores \union {ASPI, ASPR}
    BY <2>1, OpcodeNumbers
  <2> HIDE DEF m, i
  <2>3. /\ Outcome(m, LoadMemory(m, i))
        /\ Ok(LoadMemory(m, i)) => OnlyRegisters(m, LoadMemory(m, i))
    BY <1>2, <2>1, LoadMemoryOutcome, LoadShows
  <2> QED
    BY <1>1, <2>1, <2>2, <2>3, RegisterStep DEF m, i
<1>6. CASE ExecuteConvert
  <2>1. i.op \in Conversions /\ machine' = Retire(Convert(m, i))
    BY <1>6 DEF ExecuteConvert, Executing
  <2>2. i.op \notin Stores \union {ASPI, ASPR}
    BY <2>1, OpcodeNumbers
  <2> HIDE DEF m, i
  <2>3. /\ Outcome(m, Convert(m, i))
        /\ Ok(Convert(m, i)) => OnlyRegisters(m, Convert(m, i))
    BY <1>2, ConvertOutcome, ConvertShows
  <2> QED
    BY <1>1, <2>1, <2>2, <2>3, RegisterStep DEF m, i
<1>7. CASE ExecuteRelativeJump
  <2>1. i.op \in {RJMP} /\ machine' = Retire(RelativeJump(m, i))
    BY <1>7 DEF ExecuteRelativeJump, Executing
  <2>2. i.op \notin Stores \union {ASPI, ASPR}
    BY <2>1, OpcodeNumbers
  <2> HIDE DEF m, i
  <2>3. /\ Outcome(m, RelativeJump(m, i))
        /\ Ok(RelativeJump(m, i)) => OnlyRegisters(m, RelativeJump(m, i))
    BY <1>2, RelativeJumpOutcome, RelativeJumpShows
  <2> QED
    BY <1>1, <2>1, <2>2, <2>3, RegisterStep DEF m, i
<1>8. CASE ExecuteBranch
  <2>1. i.op \in Branches /\ machine' = Retire(Branch(m, i))
    BY <1>8 DEF ExecuteBranch, Executing
  <2>2. i.op \notin Stores \union {ASPI, ASPR}
    BY <2>1, OpcodeNumbers
  <2> HIDE DEF m, i
  <2>3. /\ Outcome(m, Branch(m, i))
        /\ Ok(Branch(m, i)) => OnlyRegisters(m, Branch(m, i))
    BY <1>2, BranchOutcome, BranchShows
  <2> QED
    BY <1>1, <2>1, <2>2, <2>3, RegisterStep DEF m, i
<1>9. CASE ExecuteAbsoluteJump
  <2>1. i.op \in {AJMP} /\ machine' = Retire(AbsoluteJump(m, i))
    BY <1>9 DEF ExecuteAbsoluteJump, Executing
  <2>2. i.op \notin Stores \union {ASPI, ASPR}
    BY <2>1, OpcodeNumbers
  <2> HIDE DEF m, i
  <2>3. /\ Outcome(m, AbsoluteJump(m, i))
        /\ Ok(AbsoluteJump(m, i)) => OnlyRegisters(m, AbsoluteJump(m, i))
    BY <1>2, AbsoluteJumpOutcome, AbsoluteJumpShows
  <2> QED
    BY <1>1, <2>1, <2>2, <2>3, RegisterStep DEF m, i
<1>10. CASE ExecuteCall
  <2>1. i.op \in {CALL} /\ machine' = Retire(CallSubroutine(m, i))
    BY <1>10 DEF ExecuteCall, Executing
  <2>2. i.op \notin Stores \union {ASPI, ASPR}
    BY <2>1, OpcodeNumbers
  <2> HIDE DEF m, i
  <2>3. /\ Outcome(m, CallSubroutine(m, i))
        /\ Ok(CallSubroutine(m, i)) => OnlyRegisters(m, CallSubroutine(m, i))
    BY <1>2, CallSubroutineOutcome, CallShows
  <2> QED
    BY <1>1, <2>1, <2>2, <2>3, RegisterStep DEF m, i
<1>11. CASE ExecuteReadStatus
  <2>1. i.op \in {SCRR} /\ machine' = Retire(ReadStatus(m, i))
    BY <1>11 DEF ExecuteReadStatus, Executing
  <2>2. i.op \notin Stores \union {ASPI, ASPR}
    BY <2>1, OpcodeNumbers
  <2> HIDE DEF m, i
  <2>3. /\ Outcome(m, ReadStatus(m, i))
        /\ Ok(ReadStatus(m, i)) => OnlyRegisters(m, ReadStatus(m, i))
    BY <1>2, ReadStatusOutcome, ReadStatusShows
  <2> QED
    BY <1>1, <2>1, <2>2, <2>3, RegisterStep DEF m, i
<1>12. ~ExecuteInvalidOpcode
  <2>1. SUFFICES ASSUME ExecuteInvalidOpcode
                 PROVE  FALSE
    OBVIOUS
  <2> DEFINE r == InvalidOpcode(m, i)
  <2>2. i.op \notin Opcodes /\ machine' = Retire(r)
    BY <2>1 DEF ExecuteInvalidOpcode, Executing
  <2>3. "invalid opcode" \in Errors \ {NoError}
    BY ErrorsAreErrors
  <2> HIDE DEF m, i
  <2>4. ~Ok(r)
    BY <1>2, <2>2, <2>3, CheckFails DEF InvalidOpcode, Require, Ready
  <2> HIDE DEF r
  <2> QED
    BY <2>2, <2>4 DEF Retire
<1> QED
  BY <1>1, <1>3, <1>4, <1>5, <1>6, <1>7, <1>8, <1>9, <1>10, <1>11, <1>12, StoreRam, AdvanceStackRam, WriteStatusRam
     DEF Step, FailToFetch

-----------------------------------------------------------------------------
(* Theorems *)

LEMMA NotLoading ==
    ASSUME IInv, [Next]_vars, loads' = loads
    PROVE  \/ Step
           \/ UNCHANGED machine
<1>1. loads + 1 # loads
  BY DEF IInv
<1> QED
  BY <1>1 DEF Next, LoadProgram, RefuseProgram, EnableClearStack,
     EnableUninitializedRamWarnings, vars

\* Registers, status registers, RAM, addresses, ticks and errors always have
\* the types of the class Emulator.
THEOREM TypeCorrect == Spec => []TypeOK
<1>1. IInv => TypeOK
  <2> SUFFICES ASSUME IInv
               PROVE  TypeOK
    OBVIOUS
  <2>1. machine.tick \in 0 .. MaxTicks
    BY ProgramAssumption DEF IInv, Typed
  <2>2. Typed(machine)
    BY DEF IInv
  <2> QED
    BY <2>1, <2>2 DEF IInv, Typed, TypeOK
<1> QED
  BY <1>1, IInvAlways, PTL

\* Whatever instruction throws and wherever in it, no register, byte of RAM,
\* address or tick has changed: execute never leaves an instruction half done.
THEOREM FailedStepsChangeNothing == Spec => FailedStepChangesNothing
<1> DEFINE A == loads' = loads /\ machine'.error # NoError =>
                  Architecture(machine') = Architecture(machine)
<1>1. IInv /\ [Next]_vars => [A]_vars
  <2> SUFFICES ASSUME IInv, [Next]_vars, loads' = loads, machine'.error # NoError
               PROVE  Architecture(machine') = Architecture(machine)
    BY DEF vars
  <2>1. CASE Step
    BY <2>1, StepsResult DEF StepResult
  <2>2. CASE UNCHANGED machine
    BY <2>2 DEF Architecture
  <2> QED
    BY <2>1, <2>2, NotLoading
<1> QED
  BY <1>1, IInvAlways, PTL DEF Spec, FailedStepChangesNothing

\* Every instruction executed is an aligned word of the program that was loaded
\* last, and that program is in RAM (fetchInstructionWord, loadProgram).
THEOREM ExecutionStaysInside == Spec => ExecutesInsideProgram
<1> DEFINE A == machine'.tick # machine.tick /\ loads' = loads =>
                  /\ machine.base <= machine.pc
                  /\ machine.pc + InstructionSize <= machine.end
                  /\ machine.pc % InstructionSize = 0
                  /\ machine.end <= Size
<1>1. IInv /\ [Next]_vars => [A]_vars
  <2> SUFFICES ASSUME IInv, [Next]_vars, loads' = loads, machine'.tick # machine.tick
               PROVE  /\ machine.base <= machine.pc
                      /\ machine.pc + InstructionSize <= machine.end
                      /\ machine.pc % InstructionSize = 0
                      /\ machine.end <= Size
    BY DEF vars
  <2>1. Step
    BY NotLoading
  <2>2. Ok(Fetched)
    BY <2>1, StepsResult DEF StepResult
  <2>3. /\ machine.base <= machine.pc
        /\ machine.end - machine.pc >= InstructionSize
        /\ machine.pc % InstructionSize = 0
    BY <2>2, FetchIsChecked DEF IInv
  <2>4. machine.pc \in Int /\ machine.end \in Int
    BY Sizes DEF IInv, Typed
  <2> QED
    BY <2>3, <2>4 DEF IInv, InstructionSize
<1> QED
  BY <1>1, IInvAlways, PTL DEF Spec, ExecutesInsideProgram

\* No sequence of ASPI and ASPR, by whatever amounts, and no other instruction
\* but a write of SP_TOP or SP_SIZE, moves SP_TOP out of a well-formed stack.
THEOREM StackWindowIsKept == Spec => StackStaysInWindow
<1> DEFINE A == loads' = loads /\ ~SetsUpStack /\ StackWellFormed(machine) =>
                  /\ StackWellFormed(machine')
                  /\ StackLimit(machine') = StackLimit(machine)
                  /\ machine'.stackBottom = machine.stackBottom
<1>1. IInv /\ [Next]_vars => [A]_vars
  <2> SUFFICES ASSUME IInv, [Next]_vars, loads' = loads, ~SetsUpStack,
                      StackWellFormed(machine)
               PROVE  /\ StackWellFormed(machine')
                      /\ StackLimit(machine') = StackLimit(machine)
                      /\ machine'.stackBottom = machine.stackBottom
    BY DEF vars
  <2>1. CASE Step
    BY <2>1, StepsResult DEF StepResult, StackKept
  <2>2. CASE UNCHANGED machine
    BY <2>2 DEF StackWellFormed, StackLimit
  <2> QED
    BY <2>1, <2>2, NotLoading
<1> QED
  BY <1>1, IInvAlways, PTL DEF Spec, StackStaysInWindow

-----------------------------------------------------------------------------
(* A load that fails after it wiped the machine *)

Blank(m) ==
    /\ m.regs = ZeroRegisters
    /\ m.spTop = 0 /\ m.spSize = 0 /\ m.stackBottom = 0
    /\ m.bytes = NoBytes
    /\ m.initialized = {}

LEMMA BeginIsBlank ==
    ASSUME NEW m, Typed(m), Blank(m)
    PROVE  Blank(Begin(m))
BY DEF Typed, Blank, Begin

\* All that a blank RAM holds is LI R0, 0.
LEMMA BlankInstruction ==
    ASSUME Blank(machine), Typed(machine)
    PROVE  Instruction.op = LI /\ Instruction.a = 0 /\ Instruction.imm = 0
<1> DEFINE s == BytesAt(machine.bytes, machine.pc, InstructionSize)
<1>1. \A x : ByteAt(machine.bytes, x) = 0
  BY DEF Blank, NoBytes, ByteAt
<1>2. s = [k \in 1 .. 4 |-> 0]
  BY <1>1 DEF BytesAt, InstructionSize
<1> HIDE DEF s
<1>3. s[1] = 0 /\ s[2] = 0 /\ s[3] = 0 /\ s[4] = 0
  BY <1>2
<1>4. s[3] + ByteMod * s[4] = 0
  BY <1>3, Sizes
<1> QED
  BY <1>3, <1>4 DEF Instruction, Decode, LI, s

\* LI R0, 0 leaves a blank machine blank, whatever becomes of its address.
LEMMA BlankStep ==
    ASSUME NEW m, Ready(m), Blank(m), NEW i, i.op = LI, i.a = 0, i.imm = 0
    PROVE  Blank(Retire(LoadImmediate(m, i)))
<1> DEFINE r == RequireRegisters(m, {i.a})
           s == [m EXCEPT !.regs[0] = 0]
           t == AdvancePc(s)
<1>1. r = m
  BY DEF RequireRegisters, Require, Register
<1>2. LoadImmediate(m, i) = t
  BY <1>1 DEF LoadImmediate, SetRegister, Ready
<1>3. Typed(s) /\ Blank(s) /\ s.pc = m.pc
  <2>1. 0 \in Register /\ 0 \in Word
    BY Sizes DEF Register, Word
  <2>2. s.regs = ZeroRegisters
    BY <2>1 DEF Ready, Typed, Blank, ZeroRegisters
  <2> QED
    BY <2>1, <2>2 DEF Ready, Typed, Blank
<1> HIDE DEF s
<1>4. Typed(t) /\ Blank(t)
  <2>1. s.pc + InstructionSize \in 0 .. WordMod /\ s.pc <= WordMod - InstructionSize
    BY <1>3, ReadyFacts, Sizes DEF InstructionSize
  <2>2. t = SetPc(s, s.pc + InstructionSize)
    BY <2>1 DEF AdvancePc, Require
  <2> QED
    BY <1>3, <2>1, <2>2 DEF SetPc, Typed, Blank
<1> HIDE DEF t
<1> QED
  BY <1>2, <1>4 DEF Retire, Typed, Blank

LEMMA BlankStays ==
    ASSUME IInv, halfLoaded => Blank(machine), [Next]_vars
    PROVE  halfLoaded' => Blank(machine')
<1> SUFFICES ASSUME halfLoaded'
             PROVE  Blank(machine')
  OBVIOUS
<1>1. CASE Step
  <2>1. halfLoaded' = halfLoaded
    BY <1>1 DEF Step, Unloaded, ExecuteLoadImmediate, ExecuteCalculate, ExecuteLoad,
       ExecuteStore, ExecuteConvert, ExecuteRelativeJump, ExecuteBranch,
       ExecuteAbsoluteJump, ExecuteCall, ExecuteWriteStatus, ExecuteReadStatus,
       ExecuteAdvanceStackPointer, ExecuteInvalidOpcode, FailToFetch
  <2>2. Blank(machine) /\ Typed(machine)
    BY <2>1 DEF IInv
  <2>3. Instruction.op = 0 /\ Instruction.a = 0 /\ Instruction.imm = 0
    BY <2>2, BlankInstruction DEF LI
  <2>4. ExecuteLoadImmediate \/ FailToFetch
    <3>1. /\ 0 \notin RRR /\ 0 \notin Loads /\ 0 \notin Stores
          /\ 0 \notin Conversions /\ 0 \notin Branches
          /\ 0 \notin {RJMP, AJMP, CALL, SCRW, SCRR, ASPI, ASPR}
          /\ 0 \notin Byte \ Opcodes
      BY DEF RRR, Loads, Stores, Conversions, Branches, Opcodes, LI, LUI, ADD, SDIV, EQ,
         SGE, LDB, LDW, STB, STW, SXT, BSWAP, BRZ, BRNZ, RJMP, AJMP, CALL, SCRW, SCRR,
         ASPI, ASPR
    <3> QED
      BY <1>1, <2>3, <3>1 DEF Step, Executing, ExecuteCalculate, ExecuteLoad,
         ExecuteStore, ExecuteConvert, ExecuteRelativeJump, ExecuteBranch,
         ExecuteAbsoluteJump, ExecuteCall, ExecuteWriteStatus, ExecuteReadStatus,
         ExecuteAdvanceStackPointer, ExecuteInvalidOpcode
  <2>5. CASE ExecuteLoadImmediate
    <3>1. machine' = Retire(LoadImmediate(Fetched, Instruction)) /\ Ok(Fetched)
      BY <2>5 DEF ExecuteLoadImmediate, Executing
    <3>2. Ready(Fetched) /\ Blank(Fetched)
      BY <2>2, <3>1, FetchIsReady, BeginIsBlank
    <3> QED
      BY <2>3, <3>1, <3>2, BlankStep DEF LI
  <2>6. CASE FailToFetch
    <3>1. machine' = Fetched
      BY <2>6 DEF FailToFetch
    <3>2. Typed(Begin(machine)) /\ Blank(Begin(machine))
      BY <2>2, BeginIsTyped, BeginIsBlank
    <3> QED
      BY <2>2, <3>1, <3>2, FetchIsChecked DEF Failed, Typed, Blank
  <2> QED
    BY <2>4, <2>5, <2>6
<1>2. ASSUME NEW p \in Programs, LoadProgram(p)
      PROVE  Blank(machine')
  <2> DEFINE w == Wiped(Begin(machine))
  <2>1. ~InRange(p.base, Len(p.image)) /\ machine' = Loaded(Begin(machine), p)
    BY <1>2 DEF LoadProgram
  <2>2. Typed(w) /\ Ok(w)
    BY BeginIsTyped, WipedIsTyped DEF IInv, Ok
  <2>3. Blank(w)
    BY BeginIsTyped DEF IInv, Typed, Wiped, Blank
  <2> DEFINE t == [w EXCEPT !.error = "program out of memory"]
  <2> HIDE DEF w
  <2>4. "program out of memory" # NoError
    BY ErrorsAreErrors
  <2>5. Blank(t) /\ ~Ok(t)
    BY <2>2, <2>3, <2>4 DEF Typed, Blank, Ok
  <2>6. Require(w, InRange(p.base, Len(p.image)), "program out of memory") = t
    BY <2>1, <2>2 DEF Require
  <2> HIDE DEF t
  <2>7. machine' = t
    BY <2>1, <2>5, <2>6 DEF Loaded, w
  <2> QED
    BY <2>5, <2>7
<1>3. ASSUME NEW p \in Programs, RefuseProgram(p)
      PROVE  Blank(machine')
  <2>1. Architecture(machine') = Architecture(machine)
    BY <1>3, RefuseIInv
  <2>2. Blank(machine)
    BY <1>3 DEF RefuseProgram
  <2> QED
    BY <2>1, <2>2 DEF Architecture, Blank
<1>4. CASE EnableClearStack
  BY <1>4 DEF EnableClearStack
<1>5. CASE EnableUninitializedRamWarnings
  BY <1>5 DEF EnableUninitializedRamWarnings
<1>6. CASE UNCHANGED vars
  BY <1>6 DEF vars
<1> QED
  BY <1>1, <1>2, <1>3, <1>4, <1>5, <1>6 DEF Next

\* After a load that failed once the machine was wiped, no step until the next
\* load computes anything or touches RAM, although the addresses of the program
\* before it are still there (loadProgram).
THEOREM HalfLoadedIsHarmless == Spec => []HalfLoadedRunsNothing
<1> DEFINE Inv == IInv /\ (halfLoaded => Blank(machine))
<1>1. Init => Inv
  BY InitIInv DEF Init
<1>2. Inv /\ [Next]_vars => Inv'
  BY NextIInv, BlankStays
<1>3. Inv => HalfLoadedRunsNothing
  BY DEF HalfLoadedRunsNothing, Blank
<1> QED
  BY <1>1, <1>2, <1>3, PTL DEF Spec

-----------------------------------------------------------------------------
(* The free part of the stack *)

LEMMA LoadedStack ==
    ASSUME IInv, NEW p \in Programs, LoadProgram(p)
    PROVE  /\ machine'.spTop = 0 /\ machine'.spSize = 0 /\ machine'.stackBottom = 0
           /\ DOMAIN machine'.bytes \subseteq machine'.initialized
<1> DEFINE w == Wiped(Begin(machine))
           n == Len(p.image)
           bytes == Put(w.bytes, p.base, p.image)
           span == Span(p.base, n)
<1>1. machine' = Loaded(Begin(machine), p)
  BY DEF LoadProgram
<1>2. Typed(w) /\ Ok(w)
  BY BeginIsTyped, WipedIsTyped DEF IInv, Ok
<1>3. /\ w.spTop = 0 /\ w.spSize = 0 /\ w.stackBottom = 0
      /\ w.bytes = NoBytes /\ w.initialized = {}
  BY BeginIsTyped DEF IInv, Typed, Wiped
<1>4. DOMAIN NoBytes = {}
  BY DEF NoBytes
<1>5. DOMAIN bytes \subseteq span
  BY <1>3, <1>4 DEF Put
<1> HIDE DEF w, bytes, span
<1>6. CASE ~InRange(p.base, n)
  <2> DEFINE t == [w EXCEPT !.error = "program out of memory"]
  <2>1. "program out of memory" # NoError
    BY ErrorsAreErrors
  <2>2. /\ ~Ok(t)
        /\ t.spTop = 0 /\ t.spSize = 0 /\ t.stackBottom = 0
        /\ DOMAIN t.bytes \subseteq t.initialized
    BY <1>2, <1>3, <1>4, <2>1 DEF Typed, Ok
  <2>3. Require(w, InRange(p.base, n), "program out of memory") = t
    BY <1>2, <1>6 DEF Require
  <2> HIDE DEF t
  <2>4. machine' = t
    BY <1>1, <2>2, <2>3 DEF Loaded, w
  <2> QED
    BY <2>2, <2>4
<1>7. CASE InRange(p.base, n)
  <2> DEFINE t == [w EXCEPT !.bytes = bytes, !.initialized = span,
                            !.base = p.base, !.end = p.base + n,
                            !.pc = p.base, !.tick = 0]
  <2>1. Require(w, InRange(p.base, n), "program out of memory") = w
    BY <1>7 DEF Require
  <2>2. machine' = t
    BY <1>1, <1>2, <2>1 DEF Loaded, w, bytes, span
  <2>3. /\ t.spTop = 0 /\ t.spSize = 0 /\ t.stackBottom = 0
        /\ t.bytes = bytes /\ t.initialized = span
    BY <1>2, <1>3 DEF Typed
  <2> HIDE DEF t
  <2> QED
    BY <1>5, <2>2, <2>3
<1> QED
  BY <1>6, <1>7

\* The stack depends on nothing but the machine.
LEMMA SameMachineIsFree ==
    ASSUME StackIsFree, Architecture(machine') = Architecture(machine)
    PROVE  StackIsFree'
BY DEF StackIsFree, StackWellFormed, StackLimit, FreeStack, Architecture

\* A step that does not throw and whose instruction is a store executes it.
LEMMA StoresExecute ==
    ASSUME Step, Ok(machine'), Instruction.op \in Stores
    PROVE  Executing(Stores)
BY DEF Step, Executing, FailToFetch, ExecuteLoadImmediate, ExecuteCalculate, ExecuteLoad,
   ExecuteStore, ExecuteConvert, ExecuteRelativeJump, ExecuteBranch, ExecuteAbsoluteJump,
   ExecuteCall, ExecuteWriteStatus, ExecuteReadStatus, ExecuteAdvanceStackPointer,
   ExecuteInvalidOpcode

\* A step that throws nothing and does not set up the stack leaves its free part
\* uninitialised: a store lies above it, an allocation takes from it, and a release
\* adds to it only bytes that the release has marked.
LEMMA StepKeepsStackFree ==
    ASSUME IInv, Step, Ok(machine'), StackIsFree, KeepsToItsStack, ~SetsUpStack
    PROVE  StackIsFree'
<1> DEFINE i == Instruction
           a == EffectiveAddress(machine, i)
           n == AccessSize(i.op)
           delta == StackDelta(machine, i)
           limit == StackLimit(machine)
           top == machine.spTop
<1>1. RamShows(i)
  BY StepsShowRam
<1>2. /\ StackWellFormed(machine')
      /\ StackLimit(machine') = limit
      /\ machine'.stackBottom = machine.stackBottom
  BY StepsResult DEF StepResult, StackKept, StackIsFree
<1>3. limit \in Int /\ top \in 0 .. WordMod - 1 /\ machine.stackBottom \in 0 .. WordMod - 1
  BY Sizes DEF IInv, Typed, Word, StackLimit
<1>4. \A x \in limit .. top - 1 : x \notin machine.initialized
  BY DEF StackIsFree, FreeStack
<1>5. SUFFICES ASSUME NEW x \in limit .. machine'.spTop - 1
               PROVE  x \notin machine'.initialized
  BY <1>2 DEF StackIsFree, FreeStack
<1>6. CASE i.op \in Stores
  <2>1. i.op \notin {ASPI, ASPR}
    BY <1>6, OpcodeNumbers
  <2>2. /\ a \in Nat /\ n \in {1, 2, 4}
        /\ machine'.initialized = machine.initialized \union Span(a, n)
        /\ machine'.spTop = top
    BY <1>1, <1>6, <2>1 DEF RamShows
  <2>3. a >= top
    <3>1. Executing(Stores)
      BY <1>6, StoresExecute
    <3> QED
      BY <3>1 DEF KeepsToItsStack
  <2> HIDE DEF a, n, limit, top
  <2>4. x \in limit .. top - 1 /\ x \notin Span(a, n)
    BY <1>3, <1>5, <2>2, <2>3 DEF Span
  <2> QED
    BY <1>4, <2>2, <2>4
<1>7. CASE i.op \in {ASPI, ASPR}
  <2>1. i.op \notin Stores
    BY <1>7, OpcodeNumbers
  <2>2. /\ delta \in Int
        /\ -delta <= machine.spSize
        /\ delta > 0 => top + delta <= machine.stackBottom
        /\ machine'.spTop = Unsigned(top + delta)
        /\ machine'.initialized = IF delta > 0 THEN machine.initialized \ Span(top, delta)
                                  ELSE machine.initialized
    BY <1>1, <1>7, <2>1 DEF RamShows, InitializedReleased
  <2>3. machine.spSize \in Nat /\ machine.spSize <= top
    BY Sizes DEF IInv, Typed, Word, StackIsFree, StackWellFormed, StackLimit
  <2> HIDE DEF delta, limit, top
  <2>4. machine'.spTop = top + delta
    <3>1. top + delta \in 0 .. WordMod - 1
      BY <1>3, <2>2, <2>3, Sizes
    <3> QED
      BY <2>2, <3>1, WordIsUnsigned DEF Word
  <2>5. CASE delta > 0
    <3>1. x \in limit .. top - 1 \/ x \in Span(top, delta)
      BY <1>3, <1>5, <2>2, <2>4 DEF Span
    <3> QED
      BY <1>4, <2>2, <2>5, <3>1
  <2>6. CASE ~(delta > 0)
    <3>1. x \in limit .. top - 1
      BY <1>3, <1>5, <2>2, <2>4, <2>6
    <3> QED
      BY <1>4, <2>2, <2>6, <3>1
  <2> QED
    BY <2>5, <2>6
<1>8. CASE i.op \notin Stores \union {ASPI, ASPR}
  <2>1. machine'.initialized = machine.initialized /\ machine'.spTop = top
    BY <1>1, <1>8 DEF RamShows, SetsUpStack
  <2> QED
    BY <1>4, <1>5, <2>1
<1> QED
  BY <1>6, <1>7, <1>8

LEMMA StackStaysFree ==
    ASSUME IInv, StackIsFree, [Next]_vars, [KeepsToItsStack]_vars
    PROVE  StackIsFree'
<1>1. CASE Step /\ KeepsToItsStack
  <2>1. StepResult
    BY <1>1, StepsResult
  <2>2. CASE ~Ok(machine')
    BY <2>1, <2>2, SameMachineIsFree DEF StepResult, Ok
  <2>3. CASE SetsUpStack
    BY <1>1, <2>3 DEF KeepsToItsStack
  <2>4. CASE Ok(machine') /\ ~SetsUpStack
    BY <1>1, <2>4, StepKeepsStackFree
  <2> QED
    BY <2>2, <2>3, <2>4
<1>2. ASSUME NEW p \in Programs, LoadProgram(p)
      PROVE  StackIsFree'
  <2>1. machine'.spTop = 0 /\ machine'.spSize = 0 /\ machine'.stackBottom = 0
    BY <1>2, LoadedStack
  <2> QED
    BY <2>1 DEF StackIsFree, StackWellFormed, StackLimit, FreeStack
<1>3. ASSUME NEW p \in Programs, RefuseProgram(p)
      PROVE  StackIsFree'
  BY <1>3, RefuseIInv, SameMachineIsFree
<1>4. CASE UNCHANGED machine
  BY <1>4, SameMachineIsFree DEF Architecture
<1> QED
  BY <1>1, <1>2, <1>3, <1>4 DEF Next, EnableClearStack, EnableUninitializedRamWarnings, vars

LEMMA InitStackIsFree ==
    ASSUME Init
    PROVE  StackIsFree
<1>1. machine.spTop = 0 /\ machine.spSize = 0 /\ machine.stackBottom = 0
  BY DEF Init
<1> QED
  BY <1>1 DEF StackIsFree, StackWellFormed, StackLimit, FreeStack

\* A program that keeps to its stack never has an initialised byte in the free part
\* of it, whatever it pushed and released and however often a program is loaded:
\* every read from there is warned of (advanceStackPointer, markUninitialized).
THEOREM ReleasedStackIsForgotten ==
    Spec /\ [][KeepsToItsStack]_vars => []FreeStackIsUninitialized
<1> DEFINE Inv == IInv /\ StackIsFree
<1>1. Init => Inv
  BY InitIInv, InitStackIsFree
<1>2. Inv /\ [Next]_vars /\ [KeepsToItsStack]_vars => Inv'
  BY NextIInv, StackStaysFree
<1>3. Inv => FreeStackIsUninitialized
  BY DEF StackIsFree, FreeStackIsUninitialized
<1> QED
  BY <1>1, <1>2, <1>3, PTL DEF Spec

\* Once the option is set, the bytes of RAM that are not zero are initialised: a
\* release forgets and clears the same bytes.  The machine is blank before a load.
ClearedIsZero ==
    /\ clearStack => DOMAIN machine.bytes \subseteq machine.initialized
    /\ loads = 0 => DOMAIN machine.bytes = {} /\ machine.end = 0

\* A step of main() after the load, and what precedes the load.
MainNext == Next /\ (loads > 0 => UNCHANGED <<clearStack, warning, loads>>)

LEMMA StepKeepsCleared ==
    ASSUME IInv, Step, ClearedIsZero
    PROVE  ClearedIsZero'
<1> DEFINE i == Instruction
           a == EffectiveAddress(machine, i)
           n == AccessSize(i.op)
           data == ToBytes(machine.regs[i.a], n)
           delta == StackDelta(machine, i)
           top == machine.spTop
<1>1. UNCHANGED <<clearStack, loads>>
  BY DEF Step, Unloaded, ExecuteLoadImmediate, ExecuteCalculate, ExecuteLoad,
     ExecuteStore, ExecuteConvert, ExecuteRelativeJump, ExecuteBranch,
     ExecuteAbsoluteJump, ExecuteCall, ExecuteWriteStatus, ExecuteReadStatus,
     ExecuteAdvanceStackPointer, ExecuteInvalidOpcode, FailToFetch
<1>2. loads # 0
  <2>1. ~(machine.pc >= machine.end)
    BY DEF Step, Executing, Finished, ExecuteLoadImmediate, ExecuteCalculate, ExecuteLoad,
       ExecuteStore, ExecuteConvert, ExecuteRelativeJump, ExecuteBranch,
       ExecuteAbsoluteJump, ExecuteCall, ExecuteWriteStatus, ExecuteReadStatus,
       ExecuteAdvanceStackPointer, ExecuteInvalidOpcode, FailToFetch
  <2>2. machine.pc \in Nat
    BY Sizes DEF IInv, Typed
  <2> QED
    BY <2>1, <2>2 DEF ClearedIsZero
<1>3. SUFFICES ASSUME clearStack
               PROVE  DOMAIN machine'.bytes \subseteq machine'.initialized
  BY <1>1, <1>2 DEF ClearedIsZero
<1>4. DOMAIN machine.bytes \subseteq machine.initialized
  BY <1>3 DEF ClearedIsZero
<1>5. CASE ~Ok(machine')
  <2>1. Architecture(machine') = Architecture(machine)
    BY <1>5, StepsResult DEF StepResult, Ok
  <2> QED
    BY <1>4, <2>1 DEF Architecture
<1>6. CASE Ok(machine') /\ i.op \in Stores
  <2>1. i.op \notin {ASPI, ASPR}
    BY <1>6, OpcodeNumbers
  <2>2. /\ Len(data) = n
        /\ machine'.bytes = Put(machine.bytes, a, data)
        /\ machine'.initialized = machine.initialized \union Span(a, n)
    BY <1>6, <2>1, StepsShowRam DEF RamShows
  <2> HIDE DEF a, n, data
  <2>3. DOMAIN machine'.bytes \subseteq DOMAIN machine.bytes \union Span(a, n)
    BY <2>2 DEF Put
  <2> QED
    BY <1>4, <2>2, <2>3
<1>7. CASE Ok(machine') /\ i.op \in {ASPI, ASPR}
  <2>1. i.op \notin Stores
    BY <1>7, OpcodeNumbers
  <2>2. /\ machine'.bytes = IF delta > 0 THEN Wipe(machine.bytes, top, delta)
                            ELSE machine.bytes
        /\ machine'.initialized = IF delta > 0 THEN machine.initialized \ Span(top, delta)
                                  ELSE machine.initialized
    BY <1>3, <1>7, <2>1, StepsShowRam DEF RamShows, InitializedReleased, BytesReleased
  <2> HIDE DEF delta, top
  <2>3. DOMAIN Wipe(machine.bytes, top, delta) = DOMAIN machine.bytes \ Span(top, delta)
    BY DEF Wipe
  <2> QED
    BY <1>4, <2>2, <2>3
<1>8. CASE Ok(machine') /\ i.op \notin Stores \union {ASPI, ASPR}
  <2>1. machine'.bytes = machine.bytes /\ machine'.initialized = machine.initialized
    BY <1>8, StepsShowRam DEF RamShows
  <2> QED
    BY <1>4, <2>1
<1> QED
  BY <1>5, <1>6, <1>7, <1>8

LEMMA StaysCleared ==
    ASSUME IInv, ClearedIsZero, [MainNext]_vars
    PROVE  ClearedIsZero'
<1>1. loads \in Nat
  BY DEF IInv
<1>2. CASE Step
  BY <1>2, StepKeepsCleared
<1>3. ASSUME NEW p \in Programs, LoadProgram(p)
      PROVE  ClearedIsZero'
  <2>1. loads' # 0
    BY <1>1, <1>3 DEF LoadProgram
  <2> QED
    BY <1>3, <2>1, LoadedStack DEF ClearedIsZero
<1>4. ASSUME NEW p \in Programs, RefuseProgram(p)
      PROVE  ClearedIsZero'
  <2>1. loads' # 0 /\ clearStack' = clearStack
    <3>1. loads' = loads + 1 /\ clearStack' = clearStack
      BY <1>4 DEF RefuseProgram
    <3> QED
      BY <1>1, <3>1
  <2>2. Architecture(machine') = Architecture(machine)
    BY <1>4, RefuseIInv
  <2> QED
    BY <2>1, <2>2 DEF ClearedIsZero, Architecture
<1>5. CASE EnableClearStack /\ MainNext
  <2>1. loads = 0 \/ clearStack' = clearStack
    BY <1>1, <1>5 DEF MainNext
  <2> QED
    BY <1>5, <2>1 DEF EnableClearStack, ClearedIsZero
<1>6. CASE EnableUninitializedRamWarnings
  BY <1>6 DEF EnableUninitializedRamWarnings, ClearedIsZero
<1>7. CASE UNCHANGED vars
  BY <1>7 DEF vars, ClearedIsZero
<1> QED
  BY <1>2, <1>3, <1>4, <1>5, <1>6, <1>7 DEF MainNext, Next

\* main() with --clear-stack: the free part of the stack of a program that keeps to
\* its stack is zero, so that nothing it released can be read again
\* (clearAndMarkUninitialized).
THEOREM ReleasedStackIsCleared ==
    MainSpec /\ [][KeepsToItsStack]_vars => []FreeStackIsZero
<1> DEFINE Inv == IInv /\ StackIsFree /\ ClearedIsZero
<1>1. Init => Inv
  <2>1. Init => ClearedIsZero
    BY DEF Init, ClearedIsZero, NoBytes
  <2> QED
    BY <2>1, InitIInv, InitStackIsFree
<1>2. Inv /\ [MainNext]_vars /\ [KeepsToItsStack]_vars => Inv'
  <2>1. [MainNext]_vars => [Next]_vars
    BY DEF MainNext
  <2> QED
    BY <2>1, NextIInv, StackStaysFree, StaysCleared
<1>3. Inv => FreeStackIsZero
  BY DEF StackIsFree, ClearedIsZero, FreeStackIsZero
<1>4. MainSpec <=> Init /\ [][MainNext]_vars
  BY DEF MainSpec, MainNext
<1> QED
  BY <1>1, <1>2, <1>3, <1>4, PTL

\* Every register of every reachable state, for every width of a byte, is an
\* operand on which the arithmetic is that of the integers.
THEOREM ArithmeticOfRegisters == Spec => []IntegerArithmetic
<1>1. TypeOK => IntegerArithmetic
  <2>1. TypeOK => HeldWords \subseteq Word
    BY DEF TypeOK, HeldWords
  <2> QED
    BY <2>1, ArithmeticIsThatOfIntegers DEF IntegerArithmetic
<1> QED
  BY <1>1, TypeCorrect, PTL

\* In every reachable state, for every width of a byte, what a register holds
\* survives the conversions.
THEOREM ConversionsOfRegisters == Spec => []ConversionsRoundTrip
<1>1. TypeOK => ConversionsRoundTrip
  <2>1. TypeOK => HeldWords \subseteq Word
    BY DEF TypeOK, HeldWords
  <2> QED
    BY <2>1, ConversionsAreFaithful DEF ConversionsRoundTrip
<1> QED
  BY <1>1, TypeCorrect, PTL
=============================================================================
