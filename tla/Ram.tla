-------------------------------- MODULE Ram --------------------------------
(***************************************************************************)
(* RAM as a value: what the bytes are and what a store or a clear makes of *)
(* them.  FlatMemory, SparseMemory and Emulator share these operators.     *)
(*                                                                         *)
(* A byte is a number below ByteMod (256 in the code) and a word has four  *)
(* bytes.  A content of RAM is a function from the addresses of the bytes  *)
(* that are not zero: everything else reads as zero.  An operand of n      *)
(* bytes is a sequence, the byte of the lowest address first, so shifting  *)
(* and masking a std::uint32_t is taking or replacing a slice of it.       *)
(***************************************************************************)
EXTENDS Integers, Sequences

CONSTANTS
    ByteMod,  \* the values of a byte: 256 in the code
    Size      \* size_: the bytes of RAM

WordMod == ByteMod * ByteMod * ByteMod * ByteMod
CellSize == 4

Byte == 0 .. ByteMod - 1
Word == 0 .. WordMod - 1

\* ByteMod is even, so that a sign bit exists; the rest is what the constructor
\* of Memory checks.
ASSUME RamAssumption ==
    /\ ByteMod \in Nat \ {0} /\ ByteMod % 2 = 0
    /\ Size \in Nat \ {0}
    /\ Size % CellSize = 0
    /\ Size <= WordMod

Address == 0 .. Size - 1

\* checkRange: written so that address + count is never formed.
InRange(a, n) == n <= Size /\ a <= Size - n

\* The addresses of n bytes from a on.
Span(a, n) == a .. a + n - 1

\* What a content of RAM is.
IsContents(store) ==
    /\ DOMAIN store \subseteq Address
    /\ store \in [DOMAIN store -> Byte \ {0}]

NoBytes == [x \in {} |-> 0]

ByteAt(store, x) == IF x \in DOMAIN store THEN store[x] ELSE 0
BytesAt(store, a, n) == [i \in 1 .. n |-> ByteAt(store, a + i - 1)]

\* Writing the bytes of data from address a on.
Put(store, a, data) ==
    LET span == Span(a, Len(data))
    IN  [x \in (DOMAIN store \ span) \union {y \in span : data[y - a + 1] # 0} |->
            IF x \in span THEN data[x - a + 1] ELSE store[x]]

\* Zeroing n bytes from address a on.
Wipe(store, a, n) == [x \in DOMAIN store \ Span(a, n) |-> store[x]]

\* The 4-byte cells that the addresses of a set lie in.
CellsOf(S) == {x \div CellSize : x \in S}

\* The content of cell c.
CellValue(store, c) == BytesAt(store, CellSize * c, CellSize)
============================================================================
