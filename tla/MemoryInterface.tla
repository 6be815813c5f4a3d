--------------------------- MODULE MemoryInterface ---------------------------
(***************************************************************************)
(* The calls of the class Memory (emulator/include/opMemory.h) and what    *)
(* one call reports to its caller: the part that the promise (FlatMemory)  *)
(* and the implementation (SparseMemory) have in common.                   *)
(***************************************************************************)
EXTENDS Ram

CONSTANTS
    CallAddress,   \* the addresses a call may be given
    ByteCounts,    \* the lengths clearRange and markUninitialized are given
    WriteData,     \* the operands of write8, write16 and write32
    Images         \* the byte vectors load is given

ASSUME CallAssumption ==
    /\ CallAddress \subseteq Word
    /\ ByteCounts \subseteq Nat
    /\ WriteData \subseteq {d \in Seq(Byte) : Len(d) \in {1, 2, 4}}
    /\ Images \subseteq Seq(Byte)

Widths == {1, 2, 4}

\* What the cell-write handler is told: one old -> new pair per reported cell.
\* The code makes these calls in the order of the addresses.
Events(cells, before, after) ==
    [c \in cells |-> [old |-> CellValue(before, c), new |-> CellValue(after, c)]]

NoEvents == [c \in {} |-> 0]

\* A call: the function and its arguments.
Call(op, a, n, data) == [op |-> op, address |-> a, count |-> n, data |-> data]

ClearName(reset) == IF reset THEN "clearAndMarkUninitialized" ELSE "clearRange"

\* What a call shows its caller: whether it threw, the bytes it returned, the
\* cell-write events, and the positions of the bytes of which the
\* uninitialised-read handler was told.
Reply(value, events, uninit) ==
    [ok |-> TRUE, value |-> value, events |-> events, uninit |-> uninit]

\* A call with nothing to tell, and one that throwMemoryRangeAccessOutOfRange ended.
Done == Reply(<<>>, NoEvents, {})
OutOfRange == [Done EXCEPT !.ok = FALSE]
=============================================================================
