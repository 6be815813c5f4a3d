--------------------------- MODULE MCSparseMemory ---------------------------
(***************************************************************************)
(* SparseMemory for TLC, with two kinds of callers.  Some make any call    *)
(* around the boundary of the two blocks and at the end of RAM, which lies *)
(* inside the second block: aligned and unaligned, across cells, across    *)
(* the boundary, up to the last byte and over it.  The others load RAM     *)
(* whole and release ranges of it that cover a block, parts of cells, the  *)
(* whole cells between them, and both blocks.                              *)
(***************************************************************************)
EXTENDS SparseMemory, TLC

VARIABLE caller

MCSize == 16
MCBlockSize == 12
MCByteMod == 2
PtrSymmetry == Permutations(Ptr)

\* No call depends on the call before it or on what that reported.
StateView == <<mem, tracing, warning, caller>>

MCCallAddress == {0, 3, 11, 15}
MCByteCounts == {0, 1, 5, 6, 9, 12}
MCWriteData == {<<1>>, <<1, 1>>, <<1, 1, 1, 1>>}
FullImage == [i \in 1 .. MCSize |-> 1]
MCImages == {<<>>, <<1, 1, 1, 1>>, FullImage}

\* The calls that do not name a range come from both.
Makes(c) ==
    \/ c.op \in {"clear", "setCellWriteHandler"}
    \/ caller = "boundary" /\ c.op = "setUninitReadHandler"
    \/ /\ caller = "boundary"
       /\ c.address \in {0, 11, 15}
       /\ c.count \in {0, 1, 2, 4, 5}
       /\ c.data # <<1>>
    \/ /\ caller = "release"
       /\ c.address \in {0, 3}
       /\ c.count \in {1, 6, 9, 12, MCSize}
       /\ c.data \in {<<>>, <<1>>, FullImage}

CallerInit == Init /\ caller \in {"boundary", "release"}

CallerNext == Next /\ Makes(call') /\ UNCHANGED caller

CallerSpec == CallerInit /\ [][CallerNext]_<<vars, caller>>
=============================================================================
