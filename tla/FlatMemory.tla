----------------------------- MODULE FlatMemory -----------------------------
(***************************************************************************)
(* What the class Memory promises to the emulator: an array of Size bytes, *)
(* all zero at first, that remembers which bytes have been written, tells  *)
(* a registered handler of every cell a store changes, and tells another   *)
(* handler of every byte that is read before it is written.  There are no  *)
(* blocks, no pointers and no caches here; SparseMemory implements this.   *)
(***************************************************************************)
EXTENDS MemoryInterface

VARIABLES
    bytes,        \* the content of RAM: its nonzero bytes
    initialized,  \* the addresses written or loaded and not released since
    tracing,      \* cellWriteHandler_ is set
    warning,      \* cellReadHandler_ is set
    call,         \* the last call
    reply         \* what it reported

vars == <<bytes, initialized, tracing, warning, call, reply>>

TypeOK ==
    /\ IsContents(bytes)
    /\ initialized \subseteq Address
    /\ tracing \in BOOLEAN /\ warning \in BOOLEAN
    /\ reply.ok \in BOOLEAN

Init ==
    /\ bytes = NoBytes
    /\ initialized = {}
    /\ tracing = FALSE /\ warning = FALSE
    /\ call = Call("Memory", 0, 0, <<>>)
    /\ reply = Done

Clear ==
    /\ bytes' = NoBytes
    /\ initialized' = {}
    /\ call' = Call("clear", 0, 0, <<>>)
    /\ reply' = Done
    /\ UNCHANGED <<tracing, warning>>

\* load does not count as a store of the program: it reports no events.
Load(a, image) ==
    /\ InRange(a, Len(image))
    /\ call' = Call("load", a, Len(image), image)
    /\ reply' = Done
    /\ bytes' = Put(bytes, a, image)
    /\ initialized' = initialized \union Span(a, Len(image))
    /\ UNCHANGED <<tracing, warning>>

Uninitialized(a, n) == {i \in 0 .. n - 1 : a + i \notin initialized}

Read(a, n) ==
    /\ InRange(a, n)
    /\ call' = Call("read", a, n, <<>>)
    /\ reply' = Reply(BytesAt(bytes, a, n), NoEvents,
                      IF warning THEN Uninitialized(a, n) ELSE {})
    /\ UNCHANGED <<bytes, initialized, tracing, warning>>

\* A fetch warns of nothing and never throws; outside RAM it sees zeroes.
ReadInstruction32(a) ==
    /\ a % CellSize = 0
    /\ call' = Call("fetch", a, CellSize, <<>>)
    /\ reply' = Reply(BytesAt(bytes, a, CellSize), NoEvents, {})
    /\ UNCHANGED <<bytes, initialized, tracing, warning>>

\* A traced store reports every cell it touches, changed or not.
Write(a, data) ==
    /\ InRange(a, Len(data))
    /\ call' = Call("write", a, Len(data), data)
    /\ reply' = Reply(<<>>,
                      IF tracing
                      THEN Events(CellsOf(Span(a, Len(data))), bytes, Put(bytes, a, data))
                      ELSE NoEvents, {})
    /\ bytes' = Put(bytes, a, data)
    /\ initialized' = initialized \union Span(a, Len(data))
    /\ UNCHANGED <<tracing, warning>>

\* A traced clear must report each cell it changes, and may leave out cells it
\* does not change: the implementation leaves out those of absent blocks.
ClearRange(a, n, resetInitialized) ==
    /\ InRange(a, n)
    /\ call' = Call(ClearName(resetInitialized), a, n, <<>>)
    /\ \E reported \in SUBSET CellsOf(Span(a, n)) :
        /\ \A c \in CellsOf(Span(a, n)) \ reported :
              CellValue(bytes, c) = CellValue(Wipe(bytes, a, n), c)
        /\ reply' = Reply(<<>>, IF tracing
                                 THEN Events(reported, bytes, Wipe(bytes, a, n))
                                 ELSE NoEvents, {})
    /\ bytes' = Wipe(bytes, a, n)
    /\ initialized' = IF resetInitialized THEN initialized \ Span(a, n) ELSE initialized
    /\ UNCHANGED <<tracing, warning>>

MarkUninitialized(a, n) ==
    /\ InRange(a, n)
    /\ call' = Call("markUninitialized", a, n, <<>>)
    /\ reply' = Done
    /\ initialized' = initialized \ Span(a, n)
    /\ UNCHANGED <<bytes, tracing, warning>>

\* Whatever the call, an address range that is not in RAM changes nothing.
Refuse(op, a, n, data) ==
    /\ ~InRange(a, n)
    /\ call' = Call(op, a, n, data)
    /\ reply' = OutOfRange
    /\ UNCHANGED <<bytes, initialized, tracing, warning>>

SetCellWriteHandler(on) ==
    /\ tracing' = on
    /\ call' = Call("setCellWriteHandler", 0, 0, <<>>)
    /\ reply' = Done
    /\ UNCHANGED <<bytes, initialized, warning>>

SetUninitReadHandler(on) ==
    /\ warning' = on
    /\ call' = Call("setUninitReadHandler", 0, 0, <<>>)
    /\ reply' = Done
    /\ UNCHANGED <<bytes, initialized, tracing>>

Next ==
    \/ Clear
    \/ \E on \in BOOLEAN : SetCellWriteHandler(on) \/ SetUninitReadHandler(on)
    \/ \E a \in CallAddress :
        \/ ReadInstruction32(a)
        \/ \E image \in Images : Load(a, image) \/ Refuse("load", a, Len(image), image)
        \/ \E n \in Widths : Read(a, n) \/ Refuse("read", a, n, <<>>)
        \/ \E data \in WriteData : Write(a, data) \/ Refuse("write", a, Len(data), data)
        \/ \E n \in ByteCounts :
            \/ \E reset \in BOOLEAN : ClearRange(a, n, reset)
            \/ MarkUninitialized(a, n)
            \/ \E op \in {"clearRange", "clearAndMarkUninitialized", "markUninitialized"} :
                  Refuse(op, a, n, <<>>)

Spec == Init /\ [][Next]_vars
=============================================================================
