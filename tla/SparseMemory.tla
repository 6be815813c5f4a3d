---------------------------- MODULE SparseMemory ----------------------------
(***************************************************************************)
(* The class Memory of emulator/src/opMemory.cpp: RAM kept as a table of   *)
(* pointers to blocks that are allocated when first written, with a        *)
(* one-entry cache of the block last read and of the block last written.   *)
(*                                                                         *)
(* One action is one public member function.  The program is               *)
(* single-threaded and the two handlers do not call back into Memory, so a *)
(* call is one step; its lookups are kept in the code's order, because     *)
(* they decide which block the caches hold and which block is used.        *)
(***************************************************************************)
EXTENDS MemoryInterface

CONSTANTS
    BlockSize,  \* blockSize: 4096 in the code
    Ptr,        \* where the allocator may put a block
    NoBlock,    \* nullptr
    NoByte      \* what a byte of unallocated memory is: no byte at all

ASSUME BlockAssumption ==
    /\ BlockSize \in Nat \ {0}
    /\ BlockSize % CellSize = 0
    /\ NoBlock \notin Ptr
    /\ NoByte \notin Byte

VARIABLES
    mem,      \* the blocks and the caches, see Memory below
    tracing,  \* cellWriteHandler_ is set
    warning,  \* cellReadHandler_ is set
    call,     \* the last call
    reply     \* what it reported

vars == <<mem, tracing, warning, call, reply>>

BlockIndex == 0 .. (Size + BlockSize - 1) \div BlockSize - 1
Offset == 0 .. BlockSize - 1
BlockOf(a) == a \div BlockSize
OffsetOf(a) == a % BlockSize
AddressOf(b, o) == b * BlockSize + o

\* A Block: its bytes (cells) and the offsets whose initialized bit is set.
Block == [cells : [Offset -> Byte], initialized : SUBSET Offset]
NewBlock == [cells |-> [o \in Offset |-> 0], initialized |-> {}]

\* Memory the allocator has not handed out, or has got back: using it is
\* undefined, so it is modelled by a content that no call may ever show.
Freed == [cells |-> [o \in Offset |-> NoByte], initialized |-> {}]

\* heap is the memory behind the pointers.  The order of allocatedBlockIndices_
\* does not matter to clear(), so it is a set.
Cache == [index : Nat, block : Ptr \union {NoBlock}]
Memory ==
    [blocks : [BlockIndex -> Ptr \union {NoBlock}],
     heap : [Ptr -> Block \union {Freed}],
     allocated : SUBSET BlockIndex,
     readCache : Cache,
     writeCache : Cache]

EmptyCache == [index |-> 0, block |-> NoBlock]

\* The type invariant: unique_ptrs own allocated memory, each its own.
Owned(m) ==
    \A b \in BlockIndex :
        m.blocks[b] # NoBlock =>
            /\ m.heap[m.blocks[b]] \in Block
            /\ \A c \in BlockIndex : m.blocks[c] = m.blocks[b] => c = b

TypeOK ==
    /\ mem \in Memory
    /\ Owned(mem)
    /\ tracing \in BOOLEAN /\ warning \in BOOLEAN
    /\ reply.ok \in BOOLEAN

Init ==
    /\ mem = [blocks |-> [b \in BlockIndex |-> NoBlock],
              heap |-> [p \in Ptr |-> Freed],
              allocated |-> {},
              readCache |-> EmptyCache,
              writeCache |-> EmptyCache]
    /\ tracing = FALSE /\ warning = FALSE
    /\ call = Call("Memory", 0, 0, <<>>)
    /\ reply = Done

-----------------------------------------------------------------------------
(* Looking up a block *)

\* Mutant: the cached index is not compared.
HitAnyBlock(cache, b) == cache.block # NoBlock

Hit(cache, b) == cache.block # NoBlock /\ cache.index = b

\* findBlock: the block it returns, and the read cache it leaves.  A block that
\* is absent is not cached.
Found(m, b) ==
    IF Hit(m.readCache, b) THEN m.readCache.block
    ELSE IF b \in BlockIndex THEN m.blocks[b] ELSE NoBlock

Find(m, b) ==
    IF Found(m, b) = NoBlock THEN m
    ELSE [m EXCEPT !.readCache = [index |-> b, block |-> Found(m, b)]]

\* The lookups of a call that reads n bytes from a on: first block, last block.
FindSpan(m, a, n) == Find(Find(m, BlockOf(a)), BlockOf(a + n - 1))

\* Mutant: every byte is taken from the block of the first.
FoundForFirst(m, a, x) == Found(m, BlockOf(a))

\* The block in which such a call reads byte x.
FoundFor(m, a, x) ==
    IF BlockOf(x) = BlockOf(a) THEN Found(m, BlockOf(x))
    ELSE Found(Find(m, BlockOf(a)), BlockOf(x))

ByteIn(m, p, x) == IF p = NoBlock THEN 0 ELSE m.heap[p].cells[OffsetOf(x)]

InitializedIn(m, p, x) == p # NoBlock /\ OffsetOf(x) \in m.heap[p].initialized

\* The bytes as a call that starts at address a reads them.
ReadFrom(m, a) == [x \in Address |-> ByteIn(m, FoundFor(m, a, x), x)]

\* The blocks a call on n bytes from a on works through, in turn.
BlocksOf(a, n) == {BlockOf(x) : x \in Span(a, n)}

\* getOrCreateBlock, for each of those blocks.  Only the first can hit the
\* write cache: the cache then holds the block before.
CreateHits(m, a, b) == b = BlockOf(a) /\ Hit(m.writeCache, b)

\* The blocks that make_unique has to make, and the places it may find.
Missing(m, a, n) ==
    {b \in BlocksOf(a, n) : ~CreateHits(m, a, b) /\ m.blocks[b] = NoBlock}

FreePtr(m) == Ptr \ {m.blocks[b] : b \in BlockIndex}

Placements(m, a, n) ==
    {place \in [Missing(m, a, n) -> FreePtr(m)] :
        \A b, c \in Missing(m, a, n) : place[b] = place[c] => b = c}

Created(m, a, n, place) ==
    [b \in BlocksOf(a, n) |->
        IF CreateHits(m, a, b) THEN m.writeCache.block
        ELSE IF b \in Missing(m, a, n) THEN place[b] ELSE m.blocks[b]]

\* Memory with those blocks in the table and the last of them in both caches.
Create(m, a, n, place) ==
    LET new == {place[b] : b \in Missing(m, a, n)}
        last == [index |-> BlockOf(a + n - 1),
                 block |-> Created(m, a, n, place)[BlockOf(a + n - 1)]]
    IN  IF n = 0 THEN m
        ELSE [blocks |-> [b \in BlockIndex |->
                            IF b \in Missing(m, a, n) THEN place[b] ELSE m.blocks[b]],
              heap |-> [p \in Ptr |-> IF p \in new THEN NewBlock ELSE m.heap[p]],
              allocated |-> m.allocated \union Missing(m, a, n),
              readCache |-> last,
              writeCache |-> last]

\* Block b after the bytes of data are stored from address a on.
Stored(block, b, a, data) ==
    LET written == {o \in Offset : AddressOf(b, o) \in Span(a, Len(data))}
    IN  [cells |-> [o \in Offset |-> IF o \in written THEN data[AddressOf(b, o) - a + 1]
                                     ELSE block.cells[o]],
         initialized |-> block.initialized \union written]

\* load, writeUnchecked or writeCellUnchecked, with markInitialized.
Store(m, a, data, place) ==
    LET n == Len(data)
        ptr == Created(m, a, n, place)
        made == Create(m, a, n, place)
        owner(p) == CHOOSE b \in BlocksOf(a, n) : ptr[b] = p
    IN  [made EXCEPT !.heap =
            [p \in Ptr |-> IF \E b \in BlocksOf(a, n) : ptr[b] = p
                           THEN Stored(made.heap[p], owner(p), a, data)
                           ELSE made.heap[p]]]

-----------------------------------------------------------------------------
(* The public member functions *)

\* Mutant: resetBlockCache forgets the write cache.
ClearKeepsWriteCache ==
    /\ mem' = [blocks |-> [b \in BlockIndex |->
                              IF b \in mem.allocated THEN NoBlock ELSE mem.blocks[b]],
               heap |-> [p \in Ptr |-> IF \E b \in mem.allocated : mem.blocks[b] = p
                                       THEN Freed ELSE mem.heap[p]],
               allocated |-> {},
               readCache |-> EmptyCache,
               writeCache |-> mem.writeCache]
    /\ call' = Call("clear", 0, 0, <<>>)
    /\ reply' = Done
    /\ UNCHANGED <<tracing, warning>>

\* Mutant: allocatedBlockIndices_ is not cleared.
ClearKeepsIndices ==
    /\ mem' = [blocks |-> [b \in BlockIndex |->
                              IF b \in mem.allocated THEN NoBlock ELSE mem.blocks[b]],
               heap |-> [p \in Ptr |-> IF \E b \in mem.allocated : mem.blocks[b] = p
                                       THEN Freed ELSE mem.heap[p]],
               allocated |-> mem.allocated,
               readCache |-> EmptyCache,
               writeCache |-> EmptyCache]
    /\ call' = Call("clear", 0, 0, <<>>)
    /\ reply' = Done
    /\ UNCHANGED <<tracing, warning>>

\* The destructors of the blocks in allocatedBlockIndices_, then resetBlockCache.
Clear ==
    /\ mem' = [blocks |-> [b \in BlockIndex |->
                              IF b \in mem.allocated THEN NoBlock ELSE mem.blocks[b]],
               heap |-> [p \in Ptr |-> IF \E b \in mem.allocated : mem.blocks[b] = p
                                       THEN Freed ELSE mem.heap[p]],
               allocated |-> {},
               readCache |-> EmptyCache,
               writeCache |-> EmptyCache]
    /\ call' = Call("clear", 0, 0, <<>>)
    /\ reply' = Done
    /\ UNCHANGED <<tracing, warning>>

\* Mutant: load does not check its range.
LoadUnchecked(a, image) ==
    /\ call' = Call("load", a, Len(image), image)
    /\ reply' = Done
    /\ \E place \in Placements(mem, a, Len(image)) : mem' = Store(mem, a, image, place)
    /\ UNCHANGED <<tracing, warning>>

Load(a, image) ==
    /\ InRange(a, Len(image))
    /\ call' = Call("load", a, Len(image), image)
    /\ reply' = Done
    /\ \E place \in Placements(mem, a, Len(image)) : mem' = Store(mem, a, image, place)
    /\ UNCHANGED <<tracing, warning>>

\* getUninitMask and notifyUninitRead.
UninitMask(m, a, n) ==
    {i \in 0 .. n - 1 : ~InitializedIn(m, FoundFor(m, a, a + i), a + i)}

\* read8, read16 and read32: the lookups of the mask are those of the value.
Read(a, n) ==
    /\ InRange(a, n)
    /\ call' = Call("read", a, n, <<>>)
    /\ reply' = Reply([i \in 1 .. n |-> ReadFrom(mem, a)[a + i - 1]], NoEvents,
                     IF warning THEN UninitMask(mem, a, n) ELSE {})
    /\ mem' = FindSpan(mem, a, n)
    /\ UNCHANGED <<tracing, warning>>

ReadInstruction32(a) ==
    /\ a % CellSize = 0
    /\ call' = Call("fetch", a, CellSize, <<>>)
    /\ reply' = Reply([i \in 1 .. CellSize |->
                         ByteIn(mem, Found(mem, BlockOf(a)), a + i - 1)],
                     NoEvents, {})
    /\ mem' = Find(mem, BlockOf(a))
    /\ UNCHANGED <<tracing, warning>>

\* write8, write16 and write32.  Only the aligned write32 takes the old value
\* from the block it has just made; the others look it up before they store.
Write(a, data) ==
    /\ InRange(a, Len(data))
    /\ \E place \in Placements(mem, a, Len(data)) :
        LET n == Len(data)
            aligned == n = CellSize /\ a % CellSize = 0
            stored == Store(mem, a, data, place)
            before == ReadFrom(IF aligned THEN Create(mem, a, n, place) ELSE mem, a)
        IN  /\ mem' = stored
            /\ call' = Call("write", a, n, data)
            /\ reply' = Reply(<<>>,
                             IF tracing
                             THEN Events(CellsOf(Span(a, n)), before, ReadFrom(stored, a))
                             ELSE NoEvents, {})
    /\ UNCHANGED <<tracing, warning>>

\* Block b's share of a range: where it starts in the block, and its length.
From(b, a) == IF b = BlockOf(a) THEN OffsetOf(a) ELSE 0
Count(b, a, n) ==
    LET left == a + n - AddressOf(b, From(b, a))
        room == BlockSize - From(b, a)
    IN  IF left < room THEN left ELSE room

\* Mutant: the first full cell is counted from the start of the range.
ClearsFromStart(from, count) ==
    LET inCell == from % CellSize
        head == IF inCell = 0 THEN 0
                ELSE IF count < CellSize - inCell THEN count ELSE CellSize - inCell
        full == CellSize * ((count - head) \div CellSize)
        tail == CellSize * ((from + head + full) \div CellSize)
    IN  IF from = 0 /\ count = BlockSize THEN Offset
        ELSE Span(from, head) \union Span(CellSize * (from \div CellSize), full)
             \union Span(tail, count - head - full)

\* clearBytesInBlock: the rest of a cell, whole cells, the start of a cell.
ClearBytesInBlock(from, count) ==
    LET inCell == from % CellSize
        head == IF inCell = 0 THEN 0
                ELSE IF count < CellSize - inCell THEN count ELSE CellSize - inCell
        firstFullCell == (from + head) \div CellSize
        full == CellSize * ((count - head) \div CellSize)
        tailCell == (from + head + full) \div CellSize
    IN  IF from = 0 /\ count = BlockSize THEN Offset
        ELSE Span(from, head)
             \union Span(CellSize * firstFullCell, full)
             \union Span(CellSize * tailCell, count - head - full)

\* Block b after its share of a range is released: zeroed (whole cells at a
\* time, or cell by cell when each cell is reported) and/or marked.
Zeroed(b, a, n) ==
    IF tracing THEN Span(From(b, a), Count(b, a, n))
               ELSE ClearBytesInBlock(From(b, a), Count(b, a, n))

Released(block, b, a, n, zero, reset) ==
    [cells |-> [o \in Offset |-> IF zero /\ o \in Zeroed(b, a, n) THEN 0
                                 ELSE block.cells[o]],
     initialized |-> IF reset THEN block.initialized \ Span(From(b, a), Count(b, a, n))
                              ELSE block.initialized]

\* Mutant: a release creates the blocks that are absent.
ReleaseCreates(m, a, n, zero, reset) ==
    LET made == Create(m, a, n, CHOOSE place \in Placements(m, a, n) : TRUE)
        owner(p) == CHOOSE b \in BlocksOf(a, n) : made.blocks[b] = p
    IN  [made EXCEPT !.heap =
            [p \in Ptr |-> IF \E b \in BlocksOf(a, n) : made.blocks[b] = p
                           THEN Released(made.heap[p], owner(p), a, n, zero, reset)
                           ELSE made.heap[p]]]

\* These functions take the blocks from the table, past the caches, and skip
\* the absent ones: those hold zeroes that were never written.
Release(m, a, n, zero, reset) ==
    LET owner(p) == CHOOSE b \in BlocksOf(a, n) : m.blocks[b] = p
    IN  [m EXCEPT !.heap =
            [p \in Ptr |-> IF \E b \in BlocksOf(a, n) : m.blocks[b] = p
                           THEN Released(m.heap[p], owner(p), a, n, zero, reset)
                           ELSE m.heap[p]]]

\* The bytes of RAM, by the table.
ByTable(m) == [x \in Address |-> ByteIn(m, m.blocks[BlockOf(x)], x)]

\* clearRange and clearAndMarkUninitialized (clearRangeImpl).
ClearRange(a, n, resetInitialized) ==
    /\ InRange(a, n)
    /\ mem' = Release(mem, a, n, TRUE, resetInitialized)
    /\ call' = Call(ClearName(resetInitialized), a, n, <<>>)
    /\ LET present == {c \in CellsOf(Span(a, n)) :
                          mem.blocks[BlockOf(CellSize * c)] # NoBlock}
       IN  reply' = Reply(<<>>, IF tracing
                                THEN Events(present, ByTable(mem), ByTable(mem'))
                                ELSE NoEvents, {})
    /\ UNCHANGED <<tracing, warning>>

MarkUninitialized(a, n) ==
    /\ InRange(a, n)
    /\ mem' = Release(mem, a, n, FALSE, TRUE)
    /\ call' = Call("markUninitialized", a, n, <<>>)
    /\ reply' = Done
    /\ UNCHANGED <<tracing, warning>>

\* checkRange throws before the call has looked anything up.
Refuse(op, a, n, data) ==
    /\ ~InRange(a, n)
    /\ call' = Call(op, a, n, data)
    /\ reply' = OutOfRange
    /\ UNCHANGED <<mem, tracing, warning>>

SetCellWriteHandler(on) ==
    /\ tracing' = on
    /\ call' = Call("setCellWriteHandler", 0, 0, <<>>)
    /\ reply' = Done
    /\ UNCHANGED <<mem, warning>>

SetUninitReadHandler(on) ==
    /\ warning' = on
    /\ call' = Call("setUninitReadHandler", 0, 0, <<>>)
    /\ reply' = Done
    /\ UNCHANGED <<mem, tracing>>

Next ==
    \/ Clear
    \/ \E on \in BOOLEAN : SetCellWriteHandler(on) \/ SetUninitReadHandler(on)
    \/ \E a \in CallAddress :
        \/ ReadInstruction32(a)
        \/ \E image \in Images : Load(a, image) \/ Refuse("load", a, Len(image), image)
        \/ \E n \in Widths : Read(a, n) \/ Refuse("read", a, n, <<>>)
        \/ \E data \in WriteData : Write(a, data) \/ Refuse("write", a, Len(data), data)
        \/ \E n \in ByteCounts :
            \/ \E reset \in BOOLEAN : ClearRange(a, n, reset)
            \/ MarkUninitialized(a, n)
            \/ \E op \in {"clearRange", "clearAndMarkUninitialized", "markUninitialized"} :
                  Refuse(op, a, n, <<>>)

Spec == Init /\ [][Next]_vars

-----------------------------------------------------------------------------
(* What must hold *)

\* A cache never outlives the block it points to: what it holds is what the
\* table holds for that index.  clear() frees the blocks, so it must reset both
\* caches, and a lookup must never pair a pointer with another index.
CacheCoherent ==
    \A cache \in {mem.readCache, mem.writeCache} :
        cache.block # NoBlock =>
            cache.index \in BlockIndex /\ mem.blocks[cache.index] = cache.block

\* clear() only visits allocatedBlockIndices_: a block that is missing there
\* would keep the last program's bytes.
AllocatedExactly == mem.allocated = {b \in BlockIndex : mem.blocks[b] # NoBlock}

\* The last block may reach past the end of RAM; nothing is ever stored there,
\* so that a fetch next to the end of RAM sees zeroes.
NothingPastTheEnd ==
    \A b \in BlockIndex, o \in Offset :
        mem.blocks[b] # NoBlock /\ AddressOf(b, o) >= Size =>
            /\ mem.heap[mem.blocks[b]].cells[o] = 0
            /\ o \notin mem.heap[mem.blocks[b]].initialized

\* The promise: RAM is the bytes that the table of blocks stands for.
Content == [x \in {y \in Address : ByTable(mem)[y] # 0} |-> ByTable(mem)[x]]
Flat == INSTANCE FlatMemory WITH
    bytes <- Content,
    initialized <- {x \in Address : InitializedIn(mem, mem.blocks[BlockOf(x)], x)}

\* Memory behaves as the flat array it stands for: no caller can tell that
\* blocks are allocated late, cached, or cleared cell by cell.
ImplementsFlatMemory == Flat!Spec

\* Memory is sparse: only a store or a load allocates, and only clear() frees.
\* Reading, fetching, clearing and marking leave the table as it is.
TableChanges ==
    \A b \in BlockIndex :
        /\ mem.blocks[b] = NoBlock /\ mem'.blocks[b] # NoBlock =>
              /\ call'.op \in {"write", "load"} /\ reply'.ok
              /\ b \in BlocksOf(call'.address, call'.count)
        /\ mem.blocks[b] # NoBlock /\ mem'.blocks[b] # mem.blocks[b] =>
              call'.op = "clear" /\ mem'.blocks[b] = NoBlock
AllocationDiscipline == [][TableChanges]_vars
=============================================================================
