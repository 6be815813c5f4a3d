------------------------- MODULE SparseMemoryProofs -------------------------
(***************************************************************************)
(* What TLAPS proves about SparseMemory for every RAM size, block size,    *)
(* set of bytes and set of calls: its invariants, and that it implements   *)
(* FlatMemory and changes its table of blocks only where it should.        *)
(***************************************************************************)
EXTENDS SparseMemory, TLAPS

\* The invariants of SparseMemory, of any state m of the blocks and caches.
Coherent(m) ==
    \A cache \in {m.readCache, m.writeCache} :
        cache.block # NoBlock =>
            cache.index \in BlockIndex /\ m.blocks[cache.index] = cache.block

Exact(m) == m.allocated = {b \in BlockIndex : m.blocks[b] # NoBlock}

CleanEnd(m) ==
    \A b \in BlockIndex, o \in Offset :
        m.blocks[b] # NoBlock /\ AddressOf(b, o) >= Size =>
            /\ m.heap[m.blocks[b]].cells[o] = 0
            /\ o \notin m.heap[m.blocks[b]].initialized

Sound(m) ==
    m \in Memory /\ Owned(m) /\ Coherent(m) /\ Exact(m) /\ CleanEnd(m)

\* What the block of index b holds, whether it is there yet or not.
BlockOr(m, b) == IF m.blocks[b] = NoBlock THEN NewBlock ELSE m.heap[m.blocks[b]]

\* What the block of index b holds after data is stored from address a on.
AfterStore(m, b, a, data) ==
    IF b \in BlocksOf(a, Len(data)) THEN Stored(BlockOr(m, b), b, a, data)
    ELSE BlockOr(m, b)

-----------------------------------------------------------------------------
(* Arithmetic of blocks *)

LEMMA ZeroIsByte == 0 \in Byte
BY RamAssumption DEF Byte

LEMMA Division ==
    ASSUME NEW x \in Nat
    PROVE  /\ BlockOf(x) \in Nat
           /\ OffsetOf(x) \in Offset
           /\ AddressOf(BlockOf(x), OffsetOf(x)) = x
BY BlockAssumption DEF BlockOf, OffsetOf, AddressOf, Offset

LEMMA BlockOfMonotone ==
    ASSUME NEW x \in Nat, NEW y \in Nat, x <= y
    PROVE  BlockOf(x) <= BlockOf(y)
<1> DEFINE q == BlockOf(x)
           r == BlockOf(y)
<1>1. /\ q \in Nat /\ r \in Nat
      /\ x = q * BlockSize + OffsetOf(x) /\ y = r * BlockSize + OffsetOf(y)
      /\ OffsetOf(x) \in 0 .. BlockSize - 1 /\ OffsetOf(y) \in 0 .. BlockSize - 1
  BY Division DEF AddressOf, Offset
<1>2. SUFFICES ASSUME q >= r + 1
               PROVE  FALSE
  BY <1>1
<1>3. q * BlockSize >= (r + 1) * BlockSize
  BY <1>1, <1>2, BlockAssumption
<1>4. (r + 1) * BlockSize = r * BlockSize + BlockSize
  BY <1>1, BlockAssumption
<1> QED
  BY <1>1, <1>3, <1>4, BlockAssumption

LEMMA BlockInTable ==
    ASSUME NEW x \in 0 .. Size - 1
    PROVE  BlockOf(x) \in BlockIndex
<1>1. x \in Nat /\ x + BlockSize \in Nat /\ Size + BlockSize - 1 \in Nat
  BY BlockAssumption, RamAssumption
<1>2. BlockOf(x + BlockSize) = BlockOf(x) + 1
  BY <1>1, BlockAssumption DEF BlockOf
<1>3. BlockOf(x + BlockSize) <= BlockOf(Size + BlockSize - 1)
  <2>1. x + BlockSize <= Size + BlockSize - 1
    BY BlockAssumption, RamAssumption
  <2> QED
    BY <1>1, <2>1, BlockOfMonotone
<1> QED
  BY <1>1, <1>2, <1>3, Division DEF BlockIndex, BlockOf

-----------------------------------------------------------------------------
(* The lookups *)

\* A lookup returns what the table holds, whatever the caches hold.
LEMMA FoundIsTable ==
    ASSUME NEW m, Sound(m), NEW b \in Nat
    PROVE  Found(m, b) = IF b \in BlockIndex THEN m.blocks[b] ELSE NoBlock
BY DEF Sound, Coherent, Found, Hit

LEMMA FindSound ==
    ASSUME NEW m, Sound(m), NEW b \in Nat
    PROVE  /\ Sound(Find(m, b))
           /\ Find(m, b).blocks = m.blocks
           /\ Find(m, b).heap = m.heap
<1> DEFINE f == Found(m, b)
<1>1. f = IF b \in BlockIndex THEN m.blocks[b] ELSE NoBlock
  BY FoundIsTable
<1>2. m \in Memory
  BY DEF Sound
<1>3. f \in Ptr \union {NoBlock}
  BY <1>1, <1>2 DEF Memory
<1>4. CASE f = NoBlock
  BY <1>4 DEF Find
<1>5. CASE f # NoBlock
  <2> DEFINE new == [m EXCEPT !.readCache = [index |-> b, block |-> f]]
  <2>1. Find(m, b) = new
    BY <1>5 DEF Find
  <2>2. new \in Memory
    BY <1>2, <1>3 DEF Memory, Cache
  <2>3. /\ new.blocks = m.blocks /\ new.heap = m.heap
        /\ new.allocated = m.allocated /\ new.writeCache = m.writeCache
        /\ new.readCache = [index |-> b, block |-> f]
    BY <1>2 DEF Memory
  <2>4. Owned(new) /\ Exact(new) /\ CleanEnd(new)
    BY <2>3 DEF Sound, Owned, Exact, CleanEnd
  <2>5. Coherent(new)
    BY <1>1, <1>5, <2>3 DEF Sound, Coherent
  <2> QED
    BY <2>1, <2>2, <2>3, <2>4, <2>5 DEF Sound
<1> QED
  BY <1>4, <1>5

\* The pointers getOrCreateBlock returns are those of the table it leaves.
LEMMA CreatedIsTable ==
    ASSUME NEW m, Sound(m), NEW a \in Nat, NEW n \in Nat, InRange(a, n), n # 0,
           NEW place \in Placements(m, a, n)
    PROVE  /\ BlocksOf(a, n) \subseteq BlockIndex
           /\ BlockOf(a + n - 1) \in BlocksOf(a, n)
           /\ Missing(m, a, n) = {b \in BlocksOf(a, n) : m.blocks[b] = NoBlock}
           /\ \A b \in BlocksOf(a, n) :
                /\ Created(m, a, n, place)[b] = Create(m, a, n, place).blocks[b]
                /\ Created(m, a, n, place)[b] \in Ptr
<1>1. \A x \in Span(a, n) : x \in 0 .. Size - 1
  BY RamAssumption DEF InRange, Span
<1>2. BlocksOf(a, n) \subseteq BlockIndex
  BY <1>1, BlockInTable DEF BlocksOf
<1>3. BlockOf(a + n - 1) \in BlocksOf(a, n)
  BY DEF BlocksOf, Span
<1>4. \A b \in BlocksOf(a, n) :
          CreateHits(m, a, b) => /\ m.blocks[b] = m.writeCache.block
                                 /\ m.blocks[b] # NoBlock
  BY DEF Sound, Coherent, CreateHits, Hit
<1>5. Missing(m, a, n) = {b \in BlocksOf(a, n) : m.blocks[b] = NoBlock}
  BY <1>4 DEF Missing
<1>6. place \in [Missing(m, a, n) -> Ptr]
  BY DEF Placements, FreePtr
<1>7. m.blocks \in [BlockIndex -> Ptr \union {NoBlock}]
  BY DEF Sound, Memory
<1>8. ASSUME NEW b \in BlocksOf(a, n)
      PROVE  /\ Created(m, a, n, place)[b] = Create(m, a, n, place).blocks[b]
             /\ Created(m, a, n, place)[b] \in Ptr
  <2>1. Create(m, a, n, place).blocks[b] =
            IF b \in Missing(m, a, n) THEN place[b] ELSE m.blocks[b]
    BY <1>2 DEF Create
  <2> QED
    BY <1>2, <1>4, <1>5, <1>6, <1>7, <2>1 DEF Created
<1> QED
  BY <1>2, <1>3, <1>5, <1>8

\* What a block is after a store.
LEMMA StoredBlock ==
    ASSUME NEW block \in Block, NEW b \in Nat, NEW a \in Nat, NEW data \in Seq(Byte)
    PROVE  Stored(block, b, a, data) \in Block
<1> DEFINE written == {o \in Offset : AddressOf(b, o) \in Span(a, Len(data))}
           cell(o) == IF o \in written THEN data[AddressOf(b, o) - a + 1]
                      ELSE block.cells[o]
<1>1. ASSUME NEW o \in Offset, o \in written
      PROVE  data[AddressOf(b, o) - a + 1] \in Byte
  <2>1. AddressOf(b, o) \in Nat
    BY BlockAssumption DEF AddressOf, Offset
  <2>2. AddressOf(b, o) \in a .. a + Len(data) - 1
    BY <1>1 DEF Span
  <2>3. AddressOf(b, o) - a + 1 \in 1 .. Len(data)
    BY <2>1, <2>2
  <2> QED
    BY <2>3
<1>2. \A o \in Offset : cell(o) \in Byte
  BY <1>1 DEF Block
<1>3. [o \in Offset |-> cell(o)] \in [Offset -> Byte]
  BY <1>2
<1>4. block.initialized \union written \in SUBSET Offset
  BY DEF Block
<1>5. Stored(block, b, a, data) =
          [cells |-> [o \in Offset |-> cell(o)], initialized |-> block.initialized \union written]
  BY DEF Stored
<1> QED
  BY <1>3, <1>4, <1>5 DEF Block

\* s is the state a store of n bytes from a on leaves: its table and caches,
\* and its blocks, whether they were there before or not.
StoreTable(m, s, a, n, place) ==
    /\ s.blocks = [b \in BlockIndex |->
                     IF b \in Missing(m, a, n) THEN place[b] ELSE m.blocks[b]]
    /\ s.allocated = m.allocated \union Missing(m, a, n)
    /\ s.readCache = s.writeCache
    /\ s.readCache = [index |-> BlockOf(a + n - 1),
                      block |-> s.blocks[BlockOf(a + n - 1)]]
    /\ s.blocks \in [BlockIndex -> Ptr \union {NoBlock}]
    /\ s.heap \in [Ptr -> Block \union {Freed}]
    /\ \A b, c \in BlockIndex :
         s.blocks[b] # NoBlock /\ s.blocks[b] = s.blocks[c] => b = c

StoreHeap(m, s, a, data) ==
    \A b \in BlockIndex :
        s.blocks[b] # NoBlock => s.heap[s.blocks[b]] = AfterStore(m, b, a, data)

LEMMA StoreBlocks ==
    ASSUME NEW m, Sound(m), NEW a \in Nat, NEW data \in Seq(Byte),
           InRange(a, Len(data)), Len(data) # 0,
           NEW place \in Placements(m, a, Len(data))
    PROVE  /\ StoreTable(m, Store(m, a, data, place), a, Len(data), place)
           /\ StoreHeap(m, Store(m, a, data, place), a, data)
<1> DEFINE n == Len(data)
           made == Create(m, a, n, place)
           ptr == Created(m, a, n, place)
           B == BlocksOf(a, n)
           missing == Missing(m, a, n)
           new == {place[b] : b \in missing}
           owner(p) == CHOOSE b \in B : ptr[b] = p
           s == Store(m, a, data, place)
<1>1. n \in Nat
  OBVIOUS
<1>2. /\ B \subseteq BlockIndex /\ BlockOf(a + n - 1) \in B
      /\ missing = {b \in B : m.blocks[b] = NoBlock}
      /\ \A b \in B : ptr[b] = made.blocks[b] /\ ptr[b] \in Ptr
  BY <1>1, CreatedIsTable
<1>3. /\ place \in [missing -> Ptr]
      /\ \A b \in missing : \A c \in BlockIndex : place[b] # m.blocks[c]
      /\ \A b, c \in missing : place[b] = place[c] => b = c
  BY DEF Placements, FreePtr
<1>4. /\ m.blocks \in [BlockIndex -> Ptr \union {NoBlock}]
      /\ m.heap \in [Ptr -> Block \union {Freed}]
  BY DEF Sound, Memory
<1>5. /\ made.blocks = [b \in BlockIndex |-> IF b \in missing THEN place[b] ELSE m.blocks[b]]
      /\ made.heap = [p \in Ptr |-> IF p \in new THEN NewBlock ELSE m.heap[p]]
      /\ made.allocated = m.allocated \union missing
      /\ made.readCache = [index |-> BlockOf(a + n - 1), block |-> ptr[BlockOf(a + n - 1)]]
      /\ made.writeCache = made.readCache
  BY DEF Create
<1>6. s = [made EXCEPT !.heap =
              [p \in Ptr |-> IF \E b \in B : ptr[b] = p
                             THEN Stored(made.heap[p], owner(p), a, data)
                             ELSE made.heap[p]]]
  BY DEF Store
<1>7. /\ s.blocks = made.blocks /\ s.allocated = made.allocated
      /\ s.readCache = made.readCache /\ s.writeCache = made.writeCache
      /\ s.heap = [p \in Ptr |-> IF \E b \in B : ptr[b] = p
                                 THEN Stored(made.heap[p], owner(p), a, data)
                                 ELSE made.heap[p]]
  BY <1>6 DEF Create
<1>8. made.blocks \in [BlockIndex -> Ptr \union {NoBlock}]
  BY <1>3, <1>4, <1>5
<1>9. \A b, c \in BlockIndex :
          made.blocks[b] # NoBlock /\ made.blocks[b] = made.blocks[c] => b = c
  <2>1. \A b, c \in BlockIndex : m.blocks[b] # NoBlock /\ m.blocks[b] = m.blocks[c] => b = c
    BY DEF Sound, Owned
  <2> QED
    BY <1>3, <1>5, <2>1
<1>10. NewBlock \in Block
  BY ZeroIsByte DEF NewBlock, Block
<1>11. ASSUME NEW b \in BlockIndex, made.blocks[b] # NoBlock
       PROVE  /\ made.heap[made.blocks[b]] =
                     IF m.blocks[b] = NoBlock THEN NewBlock ELSE m.heap[m.blocks[b]]
              /\ made.heap[made.blocks[b]] \in Block
  <2>1. made.blocks[b] \in Ptr
    BY <1>8, <1>11
  <2>2. CASE b \in missing
    BY <1>2, <1>5, <1>10, <2>1, <2>2
  <2>3. CASE b \notin missing
    <3>1. made.blocks[b] = m.blocks[b] /\ m.blocks[b] # NoBlock
      BY <1>5, <1>11, <2>3
    <3>2. m.blocks[b] \notin new
      BY <1>3
    <3>3. m.heap[m.blocks[b]] \in Block
      BY <3>1 DEF Sound, Owned
    <3> QED
      BY <1>5, <2>1, <3>1, <3>2, <3>3
  <2> QED
    BY <2>2, <2>3
<1>12. \A b \in B : ptr[b] # NoBlock /\ owner(ptr[b]) = b
  <2>1. \A b, c \in B : ptr[b] = ptr[c] => b = c
    BY <1>2, <1>9, BlockAssumption
  <2>2. \A b \in B : ptr[b] # NoBlock
    BY <1>2, BlockAssumption
  <2> QED
    BY <2>1, <2>2
<1>13. ASSUME NEW b \in BlockIndex, made.blocks[b] # NoBlock
       PROVE  s.heap[made.blocks[b]] =
                  IF b \in B THEN Stored(made.heap[made.blocks[b]], b, a, data)
                  ELSE made.heap[made.blocks[b]]
  <2>1. made.blocks[b] \in Ptr
    BY <1>8, <1>13
  <2>2. CASE b \in B
    BY <1>2, <1>7, <1>12, <2>1, <2>2
  <2>3. CASE b \notin B
    <3>1. ~ \E c \in B : ptr[c] = made.blocks[b]
      BY <1>2, <1>9, <1>13, <2>3
    <3> QED
      BY <1>7, <2>1, <2>3, <3>1
  <2> QED
    BY <2>2, <2>3
<1>14. s.heap \in [Ptr -> Block \union {Freed}]
  <2>1. made.heap \in [Ptr -> Block \union {Freed}]
    BY <1>4, <1>5, <1>10
  <2>2. ASSUME NEW p \in Ptr, NEW b \in B, ptr[b] = p
        PROVE  Stored(made.heap[p], owner(p), a, data) \in Block
    <3>1. owner(p) = b /\ b \in Nat /\ made.heap[p] \in Block
      BY <1>2, <1>11, <1>12, <2>2 DEF BlockIndex
    <3> QED
      BY <3>1, StoredBlock
  <2>3. \A p \in Ptr : s.heap[p] \in Block \union {Freed}
    BY <1>7, <2>1, <2>2
  <2> QED
    BY <1>7, <2>3
<1>15. s.readCache = [index |-> BlockOf(a + n - 1), block |-> s.blocks[BlockOf(a + n - 1)]]
  <2>1. ptr[BlockOf(a + n - 1)] = s.blocks[BlockOf(a + n - 1)]
    BY <1>2, <1>7
  <2> QED
    BY <1>5, <1>7, <2>1
<1>16. \A b \in BlockIndex : s.blocks[b] # NoBlock =>
          s.heap[s.blocks[b]] = AfterStore(m, b, a, data)
  BY <1>7, <1>11, <1>13 DEF AfterStore, BlockOr
<1>17. /\ s.blocks = [b \in BlockIndex |-> IF b \in missing THEN place[b] ELSE m.blocks[b]]
       /\ s.allocated = m.allocated \union missing
       /\ s.readCache = s.writeCache
  BY <1>5, <1>7
<1>18. /\ s.blocks \in [BlockIndex -> Ptr \union {NoBlock}]
       /\ \A b, c \in BlockIndex :
            s.blocks[b] # NoBlock /\ s.blocks[b] = s.blocks[c] => b = c
  BY <1>7, <1>8, <1>9
<1> QED
  BY <1>14, <1>15, <1>16, <1>17, <1>18 DEF StoreTable, StoreHeap

LEMMA EmptyStore ==
    ASSUME NEW m, m \in Memory, NEW a \in Nat, NEW data \in Seq(Byte), Len(data) = 0,
           NEW place
    PROVE  Store(m, a, data, place) = m
<1>1. BlocksOf(a, Len(data)) = {}
  BY DEF BlocksOf, Span
<1>2. Create(m, a, Len(data), place) = m
  BY DEF Create
<1>3. [p \in Ptr |-> m.heap[p]] = m.heap
  BY DEF Memory
<1>4. Store(m, a, data, place) = [m EXCEPT !.heap = [p \in Ptr |-> m.heap[p]]]
  BY <1>1, <1>2 DEF Store
<1> QED
  BY <1>3, <1>4 DEF Memory

LEMMA StoreSound ==
    ASSUME NEW m, Sound(m), NEW a \in Nat, NEW data \in Seq(Byte), InRange(a, Len(data)),
           NEW place \in Placements(m, a, Len(data))
    PROVE  Sound(Store(m, a, data, place))
<1> DEFINE n == Len(data)
           s == Store(m, a, data, place)
<1>0. m \in Memory
  BY DEF Sound
<1>1. CASE n = 0
  BY <1>0, <1>1, EmptyStore
<1>2. CASE n # 0
  <2>1. /\ s.blocks = [b \in BlockIndex |->
                         IF b \in Missing(m, a, n) THEN place[b] ELSE m.blocks[b]]
        /\ s.allocated = m.allocated \union Missing(m, a, n)
        /\ s.readCache = s.writeCache
        /\ s.readCache = [index |-> BlockOf(a + n - 1),
                          block |-> s.blocks[BlockOf(a + n - 1)]]
        /\ s.blocks \in [BlockIndex -> Ptr \union {NoBlock}]
        /\ s.heap \in [Ptr -> Block \union {Freed}]
        /\ \A b, c \in BlockIndex :
             s.blocks[b] # NoBlock /\ s.blocks[b] = s.blocks[c] => b = c
    BY <1>2, StoreBlocks DEF StoreTable
  <2>2. \A b \in BlockIndex : s.blocks[b] # NoBlock =>
           s.heap[s.blocks[b]] = AfterStore(m, b, a, data)
    BY <1>2, StoreBlocks DEF StoreHeap
  <2>3. /\ BlocksOf(a, n) \subseteq BlockIndex /\ BlockOf(a + n - 1) \in BlocksOf(a, n)
        /\ Missing(m, a, n) = {b \in BlocksOf(a, n) : m.blocks[b] = NoBlock}
    BY <1>2, CreatedIsTable
  <2>4. place \in [Missing(m, a, n) -> Ptr]
    BY DEF Placements, FreePtr
  <2>5. NewBlock \in Block
    BY ZeroIsByte DEF NewBlock, Block
  <2>6. \A b \in BlockIndex : BlockOr(m, b) \in Block
    BY <2>5 DEF Sound, Owned, BlockOr
  <2>7. \A b \in BlockIndex : b \in Nat
    BY DEF BlockIndex
  <2>8. \A b \in BlockIndex : s.blocks[b] # NoBlock => s.heap[s.blocks[b]] \in Block
    BY <2>2, <2>6, <2>7, StoredBlock DEF AfterStore
  <2>9. Owned(s)
    BY <2>1, <2>8 DEF Owned
  <2>10. s.allocated \in SUBSET BlockIndex
    BY <1>0, <2>1, <2>3 DEF Memory
  <2>11. s.readCache \in Cache
    <3>1. s.blocks[BlockOf(a + n - 1)] \in Ptr \union {NoBlock}
      BY <2>1, <2>3
    <3>2. BlockOf(a + n - 1) \in Nat
      BY <2>3, <2>7
    <3> QED
      BY <2>1, <3>1, <3>2 DEF Cache
  <2>12. s \in Memory
    <3> DEFINE made == Create(m, a, n, place)
               h == [p \in Ptr |->
                        IF \E b \in BlocksOf(a, n) : Created(m, a, n, place)[b] = p
                        THEN Stored(made.heap[p],
                                    CHOOSE b \in BlocksOf(a, n) : Created(m, a, n, place)[b] = p,
                                    a, data)
                        ELSE made.heap[p]]
    <3>1. s = [made EXCEPT !.heap = h]
      BY DEF Store
    <3>2. s = [blocks |-> made.blocks, heap |-> h, allocated |-> made.allocated,
               readCache |-> made.readCache, writeCache |-> made.writeCache]
      BY <1>2, <3>1 DEF Create
    <3> HIDE DEF h, made, s
    <3>3. s = [blocks |-> s.blocks, heap |-> s.heap, allocated |-> s.allocated,
               readCache |-> s.readCache, writeCache |-> s.writeCache]
      BY <3>2
    <3> QED
      BY <2>1, <2>10, <2>11, <3>3 DEF Memory
  <2>13. Exact(s)
    <3>1. m.allocated = {b \in BlockIndex : m.blocks[b] # NoBlock}
      BY DEF Sound, Exact
    <3>2. \A b \in Missing(m, a, n) : place[b] # NoBlock
      BY <2>4, BlockAssumption
    <3> QED
      BY <2>1, <2>3, <3>1, <3>2 DEF Exact
  <2>14. Coherent(s)
    BY <2>1, <2>3 DEF Coherent
  <2>15. CleanEnd(s)
    <3> SUFFICES ASSUME NEW b \in BlockIndex, NEW o \in Offset,
                        s.blocks[b] # NoBlock, AddressOf(b, o) >= Size
                 PROVE  /\ s.heap[s.blocks[b]].cells[o] = 0
                        /\ o \notin s.heap[s.blocks[b]].initialized
      BY DEF CleanEnd
    <3>1. BlockOr(m, b).cells[o] = 0 /\ o \notin BlockOr(m, b).initialized
      BY DEF Sound, CleanEnd, NewBlock, BlockOr
    <3>2. AddressOf(b, o) \notin Span(a, n)
      <4>1. AddressOf(b, o) \in Nat
        BY <2>7, BlockAssumption DEF AddressOf, Offset
      <4> QED
        BY <4>1, RamAssumption DEF Span, InRange
    <3>3. /\ Stored(BlockOr(m, b), b, a, data).cells[o] = 0
          /\ o \notin Stored(BlockOr(m, b), b, a, data).initialized
      BY <3>1, <3>2 DEF Stored
    <3> QED
      BY <2>2, <3>1, <3>3 DEF AfterStore
  <2> QED
    BY <2>9, <2>12, <2>13, <2>14, <2>15 DEF Sound
<1> QED
  BY <1>1, <1>2

\* r is the state m with a range released: only blocks of the range change.
ReleaseHeap(m, r, a, n, zero, reset) ==
    /\ r = [m EXCEPT !.heap = r.heap]
    /\ DOMAIN r.heap = Ptr
    /\ \A p \in Ptr : r.heap[p] = m.heap[p] \/ (\E b \in BlockIndex : m.blocks[b] = p)
    /\ \A b \in BlockIndex : m.blocks[b] # NoBlock =>
         r.heap[m.blocks[b]] = IF b \in BlocksOf(a, n)
                               THEN Released(m.heap[m.blocks[b]], b, a, n, zero, reset)
                               ELSE m.heap[m.blocks[b]]

LEMMA ReleaseBlocks ==
    ASSUME NEW m, Sound(m), NEW a \in Nat, NEW n \in Nat, InRange(a, n),
           NEW zero \in BOOLEAN, NEW reset \in BOOLEAN
    PROVE  ReleaseHeap(m, Release(m, a, n, zero, reset), a, n, zero, reset)
<1> DEFINE r == Release(m, a, n, zero, reset)
           B == BlocksOf(a, n)
<1>1. m \in Memory
  BY DEF Sound
<1>2. r = [m EXCEPT !.heap =
              [p \in Ptr |-> IF \E b \in B : m.blocks[b] = p
                             THEN Released(m.heap[p], CHOOSE b \in B : m.blocks[b] = p, a, n, zero, reset)
                             ELSE m.heap[p]]]
  BY DEF Release
<1>3. r.heap = [p \in Ptr |-> IF \E b \in B : m.blocks[b] = p
                              THEN Released(m.heap[p], CHOOSE b \in B : m.blocks[b] = p, a, n, zero, reset)
                              ELSE m.heap[p]]
  BY <1>1, <1>2 DEF Memory
<1>4. B \subseteq BlockIndex
  <2>1. \A x \in Span(a, n) : x \in 0 .. Size - 1
    BY RamAssumption DEF InRange, Span
  <2> QED
    BY <2>1, BlockInTable DEF BlocksOf
<1>5. \A b, c \in BlockIndex : m.blocks[b] # NoBlock /\ m.blocks[c] = m.blocks[b] => c = b
  BY DEF Sound, Owned
<1>6. \A b \in BlockIndex : m.blocks[b] # NoBlock => m.blocks[b] \in Ptr
  BY <1>1 DEF Memory
<1>7. ASSUME NEW b \in B, m.blocks[b] # NoBlock
      PROVE  (CHOOSE c \in B : m.blocks[c] = m.blocks[b]) = b
  BY <1>4, <1>5, <1>7
<1>8. ASSUME NEW b \in BlockIndex, m.blocks[b] # NoBlock
      PROVE  r.heap[m.blocks[b]] =
                 IF b \in B THEN Released(m.heap[m.blocks[b]], b, a, n, zero, reset)
                 ELSE m.heap[m.blocks[b]]
  BY <1>3, <1>4, <1>5, <1>6, <1>7, <1>8
<1>9. r = [m EXCEPT !.heap = r.heap]
  BY <1>2, <1>3
<1>10. DOMAIN r.heap = Ptr
  BY <1>3
<1>11. \A p \in Ptr : r.heap[p] = m.heap[p] \/ (\E b \in BlockIndex : m.blocks[b] = p)
  BY <1>3, <1>4
<1> QED
  BY <1>8, <1>9, <1>10, <1>11 DEF ReleaseHeap

LEMMA ReleaseSound ==
    ASSUME NEW m, Sound(m), NEW a \in Nat, NEW n \in Nat, InRange(a, n),
           NEW zero \in BOOLEAN, NEW reset \in BOOLEAN
    PROVE  Sound(Release(m, a, n, zero, reset))
<1> DEFINE r == Release(m, a, n, zero, reset)
<1>1. ReleaseHeap(m, r, a, n, zero, reset)
  BY ReleaseBlocks
<1> HIDE DEF r
<1>2. m \in Memory
  BY DEF Sound
<1>3. /\ r.blocks = m.blocks /\ r.allocated = m.allocated
      /\ r.readCache = m.readCache /\ r.writeCache = m.writeCache
  BY <1>1, <1>2 DEF ReleaseHeap, Memory
<1>4. ASSUME NEW b \in BlockIndex, m.blocks[b] # NoBlock
      PROVE  /\ r.heap[m.blocks[b]] \in Block
             /\ \A o \in Offset :
                  /\ r.heap[m.blocks[b]].cells[o] \in {0, m.heap[m.blocks[b]].cells[o]}
                  /\ o \in r.heap[m.blocks[b]].initialized =>
                        o \in m.heap[m.blocks[b]].initialized
  <2> DEFINE old == m.heap[m.blocks[b]]
  <2>1. old \in Block
    BY <1>4 DEF Sound, Owned
  <2>2. r.heap[m.blocks[b]] = IF b \in BlocksOf(a, n)
                              THEN Released(old, b, a, n, zero, reset) ELSE old
    BY <1>1, <1>4 DEF ReleaseHeap
  <2> HIDE DEF old
  <2>3. Released(old, b, a, n, zero, reset) \in Block
    BY <2>1, ZeroIsByte DEF Released, Block
  <2>4. \A o \in Offset :
          /\ Released(old, b, a, n, zero, reset).cells[o] \in {0, old.cells[o]}
          /\ o \in Released(old, b, a, n, zero, reset).initialized => o \in old.initialized
    BY DEF Released
  <2> QED
    BY <2>1, <2>2, <2>3, <2>4 DEF old
<1>5. r.heap \in [Ptr -> Block \union {Freed}]
  <2>1. \A p \in Ptr : r.heap[p] \in Block \union {Freed}
    <3> TAKE p \in Ptr
    <3>1. CASE r.heap[p] = m.heap[p]
      BY <1>2, <3>1 DEF Memory
    <3>2. CASE \E b \in BlockIndex : m.blocks[b] = p
      BY <1>4, <3>2, BlockAssumption
    <3> QED
      BY <1>1, <3>1, <3>2 DEF ReleaseHeap
  <2>2. r.heap = [p \in Ptr |-> r.heap[p]]
    <3>1. r.heap = [p \in Ptr |-> IF \E b \in BlocksOf(a, n) : m.blocks[b] = p
                                  THEN Released(m.heap[p],
                                                CHOOSE b \in BlocksOf(a, n) : m.blocks[b] = p,
                                                a, n, zero, reset)
                                  ELSE m.heap[p]]
      BY <1>2 DEF r, Release, Memory
    <3> QED
      BY <3>1
  <2> QED
    BY <2>1, <2>2
<1>6. r \in Memory
  BY <1>1, <1>2, <1>5 DEF ReleaseHeap, Memory
<1>7. Owned(r)
  BY <1>3, <1>4 DEF Sound, Owned
<1>8. Coherent(r) /\ Exact(r)
  BY <1>3 DEF Sound, Coherent, Exact
<1>9. CleanEnd(r)
  BY <1>3, <1>4 DEF Sound, CleanEnd
<1> QED
  BY <1>6, <1>7, <1>8, <1>9 DEF Sound, r

LEMMA ClearSound ==
    ASSUME Sound(mem), Clear
    PROVE  Sound(mem')
<1> DEFINE m == mem'
<1>1. mem \in Memory /\ Owned(mem) /\ Exact(mem)
  BY DEF Sound
<1>2. /\ m.blocks = [b \in BlockIndex |-> IF b \in mem.allocated THEN NoBlock ELSE mem.blocks[b]]
      /\ m.heap = [p \in Ptr |-> IF \E b \in mem.allocated : mem.blocks[b] = p
                                 THEN Freed ELSE mem.heap[p]]
      /\ m.allocated = {} /\ m.readCache = EmptyCache /\ m.writeCache = EmptyCache
  BY DEF Clear
<1>3. \A b \in BlockIndex : m.blocks[b] = NoBlock
  BY <1>1, <1>2 DEF Exact
<1>4. EmptyCache \in Cache
  BY DEF EmptyCache, Cache
<1>5. m.blocks \in [BlockIndex -> Ptr \union {NoBlock}]
  BY <1>2, <1>3
<1>6. m.heap \in [Ptr -> Block \union {Freed}]
  BY <1>1, <1>2 DEF Memory
<1>7. m \in Memory
  BY <1>2, <1>4, <1>5, <1>6 DEF Memory, Clear
<1>8. Owned(m) /\ CleanEnd(m) /\ Exact(m)
  BY <1>2, <1>3 DEF Owned, CleanEnd, Exact
<1>9. Coherent(m)
  BY <1>2 DEF Coherent, EmptyCache
<1> QED
  BY <1>7, <1>8, <1>9 DEF Sound

-----------------------------------------------------------------------------
(* The invariants *)

IInv == Sound(mem) /\ TypeOK

LEMMA InitIInv == Init => IInv
<1> SUFFICES ASSUME Init PROVE IInv
  OBVIOUS
<1>1. /\ mem.blocks = [b \in BlockIndex |-> NoBlock]
      /\ mem.heap = [p \in Ptr |-> Freed]
      /\ mem.allocated = {} /\ mem.readCache = EmptyCache /\ mem.writeCache = EmptyCache
  BY DEF Init
<1>2. EmptyCache \in Cache
  BY DEF EmptyCache, Cache
<1>3. mem \in Memory
  BY <1>2 DEF Init, Memory
<1>4. Owned(mem) /\ Exact(mem) /\ CleanEnd(mem) /\ Coherent(mem)
  BY <1>1 DEF Owned, Exact, CleanEnd, Coherent, EmptyCache
<1>5. reply.ok \in BOOLEAN /\ tracing \in BOOLEAN /\ warning \in BOOLEAN
  BY DEF Init, Done, Reply
<1> QED
  BY <1>3, <1>4, <1>5 DEF IInv, Sound, TypeOK

\* The calls that are made are those the parameters allow.
LEMMA CallsTyped ==
    /\ \A a \in CallAddress : a \in Nat
    /\ \A n \in ByteCounts : n \in Nat
    /\ \A n \in Widths : n \in Nat
    /\ \A d \in Images : d \in Seq(Byte)
    /\ \A d \in WriteData : d \in Seq(Byte)
BY CallAssumption DEF Word, Widths

LEMMA NextIInv == IInv /\ [Next]_vars => IInv'
<1> SUFFICES ASSUME IInv, [Next]_vars PROVE IInv'
  OBVIOUS
<1> USE CallsTyped
<1>0. Sound(mem) /\ tracing \in BOOLEAN /\ warning \in BOOLEAN /\ reply.ok \in BOOLEAN
  BY DEF IInv, TypeOK
<1>1. SUFFICES /\ Sound(mem') /\ tracing' \in BOOLEAN /\ warning' \in BOOLEAN
               /\ reply'.ok \in BOOLEAN
  BY DEF IInv, TypeOK, Sound, Coherent, Exact, CleanEnd, Owned
<1> DEFINE Good == /\ Sound(mem') /\ tracing' \in BOOLEAN /\ warning' \in BOOLEAN
                   /\ reply'.ok \in BOOLEAN
<1>2. CASE Clear
  BY <1>0, <1>2, ClearSound DEF Clear, Done, Reply
<1>3. ASSUME NEW on \in BOOLEAN, SetCellWriteHandler(on) \/ SetUninitReadHandler(on)
      PROVE  Good
  <2>1. /\ mem' = mem /\ reply' = Done
        /\ tracing' \in {tracing, on} /\ warning' \in {warning, on}
    BY <1>3 DEF SetCellWriteHandler, SetUninitReadHandler
  <2>2. reply'.ok \in BOOLEAN
    BY <2>1 DEF Done, Reply
  <2>3. tracing' \in BOOLEAN /\ warning' \in BOOLEAN
    BY <1>0, <2>1
  <2> QED
    BY <1>0, <2>1, <2>2, <2>3
<1>4. ASSUME NEW a \in CallAddress, ReadInstruction32(a)
      PROVE  Good
  <2>1. BlockOf(a) \in Nat
    BY Division
  <2> QED
    BY <1>0, <1>4, <2>1, FindSound DEF ReadInstruction32, Reply
<1>5. ASSUME NEW a \in CallAddress, NEW image \in Images, Load(a, image)
      PROVE  Good
  BY <1>0, <1>5, StoreSound DEF Load, Done, Reply
<1>6. ASSUME NEW a \in CallAddress, NEW n \in Widths, Read(a, n)
      PROVE  Good
  <2>1. BlockOf(a) \in Nat /\ BlockOf(a + n - 1) \in Nat
    BY Division DEF Widths
  <2>2. Sound(Find(mem, BlockOf(a)))
    BY <1>0, <2>1, FindSound
  <2>3. Sound(FindSpan(mem, a, n))
    BY <2>1, <2>2, FindSound DEF FindSpan
  <2> QED
    BY <1>0, <1>6, <2>3 DEF Read, Reply
<1>7. ASSUME NEW a \in CallAddress, NEW data \in WriteData, Write(a, data)
      PROVE  Good
  <2>1. /\ InRange(a, Len(data))
        /\ \E place \in Placements(mem, a, Len(data)) : mem' = Store(mem, a, data, place)
        /\ reply'.ok = TRUE /\ tracing' = tracing /\ warning' = warning
    BY <1>7 DEF Write, Reply
  <2> QED
    BY <1>0, <2>1, StoreSound
<1>8. ASSUME NEW a \in CallAddress, NEW n \in ByteCounts, NEW reset \in BOOLEAN,
             ClearRange(a, n, reset)
      PROVE  Good
  <2>1. /\ InRange(a, n) /\ mem' = Release(mem, a, n, TRUE, reset)
        /\ reply'.ok = TRUE /\ tracing' = tracing /\ warning' = warning
    BY <1>8 DEF ClearRange, Reply
  <2> QED
    BY <1>0, <2>1, ReleaseSound
<1>9. ASSUME NEW a \in CallAddress, NEW n \in ByteCounts, MarkUninitialized(a, n)
      PROVE  Good
  BY <1>0, <1>9, ReleaseSound DEF MarkUninitialized, Done, Reply
<1>10. ASSUME NEW op, NEW a, NEW n, NEW data, Refuse(op, a, n, data)
       PROVE  Good
  BY <1>0, <1>10 DEF Refuse, OutOfRange, Done, Reply
<1>11. CASE UNCHANGED vars
  BY <1>0, <1>11 DEF vars
<1> QED
  BY <1>2, <1>3, <1>4, <1>5, <1>6, <1>7, <1>8, <1>9, <1>10, <1>11 DEF Next

LEMMA IInvAlways == Spec => []IInv
BY InitIInv, NextIInv, PTL DEF Spec

\* Memory keeps its shape, and no two blocks share their storage.
THEOREM TypeCorrect == Spec => []TypeOK
BY IInvAlways, PTL DEF IInv

\* The caches never hold a pointer that the table does not hold at that index,
\* through any sequence of loads, stores, reads, fetches and clears.
THEOREM CachesCoherent == Spec => []CacheCoherent
<1>1. IInv => CacheCoherent
  BY DEF IInv, Sound, Coherent, CacheCoherent
<1> QED
  BY <1>1, IInvAlways, PTL

\* The list that clear() visits names every allocated block and no other.
THEOREM ClearReachesEveryBlock == Spec => []AllocatedExactly
<1>1. IInv => AllocatedExactly
  BY DEF IInv, Sound, Exact, AllocatedExactly
<1> QED
  BY <1>1, IInvAlways, PTL

\* The bytes of the last block that lie past the end of RAM stay untouched.
THEOREM EndOfRamIsClean == Spec => []NothingPastTheEnd
<1>1. IInv => NothingPastTheEnd
  BY DEF IInv, Sound, CleanEnd, NothingPastTheEnd
<1> QED
  BY <1>1, IInvAlways, PTL

-----------------------------------------------------------------------------
(* The contents that the blocks stand for *)

\* What the table of blocks shows at address x, and whether x was written.
ByteOf(m, x) == ByteIn(m, m.blocks[BlockOf(x)], x)
WrittenAt(m, x) == InitializedIn(m, m.blocks[BlockOf(x)], x)

\* The mapping of SparseMemory, for any state m of the blocks and caches.
ContentOf(m) == [x \in {y \in Address : ByTable(m)[y] # 0} |-> ByTable(m)[x]]
WrittenOf(m) == {x \in Address : WrittenAt(m, x)}

-----------------------------------------------------------------------------
(* Cells and blocks *)

\* An address is at one offset of one block only.
LEMMA BlockIsUnique ==
    ASSUME NEW b \in Nat, NEW o \in Offset
    PROVE  BlockOf(AddressOf(b, o)) = b /\ OffsetOf(AddressOf(b, o)) = o
<1> DEFINE x == AddressOf(b, o)
           q == BlockOf(x)
           r == OffsetOf(x)
<1>1. /\ x \in Nat /\ q \in Nat /\ r \in Offset /\ x = q * BlockSize + r
      /\ x = b * BlockSize + o
  <2>1. x \in Nat
    BY BlockAssumption DEF AddressOf, Offset
  <2> QED
    BY <2>1, Division DEF AddressOf
<1> HIDE DEF x, q, r
<1>2. BlockSize \in Nat \ {0} /\ o \in 0 .. BlockSize - 1 /\ r \in 0 .. BlockSize - 1
  BY <1>1, BlockAssumption DEF Offset
<1>3. ~(q < b)
  <2> SUFFICES ASSUME q < b PROVE FALSE
    OBVIOUS
  <2>1. b = q + 1 + (b - q - 1) /\ b - q - 1 \in Nat
    BY <1>1
  <2>2. b * BlockSize = q * BlockSize + BlockSize + (b - q - 1) * BlockSize
    BY <1>1, <1>2, <2>1
  <2>3. (b - q - 1) * BlockSize \in Nat /\ q * BlockSize \in Nat
    BY <1>1, <1>2, <2>1
  <2> QED
    BY <1>1, <1>2, <2>2, <2>3
<1>4. ~(b < q)
  <2> SUFFICES ASSUME b < q PROVE FALSE
    OBVIOUS
  <2>1. q = b + 1 + (q - b - 1) /\ q - b - 1 \in Nat
    BY <1>1
  <2>2. q * BlockSize = b * BlockSize + BlockSize + (q - b - 1) * BlockSize
    BY <1>1, <1>2, <2>1
  <2>3. (q - b - 1) * BlockSize \in Nat /\ b * BlockSize \in Nat
    BY <1>1, <1>2, <2>1
  <2> QED
    BY <1>1, <1>2, <2>2, <2>3
<1>5. q = b
  BY <1>1, <1>3, <1>4
<1>6. r = o
  BY <1>1, <1>2, <1>5
<1> QED
  BY <1>5, <1>6 DEF q, r, x

\* An address of RAM is at an offset of a block of the table.
LEMMA AddressInTable ==
    ASSUME NEW x \in Address
    PROVE  /\ x \in Nat /\ BlockOf(x) \in BlockIndex /\ BlockOf(x) \in Nat
           /\ OffsetOf(x) \in Offset /\ AddressOf(BlockOf(x), OffsetOf(x)) = x
<1>1. x \in 0 .. Size - 1 /\ x \in Nat
  BY RamAssumption DEF Address
<1> QED
  BY <1>1, Division, BlockInTable

\* The bytes of a cell are in one block.
LEMMA CellInBlock ==
    ASSUME NEW x \in Nat, NEW y \in Nat, x \div CellSize = y \div CellSize
    PROVE  BlockOf(x) = BlockOf(y)
<1> DEFINE b == BlockOf(x)
           k == BlockSize \div CellSize
           start == b * BlockSize
<1>1. b \in Nat /\ OffsetOf(x) \in 0 .. BlockSize - 1 /\ x = start + OffsetOf(x)
  BY Division DEF AddressOf, Offset
<1>2. k \in Nat /\ BlockSize = CellSize * k /\ BlockSize \in Nat \ {0}
  BY BlockAssumption DEF CellSize
<1> HIDE DEF b, k
<1>3. start = CellSize * (b * k) /\ b * k \in Nat
  BY <1>1, <1>2 DEF CellSize
<1>4. start <= y /\ y < start + BlockSize
  <2> DEFINE s == b * k
  <2>1. start = 4 * s /\ s \in Nat /\ BlockSize = 4 * k /\ k \in Nat /\ start \in Nat
    BY <1>2, <1>3 DEF CellSize
  <2>2. start <= x /\ x < start + BlockSize
    BY <1>1, <1>2, <2>1
  <2> HIDE DEF s, start
  <2> QED
    BY <2>1, <2>2 DEF CellSize
<1>5. y - start \in Offset /\ y = AddressOf(b, y - start)
  BY <1>1, <1>2, <1>3, <1>4 DEF Offset, AddressOf
<1>6. BlockOf(y) = b
  BY <1>1, <1>5, BlockIsUnique
<1> QED
  BY <1>6 DEF b

-----------------------------------------------------------------------------
(* The mapping *)

\* A byte of the content is the byte that the table shows; outside RAM it is zero.
LEMMA ContentShowsTable ==
    ASSUME NEW m, NEW x
    PROVE  /\ ByteAt(ContentOf(m), x) = IF x \in Address THEN ByteOf(m, x) ELSE 0
           /\ ByteAt(ByTable(m), x) = IF x \in Address THEN ByteOf(m, x) ELSE 0
BY DEF ByteAt, ContentOf, ByTable, ByteOf

\* A store in every byte is a store in the content.
LEMMA ContentAfterStore ==
    ASSUME NEW m, NEW s, NEW a \in Nat, NEW data \in Seq(Byte), InRange(a, Len(data)),
           \A x \in Address : ByteOf(s, x) = IF x \in Span(a, Len(data)) THEN data[x - a + 1]
                                             ELSE ByteOf(m, x)
    PROVE  ContentOf(s) = Put(ContentOf(m), a, data)
<1> DEFINE span == Span(a, Len(data))
           p == Put(ContentOf(m), a, data)
<1>1. span \subseteq Address
  BY RamAssumption DEF Span, Address, InRange
<1> HIDE DEF span
<1>2. DOMAIN ContentOf(m) = {y \in Address : ByteOf(m, y) # 0}
      /\ DOMAIN ContentOf(s) = {y \in Address : ByteOf(s, y) # 0}
  BY DEF ContentOf, ByTable, ByteOf
<1>3. DOMAIN p = (DOMAIN ContentOf(m) \ span) \union {y \in span : data[y - a + 1] # 0}
  BY DEF Put, span
<1>4. DOMAIN p = DOMAIN ContentOf(s)
  BY <1>1, <1>2, <1>3 DEF span
<1>5. ASSUME NEW x \in DOMAIN p PROVE p[x] = ContentOf(s)[x]
  <2>1. p[x] = IF x \in span THEN data[x - a + 1] ELSE ContentOf(m)[x]
    BY <1>3 DEF Put, span
  <2>2. x \in Address /\ ContentOf(s)[x] = ByteOf(s, x)
    BY <1>2, <1>4 DEF ContentOf, ByTable, ByteOf
  <2>3. x \notin span => ContentOf(m)[x] = ByteOf(m, x)
    BY <1>2, <1>3 DEF ContentOf, ByTable, ByteOf
  <2> QED
    BY <2>1, <2>2, <2>3 DEF span
<1>6. p = [x \in DOMAIN p |-> p[x]] /\ ContentOf(s) = [x \in DOMAIN ContentOf(s) |-> ContentOf(s)[x]]
  BY DEF Put, ContentOf
<1> QED
  BY <1>4, <1>5, <1>6

\* Zeroing every byte of a range is wiping it in the content.
LEMMA ContentAfterWipe ==
    ASSUME NEW m, NEW r, NEW a \in Nat, NEW n \in Nat, InRange(a, n),
           \A x \in Address : ByteOf(r, x) = IF x \in Span(a, n) THEN 0 ELSE ByteOf(m, x)
    PROVE  ContentOf(r) = Wipe(ContentOf(m), a, n)
<1> DEFINE span == Span(a, n)
           w == Wipe(ContentOf(m), a, n)
<1>2. DOMAIN ContentOf(m) = {y \in Address : ByteOf(m, y) # 0}
      /\ DOMAIN ContentOf(r) = {y \in Address : ByteOf(r, y) # 0}
  BY DEF ContentOf, ByTable, ByteOf
<1>3. DOMAIN w = DOMAIN ContentOf(m) \ span
  BY DEF Wipe
<1>4. DOMAIN w = DOMAIN ContentOf(r)
  BY <1>2, <1>3
<1>5. ASSUME NEW x \in DOMAIN w PROVE w[x] = ContentOf(r)[x]
  <2>1. w[x] = ContentOf(m)[x]
    BY <1>3 DEF Wipe
  <2>2. x \in Address /\ ContentOf(r)[x] = ByteOf(r, x)
    BY <1>2, <1>4 DEF ContentOf, ByTable, ByteOf
  <2>3. ContentOf(m)[x] = ByteOf(m, x) /\ x \notin span
    BY <1>2, <1>3 DEF ContentOf, ByTable, ByteOf
  <2> QED
    BY <2>1, <2>2, <2>3
<1>6. w = [x \in DOMAIN w |-> w[x]] /\ ContentOf(r) = [x \in DOMAIN ContentOf(r) |-> ContentOf(r)[x]]
  BY DEF Wipe, ContentOf
<1> QED
  BY <1>4, <1>5, <1>6

\* States that show the same bytes have the same content.
LEMMA ContentOfSame ==
    ASSUME NEW m, NEW r, \A x \in Address : ByteOf(r, x) = ByteOf(m, x)
    PROVE  ContentOf(r) = ContentOf(m)
<1>1. ByTable(r) = ByTable(m)
  BY DEF ByTable, ByteOf
<1> QED
  BY <1>1 DEF ContentOf

-----------------------------------------------------------------------------
(* Stores *)

\* A store changes the bytes it is given, and marks them, in every block.
LEMMA StoreShows ==
    ASSUME NEW m, Sound(m), NEW a \in Nat, NEW data \in Seq(Byte), InRange(a, Len(data)),
           NEW place \in Placements(m, a, Len(data)), NEW x \in Address
    PROVE  LET s == Store(m, a, data, place)
               span == Span(a, Len(data))
           IN  /\ ByteOf(s, x) = IF x \in span THEN data[x - a + 1] ELSE ByteOf(m, x)
               /\ WrittenAt(s, x) <=> x \in span \/ WrittenAt(m, x)
<1> DEFINE n == Len(data)
           s == Store(m, a, data, place)
           b == BlockOf(x)
           o == OffsetOf(x)
<1>1. x \in Nat /\ b \in BlockIndex /\ b \in Nat /\ o \in Offset /\ AddressOf(b, o) = x
  BY AddressInTable
<1>2. CASE n = 0
  <2>1. s = m
    BY <1>2, EmptyStore DEF Sound
  <2>2. x \notin Span(a, n)
    BY <1>1, <1>2 DEF Span
  <2> QED
    BY <2>1, <2>2
<1>3. CASE n # 0
  <2>1. StoreTable(m, s, a, n, place) /\ StoreHeap(m, s, a, data)
    BY <1>3, StoreBlocks
  <2>2. Missing(m, a, n) = {c \in BlocksOf(a, n) : m.blocks[c] = NoBlock}
    BY <1>3, CreatedIsTable
  <2>3. place \in [Missing(m, a, n) -> Ptr]
    BY DEF Placements, FreePtr
  <2>4. s.blocks[b] = IF b \in Missing(m, a, n) THEN place[b] ELSE m.blocks[b]
    BY <1>1, <2>1 DEF StoreTable
  <2>5. s.blocks[b] # NoBlock => s.heap[s.blocks[b]] = AfterStore(m, b, a, data)
    BY <1>1, <2>1 DEF StoreHeap
  <2>6. /\ BlockOr(m, b).cells[o] = ByteOf(m, x)
        /\ o \in BlockOr(m, b).initialized <=> WrittenAt(m, x)
    BY <1>1 DEF BlockOr, NewBlock, ByteOf, ByteIn, WrittenAt, InitializedIn
  <2> HIDE DEF s, b, o, n
  <2>7. /\ ByteOf(s, x) = IF s.blocks[b] = NoBlock THEN 0 ELSE s.heap[s.blocks[b]].cells[o]
        /\ WrittenAt(s, x) <=> s.blocks[b] # NoBlock /\ o \in s.heap[s.blocks[b]].initialized
    BY DEF ByteOf, ByteIn, WrittenAt, InitializedIn, b, o
  <2>8. CASE b \in BlocksOf(a, n)
    <3>1. s.blocks[b] # NoBlock
      BY <2>2, <2>3, <2>4, <2>8, BlockAssumption
    <3>2. s.heap[s.blocks[b]] = Stored(BlockOr(m, b), b, a, data)
      BY <2>5, <2>8, <3>1 DEF AfterStore, n
    <3>3. /\ Stored(BlockOr(m, b), b, a, data).cells[o] =
               IF x \in Span(a, n) THEN data[x - a + 1] ELSE BlockOr(m, b).cells[o]
          /\ o \in Stored(BlockOr(m, b), b, a, data).initialized
               <=> x \in Span(a, n) \/ o \in BlockOr(m, b).initialized
      BY <1>1 DEF Stored, n
    <3> QED
      BY <2>6, <2>7, <3>1, <3>2, <3>3 DEF s, n
  <2>9. CASE b \notin BlocksOf(a, n)
    <3>1. x \notin Span(a, n)
      BY <2>9 DEF BlocksOf, b
    <3>2. s.blocks[b] = m.blocks[b]
      BY <2>2, <2>4, <2>9
    <3>3. s.blocks[b] # NoBlock => s.heap[s.blocks[b]] = BlockOr(m, b)
      BY <2>5, <2>9 DEF AfterStore, n
    <3>4. s.blocks[b] = NoBlock => ByteOf(m, x) = 0 /\ ~WrittenAt(m, x)
      BY <3>2 DEF ByteOf, ByteIn, WrittenAt, InitializedIn, b
    <3> QED
      BY <2>6, <2>7, <3>1, <3>3, <3>4 DEF s, n
  <2> QED
    BY <2>8, <2>9
<1> QED
  BY <1>2, <1>3

\* A store is a store into the flat memory.
LEMMA StoreIsPut ==
    ASSUME NEW m, Sound(m), NEW a \in Nat, NEW data \in Seq(Byte), InRange(a, Len(data)),
           NEW place \in Placements(m, a, Len(data))
    PROVE  /\ ContentOf(Store(m, a, data, place)) = Put(ContentOf(m), a, data)
           /\ WrittenOf(Store(m, a, data, place)) = WrittenOf(m) \union Span(a, Len(data))
<1> DEFINE s == Store(m, a, data, place)
<1>1. \A x \in Address :
         /\ ByteOf(s, x) = IF x \in Span(a, Len(data)) THEN data[x - a + 1] ELSE ByteOf(m, x)
         /\ WrittenAt(s, x) <=> x \in Span(a, Len(data)) \/ WrittenAt(m, x)
  BY StoreShows
<1> HIDE DEF s
<1>2. ContentOf(s) = Put(ContentOf(m), a, data)
  BY <1>1, ContentAfterStore
<1>3. Span(a, Len(data)) \subseteq Address
  BY RamAssumption DEF Span, Address, InRange
<1>4. WrittenOf(s) = WrittenOf(m) \union Span(a, Len(data))
  BY <1>1, <1>3 DEF WrittenOf
<1> QED
  BY <1>2, <1>4 DEF s

-----------------------------------------------------------------------------
(* Releases *)

\* The share of a block in a range is the part of the range that lies in the block.
LEMMA ShareOfBlock ==
    ASSUME NEW a \in Nat, NEW n \in Nat, NEW b \in BlocksOf(a, n)
    PROVE  /\ b \in Nat /\ From(b, a) \in Offset /\ Count(b, a, n) \in Nat
           /\ From(b, a) + Count(b, a, n) <= BlockSize
           /\ \A o \in Offset : o \in Span(From(b, a), Count(b, a, n))
                                  <=> AddressOf(b, o) \in Span(a, n)
<1> DEFINE from == From(b, a)
           start == b * BlockSize
<1>1. PICK y \in Span(a, n) : b = BlockOf(y)
  BY DEF BlocksOf
<1>2. /\ y \in Nat /\ b \in Nat /\ a <= y /\ y < a + n
      /\ y = start + OffsetOf(y) /\ OffsetOf(y) \in 0 .. BlockSize - 1
  BY <1>1, Division DEF Span, AddressOf, Offset
<1>3. BlockSize \in Nat \ {0} /\ start \in Nat
  BY <1>2, BlockAssumption
<1>4. from \in 0 .. BlockSize - 1
  BY <1>3, Division DEF From, Offset
<1>5. CASE b = BlockOf(a)
  <2>1. from = OffsetOf(a) /\ a = start + from
    BY <1>5, Division DEF From, AddressOf
  <2> HIDE DEF start
  <2>2. AddressOf(b, from) = a
    BY <2>1 DEF AddressOf, start
  <2> HIDE DEF from
  <2>3. Count(b, a, n) = IF n < BlockSize - from THEN n ELSE BlockSize - from
    BY <2>2 DEF Count, from
  <2>4. Count(b, a, n) \in Nat /\ from + Count(b, a, n) <= BlockSize
    BY <1>3, <1>4, <2>3
  <2>5. ASSUME NEW o \in Offset
        PROVE  o \in Span(from, Count(b, a, n)) <=> AddressOf(b, o) \in Span(a, n)
    <3>1. AddressOf(b, o) = start + o /\ o \in 0 .. BlockSize - 1
      BY DEF AddressOf, start, Offset
    <3> QED
      BY <1>3, <1>4, <2>1, <2>3, <2>4, <3>1 DEF Span
  <2> QED
    BY <1>2, <1>4, <2>4, <2>5 DEF from, Offset
<1>6. CASE b # BlockOf(a)
  <2>1. BlockOf(a) \in Nat /\ BlockOf(a) <= b
    BY <1>1, <1>2, BlockOfMonotone, Division
  <2>2. a < start
    <3> DEFINE q == BlockOf(a)
    <3>0. /\ q + 1 <= b /\ q \in Nat
      BY <1>2, <1>6, <2>1
    <3>1. a = q * BlockSize + OffsetOf(a) /\ OffsetOf(a) < BlockSize
      <4>1. AddressOf(q, OffsetOf(a)) = a /\ OffsetOf(a) \in Offset
        BY Division
      <4> QED
        BY <1>3, <4>1 DEF AddressOf, Offset
    <3> HIDE DEF q
    <3>2. (q + 1) * BlockSize <= b * BlockSize
      BY <1>2, <1>3, <3>0
    <3>3. (q + 1) * BlockSize = q * BlockSize + BlockSize
      BY <1>3, <3>0
    <3>4. OffsetOf(a) \in Nat /\ q * BlockSize \in Nat
      BY <1>3, <3>0, Division DEF Offset
    <3> QED
      BY <1>3, <3>1, <3>2, <3>3, <3>4
  <2>3. from = 0
    BY <1>6 DEF From
  <2> HIDE DEF start
  <2>4. AddressOf(b, from) = start
    BY <1>3, <2>3 DEF AddressOf, start
  <2> HIDE DEF from
  <2>5. Count(b, a, n) = IF a + n - start < BlockSize THEN a + n - start ELSE BlockSize
    BY <1>3, <2>3, <2>4 DEF Count, from
  <2>6. Count(b, a, n) \in Nat /\ from + Count(b, a, n) <= BlockSize
    BY <1>2, <1>3, <2>3, <2>5
  <2>7. ASSUME NEW o \in Offset
        PROVE  o \in Span(from, Count(b, a, n)) <=> AddressOf(b, o) \in Span(a, n)
    <3>1. AddressOf(b, o) = start + o /\ o \in 0 .. BlockSize - 1
      BY DEF AddressOf, start, Offset
    <3> QED
      BY <1>3, <2>2, <2>3, <2>5, <2>6, <3>1 DEF Span
  <2> QED
    BY <1>2, <1>4, <2>6, <2>7 DEF from, Offset
<1> QED
  BY <1>5, <1>6

\* The rest of a cell, whole cells and the start of a cell are the whole range.
LEMMA CellsMakeTheRange ==
    ASSUME NEW from \in Offset, NEW count \in Nat, from + count <= BlockSize
    PROVE  ClearBytesInBlock(from, count) = Span(from, count)
<1> DEFINE inCell == from % 4
           head == IF inCell = 0 THEN 0 ELSE IF count < 4 - inCell THEN count ELSE 4 - inCell
           first == (from + head) \div 4
           full == 4 * ((count - head) \div 4)
           last == (from + head + full) \div 4
<1>1. from \in Nat /\ BlockSize \in Nat \ {0}
  BY BlockAssumption DEF Offset
<1>2. ClearBytesInBlock(from, count) =
          IF from = 0 /\ count = BlockSize THEN Offset
          ELSE Span(from, head) \union Span(4 * first, full)
               \union Span(4 * last, count - head - full)
  BY DEF ClearBytesInBlock, CellSize
<1>3. from = 0 /\ count = BlockSize => Offset = Span(from, count)
  BY <1>1 DEF Offset, Span
<1>4. inCell \in 0 .. 3 /\ head \in 0 .. count
  BY <1>1
<1>5. full \in 0 .. count - head /\ count - head - full \in 0 .. 3 /\ full % 4 = 0
  <2> HIDE DEF head
  <2> QED
    BY <1>4
<1>6. CASE head = count
  <2>1. full = 0
    BY <1>1, <1>6
  <2>2. Span(from, head) \union Span(4 * first, full) \union Span(4 * last, count - head - full)
           = Span(from, count)
    <3>1. first \in Int /\ last \in Int
      BY <1>1, <1>4, <1>5
    <3> HIDE DEF head, full, first, last
    <3> QED
      BY <1>1, <1>6, <2>1, <3>1 DEF Span
  <2> QED
    BY <1>2, <1>3, <2>2
<1>7. CASE head # count
  <2>1. (from + head) % 4 = 0
    BY <1>1, <1>7
  <2> HIDE DEF head
  <2>2. 4 * first = from + head
    BY <1>1, <1>4, <2>1
  <2> HIDE DEF first
  <2>3. (from + head + full) % 4 = 0
    <3> HIDE DEF full
    <3> QED
      BY <1>1, <1>4, <1>5, <2>1
  <2> HIDE DEF full
  <2>4. 4 * last = from + head + full
    BY <1>1, <1>4, <1>5, <2>3
  <2> HIDE DEF last
  <2>5. Span(from, head) \union Span(4 * first, full) \union Span(4 * last, count - head - full)
           = Span(from, count)
    BY <1>1, <1>4, <1>5, <2>2, <2>4 DEF Span
  <2> QED
    BY <1>2, <1>3, <2>5
<1> QED
  BY <1>6, <1>7

\* A release zeroes and unmarks the bytes of its range, in every block.
LEMMA ReleaseShows ==
    ASSUME NEW m, Sound(m), NEW a \in Nat, NEW n \in Nat, InRange(a, n),
           NEW zero \in BOOLEAN, NEW reset \in BOOLEAN, NEW x \in Address
    PROVE  LET r == Release(m, a, n, zero, reset)
           IN  /\ r.blocks = m.blocks
               /\ ByteOf(r, x) = IF zero /\ x \in Span(a, n) THEN 0 ELSE ByteOf(m, x)
               /\ WrittenAt(r, x) <=> WrittenAt(m, x) /\ ~(reset /\ x \in Span(a, n))
<1> DEFINE r == Release(m, a, n, zero, reset)
           b == BlockOf(x)
           o == OffsetOf(x)
<1>1. x \in Nat /\ b \in BlockIndex /\ b \in Nat /\ o \in Offset /\ AddressOf(b, o) = x
  BY AddressInTable
<1>2. ReleaseHeap(m, r, a, n, zero, reset) /\ m \in Memory
  BY ReleaseBlocks DEF Sound
<1> HIDE DEF r
<1>3. r.blocks = m.blocks
  BY <1>2 DEF ReleaseHeap, Memory
<1>4. m.blocks[b] # NoBlock =>
         r.heap[m.blocks[b]] = IF b \in BlocksOf(a, n)
                               THEN Released(m.heap[m.blocks[b]], b, a, n, zero, reset)
                               ELSE m.heap[m.blocks[b]]
  BY <1>1, <1>2 DEF ReleaseHeap
<1> HIDE DEF b, o
<1>5. /\ ByteOf(r, x) = IF m.blocks[b] = NoBlock THEN 0 ELSE r.heap[m.blocks[b]].cells[o]
      /\ ByteOf(m, x) = IF m.blocks[b] = NoBlock THEN 0 ELSE m.heap[m.blocks[b]].cells[o]
      /\ WrittenAt(r, x) <=> m.blocks[b] # NoBlock /\ o \in r.heap[m.blocks[b]].initialized
      /\ WrittenAt(m, x) <=> m.blocks[b] # NoBlock /\ o \in m.heap[m.blocks[b]].initialized
  BY <1>3 DEF ByteOf, ByteIn, WrittenAt, InitializedIn, b, o
<1>6. CASE b \in BlocksOf(a, n)
  <2>1. o \in Span(From(b, a), Count(b, a, n)) <=> x \in Span(a, n)
    BY <1>1, <1>6, ShareOfBlock
  <2>2. o \in Zeroed(b, a, n) <=> x \in Span(a, n)
    BY <1>6, <2>1, ShareOfBlock, CellsMakeTheRange DEF Zeroed
  <2> DEFINE old == m.heap[m.blocks[b]]
  <2>3. /\ Released(old, b, a, n, zero, reset).cells[o] =
              IF zero /\ x \in Span(a, n) THEN 0 ELSE old.cells[o]
        /\ o \in Released(old, b, a, n, zero, reset).initialized
              <=> o \in old.initialized /\ ~(reset /\ x \in Span(a, n))
    BY <1>1, <2>1, <2>2 DEF Released
  <2> QED
    BY <1>3, <1>4, <1>5, <1>6, <2>3 DEF r
<1>7. CASE b \notin BlocksOf(a, n)
  <2>1. x \notin Span(a, n)
    BY <1>7 DEF BlocksOf, b
  <2> QED
    BY <1>3, <1>4, <1>5, <1>7, <2>1 DEF r
<1> QED
  BY <1>6, <1>7

\* A release is a wipe of the flat memory.
LEMMA ReleaseIsWipe ==
    ASSUME NEW m, Sound(m), NEW a \in Nat, NEW n \in Nat, InRange(a, n),
           NEW zero \in BOOLEAN, NEW reset \in BOOLEAN
    PROVE  LET r == Release(m, a, n, zero, reset)
           IN  /\ ContentOf(r) = IF zero THEN Wipe(ContentOf(m), a, n) ELSE ContentOf(m)
               /\ WrittenOf(r) = IF reset THEN WrittenOf(m) \ Span(a, n) ELSE WrittenOf(m)
<1> DEFINE r == Release(m, a, n, zero, reset)
<1>1. \A x \in Address :
         /\ ByteOf(r, x) = IF zero /\ x \in Span(a, n) THEN 0 ELSE ByteOf(m, x)
         /\ WrittenAt(r, x) <=> WrittenAt(m, x) /\ ~(reset /\ x \in Span(a, n))
  BY ReleaseShows
<1> HIDE DEF r
<1>2. ContentOf(r) = IF zero THEN Wipe(ContentOf(m), a, n) ELSE ContentOf(m)
  BY <1>1, ContentAfterWipe, ContentOfSame
<1>3. WrittenOf(r) = IF reset THEN WrittenOf(m) \ Span(a, n) ELSE WrittenOf(m)
  BY <1>1 DEF WrittenOf
<1> QED
  BY <1>2, <1>3 DEF r

-----------------------------------------------------------------------------
(* Reads *)

\* The records that a lookup is made in.
Shaped(m) == m = [blocks |-> m.blocks, heap |-> m.heap, allocated |-> m.allocated,
                  readCache |-> m.readCache, writeCache |-> m.writeCache]

\* A call reads what the table shows, whatever its lookups leave in the caches.
LEMMA ReadsTable ==
    ASSUME NEW m, Coherent(m), Shaped(m), NEW a \in Nat, NEW x \in Address
    PROVE  FoundFor(m, a, x) = m.blocks[BlockOf(x)]
<1>1. BlockOf(x) \in BlockIndex /\ BlockOf(x) \in Nat /\ BlockOf(a) \in Nat
  BY AddressInTable, Division
<1>2. ASSUME NEW k, Coherent(k), NEW b \in Nat
      PROVE  Found(k, b) = IF b \in BlockIndex THEN k.blocks[b] ELSE NoBlock
  BY <1>2 DEF Coherent, Found, Hit
<1>3. CASE BlockOf(x) = BlockOf(a)
  BY <1>1, <1>2, <1>3 DEF FoundFor
<1>4. CASE BlockOf(x) # BlockOf(a)
  <2> DEFINE f == Find(m, BlockOf(a))
  <2>1. Found(m, BlockOf(a)) # NoBlock =>
           /\ BlockOf(a) \in BlockIndex /\ Found(m, BlockOf(a)) = m.blocks[BlockOf(a)]
           /\ f = [m EXCEPT !.readCache = [index |-> BlockOf(a), block |-> Found(m, BlockOf(a))]]
    BY <1>1, <1>2 DEF Find
  <2>2. Coherent(f) /\ f.blocks = m.blocks
    BY <2>1 DEF Coherent, Find, Shaped
  <2> HIDE DEF f
  <2>3. Found(f, BlockOf(x)) = m.blocks[BlockOf(x)]
    BY <1>1, <1>2, <2>2
  <2> QED
    BY <1>4, <2>3 DEF FoundFor, f
<1> QED
  BY <1>3, <1>4

\* A call sees the bytes of the flat memory.
LEMMA ReadFromIsTable ==
    ASSUME NEW m, Coherent(m), Shaped(m), NEW a \in Nat
    PROVE  ReadFrom(m, a) = ByTable(m)
<1>1. \A x \in Address : ByteIn(m, FoundFor(m, a, x), x) = ByteIn(m, m.blocks[BlockOf(x)], x)
  BY ReadsTable
<1> QED
  BY <1>1 DEF ReadFrom, ByTable

\* The records of Memory are those that a lookup is made in.
LEMMA SoundIsShaped ==
    ASSUME NEW m, Sound(m)
    PROVE  Coherent(m) /\ Shaped(m)
BY DEF Sound, Shaped, Memory

\* What a read returns and what it warns of are those of the flat memory.
LEMMA ReadIsFlat ==
    ASSUME NEW m, Sound(m), NEW a \in Nat, NEW n \in Nat, InRange(a, n)
    PROVE  /\ [i \in 1 .. n |-> ReadFrom(m, a)[a + i - 1]] = BytesAt(ContentOf(m), a, n)
           /\ UninitMask(m, a, n) = {i \in 0 .. n - 1 : a + i \notin WrittenOf(m)}
<1>1. \A i \in 1 .. n : a + i - 1 \in Address
  BY RamAssumption DEF InRange, Address
<1>2. \A i \in 0 .. n - 1 : a + i \in Address
  BY RamAssumption DEF InRange, Address
<1>3. ReadFrom(m, a) = ByTable(m)
  BY SoundIsShaped, ReadFromIsTable
<1>4. \A x \in Address : ByTable(m)[x] = ByteAt(ContentOf(m), x)
  BY ContentShowsTable DEF ByTable, ByteOf
<1>5. [i \in 1 .. n |-> ReadFrom(m, a)[a + i - 1]] = BytesAt(ContentOf(m), a, n)
  BY <1>1, <1>3, <1>4 DEF BytesAt
<1>6. \A i \in 0 .. n - 1 : FoundFor(m, a, a + i) = m.blocks[BlockOf(a + i)]
  BY <1>2, SoundIsShaped, ReadsTable
<1>7. UninitMask(m, a, n) = {i \in 0 .. n - 1 : a + i \notin WrittenOf(m)}
  BY <1>2, <1>6 DEF UninitMask, WrittenOf, WrittenAt
<1> QED
  BY <1>5, <1>7

\* A fetch sees the bytes of the flat memory, next to the end of RAM as well.
LEMMA FetchIsFlat ==
    ASSUME NEW m, Sound(m), NEW a \in Nat, a % CellSize = 0
    PROVE  [i \in 1 .. CellSize |-> ByteIn(m, Found(m, BlockOf(a)), a + i - 1)]
              = BytesAt(ContentOf(m), a, CellSize)
<1> DEFINE b == BlockOf(a)
           p == Found(m, b)
<1>1. b \in Nat /\ p = IF b \in BlockIndex THEN m.blocks[b] ELSE NoBlock
  BY Division, FoundIsTable
<1>2. ASSUME NEW i \in 1 .. CellSize
      PROVE  ByteIn(m, p, a + i - 1) = ByteAt(ContentOf(m), a + i - 1)
  <2> DEFINE x == a + i - 1
  <2>1. x \in Nat /\ x \div CellSize = a \div CellSize
    BY DEF CellSize
  <2> HIDE DEF x
  <2>2. BlockOf(x) = b
    BY <2>1, CellInBlock
  <2> HIDE DEF b
  <2>3. ByteAt(ContentOf(m), x) = IF x \in Address THEN ByteOf(m, x) ELSE 0
    BY ContentShowsTable
  <2>4. CASE x \in Address
    <3>1. b \in BlockIndex
      BY <2>2, <2>4, AddressInTable
    <3> QED
      BY <1>1, <2>2, <2>3, <2>4, <3>1 DEF ByteOf, x
  <2>5. CASE x \notin Address
    <3>1. OffsetOf(x) \in Offset /\ AddressOf(b, OffsetOf(x)) = x /\ x >= Size
      BY <2>1, <2>2, <2>5, Division, RamAssumption DEF Address
    <3>2. b \in BlockIndex /\ m.blocks[b] # NoBlock => m.heap[m.blocks[b]].cells[OffsetOf(x)] = 0
      BY <3>1 DEF Sound, CleanEnd
    <3>3. ByteIn(m, p, x) = 0
      BY <1>1, <3>2 DEF ByteIn
    <3> QED
      BY <2>3, <2>5, <3>3 DEF x
  <2> QED
    BY <2>4, <2>5
<1> QED
  BY <1>2 DEF BytesAt

\* The events of a call are those of the contents that the tables stand for.
LEMMA EventsAreFlat ==
    ASSUME NEW m, NEW s, NEW cells
    PROVE  Events(cells, ByTable(m), ByTable(s)) = Events(cells, ContentOf(m), ContentOf(s))
<1>1. \A k, x : ByteAt(ByTable(k), x) = ByteAt(ContentOf(k), x)
  BY ContentShowsTable
<1>2. \A k, c : CellValue(ByTable(k), c) = CellValue(ContentOf(k), c)
  BY <1>1 DEF CellValue, BytesAt
<1> QED
  BY <1>2 DEF Events

\* Blocks that are made for a store show the zeroes that were there before.
LEMMA CreateShowsTable ==
    ASSUME NEW m, Sound(m), NEW a \in Nat, NEW n \in Nat, InRange(a, n),
           NEW place \in Placements(m, a, n)
    PROVE  ReadFrom(Create(m, a, n, place), a) = ByTable(m)
<1> DEFINE k == Create(m, a, n, place)
           new == {place[b] : b \in Missing(m, a, n)}
<1>1. CASE n = 0
  BY <1>1, SoundIsShaped, ReadFromIsTable DEF Create
<1>2. CASE n # 0
  <2>0. /\ BlocksOf(a, n) \subseteq BlockIndex
        /\ BlockOf(a + n - 1) \in BlocksOf(a, n)
        /\ Missing(m, a, n) = {b \in BlocksOf(a, n) : m.blocks[b] = NoBlock}
        /\ \A b \in BlocksOf(a, n) :
              /\ Created(m, a, n, place)[b] = Create(m, a, n, place).blocks[b]
              /\ Created(m, a, n, place)[b] \in Ptr
    BY <1>2, CreatedIsTable
  <2> HIDE DEF k
  <2>1. Created(m, a, n, place)[BlockOf(a + n - 1)] = k.blocks[BlockOf(a + n - 1)]
    BY <2>0 DEF k
  <2>2. /\ k.blocks = [b \in BlockIndex |-> IF b \in Missing(m, a, n) THEN place[b]
                                            ELSE m.blocks[b]]
        /\ k.heap = [p \in Ptr |-> IF p \in new THEN NewBlock ELSE m.heap[p]]
        /\ k.readCache = k.writeCache
        /\ k.readCache.index = BlockOf(a + n - 1)
        /\ k.readCache.block = Created(m, a, n, place)[BlockOf(a + n - 1)]
        /\ Shaped(k)
    BY <1>2 DEF Create, Shaped, k
  <2>3. place \in [Missing(m, a, n) -> FreePtr(m)]
    BY DEF Placements
  <2>4. m.blocks \in [BlockIndex -> Ptr \union {NoBlock}]
    BY DEF Sound, Memory
  <2>5. Coherent(k)
    BY <2>0, <2>1, <2>2 DEF Coherent
  <2>6. ReadFrom(k, a) = ByTable(k)
    BY <2>2, <2>5, ReadFromIsTable
  <2>7. ASSUME NEW x \in Address
        PROVE  ByteOf(k, x) = ByteOf(m, x)
    <3>1. BlockOf(x) \in BlockIndex /\ OffsetOf(x) \in Offset
      BY AddressInTable
    <3>2. CASE BlockOf(x) \in Missing(m, a, n)
      <4>1. k.blocks[BlockOf(x)] = place[BlockOf(x)] /\ m.blocks[BlockOf(x)] = NoBlock
        BY <2>0, <2>2, <3>1, <3>2
      <4>2. place[BlockOf(x)] \in Ptr /\ place[BlockOf(x)] \in new
        BY <2>3, <3>2 DEF FreePtr
      <4>3. k.heap[place[BlockOf(x)]] = NewBlock
        BY <2>2, <4>2
      <4> QED
        BY <3>1, <4>1, <4>2, <4>3, BlockAssumption DEF ByteOf, ByteIn, NewBlock
    <3>3. CASE BlockOf(x) \notin Missing(m, a, n)
      <4>1. k.blocks[BlockOf(x)] = m.blocks[BlockOf(x)]
        BY <2>2, <3>1, <3>3
      <4>2. m.blocks[BlockOf(x)] \notin new
        BY <2>3, <3>1 DEF FreePtr
      <4>3. m.blocks[BlockOf(x)] # NoBlock =>
               k.heap[m.blocks[BlockOf(x)]] = m.heap[m.blocks[BlockOf(x)]]
        BY <2>2, <2>4, <3>1, <4>2
      <4> QED
        BY <4>1, <4>3 DEF ByteOf, ByteIn
    <3> QED
      BY <3>2, <3>3
  <2>8. ByTable(k) = ByTable(m)
    BY <2>7 DEF ByTable, ByteOf
  <2> QED
    BY <2>6, <2>8 DEF k
<1> QED
  BY <1>1, <1>2

\* A cell of an absent block is zero, and stays so when its range is wiped.
LEMMA AbsentCellIsZero ==
    ASSUME NEW m, NEW a \in Nat, NEW n \in Nat, NEW c \in CellsOf(Span(a, n)),
           m.blocks[BlockOf(CellSize * c)] = NoBlock
    PROVE  CellValue(ContentOf(m), c) = CellValue(Wipe(ContentOf(m), a, n), c)
<1>1. c \in Nat
  BY DEF CellsOf, Span, CellSize
<1>2. ASSUME NEW i \in 1 .. CellSize
      PROVE  ByteAt(ContentOf(m), CellSize * c + i - 1)
                = ByteAt(Wipe(ContentOf(m), a, n), CellSize * c + i - 1)
  <2> DEFINE x == CellSize * c + i - 1
  <2>1. x \in Nat /\ CellSize * c \in Nat /\ x \div CellSize = (CellSize * c) \div CellSize
    BY <1>1 DEF CellSize
  <2> HIDE DEF x
  <2>2. BlockOf(x) = BlockOf(CellSize * c)
    BY <2>1, CellInBlock
  <2>3. ByteAt(ContentOf(m), x) = 0
    BY <2>2, ContentShowsTable DEF ByteOf, ByteIn
  <2>4. ByteAt(Wipe(ContentOf(m), a, n), x) \in {0, ByteAt(ContentOf(m), x)}
    BY DEF ByteAt, Wipe
  <2> QED
    BY <2>3, <2>4 DEF x
<1> QED
  BY <1>2 DEF CellValue, BytesAt

-----------------------------------------------------------------------------
(* The two modules speak of the same values *)

\* The operators of Ram and MemoryInterface are those that FlatMemory extends.
LEMMA FlatWords ==
    /\ \A a, n : Flat!Span(a, n) = Span(a, n) /\ (Flat!InRange(a, n) <=> InRange(a, n))
    /\ \A s, a, d : Flat!Put(s, a, d) = Put(s, a, d)
    /\ \A s, a, n : Flat!Wipe(s, a, n) = Wipe(s, a, n) /\ Flat!BytesAt(s, a, n) = BytesAt(s, a, n)
    /\ \A s, c : Flat!CellValue(s, c) = CellValue(s, c)
    /\ \A S : Flat!CellsOf(S) = CellsOf(S)
    /\ \A op, a, n, d : Flat!Call(op, a, n, d) = Call(op, a, n, d)
    /\ \A reset : Flat!ClearName(reset) = ClearName(reset)
    /\ \A v, e, u : Flat!Reply(v, e, u) = Reply(v, e, u)
    /\ Flat!Done = Done /\ Flat!OutOfRange = OutOfRange
    /\ Flat!CellSize = CellSize /\ Flat!NoBytes = NoBytes /\ Flat!NoEvents = NoEvents
    /\ Flat!Widths = Widths
<1>1. \A a, n : Flat!Span(a, n) = Span(a, n) /\ (Flat!InRange(a, n) <=> InRange(a, n))
  BY DEF Flat!Span, Span, Flat!InRange, InRange
<1>2. \A s, a, d : Flat!Put(s, a, d) = Put(s, a, d)
  BY DEF Flat!Put, Put, Flat!Span, Span
<1>3. \A s, a, n : Flat!Wipe(s, a, n) = Wipe(s, a, n)
  BY DEF Flat!Wipe, Wipe, Flat!Span, Span
<1>4. \A s, a, n : Flat!BytesAt(s, a, n) = BytesAt(s, a, n)
  BY DEF Flat!BytesAt, BytesAt, Flat!ByteAt, ByteAt
<1>5. \A s, c : Flat!CellValue(s, c) = CellValue(s, c)
  BY <1>4 DEF Flat!CellValue, CellValue, Flat!CellSize, CellSize
<1>6. \A S : Flat!CellsOf(S) = CellsOf(S)
  BY DEF Flat!CellsOf, CellsOf, Flat!CellSize, CellSize
<1>7. \A op, a, n, d : Flat!Call(op, a, n, d) = Call(op, a, n, d)
  BY DEF Flat!Call, Call
<1>8. \A reset : Flat!ClearName(reset) = ClearName(reset)
  BY DEF Flat!ClearName, ClearName
<1>9. \A v, e, u : Flat!Reply(v, e, u) = Reply(v, e, u)
  BY DEF Flat!Reply, Reply
<1>10. Flat!NoEvents = NoEvents /\ Flat!NoBytes = NoBytes /\ Flat!CellSize = CellSize
  BY DEF Flat!NoEvents, NoEvents, Flat!NoBytes, NoBytes, Flat!CellSize, CellSize
<1>11. Flat!Done = Done /\ Flat!OutOfRange = OutOfRange
  BY <1>9, <1>10 DEF Flat!Done, Done, Flat!OutOfRange, OutOfRange
<1>12. Flat!Widths = Widths
  BY DEF Flat!Widths, Widths
<1> QED
  BY <1>1, <1>2, <1>3, <1>4, <1>5, <1>6, <1>7, <1>8, <1>9, <1>10, <1>11, <1>12

\* The events of FlatMemory are those of MemoryInterface.
LEMMA FlatEvents ==
    \A S, s, t : Flat!Events(S, s, t) = Events(S, s, t)
BY FlatWords DEF Flat!Events, Events

\* The state that FlatMemory sees, before a step and after it.
LEMMA MappedState ==
    /\ Content = ContentOf(mem) /\ Content' = ContentOf(mem')
    /\ {x \in Address : InitializedIn(mem, mem.blocks[BlockOf(x)], x)} = WrittenOf(mem)
    /\ {x \in Address : InitializedIn(mem, mem.blocks[BlockOf(x)], x)}' = WrittenOf(mem')
<1>1. Content = ContentOf(mem)
  BY DEF Content, ContentOf
<1>2. Content' = ContentOf(mem')
  BY DEF Content, ContentOf, ByTable, ByteIn
<1>3. {x \in Address : InitializedIn(mem, mem.blocks[BlockOf(x)], x)} = WrittenOf(mem)
  BY DEF WrittenOf, WrittenAt
<1>4. {x \in Address : InitializedIn(mem, mem.blocks[BlockOf(x)], x)}' = WrittenOf(mem')
  BY DEF WrittenOf, WrittenAt, InitializedIn
<1> QED
  BY <1>1, <1>2, <1>3, <1>4

-----------------------------------------------------------------------------
(* Every call is a call of FlatMemory *)

\* load stores the image, whatever blocks it finds and wherever new ones are put.
LEMMA LoadMaps ==
    ASSUME Sound(mem), NEW a \in Nat, NEW image \in Seq(Byte), Load(a, image)
    PROVE  Flat!Load(a, image)
<1>1. PICK place \in Placements(mem, a, Len(image)) : mem' = Store(mem, a, image, place)
  BY DEF Load
<1>2. /\ ContentOf(mem') = Put(ContentOf(mem), a, image)
      /\ WrittenOf(mem') = WrittenOf(mem) \union Span(a, Len(image))
  BY <1>1, StoreIsPut DEF Load
<1> QED
  BY <1>2, MappedState, FlatWords DEF Load, Flat!Load

\* A call that leaves the blocks as they are leaves the content as it is.
LEMMA SameTableMaps ==
    ASSUME mem'.blocks = mem.blocks, mem'.heap = mem.heap
    PROVE  ContentOf(mem') = ContentOf(mem) /\ WrittenOf(mem') = WrittenOf(mem)
BY DEF ContentOf, WrittenOf, WrittenAt, ByTable, ByteIn, InitializedIn

\* A read sees the flat bytes, and its lookups change only the read cache.
LEMMA ReadMaps ==
    ASSUME Sound(mem), NEW a \in Nat, NEW n \in Widths, Read(a, n)
    PROVE  Flat!Read(a, n)
<1>1. InRange(a, n) /\ n \in Nat
  BY DEF Read, Widths
<1>2. BlockOf(a) \in Nat /\ BlockOf(a + n - 1) \in Nat
  BY Division DEF Widths
<1>3. /\ Sound(Find(mem, BlockOf(a)))
      /\ Find(mem, BlockOf(a)).blocks = mem.blocks /\ Find(mem, BlockOf(a)).heap = mem.heap
  BY <1>2, FindSound
<1>4. FindSpan(mem, a, n).blocks = mem.blocks /\ FindSpan(mem, a, n).heap = mem.heap
  BY <1>2, <1>3, FindSound DEF FindSpan
<1>5. ContentOf(mem') = ContentOf(mem) /\ WrittenOf(mem') = WrittenOf(mem)
  BY <1>4, SameTableMaps DEF Read
<1>6. reply' = Reply(BytesAt(ContentOf(mem), a, n), NoEvents,
                     IF warning THEN {i \in 0 .. n - 1 : a + i \notin WrittenOf(mem)} ELSE {})
  BY <1>1, ReadIsFlat DEF Read
<1> QED
  BY <1>5, <1>6, MappedState, FlatWords DEF Read, Flat!Read, Flat!Uninitialized

\* So does a fetch, outside RAM as well.
LEMMA FetchMaps ==
    ASSUME Sound(mem), NEW a \in Nat, ReadInstruction32(a)
    PROVE  Flat!ReadInstruction32(a)
<1>1. mem'.blocks = mem.blocks /\ mem'.heap = mem.heap
  BY Division, FindSound DEF ReadInstruction32
<1>2. ContentOf(mem') = ContentOf(mem) /\ WrittenOf(mem') = WrittenOf(mem)
  BY <1>1, SameTableMaps
<1>3. reply' = Reply(BytesAt(ContentOf(mem), a, CellSize), NoEvents, {})
  BY FetchIsFlat DEF ReadInstruction32
<1> QED
  BY <1>2, <1>3, MappedState, FlatWords DEF ReadInstruction32, Flat!ReadInstruction32

\* A store reports the same old and new cells, whichever way it looks them up.
LEMMA WriteMaps ==
    ASSUME Sound(mem), NEW a \in Nat, NEW data \in Seq(Byte), Write(a, data)
    PROVE  Flat!Write(a, data)
<1> DEFINE n == Len(data)
           aligned == n = CellSize /\ a % CellSize = 0
           before(place) == ReadFrom(IF aligned THEN Create(mem, a, n, place) ELSE mem, a)
           cells == CellsOf(Span(a, n))
<1>1. PICK place \in Placements(mem, a, n) :
         /\ mem' = Store(mem, a, data, place)
         /\ call' = Call("write", a, n, data)
         /\ reply' = Reply(<<>>, IF tracing
                                 THEN Events(cells, before(place),
                                             ReadFrom(Store(mem, a, data, place), a))
                                 ELSE NoEvents, {})
  BY DEF Write
<1>2. InRange(a, n) /\ n \in Nat
  BY DEF Write
<1>3. /\ ContentOf(mem') = Put(ContentOf(mem), a, data)
      /\ WrittenOf(mem') = WrittenOf(mem) \union Span(a, n)
  BY <1>1, <1>2, StoreIsPut
<1>4. ReadFrom(mem, a) = ByTable(mem)
  BY SoundIsShaped, ReadFromIsTable
<1>5. before(place) = ByTable(mem)
  BY <1>1, <1>2, <1>4, CreateShowsTable
<1>6. ReadFrom(mem', a) = ByTable(mem')
  BY <1>1, <1>2, StoreSound, SoundIsShaped, ReadFromIsTable
<1> HIDE DEF before, cells, n
<1>7. Events(cells, before(place), ReadFrom(mem', a))
        = Events(cells, ContentOf(mem), Put(ContentOf(mem), a, data))
  BY <1>3, <1>5, <1>6, EventsAreFlat
<1>8. reply' = Reply(<<>>, IF tracing
                           THEN Events(cells, ContentOf(mem), Put(ContentOf(mem), a, data))
                           ELSE NoEvents, {})
  BY <1>1, <1>7
<1>9. InRange(a, n) /\ call' = Call("write", a, n, data) /\ UNCHANGED <<tracing, warning>>
  BY <1>1, <1>2 DEF Write
<1> QED
  BY <1>3, <1>8, <1>9, MappedState, FlatWords, FlatEvents DEF Flat!Write, n, cells

\* A clear may leave out the cells of absent blocks: it does not change them.
LEMMA ClearRangeMaps ==
    ASSUME Sound(mem), NEW a \in Nat, NEW n \in Nat, NEW reset \in BOOLEAN,
           ClearRange(a, n, reset)
    PROVE  Flat!ClearRange(a, n, reset)
<1> DEFINE cells == CellsOf(Span(a, n))
           present == {c \in cells : mem.blocks[BlockOf(CellSize * c)] # NoBlock}
           wiped == Wipe(ContentOf(mem), a, n)
<1>1. InRange(a, n) /\ mem' = Release(mem, a, n, TRUE, reset) /\ TRUE \in BOOLEAN
  BY DEF ClearRange
<1>2. /\ ContentOf(mem') = wiped
      /\ WrittenOf(mem') = IF reset THEN WrittenOf(mem) \ Span(a, n) ELSE WrittenOf(mem)
  <2>1. \A zero \in BOOLEAN :
           LET r == Release(mem, a, n, zero, reset)
           IN  /\ ContentOf(r) = IF zero THEN wiped ELSE ContentOf(mem)
               /\ WrittenOf(r) = IF reset THEN WrittenOf(mem) \ Span(a, n) ELSE WrittenOf(mem)
    BY <1>1, ReleaseIsWipe
  <2> QED
    BY <1>1, <2>1, Zenon
<1>3. \A c \in cells \ present :
         CellValue(ContentOf(mem), c) = CellValue(wiped, c)
  BY AbsentCellIsZero
<1>4. Events(present, ByTable(mem), ByTable(mem')) = Events(present, ContentOf(mem), wiped)
  BY <1>2, EventsAreFlat
<1>5. reply' = Reply(<<>>, IF tracing THEN Events(present, ContentOf(mem), wiped)
                           ELSE NoEvents, {})
  BY <1>4 DEF ClearRange
<1>6. present \in SUBSET cells
  OBVIOUS
<1>7. call' = Call(ClearName(reset), a, n, <<>>) /\ UNCHANGED <<tracing, warning>>
  BY DEF ClearRange
<1> HIDE DEF present, cells, wiped
<1>8. \E reported \in SUBSET cells :
         /\ \A c \in cells \ reported : CellValue(ContentOf(mem), c) = CellValue(wiped, c)
         /\ reply' = Reply(<<>>, IF tracing THEN Events(reported, ContentOf(mem), wiped)
                                 ELSE NoEvents, {})
  BY <1>3, <1>5, <1>6
<1> QED
  BY <1>1, <1>2, <1>7, <1>8, MappedState, FlatWords, FlatEvents
     DEF Flat!ClearRange, cells, wiped

\* Marking keeps the bytes.
LEMMA MarkMaps ==
    ASSUME Sound(mem), NEW a \in Nat, NEW n \in Nat, MarkUninitialized(a, n)
    PROVE  Flat!MarkUninitialized(a, n)
<1>0. \A zero, reset \in BOOLEAN :
          LET r == Release(mem, a, n, zero, reset)
          IN  /\ ContentOf(r) = IF zero THEN Wipe(ContentOf(mem), a, n) ELSE ContentOf(mem)
              /\ WrittenOf(r) = IF reset THEN WrittenOf(mem) \ Span(a, n) ELSE WrittenOf(mem)
  BY ReleaseIsWipe DEF MarkUninitialized
<1>1. /\ ContentOf(mem') = ContentOf(mem)
      /\ WrittenOf(mem') = WrittenOf(mem) \ Span(a, n)
  BY <1>0, Zenon DEF MarkUninitialized
<1> QED
  BY <1>1, MappedState, FlatWords DEF MarkUninitialized, Flat!MarkUninitialized

\* Without a block RAM is zero and nothing of it is written.
LEMMA NothingShows ==
    ASSUME NEW m, \A b \in BlockIndex : m.blocks[b] = NoBlock
    PROVE  ContentOf(m) = NoBytes /\ WrittenOf(m) = {}
<1>1. \A x \in Address : ByTable(m)[x] = 0 /\ ~WrittenAt(m, x)
  BY AddressInTable DEF ByTable, ByteIn, WrittenAt, InitializedIn
<1> QED
  BY <1>1 DEF ContentOf, WrittenOf, NoBytes

\* clear() leaves an empty table, since it reaches every block.
LEMMA ClearMaps ==
    ASSUME Sound(mem), Clear
    PROVE  Flat!Clear
<1>1. \A b \in BlockIndex : mem'.blocks[b] = NoBlock
  BY DEF Clear, Sound, Exact
<1>2. ContentOf(mem') = NoBytes /\ WrittenOf(mem') = {}
  BY <1>1, NothingShows
<1> QED
  BY <1>2, MappedState, FlatWords DEF Clear, Flat!Clear

\* A new Memory is a flat memory of zeroes.
LEMMA InitMaps == Init => Flat!Init
<1> SUFFICES ASSUME Init PROVE Flat!Init
  OBVIOUS
<1>1. ContentOf(mem) = NoBytes /\ WrittenOf(mem) = {}
  BY NothingShows DEF Init
<1> QED
  BY <1>1, MappedState, FlatWords DEF Init, Flat!Init

\* The calls that touch no byte.
LEMMA QuietMaps ==
    /\ \A on : SetCellWriteHandler(on) => Flat!SetCellWriteHandler(on)
    /\ \A on : SetUninitReadHandler(on) => Flat!SetUninitReadHandler(on)
    /\ \A op, a, n, data : Refuse(op, a, n, data) => Flat!Refuse(op, a, n, data)
    /\ UNCHANGED vars => UNCHANGED Flat!vars
<1>1. mem' = mem => ContentOf(mem') = ContentOf(mem) /\ WrittenOf(mem') = WrittenOf(mem)
  OBVIOUS
<1>2. \A on : SetCellWriteHandler(on) => Flat!SetCellWriteHandler(on)
  BY <1>1, MappedState, FlatWords DEF SetCellWriteHandler, Flat!SetCellWriteHandler
<1>3. \A on : SetUninitReadHandler(on) => Flat!SetUninitReadHandler(on)
  BY <1>1, MappedState, FlatWords DEF SetUninitReadHandler, Flat!SetUninitReadHandler
<1>4. \A op, a, n, data : Refuse(op, a, n, data) => Flat!Refuse(op, a, n, data)
  BY <1>1, MappedState, FlatWords DEF Refuse, Flat!Refuse
<1>5. UNCHANGED vars => UNCHANGED Flat!vars
  BY <1>1, MappedState DEF vars, Flat!vars
<1> QED
  BY <1>2, <1>3, <1>4, <1>5

\* Every step is a step of FlatMemory or a stutter.
LEMMA NextMaps == IInv /\ [Next]_vars => [Flat!Next]_Flat!vars
<1> SUFFICES ASSUME IInv, [Next]_vars PROVE [Flat!Next]_Flat!vars
  OBVIOUS
<1> USE CallsTyped
<1>0. Sound(mem)
  BY DEF IInv
<1>1. CASE Clear
  BY <1>0, <1>1, ClearMaps DEF Flat!Next
<1>2. ASSUME NEW on \in BOOLEAN, SetCellWriteHandler(on) \/ SetUninitReadHandler(on)
      PROVE  Flat!Next
  BY <1>2, QuietMaps DEF Flat!Next
<1>3. ASSUME NEW a \in CallAddress, ReadInstruction32(a)
      PROVE  Flat!Next
  BY <1>0, <1>3, FetchMaps DEF Flat!Next
<1>4. ASSUME NEW a \in CallAddress, NEW image \in Images, Load(a, image)
      PROVE  Flat!Next
  BY <1>0, <1>4, LoadMaps DEF Flat!Next
<1>5. ASSUME NEW a \in CallAddress, NEW n \in Widths, Read(a, n)
      PROVE  Flat!Next
  BY <1>0, <1>5, ReadMaps, FlatWords DEF Flat!Next
<1>6. ASSUME NEW a \in CallAddress, NEW data \in WriteData, Write(a, data)
      PROVE  Flat!Next
  BY <1>0, <1>6, WriteMaps DEF Flat!Next
<1>7. ASSUME NEW a \in CallAddress, NEW n \in ByteCounts, NEW reset \in BOOLEAN,
             ClearRange(a, n, reset)
      PROVE  Flat!Next
  BY <1>0, <1>7, ClearRangeMaps DEF Flat!Next
<1>8. ASSUME NEW a \in CallAddress, NEW n \in ByteCounts, MarkUninitialized(a, n)
      PROVE  Flat!Next
  BY <1>0, <1>8, MarkMaps DEF Flat!Next
<1>9. ASSUME NEW a \in CallAddress, NEW image \in Images,
             Refuse("load", a, Len(image), image)
      PROVE  Flat!Next
  BY <1>9, QuietMaps DEF Flat!Next
<1>10. ASSUME NEW a \in CallAddress, NEW n \in Widths, Refuse("read", a, n, <<>>)
       PROVE  Flat!Next
  BY <1>10, QuietMaps, FlatWords DEF Flat!Next
<1>11. ASSUME NEW a \in CallAddress, NEW data \in WriteData,
              Refuse("write", a, Len(data), data)
       PROVE  Flat!Next
  BY <1>11, QuietMaps DEF Flat!Next
<1>12. ASSUME NEW a \in CallAddress, NEW n \in ByteCounts,
              NEW op \in {"clearRange", "clearAndMarkUninitialized", "markUninitialized"},
              Refuse(op, a, n, <<>>)
       PROVE  Flat!Next
  BY <1>12, QuietMaps DEF Flat!Next
<1>13. CASE UNCHANGED vars
  BY <1>13, QuietMaps
<1> QED
  BY <1>1, <1>2, <1>3, <1>4, <1>5, <1>6, <1>7, <1>8, <1>9, <1>10, <1>11, <1>12, <1>13 DEF Next

\* Memory behaves as a flat array of bytes: no caller can tell that blocks are
\* allocated late, found through caches, or cleared cell by cell.
THEOREM RefinesFlatMemory == Spec => ImplementsFlatMemory
<1>1. Init => Flat!Init
  BY InitMaps
<1>2. IInv /\ [Next]_vars => [Flat!Next]_Flat!vars
  BY NextMaps
<1> QED
  BY <1>1, <1>2, IInvAlways, PTL DEF Spec, ImplementsFlatMemory, Flat!Spec

-----------------------------------------------------------------------------
(* Allocation *)

\* A call that leaves the table as it is follows the discipline.
LEMMA SameTable == mem'.blocks = mem.blocks => TableChanges
BY DEF TableChanges

\* A store allocates in its own range, and frees nothing.
LEMMA StoreAllocates ==
    ASSUME Sound(mem), NEW a \in Nat, NEW data \in Seq(Byte), InRange(a, Len(data)),
           NEW place \in Placements(mem, a, Len(data)), mem' = Store(mem, a, data, place),
           call'.op \in {"write", "load"}, reply'.ok,
           call'.address = a, call'.count = Len(data)
    PROVE  TableChanges
<1> DEFINE n == Len(data)
<1>1. CASE n = 0
  BY <1>1, EmptyStore, SameTable DEF Sound
<1>2. CASE n # 0
  <2>1. StoreTable(mem, mem', a, n, place)
    BY <1>2, StoreBlocks
  <2>2. Missing(mem, a, n) = {b \in BlocksOf(a, n) : mem.blocks[b] = NoBlock}
    BY <1>2, CreatedIsTable
  <2>3. \A b \in BlockIndex :
           mem'.blocks[b] = IF b \in Missing(mem, a, n) THEN place[b] ELSE mem.blocks[b]
    BY <2>1 DEF StoreTable
  <2> QED
    BY <2>2, <2>3 DEF TableChanges
<1> QED
  BY <1>1, <1>2

\* Every step follows the discipline.
LEMMA NextAllocates == IInv /\ [Next]_vars => [TableChanges]_vars
<1> SUFFICES ASSUME IInv, Next PROVE TableChanges
  OBVIOUS
<1> USE CallsTyped
<1>0. Sound(mem)
  BY DEF IInv
<1>1. CASE Clear
  <2>1. \A b \in BlockIndex : mem'.blocks[b] \in {NoBlock, mem.blocks[b]}
    BY <1>1 DEF Clear
  <2>2. call'.op = "clear"
    BY <1>1 DEF Clear, Call
  <2> QED
    BY <2>1, <2>2 DEF TableChanges
<1>2. ASSUME NEW on \in BOOLEAN, SetCellWriteHandler(on) \/ SetUninitReadHandler(on)
      PROVE  TableChanges
  BY <1>2, SameTable DEF SetCellWriteHandler, SetUninitReadHandler
<1>3. ASSUME NEW a \in CallAddress, ReadInstruction32(a)
      PROVE  TableChanges
  BY <1>0, <1>3, Division, FindSound, SameTable DEF ReadInstruction32
<1>4. ASSUME NEW a \in CallAddress, NEW image \in Images, Load(a, image)
      PROVE  TableChanges
  <2>1. PICK place \in Placements(mem, a, Len(image)) : mem' = Store(mem, a, image, place)
    BY <1>4 DEF Load
  <2> QED
    BY <1>0, <1>4, <2>1, StoreAllocates DEF Load, Call, Done, Reply
<1>5. ASSUME NEW a \in CallAddress, NEW n \in Widths, Read(a, n)
      PROVE  TableChanges
  <2>1. BlockOf(a) \in Nat /\ BlockOf(a + n - 1) \in Nat
    BY Division DEF Widths
  <2>2. Sound(Find(mem, BlockOf(a))) /\ Find(mem, BlockOf(a)).blocks = mem.blocks
    BY <1>0, <2>1, FindSound
  <2>3. FindSpan(mem, a, n).blocks = mem.blocks
    BY <2>1, <2>2, FindSound DEF FindSpan
  <2> QED
    BY <1>5, <2>3, SameTable DEF Read
<1>6. ASSUME NEW a \in CallAddress, NEW data \in WriteData, Write(a, data)
      PROVE  TableChanges
  <2>1. PICK place \in Placements(mem, a, Len(data)) :
           /\ mem' = Store(mem, a, data, place)
           /\ call' = Call("write", a, Len(data), data)
           /\ reply'.ok = TRUE
    BY <1>6 DEF Write, Reply
  <2>2. InRange(a, Len(data))
    BY <1>6 DEF Write
  <2> QED
    BY <1>0, <2>1, <2>2, StoreAllocates DEF Call
<1>7. ASSUME NEW a \in CallAddress, NEW n \in ByteCounts, NEW zero \in BOOLEAN,
             NEW reset \in BOOLEAN, InRange(a, n), mem' = Release(mem, a, n, zero, reset)
      PROVE  TableChanges
  <2>1. ReleaseHeap(mem, mem', a, n, zero, reset) /\ mem \in Memory
    BY <1>0, <1>7, ReleaseBlocks DEF Sound
  <2>2. mem'.blocks = mem.blocks
    BY <2>1 DEF ReleaseHeap, Memory
  <2> QED
    BY <2>2, SameTable
<1>8. ASSUME NEW a \in CallAddress, NEW n \in ByteCounts, NEW reset \in BOOLEAN,
             ClearRange(a, n, reset)
      PROVE  TableChanges
  BY <1>7, <1>8 DEF ClearRange
<1>9. ASSUME NEW a \in CallAddress, NEW n \in ByteCounts, MarkUninitialized(a, n)
      PROVE  TableChanges
  BY <1>7, <1>9 DEF MarkUninitialized
<1>10. ASSUME NEW op, NEW a, NEW n, NEW data, Refuse(op, a, n, data)
       PROVE  TableChanges
  BY <1>10, SameTable DEF Refuse
<1> QED
  BY <1>1, <1>2, <1>3, <1>4, <1>5, <1>6, <1>8, <1>9, <1>10 DEF Next

\* Only a store or a load allocates a block, in its own range, and only clear()
\* frees one: every other call leaves the table of blocks as it found it.
THEOREM OnlyStoresAllocate == Spec => AllocationDiscipline
BY IInvAlways, NextAllocates, PTL DEF Spec, AllocationDiscipline
=============================================================================
