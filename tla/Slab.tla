-------------------------------- MODULE Slab --------------------------------
(***************************************************************************)
(* The slab allocator of module/stl/src/stl_slab.c: an array of page       *)
(* descriptors, a list of the free runs of pages, and for every chunk size *)
(* a list of the pages that have a free chunk of that size.                *)
(*                                                                         *)
(* Pointers to descriptors and to list heads are numbers: pages first,     *)
(* then the head of the free list, then the heads of the slots.  An        *)
(* address is an offset from pool->start.  What callers write into their   *)
(* memory, and the memset of what they give back, is left out, and so are  *)
(* the counters reqs and fails, which nothing reads.                       *)
(***************************************************************************)
EXTENDS Integers, FiniteSets, FiniteSetsExt

CONSTANTS
    NPages,               \* descriptors that fit the pool
    PageShift, MinShift,  \* stl_pagesize_shift, min_shift
    ByteBits, WordBytes,  \* 8 and sizeof(uintptr_t)
    Sizes,                \* sizes that callers ask for
    MaxLive               \* bound: allocations that are live at once

ASSUME SlabAssumption ==
    /\ NPages \in Nat \ {0} /\ PageShift \in Nat /\ MinShift \in Nat /\ MinShift < PageShift
    /\ ByteBits \in Nat \ {0, 1} /\ WordBytes \in Nat \ {0} /\ MaxLive \in Nat
    /\ Sizes \subseteq Nat \ {0}

VARIABLES
    pool,  \* the descriptors, the heads, pfree and the statistics
    live   \* history: what callers hold, as addresses and lengths

slabVars == <<pool, live>>

Pow2[k \in 0 .. PageShift] == IF k = 0 THEN 1 ELSE 2 * Pow2[k - 1]
PageSize == Pow2[PageShift]
WordBits == ByteBits * WordBytes
MaxSize == PageSize \div 2
ExactSize == PageSize \div WordBits
ExactShift == CHOOSE k \in 0 .. PageShift : Pow2[k] = ExactSize

\* A page and a word have a power of two bits, so that the size of a chunk whose map fills
\* a word is one, too.
ASSUME ExactAssumption == \E k \in 0 .. PageShift : Pow2[k] = ExactSize

Page == 0 .. NPages - 1
Shift == MinShift .. PageShift - 1
FreeHead == NPages
SlotHead(shift) == NPages + 1 + shift - MinShift
Node == 0 .. NPages + PageShift - MinShift
NoPage == -1
Address == 0 .. NPages * PageSize - 1

\* The field prev: a pointer with the type of the page in its low bits.
Link(node, type) == [ptr |-> node, type |-> type]
PagePtr(node) == Link(node, "page")
Unlinked(type) == Link(NoPage, type)

\* The field slab: the length of a run, whose flags are "start" for the first page of an
\* allocation and "busy" for the others; or the shift of the chunks and the map of the
\* used ones (which small chunks keep in the page itself).
Run(n) == [tag |-> "run", n |-> n, map |-> {}]
Start(n) == [tag |-> "start", n |-> n, map |-> {}]
Busy == [tag |-> "busy", n |-> 0, map |-> {}]
Chunks(shift, map) == [tag |-> "chunks", n |-> shift, map |-> map]

TypeOf(shift) ==
    IF shift < ExactShift THEN "small" ELSE IF shift = ExactShift THEN "exact" ELSE "big"

\* Chunks of a page, and how many of them hold the map of small chunks.
ChunksOf(shift) == PageSize \div Pow2[shift]
Reserved(shift) ==
    IF TypeOf(shift) = "small"
    THEN LET n == ChunksOf(shift) \div (Pow2[shift] * ByteBits) IN IF n = 0 THEN 1 ELSE n
    ELSE 0
ChunkCapacity(shift) == ChunksOf(shift) - Reserved(shift)
ChunkSet(shift) == 0 .. ChunksOf(shift) - 1
ReservedSet(shift) == 0 .. Reserved(shift) - 1

(***************************************************************************)
(* Lists and runs of pages.                                                *)
(***************************************************************************)
\* prev->next = page->next; page->next->prev = page->prev
Unlink(q, page) ==
    [q EXCEPT !.next[q.prev[page].ptr] = q.next[page],
              !.prev[q.next[page]] = q.prev[page]]

\* The first run of the free list that is long enough, or the head.
FirstFit(q, pages) ==
    LET walk[i \in 0 .. NPages] ==
          IF i = 0 THEN q.next[FreeHead]
          ELSE LET page == walk[i - 1] IN
               IF page = FreeHead THEN page
               ELSE IF q.slab[page].n >= pages THEN page ELSE q.next[page]
    IN walk[NPages]

\* What a longer run leaves takes its place in the list.
SplitRun(q, page, pages) ==
    LET n == q.slab[page].n
        rest == page + pages
    IN [q EXCEPT !.prev = [@ EXCEPT ![page + n - 1] = PagePtr(rest),
                                    ![rest] = q.prev[page],
                                    ![q.next[page]] = PagePtr(rest)],
                 !.slab[rest] = Run(n - pages),
                 !.next = [@ EXCEPT ![rest] = q.next[page],
                                    ![q.prev[page].ptr] = rest]]

TakeRun(q, page, pages) ==
    LET r == IF q.slab[page].n > pages THEN SplitRun(q, page, pages) ELSE Unlink(q, page)
        taken == page .. page + pages - 1
    IN [r EXCEPT !.slab = [p \in Page |-> IF p = page THEN Start(pages)
                                          ELSE IF p \in taken THEN Busy ELSE @[p]],
                 !.next = [p \in Node |-> IF p \in taken THEN NoPage ELSE @[p]],
                 !.prev = [p \in Node |-> IF p \in taken THEN Unlinked("page") ELSE @[p]],
                 !.pfree = @ - pages]

Detach(q, page) ==
    [q EXCEPT !.slab[page] = Run(0), !.next[page] = NoPage, !.prev[page] = Unlinked("page")]

\* The run behind, if it is free, becomes part of the one at page.
JoinNext(q, page) ==
    LET join == page + q.slab[page].n IN
    IF join \in Page /\ q.prev[join].type = "page" /\ q.next[join] # NoPage
    THEN Detach(Unlink([q EXCEPT !.slab[page].n = @ + q.slab[join].n], join), join)
    ELSE q

\* Mutant: the page before is taken for the first of its run.
RunBeforeLast(q, page) ==
    IF page > 0 /\ q.prev[page - 1].type = "page" /\ q.next[page - 1] # NoPage
    THEN page - 1 ELSE page

\* The first page of the free run that ends before page, or page itself.
RunBefore(q, page) ==
    IF page > 0 /\ q.prev[page - 1].type = "page"
    THEN LET head == IF q.slab[page - 1] = Run(0) THEN q.prev[page - 1].ptr ELSE page - 1
         IN IF q.next[head] # NoPage THEN head ELSE page
    ELSE page

JoinPrev(q, page) ==
    LET head == RunBefore(q, page) IN
    IF head # page
    THEN Detach(Unlink([q EXCEPT !.slab[head].n = @ + q.slab[page].n], head), page)
    ELSE q

PushFree(q, page) ==
    LET n == q.slab[page].n
        r == IF n > 1 THEN [q EXCEPT !.prev[page + n - 1] = PagePtr(page)] ELSE q
    IN [r EXCEPT !.prev = [@ EXCEPT ![page] = PagePtr(FreeHead),
                                    ![q.next[FreeHead]] = PagePtr(page)],
                 !.next = [@ EXCEPT ![page] = q.next[FreeHead], ![FreeHead] = page]]

FreePages(q, page, pages) ==
    LET rest == page + 1 .. page + pages - 1
        cleared == [q EXCEPT
              !.pfree = @ + pages,
              !.slab = [p \in Page |-> IF p = page THEN Run(pages)
                                       ELSE IF p \in rest THEN Run(0) ELSE @[p]],
              !.next = [p \in Node |-> IF p \in rest THEN NoPage ELSE @[p]],
              !.prev = [p \in Node |-> IF p \in rest THEN Unlinked("page") ELSE @[p]]]
        apart == IF cleared.next[page] # NoPage THEN Unlink(cleared, page) ELSE cleared
        behind == JoinNext(apart, page)
    IN PushFree(JoinPrev(behind, page), RunBefore(behind, page))

(***************************************************************************)
(* Chunks.                                                                 *)
(***************************************************************************)
ShiftFor(size) ==
    IF size > Pow2[MinShift] THEN Min({k \in 0 .. PageShift : Pow2[k] >= size}) ELSE MinShift

\* The page at the head of a slot gives its first free chunk, and leaves the list when
\* it was the last one.
TakeChunk(q, page, shift) ==
    LET chunk == Min(ChunkSet(shift) \ q.slab[page].map)
        r == [q EXCEPT !.slab[page].map = @ \cup {chunk}, !.used[shift] = @ + 1]
    IN IF r.slab[page].map = ChunkSet(shift)
       THEN [Unlink(r, page) EXCEPT !.next[page] = NoPage,
                                    !.prev[page] = Unlinked(TypeOf(shift))]
       ELSE r

\* Mutant: the chunk that is returned is not marked.
NewMapUnmarked(shift) == ReservedSet(shift)

NewMap(shift) == 0 .. Reserved(shift)

\* A new page of chunks is alone in its slot.
NewChunkPage(q, page, shift) ==
    [TakeRun(q, page, 1) EXCEPT
        !.slab[page] = Chunks(shift, NewMap(shift)),
        !.next = [@ EXCEPT ![page] = SlotHead(shift), ![SlotHead(shift)] = page],
        !.prev[page] = Link(SlotHead(shift), TypeOf(shift)),
        !.total[shift] = @ + ChunkCapacity(shift),
        !.used[shift] = @ + 1]

AddrOf(page, chunk, shift) == page * PageSize + chunk * Pow2[shift]

PagesFor(size) == (size + PageSize - 1) \div PageSize

AllocPages(q, pages) ==
    LET page == FirstFit(q, pages) IN
    IF page = FreeHead THEN [addr |-> NoPage, pool |-> q]
    ELSE [addr |-> AddrOf(page, 0, 0), pool |-> TakeRun(q, page, pages)]

AllocChunk(q, shift) ==
    LET page == q.next[SlotHead(shift)]
        fresh == FirstFit(q, 1)
    IN IF q.next[page] # page
       THEN [addr |-> AddrOf(page, Min(ChunkSet(shift) \ q.slab[page].map), shift),
             pool |-> TakeChunk(q, page, shift)]
       ELSE IF fresh # FreeHead
       THEN [addr |-> AddrOf(fresh, Reserved(shift), shift),
             pool |-> NewChunkPage(q, fresh, shift)]
       ELSE [addr |-> NoPage, pool |-> q]

\* The address and the pool that stl_slab_alloc leaves.
SlabAlloc(q, size) ==
    IF size > MaxSize THEN AllocPages(q, PagesFor(size)) ELSE AllocChunk(q, ShiftFor(size))

\* A full page comes back to the head of its slot.
Relink(q, page, shift) ==
    [q EXCEPT !.next = [@ EXCEPT ![page] = q.next[SlotHead(shift)], ![SlotHead(shift)] = page],
              !.prev = [@ EXCEPT ![page] = Link(SlotHead(shift), TypeOf(shift)),
                                 ![q.next[SlotHead(shift)]] = Link(page, TypeOf(shift))]]

\* Mutant: a page that was full is not listed again.
GiveChunkUnlisted(q, page, chunk) ==
    LET shift == q.slab[page].n
        given == [q EXCEPT !.slab[page].map = @ \ {chunk}]
        r == IF given.slab[page].map \subseteq ReservedSet(shift)
             THEN [FreePages(given, page, 1) EXCEPT !.total[shift] = @ - ChunkCapacity(shift)]
             ELSE given
    IN [r EXCEPT !.used[shift] = @ - 1]

GiveChunk(q, page, chunk) ==
    LET shift == q.slab[page].n
        linked == IF q.next[page] = NoPage THEN Relink(q, page, shift) ELSE q
        given == [linked EXCEPT !.slab[page].map = @ \ {chunk}]
        r == IF given.slab[page].map \subseteq ReservedSet(shift)
             THEN [FreePages(given, page, 1) EXCEPT !.total[shift] = @ - ChunkCapacity(shift)]
             ELSE given
    IN [r EXCEPT !.used[shift] = @ - 1]

\* Mutant: the chunk is not looked up in the map.
SlabFreeUnchecked(q, addr) ==
    LET page == addr \div PageSize
        offset == addr % PageSize
        s == q.slab[page]
    IN IF q.prev[page].type = "page"
       THEN IF offset = 0 /\ s.tag = "start" THEN FreePages(q, page, s.n) ELSE q
       ELSE IF offset % Pow2[s.n] = 0 THEN GiveChunk(q, page, offset \div Pow2[s.n]) ELSE q

\* The pool that stl_slab_free leaves, with its checks of a pointer it does not know:
\* wrong_chunk, chunk_already_free and fail change nothing.
SlabFree(q, addr) ==
    LET page == addr \div PageSize
        offset == addr % PageSize
        s == q.slab[page]
    IN IF q.prev[page].type = "page"
       THEN IF offset = 0 /\ s.tag = "start" THEN FreePages(q, page, s.n) ELSE q
       ELSE IF offset % Pow2[s.n] = 0 /\ offset \div Pow2[s.n] \in s.map
            THEN GiveChunk(q, page, offset \div Pow2[s.n])
            ELSE q

(***************************************************************************)
(* Callers.                                                                *)
(***************************************************************************)
SlabInit ==
    /\ pool = [slab |-> [p \in Page |-> IF p = 0 THEN Run(NPages) ELSE Run(0)],
               next |-> [p \in Node |-> IF p = 0 THEN FreeHead
                                        ELSE IF p = FreeHead THEN 0
                                        ELSE IF p \in Page THEN NoPage ELSE p],
               prev |-> [p \in Node |-> IF p = 0 THEN PagePtr(FreeHead)
                                        ELSE Unlinked("page")],
               pfree |-> NPages,
               total |-> [s \in Shift |-> 0],
               used |-> [s \in Shift |-> 0]]
    /\ live = {}

\* The memory that a request of a size is given.
LengthOf(size) == IF size > MaxSize THEN PagesFor(size) * PageSize ELSE Pow2[ShiftFor(size)]

Alloc(size) ==
    LET r == SlabAlloc(pool, size) IN
    /\ Cardinality(live) < MaxLive
    /\ pool' = r.pool
    /\ live' = IF r.addr = NoPage THEN live
               ELSE live \cup {[addr |-> r.addr, len |-> LengthOf(size)]}

Free(a) ==
    /\ pool' = SlabFree(pool, a.addr)
    /\ live' = live \ {a}

SlabNext == (\E size \in Sizes : Alloc(size)) \/ (\E a \in live : Free(a))

SlabSpec == SlabInit /\ [][SlabNext]_slabVars

(***************************************************************************)
(*                              Properties                                 *)
(***************************************************************************)
Bytes(a) == a.addr .. a.addr + a.len - 1

IsChunkPage(q, p) == q.prev[p].type # "page"

\* The bytes of a page of small chunks that hold its map.
MapBytes(q, p) ==
    IF IsChunkPage(q, p)
    THEN p * PageSize .. p * PageSize + Reserved(q.slab[p].n) * Pow2[q.slab[p].n] - 1
    ELSE {}

\* Memory that stl_slab_alloc returns is in the pool, and neither held by another caller
\* nor part of the allocator's own maps (stl_slab.c:207).
AllocDisjoint ==
    \A size \in Sizes :
        LET r == SlabAlloc(pool, size)
            bytes == Bytes([addr |-> r.addr, len |-> LengthOf(size)])
        IN r.addr # NoPage =>
             /\ bytes \subseteq Address
             /\ \A a \in live : Bytes(a) \cap bytes = {}
             /\ \A p \in Page : \A a \in live \cup {[addr |-> r.addr, len |-> LengthOf(size)]} :
                  Bytes(a) \cap MapBytes(r.pool, p) = {}

\* Pages that no caller holds any memory of.
Unused == {p \in Page : \A a \in live : Bytes(a) \cap (p * PageSize .. (p + 1) * PageSize - 1) = {}}

\* Is there room for a request of a size, by what callers hold?
Room(size) ==
    IF size > MaxSize
    THEN \E p \in Page : p .. p + PagesFor(size) - 1 \subseteq Unused
    ELSE \/ Unused # {}
         \/ \E p \in Page : /\ IsChunkPage(pool, p) /\ pool.slab[p].n = ShiftFor(size)
                            /\ pool.slab[p].map # ChunkSet(ShiftFor(size))

\* Memory is never lost: a request is refused only if what callers hold leaves no room
\* for it, so that runs are joined and pages are listed as they should be.
NoMemoryLost == \A size \in Sizes : (SlabAlloc(pool, size).addr = NoPage) => ~Room(size)

\* The first pages of the free runs.
RunHeads == {p \in Page : pool.next[p] # NoPage /\ ~IsChunkPage(pool, p)}

\* The lists can be followed in both directions, and the free runs are all the memory that
\* nobody holds, joined as far as they go (stl_slab_free_pages, stl_slab.c:457).
ListsSound ==
    /\ \A p \in Page : pool.next[p] # NoPage =>
         /\ pool.next[pool.prev[p].ptr] = p
         /\ pool.next[p] \in Page => pool.prev[pool.next[p]].ptr = p
    /\ Unused = UNION {p .. p + pool.slab[p].n - 1 : p \in RunHeads}
    /\ \A p \in RunHeads : p - 1 \notin Unused /\ p + pool.slab[p].n \notin Unused

\* A pointer that no caller holds, one given back before or one into the middle of an
\* allocation, is left alone by stl_slab_free; the map in a page of small chunks is the
\* exception (stl_slab.c:579).
StrayFreeIgnored ==
    \A addr \in Address :
        \/ \E a \in live : a.addr = addr
        \/ \E p \in Page : addr \in MapBytes(pool, p)
        \/ SlabFree(pool, addr) = pool
=============================================================================
