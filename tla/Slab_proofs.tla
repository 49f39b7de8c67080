---------------------------- MODULE Slab_proofs -----------------------------
(***************************************************************************)
(* The slab allocator: memory that is held is disjoint, memory that is     *)
(* given back is found again, the lists are sound, and a pointer that      *)
(* nobody holds changes nothing; for every number and size of pages.       *)
(***************************************************************************)
EXTENDS Slab, FiniteSetTheorems, WellFoundedInduction, TLAPS

(***************************************************************************)
(* The invariant.                                                          *)
(***************************************************************************)
\* The first page of a free run, of an allocation of pages, and a page of chunks.
IsRun(S, p) == p \in Page /\ S[p].tag = "run" /\ S[p].n > 0
IsStart(S, p) == p \in Page /\ S[p].tag = "start"
IsChunks(S, p) == p \in Page /\ S[p].tag = "chunks"

\* A page of chunks that are not all used.
Partial(S, p) == IsChunks(S, p) /\ S[p].map # ChunkSet(S[p].n)

SlabTypes == {"page", "small", "exact", "big"}

Descriptors == [Page -> [tag : {"run", "start", "busy", "chunks"}, n : Nat, map : SUBSET Nat]]

\* The fields of the pool.
IsPool(q) ==
    /\ q = [slab |-> q.slab, next |-> q.next, prev |-> q.prev,
            pfree |-> q.pfree, total |-> q.total, used |-> q.used]
    /\ q.slab \in Descriptors
    /\ q.next \in [Node -> Node \cup {NoPage}]
    /\ q.prev \in [Node -> [ptr : Node \cup {NoPage}, type : SlabTypes]]

\* The map of a page of chunks: at least one of them is used, and those that hold the map are.
MapOK(shift, map) ==
    /\ shift \in Shift
    /\ ReservedSet(shift) \subseteq map /\ map \subseteq ChunkSet(shift)
    /\ ~(map \subseteq ReservedSet(shift))

\* What the pages are, and which are behind the first of a run or of an allocation.
DescOK(S, p) ==
    \/ S[p] = Run(S[p].n)
    \/ S[p] = Start(S[p].n) /\ S[p].n > 0
    \/ S[p] = Busy
    \/ S[p] = Chunks(S[p].n, S[p].map) /\ MapOK(S[p].n, S[p].map)

Tiling(S) ==
    /\ \A p \in Page : DescOK(S, p)
    /\ \A p \in Page : S[p].tag \in {"run", "start"} => p + S[p].n <= NPages
    /\ \A p \in Page : IsRun(S, p) => \A i \in p + 1 .. p + S[p].n - 1 : S[i] = Run(0)
    /\ \A p \in Page : IsStart(S, p) => \A i \in p + 1 .. p + S[p].n - 1 : S[i] = Busy
    /\ \A i \in Page : S[i] = Run(0) =>
         \E p \in Page : IsRun(S, p) /\ p < i /\ i < p + S[p].n
    /\ \A i \in Page : S[i] = Busy =>
         \E p \in Page : IsStart(S, p) /\ p < i /\ i < p + S[p].n

\* The pages that are in a list; those of D are on their way to one.
Listed(S, D) == {p \in Page \ D : IsRun(S, p) \/ Partial(S, p)}

\* The head of the list a page belongs to.
HomeOf(S) == [p \in Page |-> IF S[p].tag = "chunks" THEN SlotHead(S[p].n) ELSE FreeHead]

Ptr(V) == [p \in Node |-> V[p].ptr]

Heads == FreeHead .. NPages + PageShift - MinShift

\* Doubly linked lists of the pages of L, each from its home and back to it.
Linked(X, P, L, H, rank) ==
    /\ \A p \in L : X[p] \in L \cup {H[p]}
    /\ \A p \in L : X[p] \in L => H[X[p]] = H[p] /\ P[X[p]] = p
    /\ \A p \in L : P[p] \in L \cup {H[p]} /\ X[P[p]] = p
    /\ \A p \in L : P[p] \in L => H[P[p]] = H[p] /\ rank[P[p]] < rank[p]
    /\ \A h \in Heads : X[h] = h \/ (X[h] \in L /\ H[X[h]] = h /\ P[X[h]] = h)

Chained(X, P, L, H) == \E rank \in [Page -> Nat] : Linked(X, P, L, H, rank)

\* The links of the pages that are not in a list.
Unlisted(S, X, D) == \A p \in Page : p \notin D /\ p \notin Listed(S, D) => X[p] = NoPage

\* The type in the field prev.
Typed(S, V, D) ==
    \A p \in Page : p \notin D =>
        V[p].type = IF S[p].tag = "chunks" THEN TypeOf(S[p].n) ELSE "page"

\* The last page of a free run leads to the first.
Tails(S, V, D) ==
    \A p \in Page : p \notin D /\ IsRun(S, p) /\ S[p].n > 1 /\ p + S[p].n \in Page =>
        V[p + S[p].n - 1].ptr = p

\* Free runs do not touch.
Apart(S, D) ==
    \A p, r \in Page : p \notin D /\ r \notin D /\ IsRun(S, p) /\ IsRun(S, r) => p + S[p].n # r

Sound(q, D) ==
    /\ IsPool(q)
    /\ Tiling(q.slab)
    /\ Unlisted(q.slab, q.next, D)
    /\ Typed(q.slab, q.prev, D)
    /\ Tails(q.slab, q.prev, D)
    /\ Apart(q.slab, D)
    /\ Chained(q.next, Ptr(q.prev), Listed(q.slab, D), HomeOf(q.slab))

\* The memory that is held: allocations of pages, and the chunks that are used.
PageMemory(S, p) == [addr |-> AddrOf(p, 0, 0), len |-> S[p].n * PageSize]
ChunkMemory(S, p, c) == [addr |-> AddrOf(p, c, S[p].n), len |-> Pow2[S[p].n]]

Held(S) ==
    {PageMemory(S, p) : p \in {p \in Page : IsStart(S, p)}}
    \cup UNION {{ChunkMemory(S, p, c) : c \in S[p].map \ ReservedSet(S[p].n)} :
                  p \in {p \in Page : IsChunks(S, p)}}

SlabInv == Sound(pool, {}) /\ live = Held(pool.slab)

(***************************************************************************)
(* Numbers.                                                                *)
(***************************************************************************)
LEMMA Numbers ==
    /\ NPages \in Nat \ {0} /\ PageShift \in Nat /\ MinShift \in Nat /\ MinShift < PageShift
    /\ ByteBits \in Nat \ {0, 1} /\ WordBytes \in Nat \ {0}
  BY SlabAssumption

\* Every set of numbers has a least one.
LEMMA Least ==
    ASSUME NEW T \in SUBSET Nat, T # {}
    PROVE  \E m \in T : \A y \in T : m <= y
  <1>. DEFINE R == OpToRel(<, Nat)
  <1>1. PICK m \in T : \A y \in T : ~(<<y, m>> \in R)
    BY NatLessThanWellFounded, WFMin, Zenon
  <1>2. \A j, n \in Nat : j < n => <<j, n>> \in R
    BY DEF OpToRel
  <1>. HIDE DEF R
  <1>3. \A y \in T : ~(y < m)
    BY <1>1, <1>2
  <1>. QED
    BY <1>3

LEMMA DivMod ==
    ASSUME NEW n \in Nat, NEW d \in Nat \ {0}
    PROVE  /\ n \div d \in Nat /\ n % d \in 0 .. d - 1
           /\ n = (n \div d) * d + (n % d)
  OBVIOUS

LEMMA TimesStep ==
    ASSUME NEW p \in Int, NEW q \in Int, NEW d \in Nat, p < q
    PROVE  p * d + d <= q * d
  <1>1. PICK e \in Nat : q = p + 1 + e
    <2>1. q - p - 1 \in Nat
      OBVIOUS
    <2>. QED
      BY <2>1
  <1>2. q * d = p * d + d + e * d
    BY <1>1
  <1>3. e * d \in Nat
    OBVIOUS
  <1>4. p * d \in Int /\ q * d \in Int
    OBVIOUS
  <1>. QED
    BY <1>2, <1>3, <1>4

LEMMA TimesMore ==
    ASSUME NEW c \in Nat \ {0}, NEW y \in Nat
    PROVE  c * y \in Nat /\ y <= c * y
  <1>1. 0 * y + y <= c * y
    BY TimesStep
  <1>2. c * y \in Nat
    OBVIOUS
  <1>. QED
    BY <1>1, <1>2

LEMMA DivModUnique ==
    ASSUME NEW d \in Nat \ {0}, NEW q \in Nat, NEW r \in 0 .. d - 1
    PROVE  q * d + r \in Nat /\ (q * d + r) \div d = q /\ (q * d + r) % d = r
  <1>. DEFINE n == q * d + r
              q2 == n \div d
              r2 == n % d
  <1>1. n \in Nat /\ n = q * d + r
    OBVIOUS
  <1>. HIDE DEF n
  <1>2. q2 \in Nat /\ r2 \in 0 .. d - 1 /\ n = q2 * d + r2
    BY <1>1, DivMod
  <1>. HIDE DEF q2, r2
  <1>3. q * d \in Nat /\ q2 * d \in Nat
    BY <1>2
  <1>4. ~(q < q2)
    <2>. SUFFICES ASSUME q < q2 PROVE FALSE
      OBVIOUS
    <2>1. q * d + d <= q2 * d
      BY <1>2, TimesStep
    <2>. QED
      BY <2>1, <1>1, <1>2, <1>3
  <1>5. ~(q2 < q)
    <2>. SUFFICES ASSUME q2 < q PROVE FALSE
      OBVIOUS
    <2>1. q2 * d + d <= q * d
      BY <1>2, TimesStep
    <2>. QED
      BY <2>1, <1>1, <1>2, <1>3
  <1>6. q = q2
    BY <1>2, <1>4, <1>5
  <1>7. r = r2
    BY <1>1, <1>2, <1>3, <1>6
  <1>. QED
    BY <1>1, <1>6, <1>7 DEF n, q2, r2

\* The definition of Pow2 is one: it exists.
LEMMA Pow2Is == Pow2 = [k \in 0 .. PageShift |-> IF k = 0 THEN 1 ELSE 2 * Pow2[k - 1]]
  <1>. DEFINE Good(n) == \E f : f = [k \in 0 .. n |-> IF k = 0 THEN 1 ELSE 2 * f[k - 1]]
              T == {n \in Nat : ~Good(n)}
  <1>1. T = {}
    <2>. SUFFICES ASSUME T # {} PROVE FALSE
      OBVIOUS
    <2>1. PICK m \in T : \A y \in T : m <= y
      <3>1. T \in SUBSET Nat
        OBVIOUS
      <3>. HIDE DEF T
      <3>. QED
        BY <3>1, Least
    <2>2. m \in Nat /\ ~Good(m) /\ \A y \in Nat : ~Good(y) => m <= y
      BY <2>1
    <2>3. CASE m = 0
      <3>. DEFINE f == [k \in 0 .. 0 |-> 1]
      <3>1. f = [k \in 0 .. m |-> IF k = 0 THEN 1 ELSE 2 * f[k - 1]]
        BY <2>3
      <3>. HIDE DEF f
      <3>. QED
        BY <3>1, <2>2
    <2>4. CASE m # 0
      <3>1. m - 1 \in Nat /\ ~(m <= m - 1)
        BY <2>2, <2>4
      <3>. HIDE DEF Good
      <3>2. Good(m - 1)
        BY <3>1, <2>2
      <3>3. PICK f : f = [k \in 0 .. m - 1 |-> IF k = 0 THEN 1 ELSE 2 * f[k - 1]]
        BY <3>2 DEF Good
      <3>. DEFINE g == [k \in 0 .. m |-> IF k = 0 THEN 1 ELSE 2 * f[k - 1]]
      <3>4. \A k \in 0 .. m - 1 : g[k] = f[k]
        <4>. TAKE k \in 0 .. m - 1
        <4>1. k \in 0 .. m
          BY <2>2
        <4>2. f[k] = IF k = 0 THEN 1 ELSE 2 * f[k - 1]
          BY <3>3
        <4>. QED
          BY <4>1, <4>2
      <3>5. \A k \in 0 .. m : k # 0 => g[k - 1] = f[k - 1]
        <4>1. \A k \in 0 .. m : k # 0 => k - 1 \in 0 .. m - 1
          BY <2>2
        <4>. HIDE DEF g
        <4>. QED
          BY <3>4, <4>1
      <3>6. g = [k \in 0 .. m |-> IF k = 0 THEN 1 ELSE 2 * g[k - 1]]
        BY <3>5
      <3>. QED
        BY <3>6, <2>2 DEF Good
    <2>. QED
      BY <2>3, <2>4
  <1>2. Good(PageShift)
    BY <1>1, Numbers
  <1>3. PICK f : f = [k \in 0 .. PageShift |-> IF k = 0 THEN 1 ELSE 2 * f[k - 1]]
    BY <1>2
  <1>. QED
    BY <1>3, Zenon DEF Pow2

LEMMA Pow2Step ==
    /\ Pow2[0] = 1
    /\ \A k \in 1 .. PageShift : Pow2[k] = 2 * Pow2[k - 1]
    /\ \A k \in 0 .. PageShift : Pow2[k] \in Nat \ {0}
  <1>1. Pow2[0] = 1
    BY Pow2Is, Numbers
  <1>2. \A k \in 1 .. PageShift : Pow2[k] = 2 * Pow2[k - 1]
    BY Pow2Is, Numbers
  <1>3. \A k \in 0 .. PageShift : Pow2[k] \in Nat \ {0}
    <2>. DEFINE T == {k \in 0 .. PageShift : Pow2[k] \notin Nat \ {0}}
    <2>. SUFFICES ASSUME T # {} PROVE FALSE
      OBVIOUS
    <2>1. PICK m \in T : \A y \in T : m <= y
      <3>1. T \in SUBSET Nat
        BY Numbers
      <3>. HIDE DEF T
      <3>. QED
        BY <3>1, Least
    <2>2. m # 0 /\ m \in 0 .. PageShift
      BY <1>1, <2>1
    <2>3. m - 1 \in 0 .. PageShift /\ ~(m <= m - 1) /\ m \in 1 .. PageShift
      BY <2>2, Numbers
    <2>4. Pow2[m - 1] \in Nat \ {0}
      BY <2>1, <2>3
    <2>5. Pow2[m] = 2 * Pow2[m - 1]
      BY <2>3, <1>2
    <2>6. Pow2[m] \in Nat \ {0}
      BY <2>4, <2>5
    <2>. QED
      BY <2>1, <2>6
  <1>. QED
    BY <1>1, <1>2, <1>3

\* A power of two is a multiple of every smaller one.
LEMMA Pow2Multiple ==
    ASSUME NEW s \in 0 .. PageShift, NEW d \in Nat, s + d <= PageShift
    PROVE  \E c \in Nat \ {0} : /\ Pow2[s + d] = c * Pow2[s]
                                /\ d >= 1 => c >= 2
                                /\ d >= 2 => c >= 4
  <1>. DEFINE Good(x) == \E c \in Nat \ {0} : /\ Pow2[s + x] = c * Pow2[s]
                                              /\ x >= 1 => c >= 2
                                              /\ x >= 2 => c >= 4
              T == {x \in Nat : s + x <= PageShift /\ ~Good(x)}
  <1>. SUFFICES T = {}
    OBVIOUS
  <1>. SUFFICES ASSUME T # {} PROVE FALSE
    OBVIOUS
  <1>1. PICK m \in T : \A y \in T : m <= y
    <2>1. T \in SUBSET Nat
      OBVIOUS
    <2>. HIDE DEF T
    <2>. QED
      BY <2>1, Least
  <1>2. m \in Nat /\ s + m <= PageShift /\ ~Good(m)
    BY <1>1
  <1>3. \A y \in Nat : s + y <= PageShift /\ ~Good(y) => m <= y
    BY <1>1
  <1>4. CASE m = 0
    <2>1. s + m = s /\ Pow2[s] = 1 * Pow2[s]
      BY <1>2, <1>4, Pow2Step
    <2>2. Good(m)
      BY <1>4, <2>1
    <2>. QED
      BY <2>2, <1>2
  <1>5. CASE m # 0
    <2>. DEFINE e == m - 1
    <2>1. e \in Nat /\ s + e <= PageShift /\ ~(m <= e) /\ m = e + 1 /\ s + m \in 1 .. PageShift /\ s + m - 1 = s + e
      BY <1>2, <1>5, Numbers
    <2>. HIDE DEF e
    <2>2. Good(e)
      <3>. HIDE DEF Good
      <3>. QED
        BY <1>3, <2>1
    <2>3. PICK c \in Nat \ {0} : Pow2[s + e] = c * Pow2[s] /\ (e >= 1 => c >= 2)
      BY <2>2
    <2>4. Pow2[s + m] = 2 * Pow2[s + e]
      BY <2>1, Pow2Step
    <2>5. 2 * c \in Nat \ {0} /\ 2 * (c * Pow2[s]) = (2 * c) * Pow2[s]
      BY Pow2Step
    <2>6. (m >= 1 => 2 * c >= 2) /\ (m >= 2 => 2 * c >= 4)
      BY <2>1, <2>3
    <2>7. Pow2[s + m] = (2 * c) * Pow2[s]
      BY <2>3, <2>4, <2>5
    <2>8. Good(m)
      BY <2>5, <2>6, <2>7
    <2>. QED
      BY <2>8, <1>2
  <1>. QED
    BY <1>4, <1>5

LEMMA PageSizeOK == PageSize \in Nat \ {0} /\ Pow2[MinShift] \in Nat \ {0}
  BY Pow2Step, Numbers DEF PageSize

\* A page of small chunks is divided into four at least.
LEMMA ExactBelow == ExactShift \in 0 .. PageShift - 1
  <1>1. ExactShift \in 0 .. PageShift /\ Pow2[ExactShift] = ExactSize
    BY ExactAssumption DEF ExactShift
  <1>2. WordBits \in Nat /\ WordBits >= 2
    <2>1. PICK w \in Nat : WordBytes = 1 + w
      <3>1. WordBytes - 1 \in Nat
        BY Numbers
      <3>. QED
        BY <3>1, Numbers
    <2>2. WordBits = ByteBits + ByteBits * w /\ ByteBits * w \in Nat
      BY <2>1, Numbers DEF WordBits
    <2>. QED
      BY <2>2, Numbers
  <1>. DEFINE e == PageSize \div WordBits
  <1>3. e \in Nat /\ e * WordBits <= PageSize
    <2>1. /\ PageSize \div WordBits \in Nat /\ PageSize % WordBits \in 0 .. WordBits - 1
          /\ PageSize = (PageSize \div WordBits) * WordBits + (PageSize % WordBits)
      <3>1. WordBits \in Nat \ {0} /\ PageSize \in Nat
        BY <1>2, PageSizeOK
      <3>. QED
        BY <3>1, DivMod, Zenon
    <2>. HIDE DEF e
    <2>2. e \in Nat /\ PageSize % WordBits \in Nat /\ PageSize = e * WordBits + (PageSize % WordBits)
      BY <2>1, <1>2 DEF e
    <2>3. e * WordBits \in Nat
      BY <2>2, <1>2
    <2>. QED
      BY <2>2, <2>3
  <1>. HIDE DEF e
  <1>4. e + e <= PageSize
    <2>1. PICK w \in Nat : WordBits = 2 + w
      <3>1. WordBits - 2 \in Nat
        BY <1>2
      <3>. QED
        BY <3>1, <1>2
    <2>2. e * WordBits = e + e + e * w /\ e * w \in Nat
      BY <2>1, <1>3
    <2>. QED
      BY <2>2, <1>3, PageSizeOK
  <1>5. Pow2[ExactShift] = e
    BY <1>1 DEF ExactSize, e
  <1>6. ExactShift # PageShift
    <2>. SUFFICES ASSUME ExactShift = PageShift PROVE FALSE
      OBVIOUS
    <2>1. e = PageSize
      BY <1>5 DEF PageSize
    <2>. QED
      BY <2>1, <1>3, <1>4, PageSizeOK
  <1>. QED
    BY <1>1, <1>6, Numbers

LEMMA ChunkFacts ==
    ASSUME NEW s \in Shift
    PROVE  /\ s \in 0 .. PageShift /\ Pow2[s] \in Nat \ {0}
           /\ ChunksOf(s) \in Nat /\ PageSize = ChunksOf(s) * Pow2[s]
           /\ Reserved(s) \in Nat /\ Reserved(s) + 2 <= ChunksOf(s)
  <1>1. s \in 0 .. PageShift /\ s \in Nat /\ s < PageShift
    BY Numbers DEF Shift
  <1>2. Pow2[s] \in Nat \ {0}
    BY <1>1, Pow2Step
  <1>. DEFINE d == PageShift - s
  <1>3. d \in Nat /\ d >= 1 /\ s + d = PageShift /\ s + d <= PageShift
    BY <1>1, Numbers
  <1>. HIDE DEF d
  <1>4. PICK c \in Nat \ {0} : PageSize = c * Pow2[s] /\ c >= 2 /\ (d >= 2 => c >= 4)
    <2>1. \E c \in Nat \ {0} : /\ Pow2[s + d] = c * Pow2[s]
                               /\ d >= 1 => c >= 2
                               /\ d >= 2 => c >= 4
      BY <1>1, <1>3, Pow2Multiple
    <2>. QED
      BY <2>1, <1>3 DEF PageSize
  <1>5. ChunksOf(s) = c
    <2>1. PICK z : z = 0
      OBVIOUS
    <2>2. z \in 0 .. Pow2[s] - 1
      BY <2>1, <1>2
    <2>3. (c * Pow2[s] + z) \div Pow2[s] = c
      BY <2>2, <1>2, <1>4, DivModUnique
    <2>4. c * Pow2[s] + z = PageSize
      BY <2>1, <1>2, <1>4
    <2>. QED
      BY <2>3, <2>4 DEF ChunksOf
  <1>6. CASE TypeOf(s) = "small"
    <2>1. c >= 4
      <3>1. s < ExactShift
        BY <1>6 DEF TypeOf
      <3>. QED
        BY <3>1, <1>1, <1>3, <1>4, ExactBelow, Numbers
    <2>. DEFINE b == Pow2[s] * ByteBits
                n == c \div b
    <2>2. b \in Nat /\ b >= 2
      <3>1. b \in Nat /\ ByteBits <= b
        BY <1>2, Numbers, TimesMore
      <3>. QED
        BY <3>1, Numbers
    <2>. HIDE DEF b
    <2>3. n \in Nat /\ n * b \in Nat /\ n * b <= c
      <3>1. b \in Nat \ {0}
        BY <2>2
      <3>2. c \div b \in Nat /\ c % b \in 0 .. b - 1 /\ c = (c \div b) * b + (c % b)
        BY <3>1, DivMod, Zenon
      <3>. HIDE DEF n
      <3>3. n \in Nat /\ c % b \in Nat /\ c = n * b + (c % b)
        BY <3>1, <3>2 DEF n
      <3>4. n * b \in Nat
        BY <2>2, <3>3
      <3>. QED
        BY <3>3, <3>4
    <2>. HIDE DEF n
    <2>4. n + n <= c
      <3>1. PICK x \in Nat : b = 2 + x
        <4>1. b - 2 \in Nat
          BY <2>2
        <4>. QED
          BY <4>1, <2>2
      <3>2. n * b = n + n + n * x /\ n * x \in Nat
        BY <3>1, <2>3
      <3>. QED
        BY <3>2, <2>3
    <2>5. Reserved(s) = IF n = 0 THEN 1 ELSE n
      BY <1>5, <1>6 DEF Reserved, n, b
    <2>. QED
      BY <1>1, <1>2, <1>4, <1>5, <2>1, <2>3, <2>4, <2>5
  <1>7. CASE TypeOf(s) # "small"
    BY <1>1, <1>2, <1>4, <1>5, <1>7 DEF Reserved
  <1>. QED
    BY <1>6, <1>7

\* The size of chunks for a request: one of the slots has it, and it is large enough.
LEMMA ShiftForOK ==
    ASSUME NEW size \in Nat \ {0}, size <= MaxSize
    PROVE  ShiftFor(size) \in Shift /\ size <= Pow2[ShiftFor(size)]
  <1>1. CASE ~(size > Pow2[MinShift])
    BY <1>1, PageSizeOK, Numbers DEF ShiftFor, Shift
  <1>2. CASE size > Pow2[MinShift]
    <2>. DEFINE K == {k \in 0 .. PageShift : Pow2[k] >= size}
    <2>1. PageShift - 1 \in K
      <3>1. PageShift - 1 \in 0 .. PageShift /\ PageShift \in 1 .. PageShift
        BY Numbers
      <3>2. Pow2[PageShift] = 2 * Pow2[PageShift - 1] /\ Pow2[PageShift - 1] \in Nat
        BY <3>1, Pow2Step
      <3>3. PageSize \div 2 = Pow2[PageShift - 1]
        BY <3>2 DEF PageSize
      <3>. QED
        BY <3>1, <3>2, <3>3 DEF MaxSize
    <2>2. \E m \in K : \A y \in K : m <= y
      <3>1. K \in SUBSET Nat
        BY Numbers
      <3>. HIDE DEF K
      <3>. QED
        BY <3>1, <2>1, Least
    <2>3. Min(K) \in K /\ \A y \in K : Min(K) <= y
      <3>. HIDE DEF K
      <3>. QED
        BY <2>2 DEF Min
    <2>4. ShiftFor(size) = Min(K)
      BY <1>2 DEF ShiftFor
    <2>. DEFINE m == Min(K)
    <2>5. m \in 0 .. PageShift /\ Pow2[m] >= size /\ m <= PageShift - 1
      BY <2>1, <2>3
    <2>. HIDE DEF m, K
    <2>6. MinShift <= m
      <3>. SUFFICES ASSUME m < MinShift PROVE FALSE
        BY <2>5, Numbers
      <3>. DEFINE d == MinShift - m
      <3>1. d \in Nat /\ m + d = MinShift /\ m + d <= PageShift
        BY <2>5, Numbers
      <3>. HIDE DEF d
      <3>2. PICK c \in Nat \ {0} : Pow2[m + d] = c * Pow2[m]
        BY <2>5, <3>1, Pow2Multiple
      <3>3. Pow2[m] \in Nat
        BY <2>5, Pow2Step
      <3>5. c * Pow2[m] \in Nat /\ Pow2[m] <= c * Pow2[m]
        BY <3>3, TimesMore
      <3>6. Pow2[MinShift] >= Pow2[m]
        BY <3>1, <3>2, <3>3, <3>5
      <3>. QED
        BY <3>3, <3>6, <2>5, <1>2, PageSizeOK
    <2>7. m \in Shift /\ size <= Pow2[m]
      BY <2>5, <2>6, Pow2Step, Numbers DEF Shift
    <2>. QED
      BY <2>4, <2>7 DEF m
  <1>. QED
    BY <1>1, <1>2

LEMMA PagesForOK ==
    ASSUME NEW size \in Nat \ {0}
    PROVE  PagesFor(size) \in Nat \ {0} /\ size <= PagesFor(size) * PageSize
  <1>. DEFINE x == size + PageSize - 1
              k == x \div PageSize
  <1>1. x \in Nat /\ PageSize <= x
    BY PageSizeOK
  <1>. HIDE DEF x
  <1>2. k \in Nat /\ x % PageSize \in 0 .. PageSize - 1 /\ x = k * PageSize + (x % PageSize)
    BY <1>1, PageSizeOK, DivMod, Zenon
  <1>. HIDE DEF k
  <1>3. k * PageSize \in Nat
    BY <1>2, PageSizeOK
  <1>4. k # 0
    <2>. SUFFICES ASSUME k = 0 PROVE FALSE
      OBVIOUS
    <2>1. k * PageSize = 0
      BY PageSizeOK
    <2>. QED
      BY <2>1, <1>1, <1>2, PageSizeOK
  <1>5. size <= k * PageSize
    BY <1>2, <1>3, PageSizeOK DEF x
  <1>. QED
    BY <1>2, <1>4, <1>5 DEF PagesFor, k, x

(***************************************************************************)
(* Lists.                                                                  *)
(***************************************************************************)
LEMMA Nodes ==
    /\ Page \cap Heads = {} /\ Node = Page \cup Heads
    /\ NoPage \notin Node /\ FreeHead \in Heads /\ FreeHead \notin Page
    /\ \A s \in Shift : SlotHead(s) \in Heads /\ SlotHead(s) \notin Page /\ SlotHead(s) # FreeHead
    /\ \A s, t \in Shift : SlotHead(s) = SlotHead(t) => s = t
  BY Numbers DEF Page, Heads, Node, NoPage, FreeHead, SlotHead, Shift

\* The pages of L have a home.
Homed(L, H) == L \subseteq Page /\ \A n \in L : H[n] \in Heads

\* How a list changes: not at all; a page leaves it; a page comes to its head; a page takes
\* the place of another.
Same(X, P, L, H, X2, P2, H2) ==
    /\ \A n \in L \cup Heads : X2[n] = X[n]
    /\ \A n \in L : P2[n] = P[n] /\ H2[n] = H[n]

Leaves(X, P, L, H, X2, P2, H2, p) ==
    /\ \A n \in (L \ {p}) \cup Heads : X2[n] = IF n = P[p] THEN X[p] ELSE X[n]
    /\ \A n \in L \ {p} : P2[n] = IF n = X[p] THEN P[p] ELSE P[n]
    /\ \A n \in L \ {p} : H2[n] = H[n]

Comes(X, P, L, H, X2, P2, H2, p, h) ==
    /\ X2[p] = X[h] /\ X2[h] = p /\ \A n \in L \cup Heads : n # h => X2[n] = X[n]
    /\ P2[p] = h /\ \A n \in L : P2[n] = IF n = X[h] THEN p ELSE P[n]
    /\ H2[p] = h /\ \A n \in L : H2[n] = H[n]

Replaces(X, P, L, H, X2, P2, H2, p, r) ==
    /\ X2[r] = X[p] /\ \A n \in (L \ {p}) \cup Heads : X2[n] = IF n = P[p] THEN r ELSE X[n]
    /\ P2[r] = P[p] /\ \A n \in L \ {p} : P2[n] = IF n = X[p] THEN r ELSE P[n]
    /\ H2[r] = H[p] /\ \A n \in L \ {p} : H2[n] = H[n]

LEMMA SameList ==
    ASSUME NEW X, NEW P, NEW L, NEW H, NEW X2, NEW P2, NEW H2,
           Chained(X, P, L, H), Homed(L, H), Same(X, P, L, H, X2, P2, H2)
    PROVE  Chained(X2, P2, L, H2)
  <1>. USE DEF Homed, Same
  <1>1. PICK rank \in [Page -> Nat] : Linked(X, P, L, H, rank)
    BY DEF Chained
  <1>2. Linked(X2, P2, L, H2, rank)
    BY <1>1 DEF Linked
  <1>. QED
    BY <1>1, <1>2 DEF Chained

\* A page leaves its list.
LEMMA UnlinkList ==
    ASSUME NEW X, NEW P, NEW L, NEW H, NEW X2, NEW P2, NEW H2, NEW p \in L,
           Chained(X, P, L, H), Homed(L, H), Leaves(X, P, L, H, X2, P2, H2, p)
    PROVE  Chained(X2, P2, L \ {p}, H2)
  <1>. USE DEF Homed, Leaves
  <1>1. PICK rank \in [Page -> Nat] : Linked(X, P, L, H, rank)
    BY DEF Chained
  <1>. DEFINE M == L \ {p}
  <1>2. \A n \in L : n \in Page /\ n \notin Heads
    BY Nodes
  <1>3. \A n \in L : X[n] # n /\ P[n] # n
    BY <1>1, <1>2, Nodes DEF Linked
  <1>4. ASSUME NEW n \in M
        PROVE  X2[n] \in M \cup {H2[n]} /\ (X2[n] \in M => H2[X2[n]] = H2[n] /\ P2[X2[n]] = n)
    BY <1>1, <1>2, <1>3 DEF Linked
  <1>5. ASSUME NEW n \in M
        PROVE  P2[n] \in M \cup {H2[n]} /\ X2[P2[n]] = n
    BY <1>1, <1>2, <1>3 DEF Linked
  <1>6. ASSUME NEW n \in M, P2[n] \in M
        PROVE  H2[P2[n]] = H2[n] /\ rank[P2[n]] < rank[n]
    BY <1>1, <1>2, <1>3, <1>6 DEF Linked
  <1>7. ASSUME NEW h \in Heads
        PROVE  X2[h] = h \/ (X2[h] \in M /\ H2[X2[h]] = h /\ P2[X2[h]] = h)
    BY <1>1, <1>2, <1>3 DEF Linked
  <1>8. Linked(X2, P2, M, H2, rank)
    BY <1>4, <1>5, <1>6, <1>7 DEF Linked
  <1>. QED
    BY <1>1, <1>8 DEF Chained

\* A page comes to the head of a list.
LEMMA PushList ==
    ASSUME NEW X, NEW P, NEW L, NEW H, NEW X2, NEW P2, NEW H2, NEW p \in Page, p \notin L, NEW h \in Heads,
           Chained(X, P, L, H), Homed(L, H), Comes(X, P, L, H, X2, P2, H2, p, h)
    PROVE  Chained(X2, P2, L \cup {p}, H2)
  <1>. USE DEF Homed, Comes
  <1>1. PICK rank \in [Page -> Nat] : Linked(X, P, L, H, rank)
    BY DEF Chained
  <1>. DEFINE M == L \cup {p}
              rank2 == [n \in Page |-> IF n = p THEN 0 ELSE rank[n] + 1]
  <1>2. \A n \in M : n \in Page /\ n \notin Heads
    BY Nodes
  <1>3. rank2 \in [Page -> Nat] /\ rank2[p] = 0 /\ \A n \in L : rank2[n] = rank[n] + 1 /\ rank[n] \in Nat
    BY <1>2
  <1>. HIDE DEF rank2
  <1>4. ASSUME NEW n \in M
        PROVE  X2[n] \in M \cup {H2[n]} /\ (X2[n] \in M => H2[X2[n]] = H2[n] /\ P2[X2[n]] = n)
    <2>1. CASE n = p
      BY <2>1, <1>1, <1>2 DEF Linked
    <2>2. CASE n \in L
      <3>1. n # h /\ X2[n] = X[n]
        BY <2>2, <1>2
      <3>2. X[n] \in L => X[n] # X[h]
        BY <2>2, <1>1, <1>2 DEF Linked
      <3>. QED
        BY <3>1, <3>2, <2>2, <1>1, <1>2 DEF Linked
    <2>. QED
      BY <2>1, <2>2
  <1>5. ASSUME NEW n \in M
        PROVE  P2[n] \in M \cup {H2[n]} /\ X2[P2[n]] = n
    <2>1. CASE n = p
      BY <2>1
    <2>2. CASE n \in L /\ n = X[h]
      BY <2>2, <1>1, <1>2 DEF Linked
    <2>3. CASE n \in L /\ n # X[h]
      <3>1. P2[n] = P[n] /\ P[n] # h
        BY <2>3, <1>1, <1>2 DEF Linked
      <3>. QED
        BY <3>1, <2>3, <1>1, <1>2 DEF Linked
    <2>. QED
      BY <2>1, <2>2, <2>3
  <1>6. ASSUME NEW n \in M, P2[n] \in M
        PROVE  H2[P2[n]] = H2[n] /\ rank2[P2[n]] < rank2[n]
    <2>1. CASE n = p
      BY <2>1, <1>2, <1>6
    <2>2. CASE n \in L /\ n = X[h]
      BY <2>2, <1>1, <1>2, <1>3 DEF Linked
    <2>3. CASE n \in L /\ n # X[h]
      <3>1. P2[n] = P[n] /\ P[n] \in L
        <4>1. P2[n] = P[n] /\ P[n] \in L \cup {H[n]} /\ H[n] \in Heads
          BY <2>3, <1>1 DEF Linked
        <4>. QED
          BY <4>1, <1>2, <1>6
      <3>. QED
        BY <3>1, <2>3, <1>1, <1>3 DEF Linked
    <2>. QED
      BY <2>1, <2>2, <2>3
  <1>7. ASSUME NEW g \in Heads
        PROVE  X2[g] = g \/ (X2[g] \in M /\ H2[X2[g]] = g /\ P2[X2[g]] = g)
    <2>1. CASE g = h
      BY <2>1
    <2>2. CASE g # h
      <3>1. X2[g] = X[g]
        BY <2>2
      <3>2. X[g] \in L /\ H[X[g]] = g => X[g] # X[h]
        BY <2>2, <1>1, <1>2 DEF Linked
      <3>. QED
        BY <3>1, <3>2, <1>1, <1>2 DEF Linked
    <2>. QED
      BY <2>1, <2>2
  <1>8. Linked(X2, P2, M, H2, rank2)
    BY <1>4, <1>5, <1>6, <1>7 DEF Linked
  <1>. QED
    BY <1>3, <1>8 DEF Chained

\* A page takes the place of another.
LEMMA ReplaceList ==
    ASSUME NEW X, NEW P, NEW L, NEW H, NEW X2, NEW P2, NEW H2, NEW p \in L, NEW r \in Page, r \notin L,
           Chained(X, P, L, H), Homed(L, H), Replaces(X, P, L, H, X2, P2, H2, p, r)
    PROVE  Chained(X2, P2, (L \ {p}) \cup {r}, H2)
  <1>. USE DEF Homed, Replaces
  <1>1. PICK rank \in [Page -> Nat] : Linked(X, P, L, H, rank)
    BY DEF Chained
  <1>. DEFINE K == L \ {p}
              M == K \cup {r}
              rank2 == [rank EXCEPT ![r] = rank[p]]
  <1>2. \A n \in L \cup {r} : n \in Page /\ n \notin Heads
    BY Nodes
  <1>3. rank2 \in [Page -> Nat] /\ rank2[r] = rank[p] /\ \A n \in L : rank2[n] = rank[n]
    BY <1>2
  <1>. HIDE DEF rank2
  <1>4. \A n \in L : X[n] # n /\ P[n] # n
    BY <1>1, <1>2, Nodes DEF Linked
  <1>5. ASSUME NEW n \in M
        PROVE  X2[n] \in M \cup {H2[n]} /\ (X2[n] \in M => H2[X2[n]] = H2[n] /\ P2[X2[n]] = n)
    <2>1. CASE n = r
      BY <2>1, <1>1, <1>2, <1>4 DEF Linked
    <2>2. CASE n \in K
      BY <2>2, <1>1, <1>2, <1>4 DEF Linked
    <2>. QED
      BY <2>1, <2>2
  <1>6. ASSUME NEW n \in M
        PROVE  P2[n] \in M \cup {H2[n]} /\ X2[P2[n]] = n
    <2>1. CASE n = r
      BY <2>1, <1>1, <1>2, <1>4 DEF Linked
    <2>2. CASE n \in K
      BY <2>2, <1>1, <1>2, <1>4 DEF Linked
    <2>. QED
      BY <2>1, <2>2
  <1>7. ASSUME NEW n \in M, P2[n] \in M
        PROVE  H2[P2[n]] = H2[n] /\ rank2[P2[n]] < rank2[n]
    <2>1. CASE n = r
      BY <2>1, <1>1, <1>2, <1>3, <1>4, <1>7 DEF Linked
    <2>2. CASE n \in K
      BY <2>2, <1>1, <1>2, <1>3, <1>4, <1>7 DEF Linked
    <2>. QED
      BY <2>1, <2>2
  <1>8. ASSUME NEW h \in Heads
        PROVE  X2[h] = h \/ (X2[h] \in M /\ H2[X2[h]] = h /\ P2[X2[h]] = h)
    BY <1>1, <1>2, <1>4 DEF Linked
  <1>9. Linked(X2, P2, M, H2, rank2)
    BY <1>5, <1>6, <1>7, <1>8 DEF Linked
  <1>. QED
    BY <1>3, <1>9 DEF Chained

\* What the links of a page say.
Links(X, P, L, H, p) ==
    /\ X[p] \in Node /\ P[p] \in Node /\ X[p] # p /\ P[p] # p
    /\ X[p] \in L \cup {H[p]} /\ P[p] \in L \cup {H[p]}
    /\ X[P[p]] = p /\ (X[p] \in Page => P[X[p]] = p)

LEMMA ListedLinks ==
    ASSUME NEW X, NEW P, NEW L, NEW H, NEW p \in L,
           Chained(X, P, L, H), Homed(L, H)
    PROVE  Links(X, P, L, H, p)
  <1>. USE DEF Homed, Links
  <1>1. PICK rank \in [Page -> Nat] : Linked(X, P, L, H, rank)
    BY DEF Chained
  <1>2. \A n \in L : n \in Page /\ n \notin Heads
    BY Nodes
  <1>3. X[p] # p /\ P[p] # p
    BY <1>1, <1>2, Nodes DEF Linked
  <1>. QED
    BY <1>1, <1>2, <1>3, Nodes DEF Linked

\* A list that has a page is not empty.
LEMMA HeadListed ==
    ASSUME NEW X, NEW P, NEW L, NEW H, NEW p \in L,
           Chained(X, P, L, H), Homed(L, H)
    PROVE  X[H[p]] # H[p]
  <1>. USE DEF Homed
  <1>1. PICK rank \in [Page -> Nat] : Linked(X, P, L, H, rank)
    BY DEF Chained
  <1>. DEFINE h == H[p]
              T == {rank[n] : n \in {n \in L : H[n] = h}}
  <1>2. rank[p] \in T /\ T \in SUBSET Nat
    OBVIOUS
  <1>3. PICK m \in T : \A y \in T : m <= y
    <2>. HIDE DEF T
    <2>. QED
      BY <1>2, Least
  <1>4. PICK n \in L : H[n] = h /\ rank[n] = m
    BY <1>3
  <1>5. P[n] \notin L
    <2>. SUFFICES ASSUME P[n] \in L PROVE FALSE
      OBVIOUS
    <2>1. H[P[n]] = h /\ rank[P[n]] < rank[n]
      BY <1>1, <1>4 DEF Linked
    <2>2. rank[P[n]] \in T /\ rank[P[n]] \in Nat /\ rank[n] \in Nat
      BY <2>1
    <2>. QED
      BY <2>1, <2>2, <1>3, <1>4
  <1>6. P[n] = h /\ X[h] = n
    BY <1>1, <1>4, <1>5 DEF Linked
  <1>7. n \notin Heads /\ h \in Heads
    BY Nodes
  <1>. QED
    BY <1>6, <1>7

(***************************************************************************)
(* The walk along the free list.                                           *)
(***************************************************************************)
FitStep(S, X, pages, x) == IF x = FreeHead THEN x ELSE IF S[x].n >= pages THEN x ELSE X[x]

IsWalk(S, X, pages, n, f) ==
    f = [i \in 0 .. n |-> IF i = 0 THEN X[FreeHead] ELSE FitStep(S, X, pages, f[i - 1])]

LEMMA WalkExists ==
    ASSUME NEW S, NEW X, NEW pages
    PROVE  \E f : IsWalk(S, X, pages, NPages, f)
  <1>. DEFINE Good(n) == \E f : IsWalk(S, X, pages, n, f)
              T == {n \in Nat : ~Good(n)}
  <1>1. T = {}
    <2>. SUFFICES ASSUME T # {} PROVE FALSE
      OBVIOUS
    <2>1. PICK m \in T : \A y \in T : m <= y
      <3>1. T \in SUBSET Nat
        OBVIOUS
      <3>. HIDE DEF T
      <3>. QED
        BY <3>1, Least
    <2>2. m \in Nat /\ ~Good(m) /\ \A y \in Nat : ~Good(y) => m <= y
      BY <2>1
    <2>3. CASE m = 0
      <3>. DEFINE f == [k \in 0 .. 0 |-> X[FreeHead]]
      <3>1. f = [k \in 0 .. m |-> IF k = 0 THEN X[FreeHead] ELSE FitStep(S, X, pages, f[k - 1])]
        BY <2>3
      <3>. HIDE DEF f
      <3>. QED
        BY <3>1, <2>2 DEF IsWalk
    <2>4. CASE m # 0
      <3>1. m - 1 \in Nat /\ ~(m <= m - 1)
        BY <2>2, <2>4
      <3>. HIDE DEF Good
      <3>2. Good(m - 1)
        BY <3>1, <2>2
      <3>3. PICK f : IsWalk(S, X, pages, m - 1, f)
        BY <3>2 DEF Good
      <3>. DEFINE g == [k \in 0 .. m |-> IF k = 0 THEN X[FreeHead] ELSE FitStep(S, X, pages, f[k - 1])]
      <3>4. \A k \in 0 .. m - 1 : g[k] = f[k]
        <4>. TAKE k \in 0 .. m - 1
        <4>1. k \in 0 .. m
          BY <2>2
        <4>2. f[k] = IF k = 0 THEN X[FreeHead] ELSE FitStep(S, X, pages, f[k - 1])
          BY <3>3 DEF IsWalk
        <4>. QED
          BY <4>1, <4>2
      <3>5. \A k \in 0 .. m : k # 0 => g[k - 1] = f[k - 1]
        <4>1. \A k \in 0 .. m : k # 0 => k - 1 \in 0 .. m - 1
          BY <2>2
        <4>. HIDE DEF g
        <4>. QED
          BY <3>4, <4>1
      <3>6. IsWalk(S, X, pages, m, g)
        BY <3>5 DEF IsWalk
      <3>. QED
        BY <3>6, <2>2 DEF Good
    <2>. QED
      BY <2>3, <2>4
  <1>2. Good(NPages)
    BY <1>1, Numbers
  <1>. QED
    BY <1>2

LEMMA FirstFitWalks ==
    ASSUME NEW q, NEW pages
    PROVE  \E f : IsWalk(q.slab, q.next, pages, NPages, f) /\ FirstFit(q, pages) = f[NPages]
  <1>. DEFINE W == CHOOSE f : IsWalk(q.slab, q.next, pages, NPages, f)
  <1>1. IsWalk(q.slab, q.next, pages, NPages, W)
    BY WalkExists
  <1>2. FirstFit(q, pages) = W[NPages]
    BY DEF FirstFit, IsWalk, FitStep
  <1>. QED
    BY <1>1, <1>2

\* The walk finds a run that is long enough, if there is one.
LEMMA WalkFinds ==
    ASSUME NEW S, NEW X, NEW P, NEW F, NEW rank \in [Page -> Nat], NEW pages \in Nat, NEW W,
           IsWalk(S, X, pages, NPages, W), F \subseteq Page, \A p \in F : S[p].n \in Nat,
           X[FreeHead] \in F \cup {FreeHead},
           \A p \in F : X[p] \in F \cup {FreeHead} /\ (X[p] \in F => rank[p] < rank[X[p]]),
           \A p \in F : P[p] \in F \cup {FreeHead} /\ X[P[p]] = p,
           \A p \in F : P[p] \in F => rank[P[p]] < rank[p]
    PROVE  \/ W[NPages] \in F /\ S[W[NPages]].n >= pages
           \/ W[NPages] = FreeHead /\ \A p \in F : ~(S[p].n >= pages)
  <1>. DEFINE Next(x) == FitStep(S, X, pages, x)
  <1>1. W[0] = X[FreeHead] /\ \A i \in 1 .. NPages : W[i] = Next(W[i - 1])
    BY Numbers DEF IsWalk
  <1>2. FreeHead \notin F
    BY Nodes
  <1>3. \A x \in F \cup {FreeHead} : Next(x) \in F \cup {FreeHead}
    BY DEF FitStep
  <1>. HIDE DEF Next
  <1>4. \A i \in 0 .. NPages : W[i] \in F \cup {FreeHead}
    <2>. DEFINE T == {i \in 0 .. NPages : W[i] \notin F \cup {FreeHead}}
    <2>. SUFFICES ASSUME T # {} PROVE FALSE
      OBVIOUS
    <2>1. PICK m \in T : \A y \in T : m <= y
      <3>1. T \in SUBSET Nat
        BY Numbers
      <3>. HIDE DEF T
      <3>. QED
        BY <3>1, Least
    <2>2. m # 0
      BY <2>1, <1>1
    <2>3. m \in 1 .. NPages /\ m - 1 \in 0 .. NPages /\ ~(m <= m - 1)
      BY <2>1, <2>2, Numbers
    <2>4. W[m - 1] \in F \cup {FreeHead}
      BY <2>1, <2>3
    <2>. QED
      BY <2>1, <2>3, <2>4, <1>1, <1>3
  <1>5. ASSUME NEW i \in 0 .. NPages, Next(W[i]) = W[i]
        PROVE  W[NPages] = W[i]
    <2>. DEFINE T == {j \in 0 .. NPages : i <= j /\ W[j] # W[i]}
    <2>1. T = {}
      <3>. SUFFICES ASSUME T # {} PROVE FALSE
        OBVIOUS
      <3>1. PICK m \in T : \A y \in T : m <= y
        <4>1. T \in SUBSET Nat
          BY Numbers
        <4>. HIDE DEF T
        <4>. QED
          BY <4>1, Least
      <3>2. m # i /\ i <= m /\ m \in 0 .. NPages
        BY <3>1
      <3>3. m \in 1 .. NPages /\ m - 1 \in 0 .. NPages /\ ~(m <= m - 1) /\ i <= m - 1
        BY <3>2, Numbers
      <3>4. W[m - 1] = W[i]
        BY <3>1, <3>3
      <3>. QED
        BY <3>1, <3>3, <3>4, <1>1, <1>5
    <2>2. NPages \in 0 .. NPages /\ i <= NPages
      BY Numbers
    <2>. QED
      BY <2>1, <2>2
  <1>6. \A i \in 0 .. NPages : W[i] = FreeHead \/ S[W[i]].n >= pages => W[NPages] = W[i]
    BY <1>5 DEF Next, FitStep
  <1>7. NPages \in 0 .. NPages
    BY Numbers
  <1>8. CASE W[NPages] = FreeHead
    <2>1. ASSUME NEW j \in 0 .. NPages, W[j] \in F
          PROVE  ~(S[W[j]].n >= pages) /\ j + 1 \in 1 .. NPages /\ W[j + 1] = X[W[j]]
      <3>1. ~(S[W[j]].n >= pages)
        BY <2>1, <1>2, <1>6, <1>8
      <3>2. j # NPages
        BY <2>1, <1>2, <1>8
      <3>3. j + 1 \in 1 .. NPages /\ (j + 1) - 1 = j
        BY <3>2, Numbers
      <3>4. W[j + 1] = Next(W[j])
        BY <3>3, <1>1
      <3>. QED
        BY <3>1, <3>3, <3>4, <2>1, <1>2 DEF Next, FitStep
    <2>. DEFINE Missed == {p \in F : \A j \in 0 .. NPages : W[j] # p}
                T == {rank[p] : p \in Missed}
    <2>2. Missed = {}
      <3>. SUFFICES ASSUME Missed # {} PROVE FALSE
        OBVIOUS
      <3>1. T \in SUBSET Nat /\ T # {}
        OBVIOUS
      <3>2. PICK m \in T : \A y \in T : m <= y
        <4>. HIDE DEF T
        <4>. QED
          BY <3>1, Least
      <3>3. PICK p \in Missed : rank[p] = m
        BY <3>2
      <3>4. p \in F /\ p \in Page /\ \A j \in 0 .. NPages : W[j] # p
        BY <3>3
      <3>5. P[p] \in F
        <4>. SUFFICES ASSUME P[p] = FreeHead PROVE FALSE
          BY <3>4
        <4>1. W[0] = p
          BY <3>4, <1>1
        <4>. QED
          BY <4>1, <3>4, Numbers
      <3>6. P[p] \notin Missed
        <4>. SUFFICES ASSUME P[p] \in Missed PROVE FALSE
          OBVIOUS
        <4>1. rank[P[p]] \in T /\ rank[P[p]] \in Nat /\ rank[p] \in Nat
          BY <3>4, <3>5
        <4>2. rank[P[p]] < rank[p]
          BY <3>4, <3>5
        <4>. HIDE DEF T
        <4>. QED
          BY <4>1, <4>2, <3>2, <3>3
      <3>7. PICK j \in 0 .. NPages : W[j] = P[p]
        BY <3>5, <3>6
      <3>8. W[j + 1] = p /\ j + 1 \in 0 .. NPages
        BY <3>4, <3>5, <3>7, <2>1, Numbers
      <3>. QED
        BY <3>4, <3>8
    <2>3. ASSUME NEW p \in F
          PROVE  ~(S[p].n >= pages)
      <3>1. PICK j \in 0 .. NPages : W[j] = p
        BY <2>2
      <3>. QED
        BY <3>1, <2>1
    <2>. QED
      BY <1>8, <2>3
  <1>9. CASE W[NPages] # FreeHead /\ ~(S[W[NPages]].n >= pages)
    <2>1. ASSUME NEW j \in 0 .. NPages
          PROVE  W[j] \in F /\ ~(S[W[j]].n >= pages)
      BY <1>4, <1>6, <1>9
    <2>2. ASSUME NEW j \in 1 .. NPages
          PROVE  rank[W[j - 1]] < rank[W[j]] /\ rank[W[j - 1]] \in Nat /\ rank[W[j]] \in Nat
      <3>1. j - 1 \in 0 .. NPages /\ j \in 0 .. NPages
        BY Numbers
      <3>2. W[j - 1] \in F /\ ~(S[W[j - 1]].n >= pages) /\ W[j] \in F
        BY <3>1, <2>1
      <3>3. W[j] = X[W[j - 1]]
        BY <3>2, <1>1, <1>2 DEF Next, FitStep
      <3>. QED
        BY <3>2, <3>3
    <2>3. ASSUME NEW i \in 0 .. NPages, NEW j \in 0 .. NPages, i < j
          PROVE  rank[W[i]] < rank[W[j]]
      <3>. DEFINE T == {k \in 0 .. NPages : i < k /\ ~(rank[W[i]] < rank[W[k]])}
      <3>. SUFFICES ASSUME T # {} PROVE FALSE
        BY <2>3
      <3>1. PICK m \in T : \A y \in T : m <= y
        <4>1. T \in SUBSET Nat
          BY Numbers
        <4>. HIDE DEF T
        <4>. QED
          BY <4>1, Least
      <3>2. m \in 0 .. NPages /\ i < m /\ ~(rank[W[i]] < rank[W[m]])
        BY <3>1
      <3>3. m \in 1 .. NPages /\ m - 1 \in 0 .. NPages /\ ~(m <= m - 1) /\ (i < m - 1 \/ i = m - 1)
        BY <3>2, Numbers
      <3>4. rank[W[m - 1]] < rank[W[m]] /\ rank[W[m - 1]] \in Nat /\ rank[W[m]] \in Nat
        BY <3>3, <2>2
      <3>5. i # m - 1
        BY <3>2, <3>4
      <3>6. rank[W[i]] < rank[W[m - 1]]
        BY <3>1, <3>3, <3>5
      <3>7. rank[W[i]] \in Nat
        BY <2>1
      <3>. QED
        BY <3>2, <3>4, <3>6, <3>7
    <2>. DEFINE g == [i \in 0 .. NPages |-> W[i]]
    <2>4. g \in [0 .. NPages -> Page]
      BY <2>1
    <2>5. IsFiniteSet(0 .. NPages) /\ IsFiniteSet(Page) /\ Cardinality(Page) < Cardinality(0 .. NPages)
      <3>1. IsFiniteSet(0 .. NPages) /\ Cardinality(0 .. NPages) = NPages + 1
        BY Numbers, FS_Interval
      <3>2. IsFiniteSet(0 .. NPages - 1) /\ Cardinality(0 .. NPages - 1) = NPages
        <4>. DEFINE b == NPages - 1
        <4>1. 0 \in Int /\ b \in Int /\ ~(0 > b) /\ b - 0 + 1 = NPages
          BY Numbers
        <4>. HIDE DEF b
        <4>2. IsFiniteSet(0 .. b) /\ Cardinality(0 .. b) = IF 0 > b THEN 0 ELSE b - 0 + 1
          BY <4>1, FS_Interval, Zenon
        <4>. QED
          BY <4>1, <4>2 DEF b
      <3>. QED
        BY <3>1, <3>2, Numbers DEF Page
    <2>6. PICK x, y \in 0 .. NPages : x # y /\ g[x] = g[y]
      <3>. DEFINE A == 0 .. NPages
      <3>1. g \in [A -> Page] /\ IsFiniteSet(A) /\ Cardinality(Page) < Cardinality(A)
        BY <2>4, <2>5
      <3>. HIDE DEF g, A
      <3>2. \E x, y \in A : x # y /\ g[x] = g[y]
        BY <3>1, <2>5, FS_PigeonHole
      <3>. QED
        BY <3>2 DEF A
    <2>7. rank[W[x]] \in Nat /\ W[x] = W[y] /\ (x < y \/ y < x)
      BY <2>1, <2>6, Numbers
    <2>. QED
      BY <2>3, <2>7
  <1>. QED
    BY <1>4, <1>7, <1>8, <1>9

(***************************************************************************)
(* How pages are taken, given back and joined.                             *)
(***************************************************************************)
LEMMA Fields ==
    /\ \A n : Run(n).tag = "run" /\ Run(n).n = n /\ Run(n).map = {}
    /\ \A n : Start(n).tag = "start" /\ Start(n).n = n /\ Start(n).map = {}
    /\ Busy.tag = "busy" /\ Busy.n = 0 /\ Busy.map = {}
    /\ \A n, m : Chunks(n, m).tag = "chunks" /\ Chunks(n, m).n = n /\ Chunks(n, m).map = m
    /\ \A n, m : Run(n) # Start(m) /\ Run(n) # Busy /\ Start(n) # Busy
    /\ \A n, m, k : Chunks(n, m) # Run(k) /\ Chunks(n, m) # Start(k) /\ Chunks(n, m) # Busy
    /\ \A n, m : Run(n) = Run(m) => n = m
  BY DEF Run, Start, Busy, Chunks

LEMMA DescriptorType ==
    ASSUME NEW D, D = [tag : {"run", "start", "busy", "chunks"}, n : Nat, map : SUBSET Nat]
    PROVE  /\ \A n \in Nat : Run(n) \in D /\ Start(n) \in D
           /\ Busy \in D
           /\ \A n \in Nat : \A m \in SUBSET Nat : Chunks(n, m) \in D
  BY DEF Run, Start, Busy, Chunks

LEMMA MapTyped ==
    ASSUME NEW s, NEW map, MapOK(s, map)
    PROVE  s \in Nat /\ s \in Shift /\ map \in SUBSET Nat
  <1>1. s \in Shift /\ map \subseteq ChunkSet(s)
    BY DEF MapOK
  <1>2. ChunkSet(s) \subseteq Nat
    BY <1>1, ChunkFacts DEF ChunkSet
  <1>. QED
    BY <1>1, <1>2, Numbers DEF Shift

\* Runs and allocations of pages do not overlap.
LEMMA NoOverlap ==
    ASSUME NEW S \in Descriptors, Tiling(S), NEW p \in Page, IsRun(S, p) \/ IsStart(S, p)
    PROVE  /\ S[p].n \in Nat \ {0} /\ p + S[p].n <= NPages
           /\ \A i \in p + 1 .. p + S[p].n - 1 : i \in Page
           /\ IsRun(S, p) => S[p] = Run(S[p].n) /\ \A i \in p + 1 .. p + S[p].n - 1 : S[i] = Run(0)
           /\ IsStart(S, p) => S[p] = Start(S[p].n) /\ \A i \in p + 1 .. p + S[p].n - 1 : S[i] = Busy
           /\ \A r \in Page : IsRun(S, r) \/ IsStart(S, r) \/ IsChunks(S, r) =>
                r = p \/ r < p \/ p + S[p].n <= r
           /\ \A r \in Page : (IsRun(S, r) \/ IsStart(S, r)) /\ r < p => r + S[r].n <= p
  <1>1. S[p].n \in Nat /\ S[p].tag \in {"run", "start"}
    BY DEF Descriptors, IsRun, IsStart
  <1>2. DescOK(S, p)
    BY DEF Tiling
  <1>3. /\ IsRun(S, p) => S[p] = Run(S[p].n)
        /\ IsStart(S, p) => S[p] = Start(S[p].n) /\ S[p].n > 0
    BY <1>2, Fields DEF DescOK, IsRun, IsStart
  <1>4. S[p].n \in Nat \ {0}
    BY <1>1, <1>3 DEF IsRun
  <1>5. p + S[p].n <= NPages
    BY <1>1 DEF Tiling
  <1>6. \A i \in p + 1 .. p + S[p].n - 1 : i \in Page
    BY <1>1, <1>5, Numbers DEF Page
  <1>7. /\ IsRun(S, p) => \A i \in p + 1 .. p + S[p].n - 1 : S[i] = Run(0)
        /\ IsStart(S, p) => \A i \in p + 1 .. p + S[p].n - 1 : S[i] = Busy
    BY DEF Tiling
  <1>8. ASSUME NEW r \in Page, IsRun(S, r) \/ IsStart(S, r) \/ IsChunks(S, r)
        PROVE  r = p \/ r < p \/ p + S[p].n <= r
    <2>. SUFFICES ASSUME r \in p + 1 .. p + S[p].n - 1 PROVE FALSE
      BY <1>4, Numbers DEF Page
    <2>1. S[r] = Run(0) \/ S[r] = Busy
      BY <1>7
    <2>. QED
      BY <2>1, <1>8, Fields DEF IsRun, IsStart, IsChunks
  <1>9. ASSUME NEW r \in Page, IsRun(S, r) \/ IsStart(S, r), r < p
        PROVE  r + S[r].n <= p
    <2>. SUFFICES ASSUME ~(r + S[r].n <= p) PROVE FALSE
      OBVIOUS
    <2>1. S[r].n \in Nat
      BY DEF Descriptors
    <2>2. p \in r + 1 .. r + S[r].n - 1
      BY <2>1, <1>9, Numbers DEF Page
    <2>3. S[p] = Run(0) \/ S[p] = Busy
      BY <2>2, <1>9 DEF Tiling
    <2>. QED
      BY <2>3, <1>1, <1>4, Fields
  <1>. QED
    BY <1>3, <1>4, <1>5, <1>6, <1>7, <1>8, <1>9

\* The pages from a to b are runs, allocations and pages of chunks, none of which crosses b.
Tiled(S, a, b) ==
    /\ \A p \in a .. b - 1 : DescOK(S, p)
    /\ \A p \in a .. b - 1 : S[p].tag \in {"run", "start"} => p + S[p].n <= b
    /\ \A p \in a .. b - 1 : IsRun(S, p) => \A i \in p + 1 .. p + S[p].n - 1 : S[i] = Run(0)
    /\ \A p \in a .. b - 1 : IsStart(S, p) => \A i \in p + 1 .. p + S[p].n - 1 : S[i] = Busy
    /\ \A i \in a .. b - 1 : S[i] = Run(0) =>
         \E p \in a .. b - 1 : IsRun(S, p) /\ p < i /\ i < p + S[p].n
    /\ \A i \in a .. b - 1 : S[i] = Busy =>
         \E p \in a .. b - 1 : IsStart(S, p) /\ p < i /\ i < p + S[p].n

\* A run, an allocation or a page of chunks begins at x, or the pool ends.
Boundary(S, x) == x = NPages \/ (x \in Page /\ S[x] # Run(0) /\ S[x] # Busy)

LEMMA TiledAll ==
    ASSUME NEW S
    PROVE  Tiling(S) <=> Tiled(S, 0, NPages)
  BY Zenon DEF Tiling, Tiled, Page

LEMMA SplitTiled ==
    ASSUME NEW S \in Descriptors, NEW a \in 0 .. NPages, NEW b \in 0 .. NPages, NEW x \in a .. b,
           Tiled(S, a, b), Boundary(S, x)
    PROVE  Tiled(S, a, x) /\ Tiled(S, x, b)
  <1>1. a \in Int /\ b \in Int /\ x \in Int /\ a <= x /\ x <= b /\ 0 <= a /\ b <= NPages /\ NPages \in Int
    BY Numbers
  <1>2. \A p \in a .. b - 1 : p \in Page
    BY <1>1 DEF Page
  <1>3. \A p \in Page : S[p].n \in Nat
    BY DEF Descriptors
  <1>4. ASSUME NEW p \in a .. b - 1, p < x, S[p].tag \in {"run", "start"}
        PROVE  p + S[p].n <= x
    <2>. DEFINE n == S[p].n
    <2>1. n \in Nat /\ p \in Int /\ p + n <= b
      BY <1>2, <1>3, <1>4 DEF Tiled
    <2>2. n > 0 => \A i \in p + 1 .. p + n - 1 : S[i] = Run(0) \/ S[i] = Busy
      BY <1>2, <1>4 DEF Tiled, IsRun, IsStart
    <2>. HIDE DEF n
    <2>3. SUFFICES ASSUME ~(p + n <= x) PROVE FALSE
      BY DEF n
    <2>4. x \in p + 1 .. p + n - 1 /\ n > 0 /\ x # NPages
      BY <2>1, <2>3, <1>1, <1>4
    <2>. QED
      BY <2>2, <2>4 DEF Boundary
  <1>5. Tiled(S, a, x)
    <2>1. \A p \in a .. x - 1 : p \in a .. b - 1 /\ p < x
      BY <1>1
    <2>2. \A i \in a .. x - 1 : \A p \in a .. b - 1 : p < i => p \in a .. x - 1
      BY <1>1
    <2>3. \A p \in a .. x - 1 : S[p].tag \in {"run", "start"} => p + S[p].n <= x
      BY <2>1, <1>4
    <2>4. \A i \in a .. x - 1 : S[i] = Run(0) =>
            \E p \in a .. x - 1 : IsRun(S, p) /\ p < i /\ i < p + S[p].n
      BY <2>1, <2>2 DEF Tiled
    <2>5. \A i \in a .. x - 1 : S[i] = Busy =>
            \E p \in a .. x - 1 : IsStart(S, p) /\ p < i /\ i < p + S[p].n
      BY <2>1, <2>2 DEF Tiled
    <2>6. \A p \in a .. x - 1 :
            /\ DescOK(S, p)
            /\ IsRun(S, p) => \A i \in p + 1 .. p + S[p].n - 1 : S[i] = Run(0)
            /\ IsStart(S, p) => \A i \in p + 1 .. p + S[p].n - 1 : S[i] = Busy
      BY <2>1 DEF Tiled
    <2>. QED
      BY <2>3, <2>4, <2>5, <2>6 DEF Tiled
  <1>6. Tiled(S, x, b)
    <2>1. \A p \in x .. b - 1 : p \in a .. b - 1
      BY <1>1
    <2>2. ASSUME NEW i \in x .. b - 1, NEW p \in a .. b - 1, IsRun(S, p) \/ IsStart(S, p), i < p + S[p].n
          PROVE  p \in x .. b - 1
      <3>1. p < x => p + S[p].n <= x
        BY <2>2, <1>4 DEF IsRun, IsStart
      <3>2. S[p].n \in Nat
        BY <1>2, <1>3
      <3>. QED
        BY <3>1, <3>2, <2>2, <1>1
    <2>4. \A i \in x .. b - 1 : S[i] = Run(0) =>
            \E p \in x .. b - 1 : IsRun(S, p) /\ p < i /\ i < p + S[p].n
      BY <2>1, <2>2 DEF Tiled
    <2>5. \A i \in x .. b - 1 : S[i] = Busy =>
            \E p \in x .. b - 1 : IsStart(S, p) /\ p < i /\ i < p + S[p].n
      BY <2>1, <2>2 DEF Tiled
    <2>6. \A p \in x .. b - 1 :
            /\ DescOK(S, p)
            /\ S[p].tag \in {"run", "start"} => p + S[p].n <= b
            /\ IsRun(S, p) => \A i \in p + 1 .. p + S[p].n - 1 : S[i] = Run(0)
            /\ IsStart(S, p) => \A i \in p + 1 .. p + S[p].n - 1 : S[i] = Busy
      BY <2>1 DEF Tiled
    <2>. QED
      BY <2>4, <2>5, <2>6 DEF Tiled
  <1>. QED
    BY <1>5, <1>6

LEMMA GlueTiled ==
    ASSUME NEW S \in Descriptors, NEW a \in 0 .. NPages, NEW b \in 0 .. NPages, NEW x \in a .. b,
           Tiled(S, a, x), Tiled(S, x, b)
    PROVE  Tiled(S, a, b)
  <1>1. a \in Int /\ b \in Int /\ x \in Int /\ a <= x /\ x <= b /\ 0 <= a /\ b <= NPages /\ NPages \in Int
    BY Numbers
  <1>2. \A p \in a .. b - 1 : p \in a .. x - 1 \/ p \in x .. b - 1
    BY <1>1
  <1>3. \A p : p \in a .. x - 1 \/ p \in x .. b - 1 => p \in a .. b - 1
    BY <1>1
  <1>4. ASSUME NEW p \in a .. b - 1, S[p].tag \in {"run", "start"}
        PROVE  p + S[p].n <= b
    <2>1. S[p].n \in Nat
      BY <1>1 DEF Descriptors, Page
    <2>2. p + S[p].n <= x \/ p + S[p].n <= b
      BY <1>2, <1>4 DEF Tiled
    <2>. QED
      BY <2>1, <2>2, <1>1
  <1>5. \A i \in a .. b - 1 : S[i] = Run(0) =>
          \E p \in a .. b - 1 : IsRun(S, p) /\ p < i /\ i < p + S[p].n
    BY <1>2, <1>3 DEF Tiled
  <1>6. \A i \in a .. b - 1 : S[i] = Busy =>
          \E p \in a .. b - 1 : IsStart(S, p) /\ p < i /\ i < p + S[p].n
    BY <1>2, <1>3 DEF Tiled
  <1>7. \A p \in a .. b - 1 :
          /\ DescOK(S, p)
          /\ IsRun(S, p) => \A i \in p + 1 .. p + S[p].n - 1 : S[i] = Run(0)
          /\ IsStart(S, p) => \A i \in p + 1 .. p + S[p].n - 1 : S[i] = Busy
    BY <1>2 DEF Tiled
  <1>. QED
    BY <1>4, <1>5, <1>6, <1>7 DEF Tiled

LEMMA SameTiled ==
    ASSUME NEW S \in Descriptors, NEW Z, NEW a \in 0 .. NPages, NEW b \in 0 .. NPages,
           Tiled(S, a, b), \A i \in a .. b - 1 : Z[i] = S[i]
    PROVE  Tiled(Z, a, b)
  <1>1. a \in Int /\ b \in Int /\ 0 <= a /\ b <= NPages /\ NPages \in Int
    BY Numbers
  <1>2. ASSUME NEW p \in a .. b - 1, S[p].tag \in {"run", "start"}, NEW i \in p + 1 .. p + S[p].n - 1
        PROVE  i \in a .. b - 1
    <2>1. S[p].n \in Nat /\ p + S[p].n <= b
      BY <1>1, <1>2 DEF Descriptors, Page, Tiled
    <2>. QED
      BY <2>1, <1>1
  <1>3. \A p \in a .. b - 1 : /\ IsRun(Z, p) <=> IsRun(S, p)
                              /\ IsStart(Z, p) <=> IsStart(S, p)
                              /\ DescOK(Z, p) <=> DescOK(S, p)
    BY DEF IsRun, IsStart, DescOK
  <1>4. ASSUME NEW p \in a .. b - 1
        PROVE  /\ DescOK(Z, p)
               /\ Z[p].tag \in {"run", "start"} => p + Z[p].n <= b
               /\ IsRun(Z, p) => \A i \in p + 1 .. p + Z[p].n - 1 : Z[i] = Run(0)
               /\ IsStart(Z, p) => \A i \in p + 1 .. p + Z[p].n - 1 : Z[i] = Busy
    <2>1. Z[p] = S[p] /\ DescOK(Z, p)
      BY <1>3 DEF Tiled
    <2>2. Z[p].tag \in {"run", "start"} => p + Z[p].n <= b
      BY <2>1 DEF Tiled
    <2>3. IsRun(Z, p) => \A i \in p + 1 .. p + Z[p].n - 1 : Z[i] = Run(0)
      BY <2>1, <1>2, <1>3 DEF Tiled, IsRun
    <2>4. IsStart(Z, p) => \A i \in p + 1 .. p + Z[p].n - 1 : Z[i] = Busy
      BY <2>1, <1>2, <1>3 DEF Tiled, IsStart
    <2>. QED
      BY <2>1, <2>2, <2>3, <2>4
  <1>5. \A i \in a .. b - 1 : Z[i] = Run(0) =>
          \E p \in a .. b - 1 : IsRun(Z, p) /\ p < i /\ i < p + Z[p].n
    BY <1>3 DEF Tiled
  <1>6. \A i \in a .. b - 1 : Z[i] = Busy =>
          \E p \in a .. b - 1 : IsStart(Z, p) /\ p < i /\ i < p + Z[p].n
    BY <1>3 DEF Tiled
  <1>. QED
    BY <1>4, <1>5, <1>6 DEF Tiled

\* The pages between two boundaries change.
LEMMA Retile ==
    ASSUME NEW S \in Descriptors, NEW Z \in Descriptors, Tiling(S),
           NEW a \in 0 .. NPages, NEW b \in a .. NPages, Boundary(S, a), Boundary(S, b),
           \A i \in Page : i < a \/ b <= i => Z[i] = S[i],
           Tiled(Z, a, b)
    PROVE  Tiling(Z)
  <1>1. a \in Int /\ b \in Int /\ 0 <= a /\ a <= b /\ b <= NPages /\ NPages \in Int
    BY Numbers
  <1>. DEFINE z == 0
              c == NPages
  <1>2. z \in 0 .. NPages /\ c \in 0 .. NPages /\ a \in z .. c /\ b \in a .. c /\ b \in z .. c /\ b \in 0 .. NPages
    BY <1>1
  <1>3. Tiled(S, z, c)
    BY TiledAll
  <1>. HIDE DEF z, c
  <1>4. Tiled(S, z, a) /\ Tiled(S, a, c)
    BY <1>2, <1>3, SplitTiled
  <1>5. Tiled(S, b, c)
    BY <1>2, <1>4, SplitTiled
  <1>6. Tiled(Z, z, a)
    <2>1. \A i \in z .. a - 1 : Z[i] = S[i]
      BY <1>1 DEF z, Page
    <2>. QED
      BY <2>1, <1>2, <1>4, SameTiled
  <1>7. Tiled(Z, b, c)
    <2>1. \A i \in b .. c - 1 : Z[i] = S[i]
      BY <1>1 DEF c, Page
    <2>. QED
      BY <2>1, <1>2, <1>5, SameTiled
  <1>8. Tiled(Z, z, b)
    <2>1. a \in z .. b
      BY <1>1 DEF z
    <2>. QED
      BY <2>1, <1>2, <1>6, GlueTiled
  <1>9. Tiled(Z, z, c)
    BY <1>2, <1>7, <1>8, GlueTiled
  <1>. QED
    BY <1>9, TiledAll DEF z, c

LEMMA RunBlock ==
    ASSUME NEW Z, NEW a \in Page, NEW n \in Nat \ {0}, NEW b \in Int, b = a + n, b <= NPages,
           Z[a] = Run(n), \A i \in a + 1 .. b - 1 : Z[i] = Run(0)
    PROVE  Tiled(Z, a, b)
  <1>1. a \in Int /\ 0 <= a /\ NPages \in Int
    BY Numbers DEF Page
  <1>2. IsRun(Z, a) /\ Z[a].n = n /\ a \in a .. b - 1
    BY <1>1, Fields DEF IsRun
  <1>3. ASSUME NEW p \in a .. b - 1, p # a
        PROVE  Z[p] = Run(0) /\ Z[p].n = 0 /\ Z[p].tag = "run" /\ ~IsRun(Z, p) /\ ~IsStart(Z, p)
    <2>1. p \in a + 1 .. b - 1
      BY <1>1, <1>3
    <2>. QED
      BY <2>1, Fields DEF IsRun, IsStart
  <1>4. \A p \in a .. b - 1 : DescOK(Z, p) /\ Z[p] # Busy /\ ~IsStart(Z, p)
    BY <1>2, <1>3, Fields DEF DescOK, IsStart
  <1>5. \A p \in a .. b - 1 : p + Z[p].n <= b
    <2>. TAKE p \in a .. b - 1
    <2>1. CASE p = a
      BY <2>1, <1>1, <1>2
    <2>2. CASE p # a
      BY <2>2, <1>1, <1>3
    <2>. QED
      BY <2>1, <2>2
  <1>6. \A p \in a .. b - 1 : IsRun(Z, p) => \A i \in p + 1 .. p + Z[p].n - 1 : Z[i] = Run(0)
    BY <1>2, <1>3
  <1>7. \A i \in a .. b - 1 : Z[i] = Run(0) => IsRun(Z, a) /\ a < i /\ i < a + Z[a].n
    <2>. SUFFICES ASSUME NEW i \in a .. b - 1, Z[i] = Run(0) PROVE a < i /\ i < a + Z[a].n
      BY <1>2
    <2>1. i # a
      BY Fields
    <2>. QED
      BY <2>1, <1>1, <1>2
  <1>. QED
    BY <1>2, <1>4, <1>5, <1>6, <1>7 DEF Tiled

LEMMA StartBlock ==
    ASSUME NEW Z, NEW a \in Page, NEW n \in Nat \ {0}, NEW b \in Int, b = a + n, b <= NPages,
           Z[a] = Start(n), \A i \in a + 1 .. b - 1 : Z[i] = Busy
    PROVE  Tiled(Z, a, b)
  <1>1. a \in Int /\ 0 <= a /\ NPages \in Int
    BY Numbers DEF Page
  <1>2. IsStart(Z, a) /\ Z[a].n = n /\ a \in a .. b - 1 /\ ~IsRun(Z, a)
    BY <1>1, Fields DEF IsStart, IsRun
  <1>3. ASSUME NEW p \in a .. b - 1, p # a
        PROVE  Z[p] = Busy /\ Z[p].n = 0 /\ ~IsRun(Z, p) /\ ~IsStart(Z, p)
    <2>1. p \in a + 1 .. b - 1
      BY <1>1, <1>3
    <2>. QED
      BY <2>1, Fields DEF IsRun, IsStart
  <1>4. \A p \in a .. b - 1 : DescOK(Z, p) /\ Z[p] # Run(0) /\ ~IsRun(Z, p)
    BY <1>2, <1>3, Fields DEF DescOK, IsStart
  <1>5. \A p \in a .. b - 1 : p + Z[p].n <= b
    <2>. TAKE p \in a .. b - 1
    <2>1. CASE p = a
      BY <2>1, <1>1, <1>2
    <2>2. CASE p # a
      BY <2>2, <1>1, <1>3
    <2>. QED
      BY <2>1, <2>2
  <1>6. \A p \in a .. b - 1 : IsStart(Z, p) => \A i \in p + 1 .. p + Z[p].n - 1 : Z[i] = Busy
    BY <1>2, <1>3
  <1>7. \A i \in a .. b - 1 : Z[i] = Busy => IsStart(Z, a) /\ a < i /\ i < a + Z[a].n
    <2>. SUFFICES ASSUME NEW i \in a .. b - 1, Z[i] = Busy PROVE a < i /\ i < a + Z[a].n
      BY <1>2
    <2>1. i # a
      BY Fields
    <2>. QED
      BY <2>1, <1>1, <1>2
  <1>. QED
    BY <1>2, <1>4, <1>5, <1>6, <1>7 DEF Tiled

LEMMA ChunkBlock ==
    ASSUME NEW Z, NEW a \in Page, NEW s, NEW map, MapOK(s, map), Z[a] = Chunks(s, map), NEW b \in Int, b = a + 1
    PROVE  Tiled(Z, a, b)
  <1>1. \A p \in a .. b - 1 : p = a
    BY Numbers DEF Page
  <1>2. DescOK(Z, a) /\ ~IsRun(Z, a) /\ ~IsStart(Z, a) /\ Z[a] # Run(0) /\ Z[a] # Busy /\ Z[a].tag \notin {"run", "start"}
    BY Fields DEF DescOK, IsRun, IsStart
  <1>. QED
    BY <1>1, <1>2 DEF Tiled

\* A run, an allocation or a page of chunks is between boundaries.
LEMMA Boundaries ==
    ASSUME NEW S \in Descriptors, Tiling(S), NEW p \in Page, NEW b,
           \/ (IsRun(S, p) \/ IsStart(S, p)) /\ b = p + S[p].n
           \/ IsChunks(S, p) /\ b = p + 1
    PROVE  Boundary(S, p) /\ Boundary(S, b) /\ p \in 0 .. NPages /\ b \in p .. NPages /\ b \in Int /\ p < b
  <1>1. p \in Int /\ 0 <= p /\ p < NPages /\ NPages \in Int
    BY Numbers DEF Page
  <1>2. Boundary(S, p)
    BY Fields DEF Boundary, IsRun, IsStart, IsChunks
  <1>3. ASSUME NEW x \in Page, NEW r \in Page, IsRun(S, r) \/ IsStart(S, r), r < x, x < r + S[r].n
        PROVE  S[x].tag # "chunks" /\ (S[x] = Run(0) \/ S[x] = Busy)
    <2>. DEFINE n == S[r].n
    <2>1. n \in Nat /\ \A i \in r + 1 .. r + n - 1 : S[i] = Run(0) \/ S[i] = Busy
      BY <1>3, NoOverlap
    <2>. HIDE DEF n
    <2>2. x \in r + 1 .. r + n - 1
      BY <2>1, <1>3, Numbers DEF Page, n
    <2>. QED
      BY <2>1, <2>2, Fields
  <1>4. CASE (IsRun(S, p) \/ IsStart(S, p)) /\ b = p + S[p].n
    <2>. DEFINE n == S[p].n
    <2>1. n \in Nat \ {0} /\ p + n <= NPages
      BY <1>4, NoOverlap
    <2>. HIDE DEF n
    <2>2. b = p + n
      BY <1>4 DEF n
    <2>3. b \in Int /\ p < b /\ b <= NPages /\ b \in p .. NPages
      BY <2>1, <2>2, <1>1
    <2>4. ASSUME b \in Page, S[b] = Run(0) \/ S[b] = Busy
          PROVE  FALSE
      <3>1. PICK r \in Page : (IsRun(S, r) \/ IsStart(S, r)) /\ r < b /\ b < r + S[r].n
        BY <2>4 DEF Tiling
      <3>. DEFINE m == S[r].n
      <3>2. m \in Nat /\ b < r + m /\ r \in Int
        BY <3>1, Numbers DEF Descriptors, Page
      <3>3. r # p
        BY <3>1, <2>2, <2>3, <1>1 DEF n
      <3>4. r < p
        <4>1. r = p \/ r < p \/ p + n <= r
          BY <3>1, <1>4, NoOverlap DEF n
        <4>. QED
          BY <4>1, <3>1, <3>2, <3>3, <2>2, <2>3, <1>1
      <3>5. r + m <= p
        BY <3>1, <3>4, <1>4, NoOverlap
      <3>. HIDE DEF m
      <3>. QED
        BY <3>2, <3>5, <2>3, <1>1
    <2>5. Boundary(S, b)
      BY <2>3, <2>4, <1>1 DEF Boundary, Page
    <2>. QED
      BY <2>3, <2>5, <1>1, <1>2
  <1>5. CASE IsChunks(S, p) /\ b = p + 1
    <2>3. b \in Int /\ p < b /\ b <= NPages /\ b \in p .. NPages
      BY <1>5, <1>1
    <2>4. ASSUME b \in Page, S[b] = Run(0) \/ S[b] = Busy
          PROVE  FALSE
      <3>1. PICK r \in Page : (IsRun(S, r) \/ IsStart(S, r)) /\ r < b /\ b < r + S[r].n
        BY <2>4 DEF Tiling
      <3>. DEFINE m == S[r].n
      <3>2. m \in Nat /\ b < r + m /\ r \in Int
        BY <3>1, Numbers DEF Descriptors, Page
      <3>3. r # p
        BY <3>1, <1>5 DEF IsRun, IsStart, IsChunks
      <3>. HIDE DEF m
      <3>4. r < p /\ p < r + m
        BY <3>1, <3>2, <3>3, <1>5, <1>1
      <3>5. S[p].tag # "chunks"
        BY <3>1, <3>4, <1>3 DEF m
      <3>. QED
        BY <3>5, <1>5 DEF IsChunks
    <2>5. Boundary(S, b)
      BY <2>3, <2>4, <1>1 DEF Boundary, Page
    <2>. QED
      BY <2>3, <2>5, <1>1, <1>2
  <1>. QED
    BY <1>4, <1>5

IsTile(S, p) == IsRun(S, p) \/ IsStart(S, p) \/ IsChunks(S, p)

\* The pages that TakeRun leaves.
Taken(S, p, k) ==
    [i \in Page |-> IF i = p THEN Start(k)
                    ELSE IF i \in p + 1 .. p + k - 1 THEN Busy
                    ELSE IF i = p + k /\ k < S[p].n THEN Run(S[p].n - k) ELSE S[i]]

Takes(S, p, k, Z) ==
    /\ Z \in Descriptors /\ Tiling(Z)
    /\ Z[p] = Start(k)
    /\ \A r \in Page : IsTile(S, r) /\ r # p => Z[r] = S[r]
    /\ \A r \in Page : IsRun(Z, r) <=> (r # p /\ IsRun(S, r)) \/ (r = p + k /\ k < S[p].n)
    /\ \A r \in Page : IsStart(Z, r) <=> r = p \/ IsStart(S, r)
    /\ \A r \in Page : IsChunks(Z, r) <=> IsChunks(S, r)
    /\ k < S[p].n => p + k \in Page /\ Z[p + k] = Run(S[p].n - k) /\ S[p + k] = Run(0)

LEMMA TakeTiling ==
    ASSUME NEW S \in Descriptors, Tiling(S), NEW p \in Page, IsRun(S, p), NEW k \in 1 .. S[p].n,
           NEW Z, Z = Taken(S, p, k)
    PROVE  Takes(S, p, k, Z)
  <1>. DEFINE n == S[p].n
              a == p + k
              b == p + n
              m == n - k
  <1>0. p \in Int /\ n \in Int /\ k \in Int /\ p + n - 1 = b - 1 /\ p + k - 1 = a - 1
    <2>1. p \in Int /\ n \in Int
      BY Numbers DEF Page, Descriptors
    <2>. QED
      BY <2>1
  <1>1. n \in Nat \ {0} /\ b <= NPages /\ \A i \in p + 1 .. b - 1 : i \in Page /\ S[i] = Run(0)
    <2>1. /\ n \in Nat \ {0} /\ p + n <= NPages
          /\ \A i \in p + 1 .. p + n - 1 : i \in Page
          /\ \A i \in p + 1 .. p + n - 1 : S[i] = Run(0)
      BY NoOverlap, Zenon
    <2>. QED
      BY <2>1, <1>0
  <1>2. \A r \in Page : IsTile(S, r) => r = p \/ r < p \/ b <= r
    BY NoOverlap DEF IsTile
  <1>3. Boundary(S, p) /\ Boundary(S, b) /\ p \in 0 .. NPages /\ b \in p .. NPages /\ b \in Int /\ p < b
    BY Boundaries
  <1>4. Z = [i \in Page |-> IF i = p THEN Start(k)
                    ELSE IF i \in p + 1 .. a - 1 THEN Busy
                    ELSE IF i = a /\ k < n THEN Run(m) ELSE S[i]]
    <2>1. Taken(S, p, k) = [i \in Page |-> IF i = p THEN Start(k)
                    ELSE IF i \in p + 1 .. a - 1 THEN Busy
                    ELSE IF i = a /\ k < n THEN Run(m) ELSE S[i]]
      BY <1>0, Zenon DEF Taken
    <2>. HIDE DEF a, m, n
    <2>. QED
      BY <2>1
  <1>5. S[p] = Run(n)
    BY NoOverlap
  <1>6. k \in 1 .. n
    OBVIOUS
  <1>7. p \in Int /\ 0 <= p /\ p < NPages /\ NPages \in Int /\ k \in Nat \ {0} /\ a \in Int /\ a <= b /\ p < a /\ m \in Nat /\ m <= n
        /\ (k < n <=> a < b) /\ (m = 0 <=> ~(k < n)) /\ b = a + m
    BY <1>1, <1>6, Numbers DEF Page
  <1>. HIDE DEF n
  <1>8. a \in 0 .. NPages /\ a \in p .. b /\ (a < b => a \in Page) /\ b \in 0 .. NPages
    BY <1>1, <1>3, <1>7 DEF Page
  <1>9. Z \in Descriptors
    <2>. DEFINE D == [tag : {"run", "start", "busy", "chunks"}, n : Nat, map : SUBSET Nat]
    <2>1. Start(k) \in D /\ Busy \in D /\ Run(m) \in D
      BY <1>7, DescriptorType
    <2>2. \A i \in Page : S[i] \in D
      BY DEF Descriptors
    <2>. HIDE DEF D, a, m
    <2>3. Z \in [Page -> D]
      BY <2>1, <2>2, <1>4
    <2>. QED
      BY <2>3 DEF D, Descriptors
  <1>10. Z[p] = Start(k) /\ \A i \in p + 1 .. a - 1 : i \in Page /\ Z[i] = Busy
    <2>1. \A i \in p + 1 .. a - 1 : i \in p + 1 .. b - 1 /\ i # p
      BY <1>7
    <2>2. \A i \in p + 1 .. a - 1 : i \in Page
      BY <2>1, <1>1
    <2>. HIDE DEF a, m
    <2>. QED
      BY <2>1, <2>2, <1>4
  <1>11. a < b => /\ Z[a] = Run(m) /\ S[a] = Run(0)
                  /\ \A i \in a + 1 .. b - 1 : i \in Page /\ Z[i] = Run(0)
    <2>1. a < b => a \in p + 1 .. b - 1 /\ a # p /\ a \notin p + 1 .. a - 1 /\ a \in Page
      BY <1>7, <1>8
    <2>2. \A i \in a + 1 .. b - 1 : i \in p + 1 .. b - 1 /\ i # p /\ i \notin p + 1 .. a - 1 /\ i # a
      BY <1>7
    <2>3. \A i \in a + 1 .. b - 1 : i \in Page /\ S[i] = Run(0)
      BY <2>2, <1>1
    <2>. HIDE DEF a, b, m
    <2>4. a < b => Z[a] = Run(m) /\ S[a] = Run(0)
      BY <2>1, <1>1, <1>4, <1>7
    <2>5. \A i \in a + 1 .. b - 1 : Z[i] = Run(0)
      BY <2>2, <2>3, <1>4
    <2>. QED
      BY <2>3, <2>4, <2>5
  <1>12. \A i \in Page : i < p \/ b <= i => Z[i] = S[i]
    <2>1. \A i \in Page : i < p \/ b <= i => i # p /\ i \notin p + 1 .. a - 1 /\ ~(i = a /\ k < n)
      BY <1>7, <1>3, Numbers DEF Page
    <2>. HIDE DEF a, b, m
    <2>. QED
      BY <2>1, <1>4
  <1>. HIDE DEF a, b, m
  <1>13. a = p + k /\ m = n - k /\ b = p + n
    BY DEF a, m, b
  <1>14. Tiled(Z, p, a)
    <2>1. a <= NPages
      BY <1>8
    <2>. QED
      BY <2>1, <1>7, <1>10, <1>13, StartBlock
  <1>15. Tiled(Z, p, b)
    <2>1. CASE a = b
      BY <2>1, <1>14
    <2>2. CASE a < b
      <3>1. Tiled(Z, a, b)
        <4>1. m \in Nat \ {0} /\ a \in Page /\ Z[a] = Run(m) /\ \A i \in a + 1 .. b - 1 : Z[i] = Run(0)
          BY <2>2, <1>7, <1>8, <1>11
        <4>. QED
          BY <4>1, <1>1, <1>3, <1>7, RunBlock
      <3>. QED
        BY <3>1, <1>3, <1>8, <1>9, <1>14, GlueTiled
    <2>. QED
      BY <2>1, <2>2, <1>3, <1>7
  <1>16. Tiling(Z)
    BY <1>3, <1>9, <1>12, <1>15, Retile
  <1>17. \A r \in Page : r = p \/ r < p \/ b <= r \/ r \in p + 1 .. a - 1 \/ (r = a /\ a < b) \/ r \in a + 1 .. b - 1
    BY <1>3, <1>7, Numbers DEF Page
  <1>18. \A r \in Page : IsTile(S, r) /\ r # p => Z[r] = S[r]
    BY <1>2, <1>12
  <1>19. ASSUME NEW r \in Page, IsTile(Z, r)
         PROVE  r = p \/ (r = a /\ a < b) \/ r < p \/ b <= r
    BY <1>10, <1>11, <1>17, <1>19, <1>7, Fields DEF IsTile, IsRun, IsStart, IsChunks
  <1>20. ASSUME NEW r \in Page, r # p, r # a \/ a = b
         PROVE  /\ IsRun(Z, r) <=> IsRun(S, r)
                /\ IsStart(Z, r) <=> IsStart(S, r)
                /\ IsChunks(Z, r) <=> IsChunks(S, r)
    <2>1. IsTile(Z, r) => Z[r] = S[r]
      BY <1>3, <1>7, <1>12, <1>19, <1>20
    <2>2. IsTile(S, r) => Z[r] = S[r]
      BY <1>18, <1>20
    <2>. QED
      BY <2>1, <2>2 DEF IsTile, IsRun, IsStart, IsChunks
  <1>21. IsStart(Z, p) /\ ~IsRun(Z, p) /\ ~IsChunks(Z, p) /\ ~IsChunks(S, p)
    BY <1>10, <1>5, Fields DEF IsStart, IsRun, IsChunks
  <1>22. a < b => IsRun(Z, a) /\ ~IsStart(Z, a) /\ ~IsChunks(Z, a) /\ ~IsStart(S, a) /\ ~IsChunks(S, a) /\ a # p
    BY <1>7, <1>8, <1>11, Fields DEF IsStart, IsRun, IsChunks
  <1>23. \A r \in Page : IsRun(Z, r) <=> (r # p /\ IsRun(S, r)) \/ (r = a /\ a < b)
    BY <1>3, <1>7, <1>20, <1>21, <1>22
  <1>24. \A r \in Page : IsStart(Z, r) <=> r = p \/ IsStart(S, r)
    BY <1>3, <1>7, <1>20, <1>21, <1>22
  <1>25. \A r \in Page : IsChunks(Z, r) <=> IsChunks(S, r)
    BY <1>3, <1>7, <1>20, <1>21, <1>22
  <1>26. k < n => a \in Page /\ Z[a] = Run(m) /\ S[a] = Run(0)
    BY <1>7, <1>8, <1>11
  <1>27. \A r \in Page : IsRun(Z, r) <=> (r # p /\ IsRun(S, r)) \/ (r = a /\ k < n)
    BY <1>23, <1>7
  <1>. QED
    BY <1>9, <1>10, <1>16, <1>18, <1>24, <1>25, <1>26, <1>27 DEF a, m, n, Takes

\* The pages that an allocation or a page of chunks leaves, as a run.
Freed(S, p, n) ==
    [i \in Page |-> IF i = p THEN Run(n) ELSE IF i \in p + 1 .. p + n - 1 THEN Run(0) ELSE S[i]]

Frees(S, p, n, Z) ==
    /\ Z \in Descriptors /\ Tiling(Z)
    /\ n \in Nat \ {0} /\ p + n <= NPages
    /\ Z[p] = Run(n)
    /\ \A i \in p + 1 .. p + n - 1 : i \in Page /\ S[i] = Busy
    /\ \A r \in Page : IsTile(S, r) /\ r # p => Z[r] = S[r]
    /\ \A r \in Page : IsRun(Z, r) <=> r = p \/ IsRun(S, r)
    /\ \A r \in Page : IsStart(Z, r) <=> r # p /\ IsStart(S, r)
    /\ \A r \in Page : IsChunks(Z, r) <=> r # p /\ IsChunks(S, r)

LEMMA FreeTiling ==
    ASSUME NEW S \in Descriptors, Tiling(S), NEW p \in Page, NEW n,
           (IsStart(S, p) /\ n = S[p].n) \/ (IsChunks(S, p) /\ n = 1),
           NEW Z, Z = Freed(S, p, n)
    PROVE  Frees(S, p, n, Z)
  <1>. DEFINE b == p + n
  <1>1. p \in Int /\ 0 <= p /\ p < NPages /\ NPages \in Int
    BY Numbers DEF Page
  <1>2. /\ n \in Nat \ {0} /\ p + n <= NPages
        /\ \A i \in p + 1 .. p + n - 1 : i \in Page
        /\ \A i \in p + 1 .. p + n - 1 : S[i] = Busy
    <2>1. CASE IsStart(S, p) /\ n = S[p].n
      BY <2>1, NoOverlap
    <2>2. CASE IsChunks(S, p) /\ n = 1
      BY <2>2, <1>1
    <2>. QED
      BY <2>1, <2>2
  <1>3. Boundary(S, p) /\ Boundary(S, b) /\ p \in 0 .. NPages /\ b \in p .. NPages /\ b \in Int /\ p < b
    <2>1. CASE IsStart(S, p) /\ n = S[p].n
      BY <2>1, Boundaries
    <2>2. CASE IsChunks(S, p) /\ n = 1
      BY <2>2, Boundaries
    <2>. QED
      BY <2>1, <2>2
  <1>4. p + n - 1 = b - 1
    BY <1>1, <1>2
  <1>5. \A i \in p + 1 .. b - 1 : i \in Page /\ S[i] = Busy
    BY <1>2, <1>4
  <1>6. Z = [i \in Page |-> IF i = p THEN Run(n) ELSE IF i \in p + 1 .. b - 1 THEN Run(0) ELSE S[i]]
    BY <1>4, Zenon DEF Freed
  <1>7. \A r \in Page : IsTile(S, r) => r = p \/ r < p \/ b <= r
    <2>1. CASE IsStart(S, p) /\ n = S[p].n
      BY <2>1, NoOverlap DEF IsTile
    <2>2. CASE IsChunks(S, p) /\ n = 1
      BY <2>2, <1>1, Numbers DEF Page
    <2>. QED
      BY <2>1, <2>2
  <1>8. b = p + n /\ b <= NPages
    BY <1>2
  <1>. HIDE DEF b
  <1>9. Z \in Descriptors
    <2>. DEFINE D == [tag : {"run", "start", "busy", "chunks"}, n : Nat, map : SUBSET Nat]
    <2>1. Run(n) \in D /\ Run(0) \in D
      BY <1>2, DescriptorType
    <2>2. \A i \in Page : S[i] \in D
      BY DEF Descriptors
    <2>. HIDE DEF D
    <2>3. Z \in [Page -> D]
      BY <2>1, <2>2, <1>6
    <2>. QED
      BY <2>3 DEF D, Descriptors
  <1>10. Z[p] = Run(n) /\ \A i \in p + 1 .. b - 1 : Z[i] = Run(0)
    <2>1. \A i \in p + 1 .. b - 1 : i # p
      BY <1>1, <1>3
    <2>. QED
      BY <2>1, <1>5, <1>6
  <1>11. \A i \in Page : i < p \/ b <= i => Z[i] = S[i]
    <2>1. \A i \in Page : i < p \/ b <= i => i # p /\ i \notin p + 1 .. b - 1
      BY <1>1, <1>3, Numbers DEF Page
    <2>. QED
      BY <2>1, <1>6
  <1>12. Tiled(Z, p, b)
    BY <1>2, <1>3, <1>8, <1>10, RunBlock
  <1>13. Tiling(Z)
    BY <1>3, <1>9, <1>11, <1>12, Retile
  <1>14. \A r \in Page : r = p \/ r < p \/ b <= r \/ r \in p + 1 .. b - 1
    BY <1>1, <1>3, Numbers DEF Page
  <1>15. \A r \in Page : IsTile(S, r) /\ r # p => Z[r] = S[r]
    BY <1>7, <1>11
  <1>16. ASSUME NEW r \in Page, IsTile(Z, r)
         PROVE  r = p \/ r < p \/ b <= r
    BY <1>10, <1>14, <1>16, Fields DEF IsTile, IsRun, IsStart, IsChunks
  <1>17. ASSUME NEW r \in Page, r # p
         PROVE  /\ IsRun(Z, r) <=> IsRun(S, r)
                /\ IsStart(Z, r) <=> IsStart(S, r)
                /\ IsChunks(Z, r) <=> IsChunks(S, r)
    <2>1. IsTile(Z, r) => Z[r] = S[r]
      BY <1>11, <1>16, <1>17
    <2>2. IsTile(S, r) => Z[r] = S[r]
      BY <1>15, <1>17
    <2>. QED
      BY <2>1, <2>2 DEF IsTile, IsRun, IsStart, IsChunks
  <1>18. IsRun(Z, p) /\ ~IsStart(Z, p) /\ ~IsChunks(Z, p)
    BY <1>2, <1>10, Fields DEF IsStart, IsRun, IsChunks
  <1>. QED
    BY <1>2, <1>9, <1>10, <1>13, <1>15, <1>17, <1>18 DEF Frees

\* The pages of two runs that touch, as one run.
Merged(S, p, r) == [S EXCEPT ![p] = Run(S[p].n + S[r].n), ![r] = Run(0)]

Merges(S, p, r, Z) ==
    /\ Z \in Descriptors /\ Tiling(Z)
    /\ Z[p] = Run(S[p].n + S[r].n) /\ Z[r] = Run(0)
    /\ r + S[r].n <= NPages /\ p < r
    /\ \A i \in Page : i # p /\ i # r => Z[i] = S[i]
    /\ \A i \in Page : IsRun(Z, i) <=> IsRun(S, i) /\ i # r
    /\ \A i \in Page : IsStart(Z, i) <=> IsStart(S, i)
    /\ \A i \in Page : IsChunks(Z, i) <=> IsChunks(S, i)

LEMMA MergeTiling ==
    ASSUME NEW S \in Descriptors, Tiling(S), NEW p \in Page, NEW r \in Page,
           IsRun(S, p), IsRun(S, r), r = p + S[p].n,
           NEW Z, Z = Merged(S, p, r)
    PROVE  Merges(S, p, r, Z)
  <1>. DEFINE n == S[p].n
              m == S[r].n
              b == r + m
              s == n + m
  <1>1. p \in Int /\ 0 <= p /\ p < NPages /\ NPages \in Int /\ r \in Int
    BY Numbers DEF Page
  <1>2. n \in Nat \ {0} /\ \A i \in p + 1 .. p + n - 1 : S[i] = Run(0)
    BY NoOverlap, Zenon
  <1>3. m \in Nat \ {0} /\ b <= NPages /\ \A i \in r + 1 .. r + m - 1 : S[i] = Run(0)
    BY NoOverlap, Zenon
  <1>4. Boundary(S, p) /\ p \in 0 .. NPages
    BY Boundaries, Zenon
  <1>5. Boundary(S, b) /\ b \in r .. NPages
    BY Boundaries, Zenon
  <1>6. r = p + n
    OBVIOUS
  <1>7. Z = [S EXCEPT ![p] = Run(s), ![r] = Run(0)]
    BY DEF Merged
  <1>. HIDE DEF n, m
  <1>8. b = p + s /\ s \in Nat \ {0} /\ p < r /\ r < b /\ b \in Int /\ b \in p .. NPages
    BY <1>1, <1>2, <1>3, <1>6
  <1>9. \A i \in p + 1 .. b - 1 : i = r \/ i \in p + 1 .. p + n - 1 \/ i \in r + 1 .. r + m - 1
    <2>1. n \in Int /\ m \in Int
      BY <1>2, <1>3
    <2>. TAKE i \in p + 1 .. b - 1
    <2>2. i \in Int /\ p + 1 <= i /\ i <= r + m - 1
      BY <2>1, <1>1
    <2>3. i < r => i <= p + n - 1
      BY <2>1, <2>2, <1>1, <1>6
    <2>4. r < i => r + 1 <= i
      BY <2>2, <1>1
    <2>. QED
      BY <2>1, <2>2, <2>3, <2>4, <1>1
  <1>10. \A i \in p + 1 .. b - 1 : i \in Page /\ i # p
    BY <1>1, <1>3, <1>8 DEF Page
  <1>. HIDE DEF b, s
  <1>11. S \in [Page -> [tag : {"run", "start", "busy", "chunks"}, n : Nat, map : SUBSET Nat]]
    BY DEF Descriptors
  <1>12. Z[p] = Run(s) /\ Z[r] = Run(0) /\ \A i \in Page : i # p /\ i # r => Z[i] = S[i]
    <2>1. p # r
      BY <1>1, <1>8
    <2>. QED
      BY <2>1, <1>7, <1>11
  <1>13. \A i \in p + 1 .. b - 1 : Z[i] = Run(0)
    BY <1>2, <1>3, <1>9, <1>10, <1>12
  <1>14. Z \in Descriptors
    <2>. DEFINE D == [tag : {"run", "start", "busy", "chunks"}, n : Nat, map : SUBSET Nat]
    <2>1. Run(s) \in D /\ Run(0) \in D
      BY <1>8, DescriptorType
    <2>. HIDE DEF D
    <2>3. Z \in [Page -> D]
      BY <2>1, <1>7, <1>11 DEF D
    <2>. QED
      BY <2>3 DEF D, Descriptors
  <1>15. Tiled(Z, p, b)
    <2>1. b <= NPages
      BY <1>3
    <2>. QED
      BY <2>1, <1>8, <1>12, <1>13, RunBlock
  <1>16. Tiling(Z)
    <2>1. \A i \in Page : i < p \/ b <= i => Z[i] = S[i]
      BY <1>1, <1>8, <1>12, Numbers DEF Page
    <2>. QED
      BY <2>1, <1>4, <1>5, <1>8, <1>14, <1>15, Retile
  <1>17. IsRun(Z, p) /\ ~IsRun(Z, r) /\ ~IsStart(Z, p) /\ ~IsStart(Z, r) /\ ~IsChunks(Z, p) /\ ~IsChunks(Z, r)
    BY <1>8, <1>12, Fields DEF IsRun, IsStart, IsChunks
  <1>18. ~IsStart(S, p) /\ ~IsStart(S, r) /\ ~IsChunks(S, p) /\ ~IsChunks(S, r)
    BY DEF IsRun, IsStart, IsChunks
  <1>19. ASSUME NEW i \in Page, i # p, i # r
         PROVE  /\ IsRun(Z, i) <=> IsRun(S, i)
                /\ IsStart(Z, i) <=> IsStart(S, i)
                /\ IsChunks(Z, i) <=> IsChunks(S, i)
    BY <1>12, <1>19 DEF IsRun, IsStart, IsChunks
  <1>20. \A i \in Page : IsRun(Z, i) <=> IsRun(S, i) /\ i # r
    BY <1>8, <1>17, <1>19
  <1>. QED
    BY <1>3, <1>8, <1>12, <1>14, <1>16, <1>17, <1>18, <1>19, <1>20 DEF b, s, m, n, Merges

\* A page of chunks, in the place of another or of an allocation of one page.
Chunked(S, p, s, map, Z) ==
    /\ Z \in Descriptors /\ Tiling(Z)
    /\ Z[p] = Chunks(s, map)
    /\ \A i \in Page : i # p => Z[i] = S[i]
    /\ \A i \in Page : IsRun(Z, i) <=> IsRun(S, i)
    /\ \A i \in Page : IsStart(Z, i) <=> IsStart(S, i) /\ i # p
    /\ \A i \in Page : IsChunks(Z, i) <=> IsChunks(S, i) \/ i = p

LEMMA ChunkTiling ==
    ASSUME NEW S \in Descriptors, Tiling(S), NEW p \in Page, S[p] = Start(1) \/ IsChunks(S, p),
           NEW s, NEW map, MapOK(s, map),
           NEW Z, Z = [S EXCEPT ![p] = Chunks(s, map)]
    PROVE  Chunked(S, p, s, map, Z)
  <1>. DEFINE b == p + 1
  <1>1. p \in Int /\ 0 <= p /\ p < NPages /\ NPages \in Int
    BY Numbers DEF Page
  <1>2. Boundary(S, p) /\ Boundary(S, b) /\ p \in 0 .. NPages /\ b \in p .. NPages /\ b \in Int /\ p < b
    <2>1. CASE S[p] = Start(1)
      <3>1. IsStart(S, p) /\ b = p + S[p].n
        BY <2>1, Fields DEF IsStart
      <3>. HIDE DEF b
      <3>. QED
        BY <3>1, Boundaries
    <2>2. CASE IsChunks(S, p)
      BY <2>2, Boundaries
    <2>. QED
      BY <2>1, <2>2
  <1>3. S \in [Page -> [tag : {"run", "start", "busy", "chunks"}, n : Nat, map : SUBSET Nat]]
    BY DEF Descriptors
  <1>4. Z[p] = Chunks(s, map) /\ \A i \in Page : i # p => Z[i] = S[i]
    BY <1>3
  <1>5. Z \in Descriptors
    <2>. DEFINE D == [tag : {"run", "start", "busy", "chunks"}, n : Nat, map : SUBSET Nat]
    <2>0. s \in Nat /\ map \in SUBSET Nat
      BY MapTyped
    <2>1. Chunks(s, map) \in D
      BY <2>0, DescriptorType
    <2>. HIDE DEF D
    <2>3. Z \in [Page -> D]
      BY <2>1, <1>3 DEF D
    <2>. QED
      BY <2>3 DEF D, Descriptors
  <1>6. \A i \in Page : i < p \/ b <= i => Z[i] = S[i]
    BY <1>1, <1>4, Numbers DEF Page
  <1>7. b = p + 1
    OBVIOUS
  <1>. HIDE DEF b
  <1>8. Tiled(Z, p, b)
    BY <1>2, <1>4, <1>7, ChunkBlock
  <1>9. Tiling(Z)
    BY <1>2, <1>5, <1>6, <1>8, Retile
  <1>10. ~IsRun(Z, p) /\ ~IsStart(Z, p) /\ IsChunks(Z, p) /\ ~IsRun(S, p)
    BY <1>4, Fields DEF IsRun, IsStart, IsChunks
  <1>11. ASSUME NEW i \in Page, i # p
         PROVE  /\ IsRun(Z, i) <=> IsRun(S, i)
                /\ IsStart(Z, i) <=> IsStart(S, i)
                /\ IsChunks(Z, i) <=> IsChunks(S, i)
    BY <1>4, <1>11 DEF IsRun, IsStart, IsChunks
  <1>. QED
    BY <1>4, <1>5, <1>9, <1>10, <1>11 DEF Chunked

(***************************************************************************)
(* The pool.                                                               *)
(***************************************************************************)
\* A page that is not the first of a run, of an allocation, nor of chunks.
LEMMA NoTile ==
    ASSUME NEW S \in Descriptors, Tiling(S), NEW p \in Page, ~IsTile(S, p)
    PROVE  S[p] = Run(0) \/ S[p] = Busy
  <1>1. DescOK(S, p) /\ S[p].n \in Nat
    BY DEF Tiling, Descriptors
  <1>. QED
    BY <1>1, Fields DEF DescOK, IsTile, IsRun, IsStart, IsChunks

LEMMA ListedPages ==
    ASSUME NEW S \in Descriptors, Tiling(S), NEW D
    PROVE  /\ Listed(S, D) \subseteq Page
           /\ \A p \in Listed(S, D) : HomeOf(S)[p] \in Heads /\ IsTile(S, p) /\ ~IsStart(S, p)
           /\ \A p \in Page : IsChunks(S, p) => S[p] = Chunks(S[p].n, S[p].map) /\ MapOK(S[p].n, S[p].map) /\ S[p].n \in Shift
           /\ \A p \in Page : HomeOf(S)[p] = IF S[p].tag = "chunks" THEN SlotHead(S[p].n) ELSE FreeHead
  <1>1. ASSUME NEW p \in Page, IsChunks(S, p)
        PROVE  S[p] = Chunks(S[p].n, S[p].map) /\ MapOK(S[p].n, S[p].map) /\ S[p].n \in Shift
    <2>1. DescOK(S, p)
      BY DEF Tiling
    <2>2. S[p] = Chunks(S[p].n, S[p].map) /\ MapOK(S[p].n, S[p].map)
      BY <2>1, <1>1, Fields DEF DescOK, IsChunks
    <2>. QED
      BY <2>2 DEF MapOK
  <1>2. \A p \in Page : HomeOf(S)[p] = IF S[p].tag = "chunks" THEN SlotHead(S[p].n) ELSE FreeHead
    BY DEF HomeOf
  <1>3. \A p \in Page : HomeOf(S)[p] \in Heads
    BY <1>1, <1>2, Nodes DEF IsChunks
  <1>. QED
    BY <1>1, <1>2, <1>3 DEF Listed, IsTile, Partial, IsRun, IsStart, IsChunks

\* What the links of a page that is in a list say.
LEMMA PoolLinks ==
    ASSUME NEW q, NEW D, Sound(q, D), NEW p \in Listed(q.slab, D)
    PROVE  /\ p \in Page /\ q.next[p] \in Node /\ q.prev[p].ptr \in Node
           /\ q.next[p] # p /\ q.prev[p].ptr # p
           /\ HomeOf(q.slab)[p] \in Heads
           /\ q.next[p] \in Listed(q.slab, D) \/ q.next[p] = HomeOf(q.slab)[p]
           /\ q.prev[p].ptr \in Listed(q.slab, D) \/ q.prev[p].ptr = HomeOf(q.slab)[p]
           /\ q.next[q.prev[p].ptr] = p
           /\ q.next[p] \in Page => /\ q.prev[q.next[p]].ptr = p
                                    /\ q.prev[q.next[p]].type = q.prev[p].type
                                    /\ HomeOf(q.slab)[q.next[p]] = HomeOf(q.slab)[p]
  <1>. DEFINE S == q.slab
              X == q.next
              V == q.prev
              P == Ptr(V)
              L == Listed(S, D)
              H == HomeOf(S)
  <1>1. IsPool(q) /\ Tiling(S) /\ S \in Descriptors /\ Chained(X, P, L, H) /\ Typed(S, V, D)
    BY DEF Sound, IsPool
  <1>2. /\ L \subseteq Page
        /\ \A i \in L : H[i] \in Heads
        /\ \A i \in Page : IsChunks(S, i) => S[i].n \in Shift
        /\ \A i \in Page : H[i] = IF S[i].tag = "chunks" THEN SlotHead(S[i].n) ELSE FreeHead
    BY <1>1, ListedPages
  <1>3. \A i \in Node : P[i] = V[i].ptr
    BY DEF Ptr
  <1>4. \A i \in L : i \notin D
    BY DEF Listed
  <1>. HIDE DEF P, L, H
  <1>5. p \in L
    BY DEF L
  <1>6. PICK rank \in [Page -> Nat] : Linked(X, P, L, H, rank)
    BY <1>1 DEF Chained
  <1>7. /\ X[p] \in Node /\ P[p] \in Node /\ X[p] # p /\ P[p] # p
        /\ X[p] \in L \cup {H[p]} /\ P[p] \in L \cup {H[p]}
        /\ X[P[p]] = p /\ (X[p] \in Page => P[X[p]] = p)
    <2>1. Chained(X, P, L, H) /\ Homed(L, H)
      BY <1>1, <1>2 DEF L, H, Homed
    <2>2. Links(X, P, L, H, p)
      BY <2>1, <1>5, ListedLinks
    <2>. QED
      BY <2>2 DEF Links
  <1>8. X[p] \in Page => X[p] \in L
    BY <1>2, <1>5, <1>7, Nodes
  <1>9. X[p] \in L => H[X[p]] = H[p]
    BY <1>5, <1>6 DEF Linked
  <1>10. ASSUME X[p] \in L
         PROVE  V[X[p]].type = V[p].type
    <2>. DEFINE x == X[p]
    <2>1. x \in Page /\ x \notin D /\ p \in Page /\ p \notin D /\ H[x] = H[p]
      BY <1>2, <1>4, <1>5, <1>9, <1>10
    <2>2. /\ V[x].type = IF S[x].tag = "chunks" THEN TypeOf(S[x].n) ELSE "page"
          /\ V[p].type = IF S[p].tag = "chunks" THEN TypeOf(S[p].n) ELSE "page"
      BY <2>1, <1>1 DEF Typed
    <2>. HIDE DEF x
    <2>3. S[x].tag = "chunks" <=> S[p].tag = "chunks"
      BY <2>1, <1>2, Nodes DEF IsChunks
    <2>4. S[x].tag = "chunks" => S[x].n = S[p].n
      BY <2>1, <2>3, <1>2, Nodes DEF IsChunks
    <2>. QED
      BY <2>2, <2>3, <2>4 DEF x
  <1>11. p \in Node /\ p \in Page /\ (X[p] \in Page => X[p] \in Node)
    BY <1>2, <1>5, Nodes
  <1>. QED
    BY <1>2, <1>3, <1>5, <1>7, <1>8, <1>9, <1>10, <1>11 DEF L, H

LEMMA UnlinkPool ==
    ASSUME NEW q, IsPool(q), NEW p \in Page, q.next[p] \in Node, q.prev[p].ptr \in Node,
           NEW r, r = Unlink(q, p)
    PROVE  /\ IsPool(r)
           /\ r = [slab |-> q.slab, next |-> r.next, prev |-> r.prev,
                   pfree |-> q.pfree, total |-> q.total, used |-> q.used]
           /\ \A i \in Node : r.next[i] = IF i = q.prev[p].ptr THEN q.next[p] ELSE q.next[i]
           /\ \A i \in Node : r.prev[i] = IF i = q.next[p] THEN q.prev[p] ELSE q.prev[i]
  <1>. DEFINE X == [q.next EXCEPT ![q.prev[p].ptr] = q.next[p]]
              V == [q.prev EXCEPT ![q.next[p]] = q.prev[p]]
  <1>1. /\ q = [slab |-> q.slab, next |-> q.next, prev |-> q.prev,
                pfree |-> q.pfree, total |-> q.total, used |-> q.used]
        /\ q.slab \in Descriptors
        /\ q.next \in [Node -> Node \cup {NoPage}]
        /\ q.prev \in [Node -> [ptr : Node \cup {NoPage}, type : SlabTypes]]
    BY DEF IsPool
  <1>2. p \in Node
    BY Nodes
  <1>3. r = [slab |-> q.slab, next |-> X, prev |-> V, pfree |-> q.pfree, total |-> q.total, used |-> q.used]
    BY <1>1 DEF Unlink
  <1>4. X \in [Node -> Node \cup {NoPage}] /\ V \in [Node -> [ptr : Node \cup {NoPage}, type : SlabTypes]]
    BY <1>1, <1>2
  <1>5. /\ \A i \in Node : X[i] = IF i = q.prev[p].ptr THEN q.next[p] ELSE q.next[i]
        /\ \A i \in Node : V[i] = IF i = q.next[p] THEN q.prev[p] ELSE q.prev[i]
    BY <1>1
  <1>. HIDE DEF X, V
  <1>6. r.slab = q.slab /\ r.next = X /\ r.prev = V /\ r.pfree = q.pfree /\ r.total = q.total /\ r.used = q.used
    BY <1>3
  <1>. QED
    BY <1>1, <1>3, <1>4, <1>5, <1>6 DEF IsPool

LEMMA SplitPool ==
    ASSUME NEW q, IsPool(q), NEW p \in Page, q.next[p] \in Node, q.prev[p].ptr \in Node,
           NEW k \in Nat, NEW a \in Page, a = p + k, NEW e \in Page, e = p + q.slab[p].n - 1,
           NEW m \in Nat, m = q.slab[p].n - k, NEW r, r = SplitRun(q, p, k)
    PROVE  /\ IsPool(r)
           /\ r = [slab |-> [q.slab EXCEPT ![a] = Run(m)], next |-> r.next, prev |-> r.prev,
                   pfree |-> q.pfree, total |-> q.total, used |-> q.used]
           /\ \A i \in Node : r.next[i] = IF i = q.prev[p].ptr THEN a
                                          ELSE IF i = a THEN q.next[p] ELSE q.next[i]
           /\ \A i \in Node : r.prev[i] = IF i = q.next[p] THEN PagePtr(a)
                                          ELSE IF i = a THEN q.prev[p]
                                          ELSE IF i = e THEN PagePtr(a) ELSE q.prev[i]
  <1>. DEFINE S == [q.slab EXCEPT ![a] = Run(m)]
              X == [q.next EXCEPT ![a] = q.next[p], ![q.prev[p].ptr] = a]
              V == [q.prev EXCEPT ![e] = PagePtr(a), ![a] = q.prev[p], ![q.next[p]] = PagePtr(a)]
  <1>1. /\ q = [slab |-> q.slab, next |-> q.next, prev |-> q.prev,
                pfree |-> q.pfree, total |-> q.total, used |-> q.used]
        /\ q.slab \in Descriptors
        /\ q.next \in [Node -> Node \cup {NoPage}]
        /\ q.prev \in [Node -> [ptr : Node \cup {NoPage}, type : SlabTypes]]
    BY DEF IsPool
  <1>2. p \in Node /\ a \in Node /\ e \in Node /\ PagePtr(a) \in [ptr : Node \cup {NoPage}, type : SlabTypes]
    BY Nodes DEF PagePtr, Link, SlabTypes
  <1>3. SplitRun(q, p, k) = [q EXCEPT !.prev = V, !.slab = S, !.next = X]
    <2>1. (p + q.slab[p].n) - 1 = e /\ p + q.slab[p].n - 1 = e
      <3>1. p \in Int /\ q.slab[p].n \in Int
        BY <1>1, Numbers DEF Page, Descriptors
      <3>. QED
        BY <3>1
    <2>. QED
      BY <2>1 DEF SplitRun
  <1>4. S \in Descriptors
    <2>. DEFINE D == [tag : {"run", "start", "busy", "chunks"}, n : Nat, map : SUBSET Nat]
    <2>1. Run(m) \in D
      BY DescriptorType
    <2>2. q.slab \in [Page -> D]
      BY <1>1 DEF Descriptors
    <2>. HIDE DEF D
    <2>3. S \in [Page -> D]
      BY <2>1, <2>2
    <2>. QED
      BY <2>3 DEF D, Descriptors
  <1>5. X \in [Node -> Node \cup {NoPage}] /\ V \in [Node -> [ptr : Node \cup {NoPage}, type : SlabTypes]]
    BY <1>1, <1>2
  <1>6. /\ \A i \in Node : X[i] = IF i = q.prev[p].ptr THEN a
                                  ELSE IF i = a THEN q.next[p] ELSE q.next[i]
        /\ \A i \in Node : V[i] = IF i = q.next[p] THEN PagePtr(a)
                                  ELSE IF i = a THEN q.prev[p]
                                  ELSE IF i = e THEN PagePtr(a) ELSE q.prev[i]
    BY <1>1, <1>2
  <1>. HIDE DEF X, V, S
  <1>7. r = [slab |-> S, next |-> X, prev |-> V, pfree |-> q.pfree, total |-> q.total, used |-> q.used]
    BY <1>1, <1>3
  <1>8. r.slab = S /\ r.next = X /\ r.prev = V /\ r.pfree = q.pfree /\ r.total = q.total /\ r.used = q.used
    BY <1>7
  <1>9. IsPool(r)
    BY <1>4, <1>5, <1>7, <1>8 DEF IsPool
  <1>. QED
    BY <1>6, <1>7, <1>8, <1>9 DEF S

\* The first pages of a run, as TakeRun leaves them.
TakeOf(b, p, k, r) ==
    /\ r = [slab |-> r.slab, next |-> r.next, prev |-> r.prev,
            pfree |-> r.pfree, total |-> b.total, used |-> b.used]
    /\ r.next \in [Node -> Node \cup {NoPage}]
    /\ r.prev \in [Node -> [ptr : Node \cup {NoPage}, type : SlabTypes]]
    /\ r.slab = [i \in Page |-> IF i = p THEN Start(k)
                                ELSE IF i \in p .. p + k - 1 THEN Busy ELSE b.slab[i]]
    /\ \A i \in Node : r.next[i] = IF i \in p .. p + k - 1 THEN NoPage ELSE b.next[i]
    /\ \A i \in Node : r.prev[i] = IF i \in p .. p + k - 1 THEN Unlinked("page") ELSE b.prev[i]

LEMMA TakePool ==
    ASSUME NEW q, NEW p, NEW k,
           NEW b, b = IF q.slab[p].n > k THEN SplitRun(q, p, k) ELSE Unlink(q, p),
           IsPool(b), NEW r, r = TakeRun(q, p, k)
    PROVE  TakeOf(b, p, k, r)
  <1>. DEFINE T == p .. p + k - 1
              S == [i \in Page |-> IF i = p THEN Start(k) ELSE IF i \in T THEN Busy ELSE b.slab[i]]
              X == [i \in Node |-> IF i \in T THEN NoPage ELSE b.next[i]]
              V == [i \in Node |-> IF i \in T THEN Unlinked("page") ELSE b.prev[i]]
  <1>1. /\ b = [slab |-> b.slab, next |-> b.next, prev |-> b.prev,
                pfree |-> b.pfree, total |-> b.total, used |-> b.used]
        /\ b.slab \in Descriptors
        /\ b.next \in [Node -> Node \cup {NoPage}]
        /\ b.prev \in [Node -> [ptr : Node \cup {NoPage}, type : SlabTypes]]
    BY DEF IsPool
  <1>2. r = [b EXCEPT !.slab = S, !.next = X, !.prev = V, !.pfree = b.pfree - k]
    BY DEF TakeRun
  <1>3. X \in [Node -> Node \cup {NoPage}]
    BY <1>1
  <1>4. V \in [Node -> [ptr : Node \cup {NoPage}, type : SlabTypes]]
    BY <1>1 DEF Unlinked, Link, SlabTypes
  <1>5. /\ \A i \in Node : X[i] = IF i \in T THEN NoPage ELSE b.next[i]
        /\ \A i \in Node : V[i] = IF i \in T THEN Unlinked("page") ELSE b.prev[i]
    OBVIOUS
  <1>. HIDE DEF S, X, V
  <1>6. r = [slab |-> S, next |-> X, prev |-> V, pfree |-> b.pfree - k, total |-> b.total, used |-> b.used]
    BY <1>1, <1>2
  <1>7. r.slab = S /\ r.next = X /\ r.prev = V /\ r.pfree = b.pfree - k /\ r.total = b.total /\ r.used = b.used
    BY <1>6
  <1>. QED
    BY <1>3, <1>4, <1>5, <1>6, <1>7 DEF S, TakeOf

\* The pages of a run or of an allocation.
Block(S, p) == p .. p + S[p].n - 1

LEMMA BlockFacts ==
    ASSUME NEW S \in Descriptors, Tiling(S), NEW p \in Page, IsRun(S, p) \/ IsStart(S, p)
    PROVE  /\ Block(S, p) \subseteq Page /\ p \in Block(S, p)
           /\ \A i \in Page : IsTile(S, i) /\ i # p => i \notin Block(S, p)
           /\ \A i \in Block(S, p) : i # p => ~IsTile(S, i)
           /\ \A r \in Page : (IsRun(S, r) \/ IsStart(S, r)) /\ r # p => Block(S, r) \cap Block(S, p) = {}
  <1>. DEFINE n == S[p].n
  <1>1. /\ n \in Nat \ {0} /\ p + n <= NPages
        /\ \A r \in Page : IsRun(S, r) \/ IsStart(S, r) \/ IsChunks(S, r) => r = p \/ r < p \/ p + n <= r
        /\ \A r \in Page : (IsRun(S, r) \/ IsStart(S, r)) /\ r < p => r + S[r].n <= p
    BY NoOverlap, Zenon
  <1>2. p \in Int /\ 0 <= p /\ NPages \in Int
    BY Numbers DEF Page
  <1>. HIDE DEF n
  <1>3. Block(S, p) = p .. p + n - 1
    BY DEF Block, n
  <1>4. Block(S, p) \subseteq Page /\ p \in Block(S, p)
    BY <1>1, <1>2, <1>3 DEF Page
  <1>5. ASSUME NEW i \in Page, IsTile(S, i), i # p
        PROVE  i \notin Block(S, p)
    <2>1. i < p \/ p + n <= i
      BY <1>1, <1>5 DEF IsTile
    <2>. QED
      BY <2>1, <1>1, <1>2, <1>3, Numbers DEF Page
  <1>6. \A i \in Block(S, p) : i # p => ~IsTile(S, i)
    BY <1>4, <1>5
  <1>7. ASSUME NEW r \in Page, IsRun(S, r) \/ IsStart(S, r), r # p
        PROVE  Block(S, r) \cap Block(S, p) = {}
    <2>. DEFINE m == S[r].n
    <2>1. m \in Nat /\ r \in Int
      BY Numbers DEF Descriptors, Page
    <2>2. r + m <= p \/ p + n <= r
      BY <1>1, <1>7
    <2>. HIDE DEF m
    <2>3. Block(S, r) = r .. r + m - 1
      BY DEF Block, m
    <2>4. ASSUME NEW i \in Block(S, r), i \in Block(S, p)
          PROVE  FALSE
      <3>1. i \in r .. r + m - 1 /\ i \in p .. p + n - 1
        BY <2>3, <2>4, <1>3
      <3>. QED
        BY <3>1, <2>1, <2>2, <1>1, <1>2
    <2>. QED
      BY <2>4
  <1>. QED
    BY <1>4, <1>5, <1>6, <1>7

\* A page of the pool that is not listed has no successor.
LEMMA SoundFields ==
    ASSUME NEW q, NEW D, Sound(q, D)
    PROVE  /\ IsPool(q) /\ q.slab \in Descriptors /\ Tiling(q.slab)
           /\ q.next \in [Node -> Node \cup {NoPage}]
           /\ q.prev \in [Node -> [ptr : Node \cup {NoPage}, type : SlabTypes]]
           /\ Homed(Listed(q.slab, D), HomeOf(q.slab))
           /\ Chained(q.next, Ptr(q.prev), Listed(q.slab, D), HomeOf(q.slab))
           /\ Unlisted(q.slab, q.next, D) /\ Typed(q.slab, q.prev, D) /\ Tails(q.slab, q.prev, D) /\ Apart(q.slab, D)
           /\ \A p \in Listed(q.slab, D) : IsTile(q.slab, p)
  BY ListedPages DEF Sound, IsPool, Homed

Took(q, p, k, r) ==
    /\ Sound(r, {}) /\ r.slab = Taken(q.slab, p, k)
    /\ \A h \in Heads : h # FreeHead => r.next[h] = q.next[h]

\* Part of a free run is taken.
LEMMA TakeSplitSound ==
    ASSUME NEW q, Sound(q, {}), NEW p \in Page, IsRun(q.slab, p), NEW k \in 1 .. q.slab[p].n, k < q.slab[p].n,
           NEW r, r = TakeRun(q, p, k)
    PROVE  Took(q, p, k, r)
  <1>. DEFINE S == q.slab
              X == q.next
              V == q.prev
              L == Listed(S, {})
              n == S[p].n
              a == p + k
              e == p + n - 1
              m == n - k
              T == p .. p + k - 1
              B == Block(S, p)
              Z == Taken(S, p, k)
              t == SplitRun(q, p, k)
  <1>1. /\ IsPool(q) /\ S \in Descriptors /\ Tiling(S)
        /\ X \in [Node -> Node \cup {NoPage}]
        /\ V \in [Node -> [ptr : Node \cup {NoPage}, type : SlabTypes]]
        /\ Homed(L, HomeOf(S)) /\ Chained(X, Ptr(V), L, HomeOf(S))
        /\ Unlisted(S, X, {}) /\ Typed(S, V, {}) /\ Tails(S, V, {}) /\ Apart(S, {})
        /\ \A i \in L : IsTile(S, i)
    BY SoundFields, Zenon
  <1>2. n \in Nat \ {0} /\ p + n <= NPages
    BY <1>1, NoOverlap, Zenon
  <1>3. k \in 1 .. n /\ k < n
    OBVIOUS
  <1>4. /\ Z \in Descriptors /\ Tiling(Z)
        /\ Z[p] = Start(k)
        /\ \A i \in Page : IsTile(S, i) /\ i # p => Z[i] = S[i]
        /\ \A i \in Page : IsRun(Z, i) <=> (i # p /\ IsRun(S, i)) \/ (i = a /\ k < n)
        /\ \A i \in Page : IsStart(Z, i) <=> i = p \/ IsStart(S, i)
        /\ \A i \in Page : IsChunks(Z, i) <=> IsChunks(S, i)
        /\ k < n => a \in Page /\ Z[a] = Run(m) /\ S[a] = Run(0)
    <2>1. Takes(S, p, k, Z)
      BY <1>1, TakeTiling
    <2>. QED
      BY <2>1, Zenon DEF Takes
  <1>5. /\ B \subseteq Page /\ p \in B
        /\ \A i \in Page : IsTile(S, i) /\ i # p => i \notin B
        /\ \A i \in B : i # p => ~IsTile(S, i)
        /\ \A i \in Page : (IsRun(S, i) \/ IsStart(S, i)) /\ i # p => Block(S, i) \cap B = {}
    BY <1>1, BlockFacts, Zenon
  <1>. HIDE DEF n
  <1>6. p \in Int /\ 0 <= p /\ p < NPages /\ NPages \in Int /\ k \in Nat \ {0} /\ n \in Int
    BY <1>2, <1>3, Numbers DEF Page
  <1>7. /\ a \in Int /\ e \in Int /\ m \in Nat \ {0} /\ p < a /\ a <= e /\ e = a + m - 1 /\ e \in Page /\ p + k <= NPages
        /\ (m > 1 => a < e) /\ T = p .. a - 1 /\ a + m = p + n
    <2>1. p + k - 1 = a - 1 /\ a \in Int
      BY <1>6
    <2>2. T = p .. a - 1
      BY <2>1
    <2>3. a \in Int /\ e \in Int /\ m \in Nat \ {0} /\ p < a /\ a <= e /\ e = a + m - 1 /\ p + k <= NPages
      BY <1>2, <1>3, <1>6
    <2>4. e \in Page /\ (m > 1 => a < e) /\ a + m = p + n
      BY <1>2, <1>3, <1>6 DEF Page
    <2>. QED
      BY <2>2, <2>3, <2>4
  <1>8. B = p .. e
    BY DEF Block, n
  <1>9. T \subseteq B /\ a \in B /\ e \in B /\ a \notin T /\ e \notin T /\ p \in T /\ p # a /\ p # e
    BY <1>6, <1>7, <1>8
  <1>. HIDE DEF T, a, e, m, B, Z
  <1>10. p \in L /\ HomeOf(S)[p] = FreeHead /\ S[p].tag = "run"
    BY DEF Listed, HomeOf, IsRun
  <1>11. /\ X[p] \in Node /\ V[p].ptr \in Node /\ X[p] # p /\ V[p].ptr # p
         /\ X[p] \in L \/ X[p] = FreeHead
         /\ V[p].ptr \in L \/ V[p].ptr = FreeHead
         /\ X[p] \in Page => V[X[p]].type = V[p].type /\ HomeOf(S)[X[p]] = FreeHead
    BY <1>10, PoolLinks
  <1>12. X[p] \notin B /\ V[p].ptr \notin B
    BY <1>1, <1>5, <1>10, <1>11, Nodes DEF Listed
  <1>13. /\ IsPool(t)
         /\ t = [slab |-> [S EXCEPT ![a] = Run(m)], next |-> t.next, prev |-> t.prev,
                 pfree |-> q.pfree, total |-> q.total, used |-> q.used]
         /\ \A i \in Node : t.next[i] = IF i = V[p].ptr THEN a ELSE IF i = a THEN X[p] ELSE X[i]
         /\ \A i \in Node : t.prev[i] = IF i = X[p] THEN PagePtr(a)
                                        ELSE IF i = a THEN V[p]
                                        ELSE IF i = e THEN PagePtr(a) ELSE V[i]
    <2>1. a \in Page /\ a = p + k /\ e = p + S[p].n - 1 /\ m = S[p].n - k /\ e \in Page /\ k \in Nat /\ m \in Nat
      BY <1>3, <1>4, <1>6, <1>7 DEF a, e, m, n
    <2>. QED
      BY <2>1, <1>1, <1>11, SplitPool
  <1>. HIDE DEF t
  <1>14. /\ r = [slab |-> r.slab, next |-> r.next, prev |-> r.prev,
                 pfree |-> r.pfree, total |-> t.total, used |-> t.used]
         /\ r.next \in [Node -> Node \cup {NoPage}]
         /\ r.prev \in [Node -> [ptr : Node \cup {NoPage}, type : SlabTypes]]
         /\ r.slab = [i \in Page |-> IF i = p THEN Start(k) ELSE IF i \in T THEN Busy ELSE t.slab[i]]
         /\ \A i \in Node : r.next[i] = IF i \in T THEN NoPage ELSE t.next[i]
         /\ \A i \in Node : r.prev[i] = IF i \in T THEN Unlinked("page") ELSE t.prev[i]
    <2>1. t = IF S[p].n > k THEN SplitRun(q, p, k) ELSE Unlink(q, p)
      BY <1>3, <1>6 DEF t, n
    <2>2. TakeOf(t, p, k, r)
      BY <2>1, <1>13, TakePool
    <2>. QED
      BY <2>2, Zenon DEF T, TakeOf
  <1>15. r.slab = Z
    <2>1. \A i \in Page : (t.slab)[i] = IF i = a THEN Run(m) ELSE S[i]
      BY <1>1, <1>13 DEF Descriptors
    <2>2. \A i \in Page : i \in T /\ i # p <=> i \in p + 1 .. p + k - 1
      BY <1>6, Numbers DEF T, Page
    <2>3. Z = [i \in Page |-> IF i = p THEN Start(k)
                    ELSE IF i \in p + 1 .. p + k - 1 THEN Busy
                    ELSE IF i = a /\ k < n THEN Run(m) ELSE S[i]]
      BY DEF Z, Taken, a, m, n
    <2>4. Z = [i \in Page |-> IF i = p THEN Start(k) ELSE IF i \in T THEN Busy ELSE t.slab[i]]
      BY <2>1, <2>2, <2>3, <1>3
    <2>. QED
      BY <2>4, <1>14
  <1>16. /\ \A i \in Node : i \notin B => r.next[i] = IF i = V[p].ptr THEN a ELSE X[i]
         /\ \A i \in Node : i \notin B => r.prev[i] = IF i = X[p] THEN PagePtr(a) ELSE V[i]
         /\ \A i \in T : r.next[i] = NoPage /\ r.prev[i] = Unlinked("page")
         /\ r.next[a] = X[p] /\ r.prev[a] = V[p]
         /\ \A i \in B : i \notin T /\ i # a => r.next[i] = X[i] /\ r.prev[i] = IF i = e THEN PagePtr(a) ELSE V[i]
         /\ e # a => r.prev[e] = PagePtr(a)
    <2>1. B \subseteq Node /\ T \subseteq Node
      BY <1>5, <1>9, Nodes
    <2>. QED
      BY <2>1, <1>9, <1>12, <1>13, <1>14
  <1>17. IsPool(r)
    BY <1>4, <1>14, <1>15 DEF IsPool
  <1>18. Listed(Z, {}) = (L \ {p}) \cup {a} /\ a \notin L
    <2>1. \A i \in Page : IsTile(S, i) /\ i # p => (Partial(Z, i) <=> Partial(S, i))
      BY <1>4 DEF Partial, IsTile
    <2>2. \A i \in Page : Partial(Z, i) <=> Partial(S, i)
      BY <2>1, <1>4, <1>10 DEF Partial, IsTile, IsChunks
    <2>3. a \notin L
      BY <1>1, <1>5, <1>9
    <2>. QED
      BY <2>2, <2>3, <1>3, <1>4, <1>10 DEF Listed, Partial, IsChunks
  <1>19. \A i \in L \ {p} : i \notin B /\ i \in Page /\ Z[i] = S[i] /\ HomeOf(Z)[i] = HomeOf(S)[i]
    BY <1>1, <1>4, <1>5 DEF Listed, HomeOf
  <1>20. HomeOf(Z)[a] = FreeHead
    BY <1>3, <1>4, Fields DEF HomeOf
  <1>21. Chained(r.next, Ptr(r.prev), Listed(Z, {}), HomeOf(Z))
    <2>. DEFINE P == Ptr(V)
                P2 == Ptr(r.prev)
                H == HomeOf(S)
                H2 == HomeOf(Z)
                X2 == r.next
    <2>1. /\ \A i \in Node : P[i] = V[i].ptr
          /\ \A i \in Node : P2[i] = r.prev[i].ptr
      BY DEF Ptr
    <2>2. PagePtr(a).ptr = a
      BY DEF PagePtr, Link
    <2>3. \A i \in L \ {p} : i \in Node /\ i \notin B
      BY <1>19, Nodes
    <2>4. \A i \in Heads : i \in Node /\ i \notin B
      BY <1>5, Nodes
    <2>5. a \in Node /\ p \in Node /\ a \in Page
      BY <1>3, <1>4, Nodes
    <2>. HIDE DEF P, P2, H, H2, X2, L
    <2>6. X2[a] = X[p] /\ \A i \in (L \ {p}) \cup Heads : X2[i] = IF i = P[p] THEN a ELSE X[i]
      BY <2>1, <2>3, <2>4, <2>5, <1>16 DEF X2
    <2>7. P2[a] = P[p] /\ \A i \in L \ {p} : P2[i] = IF i = X[p] THEN a ELSE P[i]
      BY <2>1, <2>2, <2>3, <2>5, <1>16
    <2>8. H2[a] = H[p] /\ \A i \in L \ {p} : H2[i] = H[i]
      BY <1>10, <1>19, <1>20 DEF H, H2
    <2>9. Replaces(X, P, L, H, X2, P2, H2, p, a)
      BY <2>6, <2>7, <2>8 DEF Replaces
    <2>10. Chained(X, P, L, H) /\ Homed(L, H)
      BY <1>1 DEF P, L, H
    <2>11. Chained(X2, P2, (L \ {p}) \cup {a}, H2)
      BY <2>5, <2>9, <2>10, <1>10, <1>18, ReplaceList
    <2>. QED
      BY <2>11, <1>18 DEF X2, P2, H2
  <1>22. Unlisted(Z, r.next, {})
    <2>. SUFFICES ASSUME NEW i \in Page, i \notin Listed(Z, {}) PROVE r.next[i] = NoPage
      BY DEF Unlisted
    <2>1. i # a /\ (i \in L => i = p) /\ i \in Node
      BY <1>18, Nodes
    <2>2. i \notin L => X[i] = NoPage
      BY <1>1 DEF Unlisted
    <2>3. CASE i \in T
      BY <2>3, <1>16
    <2>4. CASE i \in B /\ i \notin T
      BY <2>1, <2>2, <2>4, <1>9, <1>16
    <2>5. CASE i \notin B
      <3>1. i # V[p].ptr
        BY <2>1, <2>5, <1>5, <1>11, Nodes
      <3>. QED
        BY <3>1, <2>1, <2>2, <2>5, <1>5, <1>16
    <2>. QED
      BY <2>3, <2>4, <2>5
  <1>23. Typed(Z, r.prev, {})
    <2>. SUFFICES ASSUME NEW i \in Page
                  PROVE  r.prev[i].type = IF Z[i].tag = "chunks" THEN TypeOf(Z[i].n) ELSE "page"
      BY DEF Typed
    <2>1. V[i].type = (IF S[i].tag = "chunks" THEN TypeOf(S[i].n) ELSE "page") /\ V[p].type = "page" /\ i \in Node
      BY <1>1, <1>10, Nodes DEF Typed
    <2>2. (Z[i].tag = "chunks" <=> S[i].tag = "chunks") /\ (S[i].tag = "chunks" => Z[i] = S[i])
      BY <1>4, <1>10 DEF IsChunks, IsTile
    <2>3. (Unlinked("page")).type = "page" /\ PagePtr(a).type = "page"
      BY DEF Unlinked, Link, PagePtr
    <2>4. i \in B => S[i].tag # "chunks"
      BY <1>5, <1>10 DEF IsTile, IsChunks
    <2>5. CASE i \in B
      BY <2>1, <2>2, <2>3, <2>4, <2>5, <1>16
    <2>6. CASE i \notin B
      <3>1. i = X[p] => V[i].type = "page"
        BY <2>1, <1>11
      <3>. QED
        BY <3>1, <2>1, <2>2, <2>3, <2>6, <1>16
    <2>. QED
      BY <2>5, <2>6
  <1>24. Tails(Z, r.prev, {})
    <2>. SUFFICES ASSUME NEW i \in Page, IsRun(Z, i), Z[i].n > 1, i + Z[i].n \in Page
                  PROVE  r.prev[i + Z[i].n - 1].ptr = i
      BY DEF Tails
    <2>1. CASE i = a
      <3>1. Z[i].n = m /\ m > 1
        BY <2>1, <1>3, <1>4, Fields
      <3>2. i + Z[i].n - 1 = e /\ e # a
        BY <2>1, <3>1, <1>7
      <3>. QED
        BY <3>2, <2>1, <1>16 DEF PagePtr, Link
    <2>2. CASE i # a
      <3>1. i # p /\ IsRun(S, i) /\ Z[i] = S[i]
        BY <2>2, <1>4 DEF IsTile
      <3>. DEFINE j == i + S[i].n - 1
      <3>2. V[j].ptr = i
        BY <3>1, <1>1 DEF Tails
      <3>3. j \in Block(S, i) /\ j # i
        <4>1. i \in Int /\ S[i].n \in Nat /\ S[i].n > 1
          BY <3>1, <1>1, Numbers DEF Page, Descriptors
        <4>. QED
          BY <4>1 DEF Block
      <3>4. j \in Page /\ ~IsTile(S, j)
        BY <3>1, <3>3, <1>1, BlockFacts
      <3>5. j \notin B
        BY <3>1, <3>3, <1>5
      <3>. HIDE DEF j
      <3>6. j # X[p] /\ j \in Node
        BY <3>4, <1>1, <1>11, Nodes
      <3>7. r.prev[j].ptr = i
        BY <3>2, <3>5, <3>6, <1>16
      <3>. QED
        BY <3>1, <3>7 DEF j
    <2>. QED
      BY <2>1, <2>2
  <1>25. Apart(Z, {})
    <2>. SUFFICES ASSUME NEW i \in Page, NEW j \in Page, IsRun(Z, i), IsRun(Z, j), i + Z[i].n = j PROVE FALSE
      BY DEF Apart
    <2>1. CASE i = a
      <3>1. Z[i].n = m
        BY <2>1, <1>3, <1>4, Fields
      <3>2. j = p + n /\ j # a
        BY <2>1, <3>1, <1>7
      <3>3. IsRun(S, j)
        BY <3>2, <1>4
      <3>. QED
        BY <3>2, <3>3, <1>1 DEF Apart, n
    <2>2. CASE i # a
      <3>1. i # p /\ IsRun(S, i) /\ Z[i] = S[i]
        BY <2>2, <1>4 DEF IsTile
      <3>2. j # a => IsRun(S, j)
        BY <1>4
      <3>3. CASE j # a
        BY <3>1, <3>2, <3>3, <1>1 DEF Apart
      <3>4. CASE j = a
        <4>1. i < p => i + S[i].n <= p
          BY <3>1, <1>1, NoOverlap
        <4>2. i < p \/ p + n <= i
          BY <3>1, <1>1, NoOverlap DEF n
        <4>3. i \in Int /\ S[i].n \in Nat /\ i + S[i].n = a
          BY <3>1, <3>4, <1>1, Numbers DEF Page, Descriptors
        <4>. DEFINE w == S[i].n
        <4>4. w \in Nat /\ i + w = a /\ (i < p => i + w <= p)
          BY <4>1, <4>3
        <4>. HIDE DEF w
        <4>5. a \in Int /\ p < a /\ a + m = p + n /\ m \in Nat \ {0} /\ p \in Int /\ n \in Int
          BY <1>6, <1>7
        <4>6. i \in Int
          BY <4>3
        <4>7. ~(i < p)
          BY <4>4, <4>5, <4>6
        <4>8. a + m <= i
          BY <4>2, <4>5, <4>7
        <4>. QED
          BY <4>4, <4>5, <4>6, <4>8
      <3>. QED
        BY <3>3, <3>4
    <2>. QED
      BY <2>1, <2>2
  <1>26. Sound(r, {})
    BY <1>4, <1>15, <1>17, <1>21, <1>22, <1>23, <1>24, <1>25 DEF Sound
  <1>27. ASSUME NEW h \in Heads, h # FreeHead
         PROVE  r.next[h] = X[h]
    <2>1. h \in Node /\ h \notin B /\ h # V[p].ptr
      BY <1>1, <1>5, <1>11, <1>27, Nodes DEF Homed
    <2>. QED
      BY <2>1, <1>16
  <1>. QED
    BY <1>15, <1>26, <1>27 DEF Z, Took

\* A whole free run is taken.
LEMMA TakeWholeSound ==
    ASSUME NEW q, Sound(q, {}), NEW p \in Page, IsRun(q.slab, p), NEW k, k = q.slab[p].n,
           NEW r, r = TakeRun(q, p, k)
    PROVE  Took(q, p, k, r)
  <1>. DEFINE S == q.slab
              X == q.next
              V == q.prev
              L == Listed(S, {})
              B == Block(S, p)
              Z == Taken(S, p, k)
              t == Unlink(q, p)
  <1>1. /\ IsPool(q) /\ S \in Descriptors /\ Tiling(S)
        /\ X \in [Node -> Node \cup {NoPage}]
        /\ V \in [Node -> [ptr : Node \cup {NoPage}, type : SlabTypes]]
        /\ Homed(L, HomeOf(S)) /\ Chained(X, Ptr(V), L, HomeOf(S))
        /\ Unlisted(S, X, {}) /\ Typed(S, V, {}) /\ Tails(S, V, {}) /\ Apart(S, {})
        /\ \A i \in L : IsTile(S, i)
    BY SoundFields, Zenon
  <1>2. k \in Nat \ {0} /\ p + k <= NPages
    BY <1>1, NoOverlap, Zenon
  <1>3. k \in 1 .. S[p].n /\ ~(k < S[p].n) /\ ~(S[p].n > k)
    BY <1>2
  <1>4. /\ Z \in Descriptors /\ Tiling(Z)
        /\ Z[p] = Start(k)
        /\ \A i \in Page : IsTile(S, i) /\ i # p => Z[i] = S[i]
        /\ \A i \in Page : IsRun(Z, i) <=> i # p /\ IsRun(S, i)
        /\ \A i \in Page : IsStart(Z, i) <=> i = p \/ IsStart(S, i)
        /\ \A i \in Page : IsChunks(Z, i) <=> IsChunks(S, i)
    <2>1. Takes(S, p, k, Z)
      BY <1>1, <1>3, TakeTiling
    <2>. QED
      BY <2>1, <1>3, Zenon DEF Takes
  <1>5. /\ B \subseteq Page /\ p \in B
        /\ \A i \in Page : IsTile(S, i) /\ i # p => i \notin B
        /\ \A i \in B : i # p => ~IsTile(S, i)
        /\ \A i \in Page : (IsRun(S, i) \/ IsStart(S, i)) /\ i # p => Block(S, i) \cap B = {}
    BY <1>1, BlockFacts, Zenon
  <1>6. B = p .. p + k - 1
    BY DEF Block
  <1>. HIDE DEF B, Z
  <1>10. p \in L /\ HomeOf(S)[p] = FreeHead /\ S[p].tag = "run"
    BY DEF Listed, HomeOf, IsRun
  <1>11. /\ X[p] \in Node /\ V[p].ptr \in Node /\ X[p] # p /\ V[p].ptr # p
         /\ X[p] \in L \/ X[p] = FreeHead
         /\ V[p].ptr \in L \/ V[p].ptr = FreeHead
         /\ X[p] \in Page => V[X[p]].type = V[p].type /\ HomeOf(S)[X[p]] = FreeHead
    BY <1>10, PoolLinks
  <1>12. X[p] \notin B /\ V[p].ptr \notin B
    BY <1>1, <1>5, <1>10, <1>11, Nodes DEF Listed
  <1>13. /\ IsPool(t)
         /\ t = [slab |-> S, next |-> t.next, prev |-> t.prev,
                 pfree |-> q.pfree, total |-> q.total, used |-> q.used]
         /\ \A i \in Node : t.next[i] = IF i = V[p].ptr THEN X[p] ELSE X[i]
         /\ \A i \in Node : t.prev[i] = IF i = X[p] THEN V[p] ELSE V[i]
    BY <1>1, <1>11, UnlinkPool
  <1>. HIDE DEF t
  <1>14. /\ r = [slab |-> r.slab, next |-> r.next, prev |-> r.prev,
                 pfree |-> r.pfree, total |-> t.total, used |-> t.used]
         /\ r.next \in [Node -> Node \cup {NoPage}]
         /\ r.prev \in [Node -> [ptr : Node \cup {NoPage}, type : SlabTypes]]
         /\ r.slab = [i \in Page |-> IF i = p THEN Start(k) ELSE IF i \in p .. p + k - 1 THEN Busy ELSE t.slab[i]]
         /\ \A i \in Node : r.next[i] = IF i \in B THEN NoPage ELSE t.next[i]
         /\ \A i \in Node : r.prev[i] = IF i \in B THEN Unlinked("page") ELSE t.prev[i]
    <2>1. t = IF S[p].n > k THEN SplitRun(q, p, k) ELSE Unlink(q, p)
      BY <1>3 DEF t
    <2>2. TakeOf(t, p, k, r)
      BY <2>1, <1>13, TakePool
    <2>. QED
      BY <2>2, <1>6, Zenon DEF TakeOf
  <1>15. r.slab = Z
    <2>1. t.slab = S
      BY <1>13
    <2>2. \A i \in Page : i \in p .. p + k - 1 /\ i # p <=> i \in p + 1 .. p + k - 1
      BY <1>2, Numbers DEF Page
    <2>3. Z = [i \in Page |-> IF i = p THEN Start(k)
                    ELSE IF i \in p + 1 .. p + k - 1 THEN Busy ELSE S[i]]
      BY <1>3 DEF Z, Taken
    <2>4. Z = [i \in Page |-> IF i = p THEN Start(k) ELSE IF i \in p .. p + k - 1 THEN Busy ELSE t.slab[i]]
      BY <2>1, <2>2, <2>3
    <2>. QED
      BY <2>4, <1>14
  <1>16. /\ \A i \in Node : i \notin B => r.next[i] = IF i = V[p].ptr THEN X[p] ELSE X[i]
         /\ \A i \in Node : i \notin B => r.prev[i] = IF i = X[p] THEN V[p] ELSE V[i]
         /\ \A i \in B : r.next[i] = NoPage /\ r.prev[i] = Unlinked("page")
    <2>1. B \subseteq Node
      BY <1>5, Nodes
    <2>2. /\ \A i \in Node : i \notin B => r.next[i] = t.next[i] /\ r.prev[i] = t.prev[i]
          /\ \A i \in Node : i \in B => r.next[i] = NoPage /\ r.prev[i] = Unlinked("page")
      BY <1>14
    <2>. QED
      BY <2>1, <2>2, <1>13
  <1>17. IsPool(r)
    BY <1>4, <1>14, <1>15 DEF IsPool
  <1>18. Listed(Z, {}) = L \ {p}
    <2>1. \A i \in Page : IsTile(S, i) /\ i # p => (Partial(Z, i) <=> Partial(S, i))
      BY <1>4 DEF Partial, IsTile
    <2>2. \A i \in Page : Partial(Z, i) <=> Partial(S, i)
      BY <2>1, <1>4, <1>10 DEF Partial, IsTile, IsChunks
    <2>. QED
      BY <2>2, <1>4, <1>10 DEF Listed, Partial, IsChunks
  <1>19. \A i \in L \ {p} : i \notin B /\ i \in Page /\ Z[i] = S[i] /\ HomeOf(Z)[i] = HomeOf(S)[i]
    BY <1>1, <1>4, <1>5 DEF Listed, HomeOf
  <1>21. Chained(r.next, Ptr(r.prev), Listed(Z, {}), HomeOf(Z))
    <2>. DEFINE P == Ptr(V)
                P2 == Ptr(r.prev)
                H == HomeOf(S)
                H2 == HomeOf(Z)
                X2 == r.next
    <2>1. /\ \A i \in Node : P[i] = V[i].ptr
          /\ \A i \in Node : P2[i] = r.prev[i].ptr
      BY DEF Ptr
    <2>3. \A i \in L \ {p} : i \in Node /\ i \notin B
      BY <1>19, Nodes
    <2>4. \A i \in Heads : i \in Node /\ i \notin B
      BY <1>5, Nodes
    <2>5. p \in Node
      BY Nodes
    <2>. HIDE DEF P, P2, H, H2, X2, L
    <2>6. \A i \in (L \ {p}) \cup Heads : X2[i] = IF i = P[p] THEN X[p] ELSE X[i]
      BY <2>1, <2>3, <2>4, <2>5, <1>16 DEF X2
    <2>7. \A i \in L \ {p} : P2[i] = IF i = X[p] THEN P[p] ELSE P[i]
      BY <2>1, <2>3, <2>5, <1>16
    <2>8. \A i \in L \ {p} : H2[i] = H[i]
      BY <1>19 DEF H, H2
    <2>9. Leaves(X, P, L, H, X2, P2, H2, p)
      BY <2>6, <2>7, <2>8 DEF Leaves
    <2>10. Chained(X, P, L, H) /\ Homed(L, H)
      BY <1>1 DEF P, L, H
    <2>11. Chained(X2, P2, L \ {p}, H2)
      BY <2>9, <2>10, <1>10, UnlinkList
    <2>. QED
      BY <2>11, <1>18 DEF X2, P2, H2
  <1>22. Unlisted(Z, r.next, {})
    <2>. SUFFICES ASSUME NEW i \in Page, i \notin Listed(Z, {}) PROVE r.next[i] = NoPage
      BY DEF Unlisted
    <2>1. (i \in L => i = p) /\ i \in Node
      BY <1>18, Nodes
    <2>2. i \notin L => X[i] = NoPage
      BY <1>1 DEF Unlisted
    <2>3. CASE i \in B
      BY <2>3, <1>16
    <2>5. CASE i \notin B
      <3>1. i # V[p].ptr
        BY <2>1, <2>5, <1>5, <1>11, Nodes
      <3>. QED
        BY <3>1, <2>1, <2>2, <2>5, <1>5, <1>16
    <2>. QED
      BY <2>3, <2>5
  <1>23. Typed(Z, r.prev, {})
    <2>. SUFFICES ASSUME NEW i \in Page
                  PROVE  r.prev[i].type = IF Z[i].tag = "chunks" THEN TypeOf(Z[i].n) ELSE "page"
      BY DEF Typed
    <2>1. V[i].type = (IF S[i].tag = "chunks" THEN TypeOf(S[i].n) ELSE "page") /\ V[p].type = "page" /\ i \in Node
      BY <1>1, <1>10, Nodes DEF Typed
    <2>2. (Z[i].tag = "chunks" <=> S[i].tag = "chunks") /\ (S[i].tag = "chunks" => Z[i] = S[i])
      BY <1>4, <1>10 DEF IsChunks, IsTile
    <2>3. (Unlinked("page")).type = "page"
      BY DEF Unlinked, Link
    <2>4. i \in B => S[i].tag # "chunks"
      BY <1>5, <1>10 DEF IsTile, IsChunks
    <2>5. CASE i \in B
      BY <2>1, <2>2, <2>3, <2>4, <2>5, <1>16
    <2>6. CASE i \notin B
      <3>1. i = X[p] => V[i].type = "page"
        BY <2>1, <1>11
      <3>. QED
        BY <3>1, <2>1, <2>2, <2>6, <1>16
    <2>. QED
      BY <2>5, <2>6
  <1>24. Tails(Z, r.prev, {})
    <2>. SUFFICES ASSUME NEW i \in Page, IsRun(Z, i), Z[i].n > 1, i + Z[i].n \in Page
                  PROVE  r.prev[i + Z[i].n - 1].ptr = i
      BY DEF Tails
    <2>1. i # p /\ IsRun(S, i) /\ Z[i] = S[i]
      BY <1>4 DEF IsTile
    <2>. DEFINE j == i + S[i].n - 1
    <2>2. V[j].ptr = i
      BY <2>1, <1>1 DEF Tails
    <2>3. j \in Block(S, i) /\ j # i
      <4>1. i \in Int /\ S[i].n \in Nat /\ S[i].n > 1
        BY <2>1, <1>1, Numbers DEF Page, Descriptors
      <4>. QED
        BY <4>1 DEF Block
    <2>4. j \in Page /\ ~IsTile(S, j)
      BY <2>1, <2>3, <1>1, BlockFacts
    <2>5. j \notin B
      BY <2>1, <2>3, <1>5
    <2>. HIDE DEF j
    <2>6. j # X[p] /\ j \in Node
      BY <2>4, <1>1, <1>11, Nodes
    <2>7. r.prev[j].ptr = i
      BY <2>2, <2>5, <2>6, <1>16
    <2>. QED
      BY <2>1, <2>7 DEF j
  <1>25. Apart(Z, {})
    <2>. SUFFICES ASSUME NEW i \in Page, NEW j \in Page, IsRun(Z, i), IsRun(Z, j), i + Z[i].n = j PROVE FALSE
      BY DEF Apart
    <2>1. IsRun(S, i) /\ Z[i] = S[i] /\ IsRun(S, j)
      BY <1>4 DEF IsTile
    <2>. QED
      BY <2>1, <1>1 DEF Apart
  <1>26. Sound(r, {})
    BY <1>4, <1>15, <1>17, <1>21, <1>22, <1>23, <1>24, <1>25 DEF Sound
  <1>27. ASSUME NEW h \in Heads, h # FreeHead
         PROVE  r.next[h] = X[h]
    <2>1. h \in Node /\ h \notin B /\ h # V[p].ptr
      BY <1>1, <1>5, <1>11, <1>27, Nodes DEF Homed
    <2>. QED
      BY <2>1, <1>16
  <1>. QED
    BY <1>15, <1>26, <1>27 DEF Z, Took

LEMMA TakeSound ==
    ASSUME NEW q, Sound(q, {}), NEW p \in Page, IsRun(q.slab, p), NEW k \in 1 .. q.slab[p].n,
           NEW r, r = TakeRun(q, p, k)
    PROVE  Took(q, p, k, r)
  <1>1. q.slab[p].n \in Nat
    BY DEF Sound, IsPool, Descriptors
  <1>2. k = q.slab[p].n \/ k < q.slab[p].n
    BY <1>1
  <1>3. CASE k < q.slab[p].n
    BY <1>3, TakeSplitSound
  <1>4. CASE k = q.slab[p].n
    BY <1>4, TakeWholeSound, Zenon
  <1>. QED
    BY <1>2, <1>3, <1>4

(***************************************************************************)
(* Pages of chunks.                                                        *)
(***************************************************************************)
LEMMA ChunkListed ==
    ASSUME NEW S, NEW p \in Page, NEW s, NEW map, NEW Z, Chunked(S, p, s, map, Z), ~IsRun(S, p)
    PROVE  /\ map # ChunkSet(s) => Listed(Z, {}) = Listed(S, {}) \cup {p}
           /\ map = ChunkSet(s) => Listed(Z, {}) = Listed(S, {}) \ {p}
           /\ \A i \in Page : i # p => HomeOf(Z)[i] = HomeOf(S)[i]
           /\ HomeOf(Z)[p] = SlotHead(s)
  <1>1. Z[p] = Chunks(s, map) /\ \A i \in Page : i # p => Z[i] = S[i]
    BY DEF Chunked
  <1>2. Z[p].tag = "chunks" /\ Z[p].n = s /\ Z[p].map = map
    BY <1>1, Fields
  <1>3. \A i \in Page : i # p => /\ IsRun(Z, i) <=> IsRun(S, i)
                                 /\ Partial(Z, i) <=> Partial(S, i)
    BY <1>1 DEF IsRun, Partial, IsChunks
  <1>4. ~IsRun(Z, p) /\ (Partial(Z, p) <=> map # ChunkSet(s))
    BY <1>2 DEF IsRun, Partial, IsChunks
  <1>5. \A i \in Page : i # p => (i \in Listed(Z, {}) <=> i \in Listed(S, {}))
    BY <1>3 DEF Listed
  <1>6. p \in Listed(Z, {}) <=> map # ChunkSet(s)
    BY <1>4 DEF Listed
  <1>7. Listed(Z, {}) \subseteq Page /\ Listed(S, {}) \subseteq Page
    BY DEF Listed
  <1>. QED
    BY <1>1, <1>2, <1>5, <1>6, <1>7 DEF HomeOf

\* What an operation on the chunks of a page may change in the links.
ChunkMove(q, p, s, map, r) ==
    /\ \A i \in Page : i # p /\ i \notin Listed(q.slab, {}) => r.next[i] = NoPage
    /\ map = ChunkSet(s) => r.next[p] = NoPage
    /\ \A i \in Page : i # p => r.prev[i].type = q.prev[i].type
    /\ r.prev[p].type = TypeOf(s)
    /\ \A i \in Page : ~IsTile(q.slab, i) => r.prev[i] = q.prev[i]

LEMMA ChunkSound ==
    ASSUME NEW q, Sound(q, {}), NEW p \in Page, NEW s, NEW map, NEW r, IsPool(r), ~IsRun(q.slab, p),
           Chunked(q.slab, p, s, map, r.slab), ChunkMove(q, p, s, map, r),
           Chained(r.next, Ptr(r.prev), Listed(r.slab, {}), HomeOf(r.slab))
    PROVE  Sound(r, {})
  <1>. DEFINE S == q.slab
              V == q.prev
              Z == r.slab
  <1>1. /\ S \in Descriptors /\ Tiling(S)
        /\ Unlisted(S, q.next, {}) /\ Typed(S, V, {}) /\ Tails(S, V, {}) /\ Apart(S, {})
    BY SoundFields, Zenon
  <1>2. /\ Z \in Descriptors /\ Tiling(Z)
        /\ Z[p] = Chunks(s, map)
        /\ \A i \in Page : i # p => Z[i] = S[i]
        /\ \A i \in Page : IsRun(Z, i) <=> IsRun(S, i)
    BY Zenon DEF Chunked
  <1>3. /\ map # ChunkSet(s) => Listed(Z, {}) = Listed(S, {}) \cup {p}
        /\ map = ChunkSet(s) => Listed(Z, {}) = Listed(S, {}) \ {p}
    BY ChunkListed
  <1>4. /\ \A i \in Page : i # p /\ i \notin Listed(S, {}) => r.next[i] = NoPage
        /\ map = ChunkSet(s) => r.next[p] = NoPage
        /\ \A i \in Page : i # p => r.prev[i].type = V[i].type
        /\ r.prev[p].type = TypeOf(s)
        /\ \A i \in Page : ~IsTile(S, i) => r.prev[i] = V[i]
    BY DEF ChunkMove
  <1>. HIDE DEF S, V, Z
  <1>5. Unlisted(Z, r.next, {})
    BY <1>3, <1>4 DEF Unlisted
  <1>6. Typed(Z, r.prev, {})
    BY <1>1, <1>2, <1>4, Fields DEF Typed
  <1>7. Tails(Z, r.prev, {})
    <2>. SUFFICES ASSUME NEW i \in Page, IsRun(Z, i), Z[i].n > 1, i + Z[i].n \in Page
                  PROVE  r.prev[i + Z[i].n - 1].ptr = i
      BY DEF Tails
    <2>1. i # p /\ IsRun(S, i) /\ Z[i] = S[i]
      BY <1>2 DEF S
    <2>. DEFINE j == i + S[i].n - 1
    <2>2. V[j].ptr = i
      BY <2>1, <1>1 DEF Tails
    <2>3. j \in Block(S, i) /\ j # i
      <3>1. i \in Int /\ S[i].n \in Nat /\ S[i].n > 1
        BY <2>1, <1>1, Numbers DEF Page, Descriptors
      <3>. QED
        BY <3>1 DEF Block
    <2>4. j \in Page /\ ~IsTile(S, j)
      BY <2>1, <2>3, <1>1, BlockFacts
    <2>. HIDE DEF j
    <2>5. r.prev[j].ptr = i
      BY <2>2, <2>4, <1>4
    <2>. QED
      BY <2>1, <2>5 DEF j
  <1>8. Apart(Z, {})
    <2>. SUFFICES ASSUME NEW i \in Page, NEW j \in Page, IsRun(Z, i), IsRun(Z, j), i + Z[i].n = j PROVE FALSE
      BY DEF Apart
    <2>1. IsRun(S, i) /\ Z[i] = S[i] /\ IsRun(S, j)
      BY <1>2 DEF S
    <2>. QED
      BY <2>1, <1>1 DEF Apart
  <1>. QED
    BY <1>2, <1>5, <1>6, <1>7, <1>8 DEF Sound, Z

\* The map of a new page of chunks.
LEMMA NewMapOK ==
    ASSUME NEW s \in Shift
    PROVE  MapOK(s, NewMap(s)) /\ NewMap(s) # ChunkSet(s)
  <1>. DEFINE v == Reserved(s)
              c == ChunksOf(s)
  <1>1. v \in Nat /\ c \in Nat /\ v + 2 <= c
    BY ChunkFacts
  <1>. HIDE DEF v, c
  <1>2. 0 .. v - 1 \subseteq 0 .. v /\ 0 .. v \subseteq 0 .. c - 1 /\ ~(0 .. v \subseteq 0 .. v - 1)
    <2>1. v \in 0 .. v /\ v \notin 0 .. v - 1
      BY <1>1
    <2>. QED
      BY <2>1, <1>1
  <1>3. 0 .. v # 0 .. c - 1
    <2>1. v + 1 \in 0 .. c - 1 /\ v + 1 \notin 0 .. v
      BY <1>1
    <2>. QED
      BY <2>1
  <1>. QED
    BY <1>2, <1>3 DEF MapOK, NewMap, ChunkSet, ReservedSet, v, c

LEMMA NewChunkSound ==
    ASSUME NEW q, Sound(q, {}), NEW p \in Page, IsRun(q.slab, p), NEW s \in Shift,
           q.next[SlotHead(s)] = SlotHead(s), NEW r, r = NewChunkPage(q, p, s)
    PROVE  /\ Sound(r, {})
           /\ r.slab = [Taken(q.slab, p, 1) EXCEPT ![p] = Chunks(s, NewMap(s))]
           /\ Chunked(Taken(q.slab, p, 1), p, s, NewMap(s), r.slab)
  <1>. DEFINE u == TakeRun(q, p, 1)
              h == SlotHead(s)
              map == NewMap(s)
              S == Taken(q.slab, p, 1)
              Z == [u.slab EXCEPT ![p] = Chunks(s, map)]
              X == [u.next EXCEPT ![p] = h, ![h] = p]
              V == [u.prev EXCEPT ![p] = Link(h, TypeOf(s))]
  <1>1. Sound(u, {}) /\ u.slab = S /\ u.next[h] = h
    <2>1. 1 \in 1 .. q.slab[p].n
      <3>1. q.slab[p].n \in Nat \ {0}
        BY NoOverlap DEF Sound, IsPool
      <3>. QED
        BY <3>1
    <2>2. Took(q, p, 1, u)
      BY <2>1, TakeSound
    <2>. QED
      BY <2>2, Nodes DEF Took
  <1>2. /\ u = [slab |-> u.slab, next |-> u.next, prev |-> u.prev,
                pfree |-> u.pfree, total |-> u.total, used |-> u.used]
        /\ u.slab \in Descriptors
        /\ u.next \in [Node -> Node \cup {NoPage}]
        /\ u.prev \in [Node -> [ptr : Node \cup {NoPage}, type : SlabTypes]]
    BY <1>1 DEF Sound, IsPool
  <1>. DEFINE tt == [u.total EXCEPT ![s] = u.total[s] + ChunkCapacity(s)]
              uu == [u.used EXCEPT ![s] = u.used[s] + 1]
  <1>3. r = [u EXCEPT !.slab = Z, !.next = X, !.prev = V, !.total = tt, !.used = uu]
    BY DEF NewChunkPage
  <1>4. h \in Heads /\ h \in Node /\ h \notin Page /\ p \in Node /\ h # p
    BY Nodes
  <1>5. MapOK(s, map) /\ map # ChunkSet(s)
    BY NewMapOK
  <1>6. S[p] = Start(1)
    BY DEF Taken
  <1>7. Tiling(u.slab)
    BY <1>1 DEF Sound
  <1>. HIDE DEF u, h, map, S, tt, uu
  <1>8. /\ X \in [Node -> Node \cup {NoPage}]
        /\ X[p] = h /\ X[h] = p /\ \A i \in Node : i # p /\ i # h => X[i] = u.next[i]
    BY <1>2, <1>4
  <1>9. /\ V \in [Node -> [ptr : Node \cup {NoPage}, type : SlabTypes]]
        /\ V[p] = Link(h, TypeOf(s)) /\ \A i \in Node : i # p => V[i] = u.prev[i]
    <2>1. Link(h, TypeOf(s)) \in [ptr : Node \cup {NoPage}, type : SlabTypes]
      BY <1>4 DEF Link, TypeOf, SlabTypes
    <2>. QED
      BY <2>1, <1>2, <1>4
  <1>10. Chunked(S, p, s, map, Z)
    BY <1>1, <1>2, <1>5, <1>6, <1>7, ChunkTiling
  <1>. HIDE DEF X, V, Z
  <1>11. r = [slab |-> Z, next |-> X, prev |-> V, pfree |-> u.pfree, total |-> tt, used |-> uu]
    BY <1>2, <1>3
  <1>12. r.slab = Z /\ r.next = X /\ r.prev = V
    BY <1>11
  <1>13. Z \in Descriptors
    BY <1>10 DEF Chunked
  <1>14. IsPool(r)
    <2>1. r = [slab |-> r.slab, next |-> r.next, prev |-> r.prev,
               pfree |-> r.pfree, total |-> r.total, used |-> r.used]
      BY <1>11
    <2>. QED
      BY <2>1, <1>8, <1>9, <1>12, <1>13 DEF IsPool
  <1>15. ~IsRun(S, p) /\ ~IsChunks(S, p)
    BY <1>6, Fields DEF IsRun, IsChunks
  <1>16. /\ Listed(Z, {}) = Listed(S, {}) \cup {p}
         /\ \A i \in Page : i # p => HomeOf(Z)[i] = HomeOf(S)[i]
         /\ HomeOf(Z)[p] = h
    BY <1>5, <1>10, <1>15, ChunkListed DEF h
  <1>17. p \notin Listed(S, {})
    BY <1>15 DEF Listed, Partial
  <1>18. Chained(X, Ptr(V), Listed(Z, {}), HomeOf(Z))
    <2>. DEFINE L == Listed(S, {})
                P == Ptr(u.prev)
                P2 == Ptr(V)
                H == HomeOf(S)
                H2 == HomeOf(Z)
                Y == u.next
    <2>1. /\ \A i \in Node : P[i] = u.prev[i].ptr
          /\ \A i \in Node : P2[i] = V[i].ptr
      BY DEF Ptr
    <2>2. Homed(L, H) /\ Chained(Y, P, L, H)
      BY <1>1, SoundFields
    <2>3. \A i \in L : i \in Page /\ i \in Node /\ i # p /\ i # h
      BY <1>4, <1>17, Nodes DEF Listed
    <2>4. \A i \in Heads : i \in Node /\ i # p
      BY Nodes
    <2>5. Link(h, TypeOf(s)).ptr = h
      BY DEF Link
    <2>. HIDE DEF L, P, P2, H, H2, Y
    <2>6. X[p] = Y[h] /\ X[h] = p /\ \A i \in L \cup Heads : i # h => X[i] = Y[i]
      BY <2>3, <2>4, <1>1, <1>8 DEF Y
    <2>7. P2[p] = h /\ \A i \in L : P2[i] = IF i = Y[h] THEN p ELSE P[i]
      BY <2>1, <2>3, <2>5, <1>1, <1>4, <1>9 DEF Y
    <2>8. H2[p] = h /\ \A i \in L : H2[i] = H[i]
      BY <2>3, <1>16 DEF H, H2
    <2>9. Comes(Y, P, L, H, X, P2, H2, p, h)
      BY <2>6, <2>7, <2>8 DEF Comes
    <2>10. p \notin L
      BY <1>17 DEF L
    <2>11. Chained(X, P2, L \cup {p}, H2)
      BY <2>2, <2>9, <2>10, <1>4, PushList
    <2>. QED
      BY <2>11, <1>16 DEF P2, H2, L
  <1>19. ChunkMove(u, p, s, map, r)
    <2>1. \A i \in Page : i \in Node /\ i # h
      BY <1>4, Nodes
    <2>2. \A i \in Page : i \notin Listed(S, {}) => u.next[i] = NoPage
      BY <1>1 DEF Sound, Unlisted
    <2>3. IsTile(u.slab, p)
      BY <1>1, <1>6, Fields DEF IsTile, IsStart
    <2>4. Link(h, TypeOf(s)).type = TypeOf(s)
      BY DEF Link
    <2>. QED
      BY <2>1, <2>2, <2>3, <2>4, <1>1, <1>5, <1>8, <1>9, <1>12 DEF ChunkMove
  <1>20. Sound(r, {})
    BY <1>1, <1>10, <1>12, <1>14, <1>15, <1>18, <1>19, ChunkSound
  <1>. QED
    BY <1>1, <1>10, <1>12, <1>20 DEF S, map, Z

\* The least chunk that is not used.
LEMMA FreeChunk ==
    ASSUME NEW s, NEW map, MapOK(s, map), map # ChunkSet(s)
    PROVE  /\ Min(ChunkSet(s) \ map) \in ChunkSet(s) \ map
           /\ MapOK(s, map \cup {Min(ChunkSet(s) \ map)})
  <1>. DEFINE T == ChunkSet(s) \ map
              c == Min(T)
  <1>1. T \in SUBSET Nat /\ T # {}
    <2>1. s \in Shift /\ map \subseteq ChunkSet(s)
      BY DEF MapOK
    <2>2. ChunkSet(s) \subseteq Nat
      BY <2>1, ChunkFacts DEF ChunkSet
    <2>. QED
      BY <2>1, <2>2
  <1>2. \E m \in T : \A y \in T : m <= y
    <2>. HIDE DEF T
    <2>. QED
      BY <1>1, Least
  <1>3. c \in T
    <2>. HIDE DEF T
    <2>. QED
      BY <1>2 DEF Min
  <1>. HIDE DEF c
  <1>4. MapOK(s, map \cup {c})
    BY <1>3 DEF MapOK
  <1>. QED
    BY <1>3, <1>4 DEF c

\* The map of a page changes, and nothing else.
Remap(q, p, s, map, uu) ==
    [slab |-> [q.slab EXCEPT ![p] = Chunks(s, map)], next |-> q.next, prev |-> q.prev,
     pfree |-> q.pfree, total |-> q.total, used |-> uu]

Remaps(q, p, map, uu, r) == r = [q EXCEPT !.slab[p].map = map, !.used = uu]

LEMMA RemapIs ==
    ASSUME NEW q, IsPool(q), NEW p \in Page, NEW s, NEW old, q.slab[p] = Chunks(s, old), NEW map, NEW uu,
           NEW r, Remaps(q, p, map, uu, r)
    PROVE  r = Remap(q, p, s, map, uu)
  <1>. DEFINE Z == [q.slab EXCEPT ![p] = [q.slab[p] EXCEPT !.map = map]]
  <1>1. q = [slab |-> q.slab, next |-> q.next, prev |-> q.prev,
             pfree |-> q.pfree, total |-> q.total, used |-> q.used]
    BY DEF IsPool
  <1>2. [q.slab[p] EXCEPT !.map = map] = Chunks(s, map)
    BY DEF Chunks
  <1>3. Z = [q.slab EXCEPT ![p] = Chunks(s, map)]
    BY <1>2
  <1>4. r = [q EXCEPT !.slab = Z, !.used = uu]
    BY DEF Remaps
  <1>. HIDE DEF Z
  <1>5. r = [slab |-> Z, next |-> q.next, prev |-> q.prev, pfree |-> q.pfree, total |-> q.total, used |-> uu]
    BY <1>1, <1>4
  <1>. QED
    BY <1>3, <1>5 DEF Remap

LEMMA RemapPool ==
    ASSUME NEW q, Sound(q, {}), NEW p \in Page, IsChunks(q.slab, p), NEW s, s = q.slab[p].n,
           NEW map, MapOK(s, map), NEW uu, NEW r, r = Remap(q, p, s, map, uu)
    PROVE  /\ Chunked(q.slab, p, s, map, r.slab) /\ IsPool(r)
           /\ r = [slab |-> r.slab, next |-> q.next, prev |-> q.prev,
                   pfree |-> q.pfree, total |-> q.total, used |-> uu]
  <1>. DEFINE Z == [q.slab EXCEPT ![p] = Chunks(s, map)]
  <1>1. /\ q.slab \in Descriptors /\ Tiling(q.slab)
        /\ q.next \in [Node -> Node \cup {NoPage}]
        /\ q.prev \in [Node -> [ptr : Node \cup {NoPage}, type : SlabTypes]]
    BY DEF Sound, IsPool
  <1>2. Chunked(q.slab, p, s, map, Z)
    BY <1>1, ChunkTiling
  <1>3. Z \in Descriptors
    BY <1>2 DEF Chunked
  <1>4. r = [slab |-> Z, next |-> q.next, prev |-> q.prev, pfree |-> q.pfree, total |-> q.total, used |-> uu]
    BY DEF Remap
  <1>. HIDE DEF Z
  <1>5. r.slab = Z /\ r.next = q.next /\ r.prev = q.prev /\ r.pfree = q.pfree /\ r.total = q.total /\ r.used = uu
    BY <1>4
  <1>. QED
    BY <1>1, <1>2, <1>3, <1>4, <1>5 DEF IsPool

\* The type and the links of a page of chunks.
LEMMA ChunkLinks ==
    ASSUME NEW q, Sound(q, {}), NEW p \in Page, IsChunks(q.slab, p)
    PROVE  /\ q.slab[p] = Chunks(q.slab[p].n, q.slab[p].map) /\ MapOK(q.slab[p].n, q.slab[p].map)
           /\ q.slab[p].n \in Shift
           /\ q.prev[p].type = TypeOf(q.slab[p].n)
           /\ HomeOf(q.slab)[p] = SlotHead(q.slab[p].n)
           /\ p \in Listed(q.slab, {}) <=> q.slab[p].map # ChunkSet(q.slab[p].n)
           /\ p \notin Listed(q.slab, {}) => q.next[p] = NoPage
           /\ ~IsRun(q.slab, p)
  <1>1. q.slab \in Descriptors /\ Tiling(q.slab) /\ Typed(q.slab, q.prev, {}) /\ Unlisted(q.slab, q.next, {})
    BY DEF Sound, IsPool
  <1>2. /\ q.slab[p] = Chunks(q.slab[p].n, q.slab[p].map) /\ MapOK(q.slab[p].n, q.slab[p].map)
        /\ q.slab[p].n \in Shift
    BY <1>1, ListedPages
  <1>3. q.slab[p].tag = "chunks"
    BY DEF IsChunks
  <1>. QED
    BY <1>1, <1>2, <1>3 DEF Typed, Unlisted, HomeOf, Listed, IsRun, Partial, IsChunks

\* A change of the map that leaves the page in its list.
LEMMA RemapSound ==
    ASSUME NEW q, Sound(q, {}), NEW p \in Page, Partial(q.slab, p), NEW s, s = q.slab[p].n,
           NEW map, MapOK(s, map), map # ChunkSet(s), NEW uu
    PROVE  Sound(Remap(q, p, s, map, uu), {})
  <1>. DEFINE r == Remap(q, p, s, map, uu)
              S == q.slab
              Z == r.slab
  <1>0. IsChunks(S, p) /\ S[p].map # ChunkSet(s)
    BY DEF Partial
  <1>1. /\ Chunked(S, p, s, map, Z) /\ IsPool(r)
        /\ r = [slab |-> Z, next |-> q.next, prev |-> q.prev,
                pfree |-> q.pfree, total |-> q.total, used |-> uu]
    BY <1>0, RemapPool
  <1>. HIDE DEF r
  <1>2. r.next = q.next /\ r.prev = q.prev
    BY <1>1
  <1>3. /\ q.prev[p].type = TypeOf(s) /\ HomeOf(S)[p] = SlotHead(s) /\ p \in Listed(S, {}) /\ ~IsRun(S, p)
    BY <1>0, ChunkLinks
  <1>4. /\ Listed(Z, {}) = Listed(S, {}) \cup {p}
        /\ \A i \in Page : i # p => HomeOf(Z)[i] = HomeOf(S)[i]
        /\ HomeOf(Z)[p] = SlotHead(s)
    BY <1>1, <1>3, ChunkListed
  <1>5. Listed(Z, {}) = Listed(S, {}) /\ \A i \in Listed(S, {}) : HomeOf(Z)[i] = HomeOf(S)[i]
    BY <1>3, <1>4 DEF Listed
  <1>6. Chained(r.next, Ptr(r.prev), Listed(Z, {}), HomeOf(Z))
    <2>. DEFINE L == Listed(S, {})
                P == Ptr(q.prev)
                H == HomeOf(S)
                H2 == HomeOf(Z)
                Y == q.next
    <2>1. Homed(L, H) /\ Chained(Y, P, L, H)
      BY SoundFields
    <2>2. Same(Y, P, L, H, Y, P, H2)
      BY <1>5 DEF Same
    <2>. HIDE DEF L, P, H, H2, Y
    <2>3. Chained(Y, P, L, H2)
      BY <2>1, <2>2, SameList
    <2>. QED
      BY <2>3, <1>2, <1>5 DEF L, P, H2, Y
  <1>7. ChunkMove(q, p, s, map, r)
    <2>1. \A i \in Page : i \notin Listed(S, {}) => q.next[i] = NoPage
      BY DEF Sound, Unlisted
    <2>. QED
      BY <2>1, <1>2, <1>3 DEF ChunkMove
  <1>8. Sound(r, {})
    BY <1>1, <1>3, <1>6, <1>7, ChunkSound
  <1>. QED
    BY <1>8 DEF r

\* The last free chunk of a page is taken: the page leaves its list.
FillPage(w, p, s) == [Unlink(w, p) EXCEPT !.next[p] = NoPage, !.prev[p] = Unlinked(TypeOf(s))]

LEMMA FillSound ==
    ASSUME NEW q, Sound(q, {}), NEW p \in Page, Partial(q.slab, p), NEW s, s = q.slab[p].n,
           NEW map, MapOK(s, map), map = ChunkSet(s), NEW uu,
           NEW r, r = FillPage(Remap(q, p, s, map, uu), p, s)
    PROVE  Sound(r, {}) /\ Chunked(q.slab, p, s, map, r.slab)
  <1>. DEFINE w == Remap(q, p, s, map, uu)
              t == Unlink(w, p)
              S == q.slab
              Z == w.slab
              X == q.next
              V == q.prev
              X2 == [t.next EXCEPT ![p] = NoPage]
              V2 == [t.prev EXCEPT ![p] = Unlinked(TypeOf(s))]
  <1>0. IsChunks(S, p) /\ S[p].map # ChunkSet(s)
    BY DEF Partial
  <1>1. /\ Chunked(S, p, s, map, Z) /\ IsPool(w)
        /\ w = [slab |-> Z, next |-> X, prev |-> V,
                pfree |-> q.pfree, total |-> q.total, used |-> uu]
    BY <1>0, RemapPool
  <1>. HIDE DEF w, Z
  <1>2. w.next = X /\ w.prev = V /\ w.slab = Z
    BY <1>1
  <1>3. /\ V[p].type = TypeOf(s) /\ HomeOf(S)[p] = SlotHead(s) /\ p \in Listed(S, {}) /\ ~IsRun(S, p) /\ s \in Shift
    BY <1>0, ChunkLinks
  <1>4. /\ Listed(Z, {}) = Listed(S, {}) \ {p}
        /\ \A i \in Page : i # p => HomeOf(Z)[i] = HomeOf(S)[i]
    BY <1>1, <1>3, ChunkListed
  <1>5. /\ X[p] \in Node /\ V[p].ptr \in Node /\ X[p] # p /\ V[p].ptr # p
        /\ X[p] \in Listed(S, {}) \/ X[p] = SlotHead(s)
        /\ V[p].ptr \in Listed(S, {}) \/ V[p].ptr = SlotHead(s)
        /\ X[p] \in Page => V[X[p]].type = V[p].type
    BY <1>3, PoolLinks
  <1>6. /\ IsPool(t)
        /\ t = [slab |-> Z, next |-> t.next, prev |-> t.prev,
                pfree |-> w.pfree, total |-> w.total, used |-> w.used]
        /\ \A i \in Node : t.next[i] = IF i = V[p].ptr THEN X[p] ELSE X[i]
        /\ \A i \in Node : t.prev[i] = IF i = X[p] THEN V[p] ELSE V[i]
    BY <1>1, <1>2, <1>5, UnlinkPool
  <1>. HIDE DEF t
  <1>7. p \in Node /\ Unlinked(TypeOf(s)) \in [ptr : Node \cup {NoPage}, type : SlabTypes]
    BY Nodes DEF Unlinked, Link, SlabTypes, TypeOf
  <1>8. /\ t.next \in [Node -> Node \cup {NoPage}]
        /\ t.prev \in [Node -> [ptr : Node \cup {NoPage}, type : SlabTypes]]
        /\ Z \in Descriptors
    BY <1>6 DEF IsPool
  <1>9. /\ X2 \in [Node -> Node \cup {NoPage}] /\ X2[p] = NoPage
        /\ \A i \in Node : i # p => X2[i] = IF i = V[p].ptr THEN X[p] ELSE X[i]
    BY <1>6, <1>7, <1>8
  <1>10. /\ V2 \in [Node -> [ptr : Node \cup {NoPage}, type : SlabTypes]] /\ V2[p] = Unlinked(TypeOf(s))
         /\ \A i \in Node : i # p => V2[i] = IF i = X[p] THEN V[p] ELSE V[i]
    BY <1>6, <1>7, <1>8
  <1>11. r = [t EXCEPT !.next = X2, !.prev = V2]
    BY DEF FillPage, t, w
  <1>. HIDE DEF X2, V2
  <1>12. r = [slab |-> Z, next |-> X2, prev |-> V2, pfree |-> w.pfree, total |-> w.total, used |-> w.used]
    <2>1. t.slab = Z /\ t.pfree = w.pfree /\ t.total = w.total /\ t.used = w.used
      BY <1>6
    <2>2. t = [slab |-> t.slab, next |-> t.next, prev |-> t.prev,
               pfree |-> t.pfree, total |-> t.total, used |-> t.used]
      BY <1>6 DEF IsPool
    <2>3. r = [slab |-> t.slab, next |-> X2, prev |-> V2, pfree |-> t.pfree, total |-> t.total, used |-> t.used]
      BY <2>2, <1>11
    <2>. QED
      BY <2>1, <2>3
  <1>13. r.slab = Z /\ r.next = X2 /\ r.prev = V2 /\ r.pfree = w.pfree /\ r.total = w.total /\ r.used = w.used
    BY <1>12
  <1>14. IsPool(r)
    BY <1>8, <1>9, <1>10, <1>12, <1>13 DEF IsPool
  <1>15. Chained(X2, Ptr(V2), Listed(Z, {}), HomeOf(Z))
    <2>. DEFINE L == Listed(S, {})
                P == Ptr(V)
                P2 == Ptr(V2)
                H == HomeOf(S)
                H2 == HomeOf(Z)
    <2>1. /\ \A i \in Node : P[i] = V[i].ptr
          /\ \A i \in Node : P2[i] = V2[i].ptr
      BY DEF Ptr
    <2>2. Homed(L, H) /\ Chained(X, P, L, H) /\ p \in L
      BY <1>3, SoundFields
    <2>3. \A i \in L \ {p} : i \in Page /\ i \in Node /\ i # p
      BY Nodes DEF Listed
    <2>4. \A i \in Heads : i \in Node /\ i # p
      BY Nodes
    <2>. HIDE DEF L, P, P2, H, H2
    <2>6. \A i \in (L \ {p}) \cup Heads : X2[i] = IF i = P[p] THEN X[p] ELSE X[i]
      BY <2>1, <2>3, <2>4, <1>7, <1>9
    <2>7. \A i \in L \ {p} : P2[i] = IF i = X[p] THEN P[p] ELSE P[i]
      BY <2>1, <2>3, <1>7, <1>10
    <2>8. \A i \in L \ {p} : H2[i] = H[i]
      BY <2>3, <1>4 DEF H, H2
    <2>9. Leaves(X, P, L, H, X2, P2, H2, p)
      BY <2>6, <2>7, <2>8 DEF Leaves
    <2>10. Chained(X2, P2, L \ {p}, H2)
      BY <2>2, <2>9, UnlinkList
    <2>. QED
      BY <2>10, <1>4 DEF P2, H2, L
  <1>16. ChunkMove(q, p, s, map, r)
    <2>1. \A i \in Page : i \notin Listed(S, {}) => X[i] = NoPage
      BY DEF Sound, Unlisted
    <2>2. \A i \in Page : i \in Node /\ i # SlotHead(s)
      BY <1>3, Nodes
    <2>3. \A i \in Page : i \in Listed(S, {}) => IsTile(S, i)
      BY SoundFields
    <2>4. (Unlinked(TypeOf(s))).type = TypeOf(s)
      BY DEF Unlinked, Link
    <2>5. \A i \in Page : i # p /\ i \notin Listed(S, {}) => r.next[i] = NoPage
      BY <2>1, <2>2, <1>5, <1>9, <1>13
    <2>6. \A i \in Page : i # p => r.prev[i].type = V[i].type
      BY <2>2, <1>5, <1>10, <1>13
    <2>7. \A i \in Page : ~IsTile(S, i) => r.prev[i] = V[i]
      BY <2>2, <2>3, <1>3, <1>5, <1>10, <1>13
    <2>. QED
      BY <2>4, <2>5, <2>6, <2>7, <1>9, <1>10, <1>13 DEF ChunkMove
  <1>17. Sound(r, {})
    BY <1>1, <1>3, <1>13, <1>14, <1>15, <1>16, ChunkSound
  <1>. QED
    BY <1>1, <1>13, <1>17

\* A chunk of a page of its slot is taken.
LEMMA TakeChunkSound ==
    ASSUME NEW q, Sound(q, {}), NEW p \in Page, Partial(q.slab, p), NEW s, s = q.slab[p].n,
           NEW c, c = Min(ChunkSet(s) \ q.slab[p].map), NEW r, r = TakeChunk(q, p, s)
    PROVE  /\ Sound(r, {}) /\ Chunked(q.slab, p, s, q.slab[p].map \cup {c}, r.slab)
           /\ c \in ChunkSet(s) \ q.slab[p].map
  <1>. DEFINE old == q.slab[p].map
              map == old \cup {c}
              uu == [q.used EXCEPT ![s] = q.used[s] + 1]
              w == Remap(q, p, s, map, uu)
  <1>1. IsChunks(q.slab, p) /\ old # ChunkSet(s) /\ IsPool(q)
    BY DEF Partial, Sound
  <1>2. q.slab[p] = Chunks(s, old) /\ MapOK(s, old)
    BY <1>1, ChunkLinks
  <1>3. c \in ChunkSet(s) \ old /\ MapOK(s, map)
    BY <1>1, <1>2, FreeChunk
  <1>. DEFINE v == [q EXCEPT !.slab[p].map = map, !.used = uu]
  <1>4. v = w
    <2>. HIDE DEF map, uu, old
    <2>1. Remaps(q, p, map, uu, v)
      BY DEF Remaps
    <2>. HIDE DEF v
    <2>. QED
      BY <2>1, <1>1, <1>2, RemapIs
  <1>5. Chunked(q.slab, p, s, map, w.slab)
    <2>. HIDE DEF map, uu
    <2>. QED
      BY <1>1, <1>3, RemapPool
  <1>6. w.slab[p].map = map
    <2>. HIDE DEF w, map
    <2>1. w.slab[p] = Chunks(s, map)
      BY <1>5, Zenon DEF Chunked
    <2>. QED
      BY <2>1, Fields
  <1>7. r = IF map = ChunkSet(s) THEN FillPage(w, p, s) ELSE w
    <2>1. r = IF v.slab[p].map = ChunkSet(s) THEN FillPage(v, p, s) ELSE v
      BY DEF TakeChunk, FillPage
    <2>. HIDE DEF v, w, map
    <2>. QED
      BY <2>1, <1>4, <1>6
  <1>. HIDE DEF w, map, old, uu
  <1>8. CASE map = ChunkSet(s)
    <2>1. r = FillPage(Remap(q, p, s, map, uu), p, s)
      BY <1>7, <1>8 DEF w
    <2>2. Sound(r, {}) /\ Chunked(q.slab, p, s, map, r.slab)
      BY <2>1, <1>3, <1>8, FillSound
    <2>. QED
      BY <2>2, <1>3 DEF map, old
  <1>9. CASE map # ChunkSet(s)
    <2>1. r = w /\ Sound(w, {})
      BY <1>3, <1>7, <1>9, RemapSound DEF w
    <2>. QED
      BY <2>1, <1>3, <1>5 DEF map, old
  <1>. QED
    BY <1>8, <1>9

Remaps1(q, p, map, r) == r = [q EXCEPT !.slab[p].map = map]

LEMMA RemapIs1 ==
    ASSUME NEW q, IsPool(q), NEW p \in Page, NEW s, NEW old, q.slab[p] = Chunks(s, old), NEW map,
           NEW r, Remaps1(q, p, map, r)
    PROVE  r = Remap(q, p, s, map, q.used)
  <1>. DEFINE Z == [q.slab EXCEPT ![p] = [q.slab[p] EXCEPT !.map = map]]
  <1>1. q = [slab |-> q.slab, next |-> q.next, prev |-> q.prev,
             pfree |-> q.pfree, total |-> q.total, used |-> q.used]
    BY DEF IsPool
  <1>2. [q.slab[p] EXCEPT !.map = map] = Chunks(s, map)
    BY DEF Chunks
  <1>3. Z = [q.slab EXCEPT ![p] = Chunks(s, map)]
    BY <1>2
  <1>4. r = [q EXCEPT !.slab = Z]
    BY DEF Remaps1
  <1>. HIDE DEF Z
  <1>5. r = [slab |-> Z, next |-> q.next, prev |-> q.prev, pfree |-> q.pfree, total |-> q.total, used |-> q.used]
    BY <1>1, <1>4
  <1>. QED
    BY <1>3, <1>5 DEF Remap

\* The statistics have no part in the invariant.
LEMMA SoundOther ==
    ASSUME NEW q, NEW D, Sound(q, D), NEW r,
           r = [slab |-> q.slab, next |-> q.next, prev |-> q.prev,
                pfree |-> r.pfree, total |-> r.total, used |-> r.used]
    PROVE  Sound(r, D)
  <1>1. r.slab = q.slab /\ r.next = q.next /\ r.prev = q.prev
    OBVIOUS
  <1>2. IsPool(r)
    BY <1>1 DEF Sound, IsPool
  <1>. QED
    BY <1>1, <1>2 DEF Sound

Relinked(q, p, s, r) ==
    /\ IsPool(r)
    /\ r = [slab |-> q.slab, next |-> r.next, prev |-> r.prev,
            pfree |-> q.pfree, total |-> q.total, used |-> q.used]
    /\ \A i \in Node : r.next[i] = IF i = SlotHead(s) THEN p
                                   ELSE IF i = p THEN q.next[SlotHead(s)] ELSE q.next[i]
    /\ \A i \in Node : r.prev[i] = IF i = q.next[SlotHead(s)] THEN Link(p, TypeOf(s))
                                   ELSE IF i = p THEN Link(SlotHead(s), TypeOf(s)) ELSE q.prev[i]

LEMMA RelinkPool ==
    ASSUME NEW q, IsPool(q), NEW p \in Page, NEW s \in Shift, q.next[SlotHead(s)] \in Node
    PROVE  Relinked(q, p, s, Relink(q, p, s))
  <1>. DEFINE r == Relink(q, p, s)
              h == SlotHead(s)
              X == [q.next EXCEPT ![p] = q.next[h], ![h] = p]
              V == [q.prev EXCEPT ![p] = Link(h, TypeOf(s)), ![q.next[h]] = Link(p, TypeOf(s))]
  <1>1. /\ q = [slab |-> q.slab, next |-> q.next, prev |-> q.prev,
                pfree |-> q.pfree, total |-> q.total, used |-> q.used]
        /\ q.slab \in Descriptors
        /\ q.next \in [Node -> Node \cup {NoPage}]
        /\ q.prev \in [Node -> [ptr : Node \cup {NoPage}, type : SlabTypes]]
    BY DEF IsPool
  <1>2. p \in Node /\ h \in Node /\ p # h
    BY Nodes
  <1>3. r = [q EXCEPT !.next = X, !.prev = V]
    BY DEF Relink
  <1>. HIDE DEF h, r
  <1>4. /\ Link(h, TypeOf(s)) \in [ptr : Node \cup {NoPage}, type : SlabTypes]
        /\ Link(p, TypeOf(s)) \in [ptr : Node \cup {NoPage}, type : SlabTypes]
    BY <1>2 DEF Link, TypeOf, SlabTypes
  <1>5. /\ X \in [Node -> Node \cup {NoPage}]
        /\ \A i \in Node : X[i] = IF i = h THEN p ELSE IF i = p THEN q.next[h] ELSE q.next[i]
    BY <1>1, <1>2
  <1>6. /\ V \in [Node -> [ptr : Node \cup {NoPage}, type : SlabTypes]]
        /\ \A i \in Node : V[i] = IF i = q.next[h] THEN Link(p, TypeOf(s))
                                  ELSE IF i = p THEN Link(h, TypeOf(s)) ELSE q.prev[i]
    BY <1>1, <1>2, <1>4
  <1>. HIDE DEF X, V
  <1>7. r = [slab |-> q.slab, next |-> X, prev |-> V, pfree |-> q.pfree, total |-> q.total, used |-> q.used]
    BY <1>1, <1>3
  <1>8. r.slab = q.slab /\ r.next = X /\ r.prev = V /\ r.pfree = q.pfree /\ r.total = q.total /\ r.used = q.used
    BY <1>7
  <1>9. IsPool(r)
    BY <1>1, <1>5, <1>6, <1>7, <1>8 DEF IsPool
  <1>. QED
    BY <1>5, <1>6, <1>7, <1>8, <1>9 DEF h, r, Relinked

\* The first page of a list.
LEMMA HeadLinks ==
    ASSUME NEW q, NEW D, Sound(q, D), NEW h \in Heads
    PROVE  /\ q.next[h] \in Node
           /\ q.next[h] = h \/ (q.next[h] \in Listed(q.slab, D) /\ HomeOf(q.slab)[q.next[h]] = h)
  <1>1. PICK rank \in [Page -> Nat] : Linked(q.next, Ptr(q.prev), Listed(q.slab, D), HomeOf(q.slab), rank)
    BY DEF Sound, Chained
  <1>2. q.next[h] = h \/ (q.next[h] \in Listed(q.slab, D) /\ HomeOf(q.slab)[q.next[h]] = h)
    BY <1>1 DEF Linked
  <1>3. Listed(q.slab, D) \subseteq Page
    BY DEF Listed
  <1>. QED
    BY <1>2, <1>3, Nodes

\* A chunk of a full page is given back: the page comes to the head of its slot.
LEMMA GiveFullSound ==
    ASSUME NEW q, Sound(q, {}), NEW p \in Page, IsChunks(q.slab, p), NEW s, s = q.slab[p].n,
           q.slab[p].map = ChunkSet(s), NEW map, MapOK(s, map), map # ChunkSet(s), NEW uu,
           NEW r, r = Remap(Relink(q, p, s), p, s, map, uu)
    PROVE  Sound(r, {}) /\ Chunked(q.slab, p, s, map, r.slab)
  <1>. DEFINE t == Relink(q, p, s)
              h == SlotHead(s)
              S == q.slab
              Z == [S EXCEPT ![p] = Chunks(s, map)]
              X == q.next
              V == q.prev
              L == Listed(S, {})
  <1>1. /\ s \in Shift /\ HomeOf(S)[p] = h /\ p \notin L /\ ~IsRun(S, p)
    BY ChunkLinks
  <1>2. h \in Heads /\ h \in Node /\ h \notin Page /\ p \in Node /\ h # p
    BY <1>1, Nodes
  <1>3. X[h] \in Node /\ (X[h] = h \/ (X[h] \in L /\ HomeOf(S)[X[h]] = h))
    BY <1>2, HeadLinks
  <1>4. /\ IsPool(q) /\ S \in Descriptors /\ Tiling(S) /\ Unlisted(S, X, {}) /\ Typed(S, V, {})
        /\ \A i \in L : IsTile(S, i)
    BY SoundFields, Zenon
  <1>5. /\ IsPool(t)
        /\ t = [slab |-> S, next |-> t.next, prev |-> t.prev,
                pfree |-> q.pfree, total |-> q.total, used |-> q.used]
        /\ \A i \in Node : t.next[i] = IF i = h THEN p ELSE IF i = p THEN X[h] ELSE X[i]
        /\ \A i \in Node : t.prev[i] = IF i = X[h] THEN Link(p, TypeOf(s))
                                       ELSE IF i = p THEN Link(h, TypeOf(s)) ELSE V[i]
    <2>1. Relinked(q, p, s, t)
      BY <1>1, <1>3, <1>4, RelinkPool
    <2>. HIDE DEF t
    <2>. QED
      BY <2>1, Zenon DEF Relinked
  <1>. HIDE DEF t
  <1>6. t.slab = S
    BY <1>5
  <1>7. r = [slab |-> Z, next |-> t.next, prev |-> t.prev, pfree |-> t.pfree, total |-> t.total, used |-> uu]
    BY <1>6 DEF Remap, t
  <1>8. Chunked(S, p, s, map, Z)
    BY <1>4, ChunkTiling
  <1>. HIDE DEF Z
  <1>9. r.slab = Z /\ r.next = t.next /\ r.prev = t.prev
    BY <1>7
  <1>10. IsPool(r)
    <2>1. r = [slab |-> r.slab, next |-> r.next, prev |-> r.prev,
               pfree |-> r.pfree, total |-> r.total, used |-> r.used]
      BY <1>7
    <2>2. Z \in Descriptors
      BY <1>8 DEF Chunked
    <2>. QED
      BY <2>1, <2>2, <1>5, <1>9 DEF IsPool
  <1>11. /\ Listed(Z, {}) = L \cup {p}
         /\ \A i \in Page : i # p => HomeOf(Z)[i] = HomeOf(S)[i]
         /\ HomeOf(Z)[p] = h
    BY <1>1, <1>8, ChunkListed
  <1>12. Chained(t.next, Ptr(t.prev), Listed(Z, {}), HomeOf(Z))
    <2>. DEFINE P == Ptr(V)
                P2 == Ptr(t.prev)
                H == HomeOf(S)
                H2 == HomeOf(Z)
                X2 == t.next
    <2>1. /\ \A i \in Node : P[i] = V[i].ptr
          /\ \A i \in Node : P2[i] = t.prev[i].ptr
      BY DEF Ptr
    <2>2. Homed(L, H) /\ Chained(X, P, L, H)
      BY SoundFields
    <2>3. \A i \in L : i \in Page /\ i \in Node /\ i # p /\ i # h
      BY <1>1, <1>2, Nodes DEF Listed
    <2>4. \A i \in Heads : i \in Node /\ i # p
      BY Nodes
    <2>5. Link(h, TypeOf(s)).ptr = h /\ Link(p, TypeOf(s)).ptr = p
      BY DEF Link
    <2>. HIDE DEF L, P, P2, H, H2, X2, h
    <2>6. X2[p] = X[h] /\ X2[h] = p /\ \A i \in L \cup Heads : i # h => X2[i] = X[i]
      BY <2>3, <2>4, <1>2, <1>5 DEF X2
    <2>7. P2[p] = h /\ \A i \in L : P2[i] = IF i = X[h] THEN p ELSE P[i]
      <3>1. p # X[h]
        BY <2>3, <1>2, <1>3
      <3>. QED
        BY <3>1, <2>1, <2>3, <2>5, <1>2, <1>5
    <2>8. H2[p] = h /\ \A i \in L : H2[i] = H[i]
      BY <2>3, <1>11 DEF H, H2
    <2>9. Comes(X, P, L, H, X2, P2, H2, p, h)
      BY <2>6, <2>7, <2>8 DEF Comes
    <2>10. p \notin L
      BY <1>1
    <2>11. Chained(X2, P2, L \cup {p}, H2)
      BY <2>2, <2>9, <2>10, <1>2, PushList
    <2>. QED
      BY <2>11, <1>11 DEF P2, H2, L, X2
  <1>13. ChunkMove(q, p, s, map, r)
    <2>1. \A i \in Page : i \in Node /\ i # h
      BY <1>2, Nodes
    <2>2. \A i \in Page : i \notin L => X[i] = NoPage
      BY <1>4 DEF Unlisted
    <2>3. IsTile(S, p)
      BY DEF IsTile
    <2>4. Link(h, TypeOf(s)).type = TypeOf(s) /\ Link(p, TypeOf(s)).type = TypeOf(s)
      BY DEF Link
    <2>5. X[h] \in Page => V[X[h]].type = TypeOf(s)
      <3>. DEFINE x == X[h]
      <3>1. ASSUME x \in Page PROVE V[x].type = TypeOf(s)
        <4>1. x \in L /\ HomeOf(S)[x] = h
          BY <3>1, <1>2, <1>3
        <4>2. S[x].tag = "chunks" /\ SlotHead(S[x].n) = h
          BY <4>1, <3>1, <1>1, Nodes DEF HomeOf
        <4>3. S[x].n \in Shift
          BY <4>2, <3>1, <1>4, ListedPages DEF IsChunks
        <4>4. S[x].n = s
          BY <4>2, <4>3, <1>1, Nodes
        <4>. QED
          BY <4>2, <4>4, <3>1, <1>4 DEF Typed
      <3>. QED
        BY <3>1
    <2>6. p # X[h]
      BY <1>1, <1>2, <1>3
    <2>7. \A i \in Page : i # p /\ i \notin L => r.next[i] = NoPage
      BY <2>1, <2>2, <1>5, <1>9
    <2>8. \A i \in Page : i # p => r.prev[i].type = V[i].type
      BY <2>1, <2>4, <2>5, <1>5, <1>9, SMTT(20)
    <2>9. \A i \in Page : ~IsTile(S, i) => r.prev[i] = V[i]
      <3>1. \A i \in Page : ~IsTile(S, i) => i # X[h] /\ i # p
        BY <2>1, <2>3, <1>3, <1>4
      <3>. QED
        BY <3>1, <2>1, <1>5, <1>9
    <2>10. r.prev[p].type = TypeOf(s)
      BY <2>4, <2>6, <1>2, <1>5, <1>9
    <2>. QED
      BY <2>7, <2>8, <2>9, <2>10 DEF ChunkMove
  <1>14. Sound(r, {})
    BY <1>1, <1>8, <1>9, <1>10, <1>12, <1>13, ChunkSound
  <1>. QED
    BY <1>8, <1>9, <1>14

(***************************************************************************)
(* Free runs are joined.                                                   *)
(***************************************************************************)
\* The descriptor of a run grows.
Grows(q, a, m, r) == r = [q EXCEPT !.slab[a].n = @ + m]

LEMMA GrowPool ==
    ASSUME NEW q, IsPool(q), NEW a \in Page, NEW n \in Nat, q.slab[a] = Run(n), NEW m \in Nat,
           NEW r, Grows(q, a, m, r)
    PROVE  /\ IsPool(r)
           /\ r = [slab |-> [q.slab EXCEPT ![a] = Run(n + m)], next |-> q.next, prev |-> q.prev,
                   pfree |-> q.pfree, total |-> q.total, used |-> q.used]
  <1>. DEFINE Z == [q.slab EXCEPT ![a] = [q.slab[a] EXCEPT !.n = q.slab[a].n + m]]
  <1>1. /\ q = [slab |-> q.slab, next |-> q.next, prev |-> q.prev,
                pfree |-> q.pfree, total |-> q.total, used |-> q.used]
        /\ q.slab \in Descriptors
        /\ q.next \in [Node -> Node \cup {NoPage}]
        /\ q.prev \in [Node -> [ptr : Node \cup {NoPage}, type : SlabTypes]]
    BY DEF IsPool
  <1>2. [q.slab[a] EXCEPT !.n = q.slab[a].n + m] = Run(n + m)
    <2>1. q.slab[a].n = n
      BY Fields
    <2>2. \A k : [Run(n) EXCEPT !.n = k] = Run(k)
      BY DEF Run
    <2>. QED
      BY <2>1, <2>2
  <1>3. Z = [q.slab EXCEPT ![a] = Run(n + m)]
    BY <1>2
  <1>4. r = [q EXCEPT !.slab = Z]
    BY DEF Grows
  <1>5. Z \in Descriptors
    <2>1. Run(n + m) \in [tag : {"run", "start", "busy", "chunks"}, n : Nat, map : SUBSET Nat]
      BY DEF Run
    <2>. QED
      BY <2>1, <1>1, <1>3 DEF Descriptors
  <1>. HIDE DEF Z
  <1>6. r = [slab |-> Z, next |-> q.next, prev |-> q.prev, pfree |-> q.pfree, total |-> q.total, used |-> q.used]
    BY <1>1, <1>4
  <1>7. r.slab = Z /\ r.next = q.next /\ r.prev = q.prev
    BY <1>6
  <1>8. r = [slab |-> r.slab, next |-> r.next, prev |-> r.prev,
             pfree |-> r.pfree, total |-> r.total, used |-> r.used]
    BY <1>6
  <1>. QED
    BY <1>1, <1>3, <1>5, <1>6, <1>7, <1>8 DEF IsPool

Detaches(q, b, r) ==
    /\ IsPool(r)
    /\ r = [slab |-> [q.slab EXCEPT ![b] = Run(0)], next |-> r.next, prev |-> r.prev,
            pfree |-> q.pfree, total |-> q.total, used |-> q.used]
    /\ \A i \in Node : r.next[i] = IF i = b THEN NoPage ELSE q.next[i]
    /\ \A i \in Node : r.prev[i] = IF i = b THEN Unlinked("page") ELSE q.prev[i]

LEMMA DetachPool ==
    ASSUME NEW q, IsPool(q), NEW b \in Page
    PROVE  Detaches(q, b, Detach(q, b))
  <1>. DEFINE r == Detach(q, b)
  <1>. DEFINE Z == [q.slab EXCEPT ![b] = Run(0)]
              X == [q.next EXCEPT ![b] = NoPage]
              V == [q.prev EXCEPT ![b] = Unlinked("page")]
  <1>1. /\ q = [slab |-> q.slab, next |-> q.next, prev |-> q.prev,
                pfree |-> q.pfree, total |-> q.total, used |-> q.used]
        /\ q.slab \in Descriptors
        /\ q.next \in [Node -> Node \cup {NoPage}]
        /\ q.prev \in [Node -> [ptr : Node \cup {NoPage}, type : SlabTypes]]
    BY DEF IsPool
  <1>2. b \in Node
    BY Nodes
  <1>3. r = [q EXCEPT !.slab = Z, !.next = X, !.prev = V]
    BY DEF Detach
  <1>. HIDE DEF r
  <1>4. X \in [Node -> Node \cup {NoPage}]
    BY <1>1, <1>2
  <1>5. V \in [Node -> [ptr : Node \cup {NoPage}, type : SlabTypes]]
    <2>1. Unlinked("page") \in [ptr : Node \cup {NoPage}, type : SlabTypes]
      BY DEF Unlinked, Link, SlabTypes
    <2>. QED
      BY <2>1, <1>1, <1>2
  <1>6. Z \in Descriptors
    <2>1. Run(0) \in [tag : {"run", "start", "busy", "chunks"}, n : Nat, map : SUBSET Nat]
      BY DEF Run
    <2>. QED
      BY <2>1, <1>1 DEF Descriptors
  <1>7. /\ \A i \in Node : X[i] = IF i = b THEN NoPage ELSE q.next[i]
        /\ \A i \in Node : V[i] = IF i = b THEN Unlinked("page") ELSE q.prev[i]
    BY <1>1, <1>2
  <1>. HIDE DEF X, V, Z
  <1>8. r = [slab |-> Z, next |-> X, prev |-> V, pfree |-> q.pfree, total |-> q.total, used |-> q.used]
    BY <1>1, <1>3
  <1>9. r.slab = Z /\ r.next = X /\ r.prev = V
    BY <1>8
  <1>10. r = [slab |-> r.slab, next |-> r.next, prev |-> r.prev,
             pfree |-> r.pfree, total |-> r.total, used |-> r.used]
    BY <1>8
  <1>11. IsPool(r)
    BY <1>4, <1>5, <1>6, <1>9, <1>10 DEF IsPool
  <1>12. Detaches(q, b, r)
    BY <1>7, <1>8, <1>9, <1>11 DEF Z, Detaches
  <1>. QED
    BY <1>12 DEF r

\* The run at a takes the run at b behind it; e is the one that leaves its list.
JoinOf(q, a, b, e) == Detach(Unlink([q EXCEPT !.slab[a].n = @ + q.slab[b].n], e), b)

Joins(q, a, b, e, r) ==
    /\ IsPool(r) /\ r.slab = Merged(q.slab, a, b)
    /\ \A i \in Node : r.next[i] = IF i = b THEN NoPage
                                   ELSE IF i = q.prev[e].ptr THEN q.next[e] ELSE q.next[i]
    /\ \A i \in Node : r.prev[i] = IF i = b THEN Unlinked("page")
                                   ELSE IF i = q.next[e] THEN q.prev[e] ELSE q.prev[i]

LEMMA JoinPool ==
    ASSUME NEW q, IsPool(q), NEW a \in Page, NEW b \in Page, a # b, NEW e \in Page, NEW n \in Nat, q.slab[a] = Run(n),
           q.next[e] \in Node, q.prev[e].ptr \in Node, NEW r, r = JoinOf(q, a, b, e)
    PROVE  Joins(q, a, b, e, r)
  <1>. DEFINE m == q.slab[b].n
              g == [q EXCEPT !.slab[a].n = @ + m]
              t == Unlink(g, e)
  <1>1. m \in Nat /\ q.slab \in Descriptors
    BY DEF IsPool, Descriptors
  <1>2. r = Detach(t, b)
    BY DEF JoinOf
  <1>3. Grows(q, a, m, g)
    BY DEF Grows
  <1>. HIDE DEF g, m
  <1>4. /\ IsPool(g)
        /\ g = [slab |-> [q.slab EXCEPT ![a] = Run(n + m)], next |-> q.next, prev |-> q.prev,
                pfree |-> q.pfree, total |-> q.total, used |-> q.used]
    BY <1>1, <1>3, GrowPool
  <1>5. g.slab = [q.slab EXCEPT ![a] = Run(n + m)] /\ g.next = q.next /\ g.prev = q.prev
    BY <1>4
  <1>6. g.next[e] \in Node /\ g.prev[e].ptr \in Node
    BY <1>5
  <1>7. /\ IsPool(t)
        /\ t = [slab |-> g.slab, next |-> t.next, prev |-> t.prev,
                pfree |-> g.pfree, total |-> g.total, used |-> g.used]
        /\ \A i \in Node : t.next[i] = IF i = g.prev[e].ptr THEN g.next[e] ELSE g.next[i]
        /\ \A i \in Node : t.prev[i] = IF i = g.next[e] THEN g.prev[e] ELSE g.prev[i]
    BY <1>4, <1>6, UnlinkPool, SMTT(20)
  <1>. HIDE DEF t
  <1>8. t.slab = g.slab /\ IsPool(t)
    BY <1>7
  <1>9. /\ IsPool(r)
        /\ r = [slab |-> [t.slab EXCEPT ![b] = Run(0)], next |-> r.next, prev |-> r.prev,
                pfree |-> t.pfree, total |-> t.total, used |-> t.used]
        /\ \A i \in Node : r.next[i] = IF i = b THEN NoPage ELSE t.next[i]
        /\ \A i \in Node : r.prev[i] = IF i = b THEN Unlinked("page") ELSE t.prev[i]
    <2>1. Detaches(t, b, r)
      BY <1>2, <1>8, DetachPool
    <2>. QED
      BY <2>1, Zenon DEF Detaches
  <1>10. r.slab = [t.slab EXCEPT ![b] = Run(0)]
    BY <1>9
  <1>11. q.slab[a].n = n
    BY Fields
  <1>12. r.slab = Merged(q.slab, a, b)
    BY <1>5, <1>8, <1>10, <1>11 DEF Merged, m
  <1>13. \A i \in Node : r.next[i] = IF i = b THEN NoPage
                                   ELSE IF i = q.prev[e].ptr THEN q.next[e] ELSE q.next[i]
    BY <1>5, <1>7, <1>9
  <1>14. \A i \in Node : r.prev[i] = IF i = b THEN Unlinked("page")
                                   ELSE IF i = q.next[e] THEN q.prev[e] ELSE q.prev[i]
    BY <1>5, <1>7, <1>9
  <1>. QED
    BY <1>9, <1>12, <1>13, <1>14 DEF Joins

LEMMA MergeSound ==
    ASSUME NEW q, NEW a \in Page, NEW b \in Page, NEW d, NEW e,
           (d = a /\ e = b) \/ (d = b /\ e = a), Sound(q, {d}),
           IsRun(q.slab, a), IsRun(q.slab, b), b = a + q.slab[a].n, NEW r, r = JoinOf(q, a, b, e)
    PROVE  Sound(r, {a}) /\ Merges(q.slab, a, b, r.slab)
  <1>. DEFINE S == q.slab
              X == q.next
              V == q.prev
              L == Listed(S, {d})
              Z == r.slab
  <1>1. /\ IsPool(q) /\ S \in Descriptors /\ Tiling(S)
        /\ X \in [Node -> Node \cup {NoPage}]
        /\ V \in [Node -> [ptr : Node \cup {NoPage}, type : SlabTypes]]
        /\ Homed(L, HomeOf(S)) /\ Chained(X, Ptr(V), L, HomeOf(S))
        /\ Unlisted(S, X, {d}) /\ Typed(S, V, {d}) /\ Tails(S, V, {d}) /\ Apart(S, {d})
        /\ \A i \in L : IsTile(S, i)
    BY SoundFields, Zenon
  <1>2. S[a].n \in Nat \ {0} /\ S[a] = Run(S[a].n)
    BY <1>1, NoOverlap, Zenon
  <1>3. a # b /\ a < b /\ e \in Page /\ d \in Page /\ d # e /\ IsRun(S, e)
    <2>1. a \in Int /\ b \in Int
      BY Numbers DEF Page
    <2>. QED
      BY <2>1, <1>2
  <1>4. e \in L /\ HomeOf(S)[e] = FreeHead /\ S[e].tag = "run"
    BY <1>3 DEF Listed, HomeOf, IsRun
  <1>5. /\ X[e] \in Node /\ V[e].ptr \in Node /\ X[e] # e /\ V[e].ptr # e
        /\ X[e] \in L \/ X[e] = FreeHead
        /\ V[e].ptr \in L \/ V[e].ptr = FreeHead
        /\ X[e] \in Page => V[X[e]].type = V[e].type
    BY <1>4, PoolLinks
  <1>6. L \subseteq Page /\ d \notin L
    BY DEF Listed
  <1>7. X[e] # b /\ V[e].ptr # b /\ X[e] # d /\ V[e].ptr # d
    BY <1>3, <1>5, <1>6, Nodes
  <1>8. /\ IsPool(r) /\ Z = Merged(S, a, b)
        /\ \A i \in Node : r.next[i] = IF i = b THEN NoPage
                                   ELSE IF i = V[e].ptr THEN X[e] ELSE X[i]
        /\ \A i \in Node : r.prev[i] = IF i = b THEN Unlinked("page")
                                   ELSE IF i = X[e] THEN V[e] ELSE V[i]
    <2>1. Joins(q, a, b, e, r)
      <3>. DEFINE n == S[a].n
      <3>1. n \in Nat /\ S[a] = Run(n)
        BY <1>2
      <3>. HIDE DEF n
      <3>. QED
        BY <3>1, <1>1, <1>3, <1>5, JoinPool
    <2>. QED
      BY <2>1, Zenon DEF Joins
  <1>9. Merges(S, a, b, Z)
    BY <1>1, <1>8, MergeTiling
  <1>. HIDE DEF Z
  <1>10. /\ Z \in Descriptors /\ Tiling(Z)
         /\ Z[a] = Run(S[a].n + S[b].n) /\ Z[b] = Run(0)
         /\ \A i \in Page : i # a /\ i # b => Z[i] = S[i]
         /\ \A i \in Page : IsRun(Z, i) <=> IsRun(S, i) /\ i # b
         /\ \A i \in Page : IsStart(Z, i) <=> IsStart(S, i)
         /\ \A i \in Page : IsChunks(Z, i) <=> IsChunks(S, i)
    BY <1>9, Zenon DEF Merges
  <1>11. S[a].tag = "run" /\ S[b].tag = "run" /\ Z[a].tag = "run" /\ Z[b].tag = "run" /\ Z[b].n = 0
    BY <1>10, Fields DEF IsRun
  <1>12. Listed(Z, {a}) = L \ {e}
    <2>1. \A i \in Page : Partial(Z, i) <=> Partial(S, i)
      BY <1>10, <1>11 DEF Partial, IsChunks
    <2>2. ~Partial(S, a) /\ ~Partial(S, b)
      BY <1>11 DEF Partial, IsChunks
    <2>. QED
      BY <2>1, <2>2, <1>3, <1>10 DEF Listed
  <1>13. \A i \in L \ {e} : i \in Page /\ i # a /\ i # b /\ i # d
    BY <1>3, <1>6
  <1>14. \A i \in Page : i # a /\ i # b => HomeOf(Z)[i] = HomeOf(S)[i]
    BY <1>10 DEF HomeOf
  <1>15. Chained(r.next, Ptr(r.prev), Listed(Z, {a}), HomeOf(Z))
    <2>. DEFINE P == Ptr(V)
                P2 == Ptr(r.prev)
                H == HomeOf(S)
                H2 == HomeOf(Z)
                X2 == r.next
    <2>1. /\ \A i \in Node : P[i] = V[i].ptr
          /\ \A i \in Node : P2[i] = r.prev[i].ptr
      BY DEF Ptr
    <2>3. \A i \in L \ {e} : i \in Node /\ i # b
      BY <1>13, Nodes
    <2>4. \A i \in Heads : i \in Node /\ i # b
      BY Nodes
    <2>5. e \in Node
      BY <1>3, Nodes
    <2>. HIDE DEF P, P2, H, H2, X2, L
    <2>6. \A i \in (L \ {e}) \cup Heads : X2[i] = IF i = P[e] THEN X[e] ELSE X[i]
      BY <2>1, <2>3, <2>4, <2>5, <1>8 DEF X2
    <2>7. \A i \in L \ {e} : P2[i] = IF i = X[e] THEN P[e] ELSE P[i]
      BY <2>1, <2>3, <2>5, <1>8
    <2>8. \A i \in L \ {e} : H2[i] = H[i]
      BY <1>13, <1>14 DEF H, H2
    <2>9. Leaves(X, P, L, H, X2, P2, H2, e)
      BY <2>6, <2>7, <2>8 DEF Leaves
    <2>10. Chained(X, P, L, H) /\ Homed(L, H)
      BY <1>1 DEF P, L, H
    <2>11. Chained(X2, P2, L \ {e}, H2)
      BY <2>9, <2>10, <1>4, UnlinkList
    <2>. QED
      BY <2>11, <1>12 DEF X2, P2, H2
  <1>16. Unlisted(Z, r.next, {a})
    <2>. SUFFICES ASSUME NEW i \in Page, i # a, i \notin Listed(Z, {a}) PROVE r.next[i] = NoPage
      BY DEF Unlisted
    <2>1. (i \in L => i = e) /\ i \in Node
      BY <1>12, Nodes
    <2>2. CASE i = b
      BY <2>1, <2>2, <1>8
    <2>3. CASE i # b
      <3>1. i # d /\ i # e
        BY <2>3, <1>3
      <3>2. i \notin L /\ X[i] = NoPage
        BY <2>1, <3>1, <1>1 DEF Unlisted
      <3>3. i # V[e].ptr
        BY <3>2, <1>5, Nodes
      <3>. QED
        BY <3>2, <3>3, <2>1, <2>3, <1>8
    <2>. QED
      BY <2>2, <2>3
  <1>17. Typed(Z, r.prev, {a})
    <2>. SUFFICES ASSUME NEW i \in Page, i # a
                  PROVE  r.prev[i].type = IF Z[i].tag = "chunks" THEN TypeOf(Z[i].n) ELSE "page"
      BY DEF Typed
    <2>1. i \in Node
      BY Nodes
    <2>2. CASE i = b
      <3>1. (Unlinked("page")).type = "page"
        BY DEF Unlinked, Link
      <3>. QED
        BY <3>1, <2>1, <2>2, <1>8, <1>11
    <2>3. CASE i # b
      <3>1. i # d /\ Z[i] = S[i]
        BY <2>3, <1>3, <1>10
      <3>2. V[i].type = IF S[i].tag = "chunks" THEN TypeOf(S[i].n) ELSE "page"
        BY <3>1, <1>1 DEF Typed
      <3>3. r.prev[i].type = V[i].type
        BY <2>1, <2>3, <1>5, <1>8
      <3>. QED
        BY <3>1, <3>2, <3>3
    <2>. QED
      BY <2>2, <2>3
  <1>18. Tails(Z, r.prev, {a})
    <2>. SUFFICES ASSUME NEW i \in Page, i # a, IsRun(Z, i), Z[i].n > 1, i + Z[i].n \in Page
                  PROVE  r.prev[i + Z[i].n - 1].ptr = i
      BY DEF Tails
    <2>1. i # b /\ i # d /\ IsRun(S, i) /\ Z[i] = S[i]
      BY <1>3, <1>10
    <2>. DEFINE j == i + S[i].n - 1
    <2>2. V[j].ptr = i
      BY <2>1, <1>1 DEF Tails
    <2>3. j \in Block(S, i) /\ j # i
      <4>1. i \in Int /\ S[i].n \in Nat /\ S[i].n > 1
        BY <2>1, <1>1, Numbers DEF Page, Descriptors
      <4>. QED
        BY <4>1 DEF Block
    <2>4. j \in Page /\ ~IsTile(S, j)
      BY <2>1, <2>3, <1>1, BlockFacts
    <2>. HIDE DEF j
    <2>5. j # b /\ j # X[e] /\ j \in Node
      BY <2>4, <1>1, <1>5, Nodes DEF IsTile
    <2>6. r.prev[j].ptr = i
      BY <2>2, <2>5, <1>8
    <2>. QED
      BY <2>1, <2>6 DEF j
  <1>19. Apart(Z, {a})
    <2>. SUFFICES ASSUME NEW i \in Page, NEW j \in Page, i # a, j # a, IsRun(Z, i), IsRun(Z, j), i + Z[i].n = j PROVE FALSE
      BY DEF Apart
    <2>1. IsRun(S, i) /\ Z[i] = S[i] /\ IsRun(S, j) /\ i # d /\ j # d
      BY <1>3, <1>10
    <2>. QED
      BY <2>1, <1>1 DEF Apart
  <1>20. Sound(r, {a})
    <2>1. Z = r.slab
      BY DEF Z
    <2>2. IsPool(r) /\ Tiling(Z)
      BY <1>8, <1>10
    <2>. QED
      BY <2>1, <2>2, <1>15, <1>16, <1>17, <1>18, <1>19, Zenon DEF Sound
  <1>. QED
    BY <1>9, <1>20 DEF Z

\* How the code tells the first page of a free run.
Told(q, j) ==
    /\ q.prev[j].type = "page" <=> ~IsChunks(q.slab, j)
    /\ q.prev[j].type = "page" /\ q.next[j] # NoPage <=> IsRun(q.slab, j)

LEMMA RunPage ==
    ASSUME NEW q, NEW D, Sound(q, D), NEW j \in Page, j \notin D
    PROVE  Told(q, j)
  <1>1. /\ q.slab \in Descriptors /\ Tiling(q.slab) /\ Typed(q.slab, q.prev, D) /\ Unlisted(q.slab, q.next, D)
    BY SoundFields
  <1>2. q.prev[j].type = "page" <=> ~IsChunks(q.slab, j)
    BY <1>1 DEF Typed, TypeOf, IsChunks
  <1>3. ASSUME IsRun(q.slab, j)
        PROVE  q.next[j] # NoPage
    <2>1. j \in Listed(q.slab, D)
      BY <1>3 DEF Listed
    <2>2. q.next[j] \in Node
      BY <2>1, PoolLinks
    <2>. QED
      BY <2>2, Nodes
  <1>4. IsRun(q.slab, j) => ~IsChunks(q.slab, j)
    BY DEF IsRun, IsChunks
  <1>5. q.next[j] # NoPage /\ ~IsChunks(q.slab, j) => IsRun(q.slab, j)
    BY <1>1 DEF Unlisted, Listed, Partial
  <1>. QED
    BY <1>2, <1>3, <1>4, <1>5 DEF Told

\* Pages that are held stay as they are.
Keeps(S, Z) ==
    \A i \in Page : /\ IsStart(Z, i) <=> IsStart(S, i)
                    /\ IsChunks(Z, i) <=> IsChunks(S, i)
                    /\ IsStart(S, i) \/ IsChunks(S, i) => Z[i] = S[i]

LEMMA MergeKeeps ==
    ASSUME NEW S, NEW Z, NEW a, NEW b, Merges(S, a, b, Z), IsRun(S, a), IsRun(S, b)
    PROVE  Keeps(S, Z)
  <1>1. /\ \A i \in Page : i # a /\ i # b => Z[i] = S[i]
        /\ \A i \in Page : IsStart(Z, i) <=> IsStart(S, i)
        /\ \A i \in Page : IsChunks(Z, i) <=> IsChunks(S, i)
    BY Zenon DEF Merges
  <1>2. \A i \in Page : IsStart(S, i) \/ IsChunks(S, i) => i # a /\ i # b
    BY DEF IsRun, IsStart, IsChunks
  <1>. QED
    BY <1>1, <1>2 DEF Keeps

JoinedNext(q, p, r) ==
    Sound(r, {p}) /\ IsRun(r.slab, p) /\ ~IsRun(r.slab, p + r.slab[p].n) /\ Keeps(q.slab, r.slab)

LEMMA JoinNextSound ==
    ASSUME NEW q, NEW p \in Page, Sound(q, {p}), IsRun(q.slab, p), NEW r, r = JoinNext(q, p)
    PROVE  JoinedNext(q, p, r)
  <1>. DEFINE S == q.slab
              j == p + S[p].n
  <1>1. /\ S \in Descriptors /\ Tiling(S) /\ Apart(S, {p})
    BY SoundFields
  <1>2. S[p].n \in Nat \ {0} /\ p \in Int /\ j # p
    <2>1. S[p].n \in Nat \ {0}
      BY <1>1, NoOverlap, Zenon
    <2>. QED
      BY <2>1, Numbers DEF Page
  <1>3. CASE IsRun(S, j)
    <2>1. j \in Page
      BY <1>3 DEF IsRun
    <2>2. q.prev[j].type = "page" /\ q.next[j] # NoPage
      BY <2>1, <1>2, <1>3, RunPage DEF Told
    <2>3. r = JoinOf(q, p, j, j)
      BY <2>1, <2>2 DEF JoinNext, JoinOf
    <2>. DEFINE m == S[j].n
    <2>4. j = p + S[p].n
      OBVIOUS
    <2>. HIDE DEF j
    <2>5. Sound(r, {p}) /\ Merges(S, p, j, r.slab)
      BY <2>1, <2>3, <2>4, <1>3, MergeSound
    <2>6. /\ r.slab[p] = Run(S[p].n + m)
          /\ \A i \in Page : IsRun(r.slab, i) <=> IsRun(S, i) /\ i # j
      BY <2>5, Zenon DEF Merges
    <2>7. IsRun(r.slab, p)
      BY <2>6, <1>2
    <2>8. m \in Nat \ {0}
      BY <2>1, <1>1, <1>3, NoOverlap, Zenon
    <2>. HIDE DEF m
    <2>9. r.slab[p].n = S[p].n + m
      BY <2>6, Fields
    <2>10. p + r.slab[p].n = j + m /\ j + m # p
      BY <2>4, <2>8, <2>9, <1>2
    <2>11. ASSUME IsRun(r.slab, j + m) PROVE FALSE
      <3>1. j + m \in Page
        BY <2>11 DEF IsRun
      <3>2. IsRun(S, j + m)
        BY <3>1, <2>6, <2>11
      <3>. QED
        BY <3>1, <3>2, <2>1, <2>10, <1>1, <1>2, <1>3 DEF Apart, m
    <2>12. ~IsRun(r.slab, p + r.slab[p].n)
      BY <2>10, <2>11
    <2>13. Keeps(S, r.slab)
      BY <2>5, <1>3, MergeKeeps
    <2>. QED
      BY <2>5, <2>7, <2>12, <2>13 DEF JoinedNext
  <1>4. CASE ~IsRun(S, j)
    <2>1. j \in Page => ~(q.prev[j].type = "page" /\ q.next[j] # NoPage)
      <3>. HIDE DEF j
      <3>1. ASSUME j \in Page PROVE Told(q, j)
        <4>1. j \notin {p}
          BY <1>2
        <4>. QED
          BY <4>1, <3>1, RunPage
      <3>. QED
        BY <3>1, <1>4 DEF Told
    <2>2. r = q
      BY <2>1 DEF JoinNext
    <2>. QED
      BY <2>2, <1>4 DEF JoinedNext, Keeps
  <1>. QED
    BY <1>3, <1>4

\* The free run before a page is found, from its only or from its last page.
FoundBefore(S, p, h) ==
    \/ h = p /\ \A i \in Page : IsRun(S, i) => i + S[i].n # p
    \/ h # p /\ h \in Page /\ IsRun(S, h) /\ p = h + S[h].n

LEMMA RunBeforeFinds ==
    ASSUME NEW q, NEW p \in Page, Sound(q, {p}), IsRun(q.slab, p), NEW h, h = RunBefore(q, p)
    PROVE  FoundBefore(q.slab, p, h)
  <1>. DEFINE S == q.slab
              V == q.prev
              X == q.next
              k == p - 1
  <1>1. /\ S \in Descriptors /\ Tiling(S) /\ Tails(S, V, {p})
    BY SoundFields
  <1>2. p \in Nat /\ k \in Int /\ p = k + 1 /\ NPages \in Nat /\ k # p
    BY Numbers DEF Page
  <1>3. \A i \in Page : i \in Nat
    BY Numbers DEF Page
  <1>4. \A i \in Page : IsRun(S, i) =>
          /\ S[i].n \in Nat \ {0} /\ S[i] = Run(S[i].n)
          /\ \A j \in i + 1 .. i + S[i].n - 1 : S[j] = Run(0)
          /\ \A j \in Page : IsRun(S, j) \/ IsStart(S, j) \/ IsChunks(S, j) => j = i \/ j < i \/ i + S[i].n <= j
    <2>. TAKE i \in Page
    <2>. HAVE IsRun(S, i)
    <2>. QED
      BY <1>1, NoOverlap, Zenon
  \* a run that ends before p has the page before p as its only or as its last one
  <1>5. ASSUME NEW i \in Page, IsRun(S, i), i + S[i].n = p
        PROVE  k \in Page /\ (i = k \/ S[k] = Run(0))
    <2>1. S[i].n \in Nat \ {0} /\ \A j \in i + 1 .. i + S[i].n - 1 : S[j] = Run(0)
      BY <1>4, <1>5, Zenon
    <2>2. k >= 0 /\ i <= k
      BY <2>1, <1>2, <1>3, <1>5
    <2>3. k \in Page
      BY <2>2, <1>2, Numbers DEF Page
    <2>4. i # k => k \in i + 1 .. i + S[i].n - 1
      <3>. DEFINE n == S[i].n
      <3>1. n \in Nat /\ i \in Int /\ i + n = k + 1
        BY <2>1, <1>2, <1>3, <1>5
      <3>. HIDE DEF n, k
      <3>2. k \in Int /\ i <= k
        BY <2>2, <1>2
      <3>3. i # k => k \in i + 1 .. i + n - 1
        BY <3>1, <3>2
      <3>. QED
        BY <3>3 DEF n
    <2>. QED
      BY <2>1, <2>3, <2>4
  <1>. DEFINE head == IF S[k] = Run(0) THEN V[k].ptr ELSE k
  <1>6. h = IF p > 0 /\ V[k].type = "page"
            THEN IF X[head] # NoPage THEN head ELSE p
            ELSE p
    BY DEF RunBefore
  <1>7. CASE k \notin Page
    <2>1. ~(p > 0)
      BY <1>2, <1>7, Numbers DEF Page
    <2>2. h = p
      BY <2>1, <1>6
    <2>. QED
      BY <2>2, <1>5, <1>7 DEF FoundBefore
  <1>8. CASE k \in Page
    <2>1. p > 0
      BY <1>2, <1>3, <1>8
    <2>. HIDE DEF k
    <2>2. CASE IsChunks(S, k)
      <3>1. V[k].type # "page"
        BY <2>2, <1>2, <1>8, RunPage DEF Told
      <3>2. S[k] # Run(0) /\ ~IsRun(S, k)
        BY <2>2, Fields DEF IsChunks, IsRun
      <3>3. h = p
        BY <3>1, <1>6
      <3>. QED
        BY <3>2, <3>3, <1>5 DEF FoundBefore
    <2>3. CASE ~IsChunks(S, k) /\ S[k] # Run(0)
      <3>1. V[k].type = "page" /\ (X[k] # NoPage <=> IsRun(S, k))
        <4>1. Told(q, k)
          BY <1>2, <1>8, RunPage
        <4>. QED
          BY <4>1, <2>3 DEF Told
      <3>2. CASE IsRun(S, k)
        <4>1. h = k
          BY <3>1, <3>2, <2>1, <2>3, <1>6
        <4>2. S[k].n \in Nat \ {0} /\ k + S[k].n <= p
          BY <3>2, <1>2, <1>4, <1>8
        <4>3. p = k + S[k].n
          BY <4>2, <1>2
        <4>. QED
          BY <4>1, <4>3, <3>2, <1>2, <1>8 DEF FoundBefore
      <3>3. CASE ~IsRun(S, k)
        <4>1. h = p
          BY <3>1, <3>3, <2>3, <1>6
        <4>. QED
          BY <4>1, <3>3, <2>3, <1>5 DEF FoundBefore
      <3>. QED
        BY <3>2, <3>3
    <2>4. CASE S[k] = Run(0)
      <3>1. PICK i \in Page : IsRun(S, i) /\ i < k /\ k < i + S[i].n
        BY <2>4, <1>1, <1>8 DEF Tiling
      <3>2. S[i].n \in Nat \ {0} /\ (i = p \/ p < i \/ i + S[i].n <= p)
        BY <3>1, <1>4
      <3>3. i + S[i].n = p /\ S[i].n > 1 /\ i # p
        BY <3>1, <3>2, <1>2, <1>3
      <3>4. V[i + S[i].n - 1].ptr = i
        BY <3>1, <3>3, <1>1 DEF Tails
      <3>5. i + S[i].n - 1 = k
        <4>. DEFINE n == S[i].n
        <4>1. n \in Nat /\ i \in Int /\ i + n = k + 1
          BY <3>2, <3>3, <1>2, <1>3
        <4>. HIDE DEF n
        <4>2. i + n - 1 = k
          BY <4>1, <1>2
        <4>. QED
          BY <4>2 DEF n
      <3>6. V[k].ptr = i
        BY <3>4, <3>5
      <3>7. X[i] # NoPage
        BY <3>1, <3>3, RunPage DEF Told
      <3>8. V[k].type = "page"
        <4>1. ~IsChunks(S, k)
          BY <2>4, Fields DEF IsChunks
        <4>. QED
          BY <4>1, <1>2, <1>8, RunPage DEF Told
      <3>9. h = i
        BY <3>6, <3>7, <3>8, <2>1, <2>4, <1>6
      <3>. QED
        BY <3>1, <3>3, <3>9 DEF FoundBefore
    <2>. QED
      BY <2>2, <2>3, <2>4
  <1>. QED
    BY <1>7, <1>8

Ready(r, h) ==
    /\ h \in Page /\ Sound(r, {h}) /\ IsRun(r.slab, h) /\ ~IsRun(r.slab, h + r.slab[h].n)
    /\ \A i \in Page : IsRun(r.slab, i) => i + r.slab[i].n # h

LEMMA JoinPrevSound ==
    ASSUME NEW q, NEW p \in Page, Sound(q, {p}), IsRun(q.slab, p), ~IsRun(q.slab, p + q.slab[p].n),
           NEW h, h = RunBefore(q, p), NEW r, r = JoinPrev(q, p)
    PROVE  Ready(r, h) /\ Keeps(q.slab, r.slab)
  <1>. DEFINE S == q.slab
  <1>1. FoundBefore(S, p, h)
    BY RunBeforeFinds
  <1>2. CASE h = p
    <2>1. r = q
      BY <1>2 DEF JoinPrev
    <2>2. \A i \in Page : IsRun(S, i) => i + S[i].n # p
      BY <1>1, <1>2 DEF FoundBefore
    <2>. QED
      BY <2>1, <2>2, <1>2 DEF Ready, Keeps
  <1>3. CASE h # p
    <2>1. h \in Page /\ IsRun(S, h) /\ p = h + S[h].n
      BY <1>1, <1>3 DEF FoundBefore
    <2>2. r = JoinOf(q, h, p, h)
      BY <1>3 DEF JoinPrev, JoinOf
    <2>3. Sound(r, {h}) /\ Merges(S, h, p, r.slab)
      BY <2>1, <2>2, MergeSound
    <2>4. /\ r.slab[h] = Run(S[h].n + S[p].n)
          /\ \A i \in Page : i # h /\ i # p => r.slab[i] = S[i]
          /\ \A i \in Page : IsRun(r.slab, i) <=> IsRun(S, i) /\ i # p
      BY <2>3, Zenon DEF Merges
    <2>5. S \in Descriptors /\ Tiling(S) /\ Apart(S, {p})
      BY SoundFields
    <2>6. S[h].n \in Nat \ {0} /\ S[p].n \in Nat \ {0} /\ h \in Int /\ p \in Int
      <3>1. S[h].n \in Nat \ {0} /\ S[p].n \in Nat \ {0}
        BY <2>1, <2>5, NoOverlap, Zenon
      <3>2. \A i \in Page : i \in Int
        BY Numbers DEF Page
      <3>. QED
        BY <3>1, <3>2, <2>1, Zenon
    <2>7. IsRun(r.slab, h)
      BY <2>1, <2>4, <1>3
    <2>8. r.slab[h].n = S[h].n + S[p].n
      BY <2>4, Fields
    <2>9. h + r.slab[h].n = p + S[p].n
      <3>. DEFINE n == S[h].n
                  m == S[p].n
                  g == r.slab[h].n
      <3>1. n \in Nat /\ m \in Nat /\ h \in Int /\ p = h + n /\ g = n + m
        BY <2>1, <2>6, <2>8
      <3>. HIDE DEF n, m, g
      <3>2. h + g = p + m
        BY <3>1
      <3>. QED
        BY <3>2 DEF m, g
    <2>10. ~IsRun(r.slab, p + S[p].n)
      BY <2>4 DEF IsRun
    <2>11. ASSUME NEW i \in Page, IsRun(r.slab, i), i + r.slab[i].n = h PROVE FALSE
      <3>1. i # h
        BY <2>6, <2>8, <2>11
      <3>2. IsRun(S, i) /\ i # p /\ r.slab[i] = S[i]
        BY <3>1, <2>4, <2>11
      <3>. QED
        BY <3>2, <2>1, <2>5, <2>11, <1>3 DEF Apart
    <2>12. Keeps(S, r.slab)
      BY <2>1, <2>3, MergeKeeps
    <2>. QED
      <3>1. ~IsRun(r.slab, h + r.slab[h].n)
        BY <2>9, <2>10
      <3>2. \A i \in Page : IsRun(r.slab, i) => i + r.slab[i].n # h
        BY <2>11
      <3>. QED
        BY <3>1, <3>2, <2>1, <2>3, <2>7, <2>12, Zenon DEF Ready
  <1>. QED
    BY <1>2, <1>3

LEMMA PushPool ==
    ASSUME NEW q, IsPool(q), NEW h \in Page, NEW e \in Page, e = h + q.slab[h].n - 1, q.next[FreeHead] \in Node,
           NEW r, r = PushFree(q, h)
    PROVE  /\ IsPool(r)
           /\ r = [slab |-> q.slab, next |-> r.next, prev |-> r.prev,
                   pfree |-> q.pfree, total |-> q.total, used |-> q.used]
           /\ \A i \in Node : r.next[i] = IF i = FreeHead THEN h ELSE IF i = h THEN q.next[FreeHead] ELSE q.next[i]
           /\ \A i \in Node : r.prev[i] = IF i = q.next[FreeHead] THEN PagePtr(h)
                                          ELSE IF i = h THEN PagePtr(FreeHead)
                                          ELSE IF i = e /\ q.slab[h].n > 1 THEN PagePtr(h) ELSE q.prev[i]
  <1>. DEFINE f == q.next[FreeHead]
              W == IF q.slab[h].n > 1 THEN [q.prev EXCEPT ![e] = PagePtr(h)] ELSE q.prev
              t == IF q.slab[h].n > 1 THEN [q EXCEPT !.prev[e] = PagePtr(h)] ELSE q
              X == [q.next EXCEPT ![h] = f, ![FreeHead] = h]
              V == [W EXCEPT ![h] = PagePtr(FreeHead), ![f] = PagePtr(h)]
  <1>1. /\ q = [slab |-> q.slab, next |-> q.next, prev |-> q.prev,
                pfree |-> q.pfree, total |-> q.total, used |-> q.used]
        /\ q.slab \in Descriptors
        /\ q.next \in [Node -> Node \cup {NoPage}]
        /\ q.prev \in [Node -> [ptr : Node \cup {NoPage}, type : SlabTypes]]
    BY DEF IsPool
  <1>2. h \in Node /\ e \in Node /\ FreeHead \in Node /\ h # FreeHead
    BY Nodes
  <1>3. t = [slab |-> q.slab, next |-> q.next, prev |-> W, pfree |-> q.pfree, total |-> q.total, used |-> q.used]
    BY <1>1
  <1>4. r = [t EXCEPT !.prev = [@ EXCEPT ![h] = PagePtr(FreeHead), ![f] = PagePtr(h)],
                      !.next = [@ EXCEPT ![h] = f, ![FreeHead] = h]]
    BY DEF PushFree
  <1>5. \A i \in Node : PagePtr(i) \in [ptr : Node \cup {NoPage}, type : SlabTypes]
    BY DEF PagePtr, Link, SlabTypes
  <1>6. /\ W \in [Node -> [ptr : Node \cup {NoPage}, type : SlabTypes]]
        /\ \A i \in Node : W[i] = IF i = e /\ q.slab[h].n > 1 THEN PagePtr(h) ELSE q.prev[i]
    BY <1>1, <1>2, <1>5
  <1>. HIDE DEF t, W, f
  <1>7. t.prev = W /\ t.next = q.next
    BY <1>3
  <1>8. r = [t EXCEPT !.prev = V, !.next = X]
    BY <1>4, <1>7
  <1>9. X \in [Node -> Node \cup {NoPage}]
        /\ \A i \in Node : X[i] = IF i = FreeHead THEN h ELSE IF i = h THEN f ELSE q.next[i]
    BY <1>1, <1>2 DEF f
  <1>10. f \in Node
    BY DEF f
  <1>11. V \in [Node -> [ptr : Node \cup {NoPage}, type : SlabTypes]]
         /\ \A i \in Node : V[i] = IF i = f THEN PagePtr(h) ELSE IF i = h THEN PagePtr(FreeHead) ELSE W[i]
    BY <1>2, <1>5, <1>6, <1>10
  <1>. HIDE DEF X, V
  <1>12. r = [slab |-> q.slab, next |-> X, prev |-> V, pfree |-> q.pfree, total |-> q.total, used |-> q.used]
    BY <1>3, <1>8
  <1>13. r.slab = q.slab /\ r.next = X /\ r.prev = V /\ r.pfree = q.pfree /\ r.total = q.total /\ r.used = q.used
    BY <1>12
  <1>14. IsPool(r)
    BY <1>1, <1>9, <1>11, <1>12, <1>13 DEF IsPool
  <1>15. \A i \in Node : r.prev[i] = IF i = f THEN PagePtr(h)
                                     ELSE IF i = h THEN PagePtr(FreeHead)
                                     ELSE IF i = e /\ q.slab[h].n > 1 THEN PagePtr(h) ELSE q.prev[i]
    BY <1>6, <1>11, <1>13
  <1>. QED
    BY <1>9, <1>12, <1>13, <1>14, <1>15 DEF f

LEMMA PushSound ==
    ASSUME NEW q, NEW h, Ready(q, h), NEW r, r = PushFree(q, h)
    PROVE  Sound(r, {}) /\ r.slab = q.slab
  <1>. DEFINE S == q.slab
              X == q.next
              V == q.prev
              L == Listed(S, {h})
              f == X[FreeHead]
              n == S[h].n
              e == h + n - 1
  <1>1. /\ h \in Page /\ Sound(q, {h}) /\ IsRun(S, h) /\ ~IsRun(S, h + n)
        /\ \A i \in Page : IsRun(S, i) => i + S[i].n # h
    BY DEF Ready
  <1>2. /\ IsPool(q) /\ S \in Descriptors /\ Tiling(S)
        /\ Homed(L, HomeOf(S)) /\ Chained(X, Ptr(V), L, HomeOf(S))
        /\ Unlisted(S, X, {h}) /\ Typed(S, V, {h}) /\ Tails(S, V, {h}) /\ Apart(S, {h})
        /\ \A i \in L : IsTile(S, i)
    BY <1>1, SoundFields, Zenon
  <1>3. n \in Nat \ {0} /\ h \in Int
    <2>1. n \in Nat \ {0}
      BY <1>1, <1>2, NoOverlap, Zenon
    <2>. QED
      BY <2>1, <1>1, Numbers DEF Page
  <1>4. /\ Block(S, h) \subseteq Page /\ \A i \in Block(S, h) : i # h => ~IsTile(S, i)
    BY <1>1, <1>2, BlockFacts
  <1>5. e \in Block(S, h) /\ (n > 1 => e # h) /\ (~(n > 1) => e = h)
    BY <1>3 DEF Block
  <1>6. e \in Page /\ (n > 1 => ~IsTile(S, e))
    BY <1>4, <1>5
  <1>7. L \subseteq Page /\ h \notin L
    BY DEF Listed
  <1>8. f \in Node /\ (f = FreeHead \/ (f \in L /\ HomeOf(S)[f] = FreeHead)) /\ f # h
    <2>1. /\ f \in Node
          /\ f = FreeHead \/ (f \in L /\ HomeOf(S)[f] = FreeHead)
      BY <1>1, HeadLinks, Nodes
    <2>. QED
      BY <2>1, <1>1, <1>7, Nodes
  <1>. HIDE DEF L
  <1>9. /\ IsPool(r)
        /\ r = [slab |-> S, next |-> r.next, prev |-> r.prev,
                pfree |-> q.pfree, total |-> q.total, used |-> q.used]
        /\ \A i \in Node : r.next[i] = IF i = FreeHead THEN h ELSE IF i = h THEN f ELSE X[i]
        /\ \A i \in Node : r.prev[i] = IF i = f THEN PagePtr(h)
                                       ELSE IF i = h THEN PagePtr(FreeHead)
                                       ELSE IF i = e /\ n > 1 THEN PagePtr(h) ELSE V[i]
    <2>1. e = h + S[h].n - 1
      OBVIOUS
    <2>. HIDE DEF e
    <2>. QED
      BY <2>1, <1>1, <1>2, <1>6, <1>8, PushPool
  <1>. HIDE DEF e, f
  <1>10. r.slab = S
    BY <1>9
  <1>11. Listed(S, {}) = L \cup {h}
    BY <1>1 DEF Listed, L
  <1>12. HomeOf(S)[h] = FreeHead /\ S[h].tag = "run"
    BY <1>1 DEF HomeOf, IsRun
  <1>13. \A i \in Page : i \in Node /\ i # FreeHead
    BY Nodes
  <1>14. FreeHead \in Node /\ FreeHead \in Heads
    BY Nodes
  <1>15. \A i : (PagePtr(i)).ptr = i /\ (PagePtr(i)).type = "page"
    BY DEF PagePtr, Link
  <1>16. \A i \in L : ~(i = e /\ n > 1)
    BY <1>2, <1>6
  <1>17. Chained(r.next, Ptr(r.prev), Listed(S, {}), HomeOf(S))
    <2>. DEFINE P == Ptr(V)
                P2 == Ptr(r.prev)
                H == HomeOf(S)
                X2 == r.next
    <2>1. /\ \A i \in Node : P[i] = V[i].ptr
          /\ \A i \in Node : P2[i] = r.prev[i].ptr
      BY DEF Ptr
    <2>2. \A i \in L : i \in Page /\ i \in Node /\ i # h /\ i # FreeHead
      BY <1>7, <1>13
    <2>3. \A i \in Heads : i \in Node /\ i # h
      BY <1>1, Nodes
    <2>. HIDE DEF P, P2, H, X2
    <2>6. X2[h] = X[FreeHead] /\ X2[FreeHead] = h /\ \A i \in L \cup Heads : i # FreeHead => X2[i] = X[i]
      BY <2>2, <2>3, <1>1, <1>9, <1>13, <1>14 DEF X2, f
    <2>7. P2[h] = FreeHead /\ \A i \in L : P2[i] = IF i = X[FreeHead] THEN h ELSE P[i]
      <3>1. P2[h] = FreeHead
        BY <2>1, <1>1, <1>8, <1>9, <1>13, <1>15
      <3>2. \A i \in L : P2[i] = IF i = f THEN h ELSE P[i]
        BY <2>1, <2>2, <1>9, <1>15, <1>16
      <3>. QED
        BY <3>1, <3>2 DEF f
    <2>8. H[h] = FreeHead
      BY <1>12 DEF H
    <2>9. Comes(X, P, L, H, X2, P2, H, h, FreeHead)
      BY <2>6, <2>7, <2>8 DEF Comes
    <2>10. Chained(X, P, L, H) /\ Homed(L, H)
      BY <1>2 DEF P, L, H
    <2>11. Chained(X2, P2, L \cup {h}, H)
      BY <2>9, <2>10, <1>1, <1>7, <1>14, PushList
    <2>. QED
      BY <2>11, <1>11 DEF P2, H, X2
  <1>18. Unlisted(S, r.next, {})
    <2>. SUFFICES ASSUME NEW i \in Page, i \notin Listed(S, {}) PROVE r.next[i] = NoPage
      BY DEF Unlisted
    <2>1. i # h /\ i \notin L /\ X[i] = NoPage
      BY <1>2, <1>11 DEF Unlisted, L
    <2>. QED
      BY <2>1, <1>9, <1>13
  <1>19. Typed(S, r.prev, {})
    <2>. SUFFICES ASSUME NEW i \in Page
                  PROVE  r.prev[i].type = IF S[i].tag = "chunks" THEN TypeOf(S[i].n) ELSE "page"
      BY DEF Typed
    <2>1. i \in Node
      BY Nodes
    <2>2. CASE i = h
      BY <2>1, <2>2, <1>8, <1>9, <1>12, <1>15
    <2>3. CASE i # h
      <3>1. V[i].type = IF S[i].tag = "chunks" THEN TypeOf(S[i].n) ELSE "page"
        BY <2>3, <1>2 DEF Typed
      <3>2. i = e /\ n > 1 => S[i].tag # "chunks"
        BY <1>6 DEF IsTile, IsChunks
      <3>3. i = f => S[i].tag # "chunks"
        <4>. SUFFICES ASSUME i = f, S[i].tag = "chunks" PROVE FALSE
          OBVIOUS
        <4>1. HomeOf(S)[i] = FreeHead /\ HomeOf(S)[i] = SlotHead(S[i].n)
          BY <1>8, <1>13 DEF HomeOf
        <4>2. S[i].n \in Shift
          BY <1>2, ListedPages DEF IsChunks
        <4>. QED
          BY <4>1, <4>2, Nodes
      <3>. QED
        BY <3>1, <3>2, <3>3, <2>1, <2>3, <1>9, <1>15
    <2>. QED
      BY <2>2, <2>3
  <1>20. Tails(S, r.prev, {})
    <2>. SUFFICES ASSUME NEW i \in Page, IsRun(S, i), S[i].n > 1, i + S[i].n \in Page
                  PROVE  r.prev[i + S[i].n - 1].ptr = i
      BY DEF Tails
    <2>1. CASE i = h
      <3>1. n > 1 /\ e # h /\ e \in Node
        BY <2>1, <1>5, <1>6, <1>13
      <3>2. r.prev[e].ptr = h
        BY <3>1, <1>9, <1>15
      <3>. QED
        BY <3>2, <2>1 DEF e
    <2>2. CASE i # h
      <3>. DEFINE j == i + S[i].n - 1
      <3>1. V[j].ptr = i
        BY <2>2, <1>2 DEF Tails
      <3>2. j \in Block(S, i) /\ j # i
        <4>1. i \in Int /\ S[i].n \in Nat /\ S[i].n > 1
          BY <1>2, Numbers DEF Page, Descriptors
        <4>. QED
          BY <4>1 DEF Block
      <3>3. j \in Page /\ ~IsTile(S, j)
        BY <3>2, <1>2, BlockFacts
      <3>4. Block(S, i) \cap Block(S, h) = {}
        BY <2>2, <1>1, <1>2, BlockFacts
      <3>. HIDE DEF j
      <3>5. j # e /\ j # h /\ j # f /\ j \in Node
        BY <3>2, <3>3, <3>4, <1>1, <1>2, <1>5, <1>8, <1>13 DEF IsTile
      <3>6. r.prev[j].ptr = i
        BY <3>1, <3>5, <1>9
      <3>. QED
        BY <3>6 DEF j
    <2>. QED
      BY <2>1, <2>2
  <1>21. Apart(S, {})
    <2>. SUFFICES ASSUME NEW i \in Page, NEW j \in Page, IsRun(S, i), IsRun(S, j), i + S[i].n = j PROVE FALSE
      BY DEF Apart
    <2>1. CASE i = h
      BY <2>1, <1>1
    <2>2. CASE j = h
      BY <2>2, <1>1
    <2>3. CASE i # h /\ j # h
      BY <2>3, <1>2 DEF Apart
    <2>. QED
      BY <2>1, <2>2, <2>3
  <1>22. IsPool(r) /\ Tiling(S)
    BY <1>2, <1>9
  <1>23. Sound(r, {})
    BY <1>10, <1>17, <1>18, <1>19, <1>20, <1>21, <1>22, Zenon DEF Sound
  <1>. QED
    BY <1>10, <1>23

(***************************************************************************)
(* Pages are freed.                                                        *)
(***************************************************************************)
Clears(g, p, n, c) ==
    c = [g EXCEPT
           !.pfree = @ + n,
           !.slab = [i \in Page |-> IF i = p THEN Run(n) ELSE IF i \in p + 1 .. p + n - 1 THEN Run(0) ELSE @[i]],
           !.next = [i \in Node |-> IF i \in p + 1 .. p + n - 1 THEN NoPage ELSE @[i]],
           !.prev = [i \in Node |-> IF i \in p + 1 .. p + n - 1 THEN Unlinked("page") ELSE @[i]]]

Cleared(g, p, n, c) ==
    /\ IsPool(c) /\ c.slab = Freed(g.slab, p, n)
    /\ \A i \in Node : c.next[i] = IF i \in p + 1 .. p + n - 1 THEN NoPage ELSE g.next[i]
    /\ \A i \in Node : c.prev[i] = IF i \in p + 1 .. p + n - 1 THEN Unlinked("page") ELSE g.prev[i]

LEMMA ClearPool ==
    ASSUME NEW g, IsPool(g), NEW p \in Page, NEW n \in Nat, NEW c, Clears(g, p, n, c)
    PROVE  Cleared(g, p, n, c)
  <1>. DEFINE R == p + 1 .. p + n - 1
              Z == [i \in Page |-> IF i = p THEN Run(n) ELSE IF i \in R THEN Run(0) ELSE g.slab[i]]
              X == [i \in Node |-> IF i \in R THEN NoPage ELSE g.next[i]]
              V == [i \in Node |-> IF i \in R THEN Unlinked("page") ELSE g.prev[i]]
  <1>1. /\ g = [slab |-> g.slab, next |-> g.next, prev |-> g.prev,
                pfree |-> g.pfree, total |-> g.total, used |-> g.used]
        /\ g.slab \in Descriptors
        /\ g.next \in [Node -> Node \cup {NoPage}]
        /\ g.prev \in [Node -> [ptr : Node \cup {NoPage}, type : SlabTypes]]
    BY DEF IsPool
  <1>2. c = [g EXCEPT !.pfree = g.pfree + n, !.slab = Z, !.next = X, !.prev = V]
    BY DEF Clears
  <1>3. Z = Freed(g.slab, p, n)
    BY DEF Freed
  <1>4. X \in [Node -> Node \cup {NoPage}] /\ \A i \in Node : X[i] = IF i \in R THEN NoPage ELSE g.next[i]
    BY <1>1
  <1>5. V \in [Node -> [ptr : Node \cup {NoPage}, type : SlabTypes]]
        /\ \A i \in Node : V[i] = IF i \in R THEN Unlinked("page") ELSE g.prev[i]
    <2>1. Unlinked("page") \in [ptr : Node \cup {NoPage}, type : SlabTypes]
      BY DEF Unlinked, Link, SlabTypes
    <2>. QED
      BY <2>1, <1>1
  <1>6. Z \in Descriptors
    <2>1. /\ Run(0) \in [tag : {"run", "start", "busy", "chunks"}, n : Nat, map : SUBSET Nat]
          /\ Run(n) \in [tag : {"run", "start", "busy", "chunks"}, n : Nat, map : SUBSET Nat]
      BY DescriptorType
    <2>. QED
      BY <2>1, <1>1 DEF Descriptors
  <1>. HIDE DEF X, V, Z
  <1>7. c = [slab |-> Z, next |-> X, prev |-> V, pfree |-> g.pfree + n, total |-> g.total, used |-> g.used]
    BY <1>1, <1>2
  <1>8. c.slab = Z /\ c.next = X /\ c.prev = V
    BY <1>7
  <1>9. c = [slab |-> c.slab, next |-> c.next, prev |-> c.prev,
             pfree |-> c.pfree, total |-> c.total, used |-> c.used]
    BY <1>7
  <1>10. IsPool(c)
    BY <1>4, <1>5, <1>6, <1>8, <1>9 DEF IsPool
  <1>. QED
    BY <1>3, <1>4, <1>5, <1>8, <1>10 DEF Cleared

\* What the links may have become when the page p is on its way to the free list.
FreeMove(q, p, r) ==
    /\ \A i \in Page : i # p /\ i \notin Listed(q.slab, {}) => r.next[i] = NoPage
    /\ \A i \in Page : i # p => r.prev[i].type = q.prev[i].type
    /\ \A i \in Page : ~IsTile(q.slab, i) /\ q.slab[i] # Busy => r.prev[i] = q.prev[i]

LEMMA FreeListed ==
    ASSUME NEW S, NEW p \in Page, NEW n, NEW Z, Frees(S, p, n, Z)
    PROVE  /\ Listed(Z, {p}) = Listed(S, {}) \ {p}
           /\ \A i \in Listed(S, {}) \ {p} : HomeOf(Z)[i] = HomeOf(S)[i]
  <1>1. /\ \A i \in Page : IsTile(S, i) /\ i # p => Z[i] = S[i]
        /\ \A i \in Page : IsRun(Z, i) <=> i = p \/ IsRun(S, i)
        /\ \A i \in Page : IsChunks(Z, i) <=> i # p /\ IsChunks(S, i)
    BY Zenon DEF Frees
  <1>2. \A i \in Page : i # p => (Partial(Z, i) <=> Partial(S, i))
    BY <1>1 DEF Partial, IsTile
  <1>3. Listed(Z, {p}) = Listed(S, {}) \ {p}
    BY <1>1, <1>2 DEF Listed
  <1>4. \A i \in Listed(S, {}) \ {p} : i \in Page /\ Z[i] = S[i]
    BY <1>1 DEF Listed, IsTile, Partial
  <1>. QED
    BY <1>3, <1>4 DEF HomeOf

LEMMA FreeMoveSound ==
    ASSUME NEW q, Sound(q, {}), NEW p \in Page, ~IsRun(q.slab, p), NEW n, NEW r, IsPool(r), Frees(q.slab, p, n, r.slab),
           FreeMove(q, p, r), Chained(r.next, Ptr(r.prev), Listed(r.slab, {p}), HomeOf(r.slab))
    PROVE  Sound(r, {p})
  <1>. DEFINE S == q.slab
              V == q.prev
              Z == r.slab
  <1>1. /\ S \in Descriptors /\ Tiling(S)
        /\ Typed(S, V, {}) /\ Tails(S, V, {}) /\ Apart(S, {})
    BY SoundFields, Zenon
  <1>2. /\ Z \in Descriptors /\ Tiling(Z)
        /\ \A i \in p + 1 .. p + n - 1 : i \in Page /\ S[i] = Busy
        /\ \A i \in Page : IsTile(S, i) /\ i # p => Z[i] = S[i]
        /\ \A i \in Page : IsRun(Z, i) <=> i = p \/ IsRun(S, i)
        /\ \A i \in Page : IsChunks(Z, i) <=> i # p /\ IsChunks(S, i)
    BY Zenon DEF Frees
  <1>3. /\ \A i \in Page : i # p /\ i \notin Listed(S, {}) => r.next[i] = NoPage
        /\ \A i \in Page : i # p => r.prev[i].type = V[i].type
        /\ \A i \in Page : ~IsTile(S, i) /\ S[i] # Busy => r.prev[i] = V[i]
    BY Zenon DEF FreeMove
  <1>4. Listed(Z, {p}) = Listed(S, {}) \ {p}
    BY FreeListed
  <1>5. Unlisted(Z, r.next, {p})
    BY <1>3, <1>4 DEF Unlisted
  <1>6. Typed(Z, r.prev, {p})
    <2>. SUFFICES ASSUME NEW i \in Page, i # p
                  PROVE  r.prev[i].type = IF Z[i].tag = "chunks" THEN TypeOf(Z[i].n) ELSE "page"
      BY DEF Typed
    <2>1. V[i].type = IF S[i].tag = "chunks" THEN TypeOf(S[i].n) ELSE "page"
      BY <1>1 DEF Typed
    <2>2. (Z[i].tag = "chunks" <=> S[i].tag = "chunks") /\ (S[i].tag = "chunks" => Z[i] = S[i])
      BY <1>2 DEF IsChunks, IsTile
    <2>. QED
      BY <2>1, <2>2, <1>3
  <1>7. Tails(Z, r.prev, {p})
    <2>. SUFFICES ASSUME NEW i \in Page, i # p, IsRun(Z, i), Z[i].n > 1, i + Z[i].n \in Page
                  PROVE  r.prev[i + Z[i].n - 1].ptr = i
      BY DEF Tails
    <2>1. IsRun(S, i) /\ Z[i] = S[i]
      BY <1>2 DEF IsTile
    <2>. DEFINE j == i + S[i].n - 1
    <2>2. V[j].ptr = i
      BY <2>1, <1>1 DEF Tails
    <2>3. j \in Block(S, i) /\ j # i /\ j \in i + 1 .. i + S[i].n - 1
      <4>1. i \in Int /\ S[i].n \in Nat /\ S[i].n > 1
        BY <2>1, <1>1, Numbers DEF Page, Descriptors
      <4>. QED
        BY <4>1 DEF Block
    <2>4. j \in Page /\ ~IsTile(S, j)
      BY <2>1, <2>3, <1>1, BlockFacts
    <2>5. S[j] = Run(0)
      <3>1. \A k \in i + 1 .. i + S[i].n - 1 : S[k] = Run(0)
        BY <2>1, <1>1, NoOverlap, Zenon
      <3>. QED
        BY <3>1, <2>3
    <2>. HIDE DEF j
    <2>6. r.prev[j].ptr = i
      BY <2>2, <2>4, <2>5, <1>3, Fields
    <2>. QED
      BY <2>1, <2>6 DEF j
  <1>8. Apart(Z, {p})
    <2>. SUFFICES ASSUME NEW i \in Page, NEW j \in Page, i # p, j # p, IsRun(Z, i), IsRun(Z, j), i + Z[i].n = j PROVE FALSE
      BY DEF Apart
    <2>1. IsRun(S, i) /\ Z[i] = S[i] /\ IsRun(S, j)
      BY <1>2 DEF IsTile
    <2>. QED
      BY <2>1, <1>1 DEF Apart
  <1>. QED
    BY <1>2, <1>5, <1>6, <1>7, <1>8, Zenon DEF Sound

\* The pool to which a page is freed: q, but for the map of that page.
SameBut(q, p, g) ==
    /\ IsPool(g) /\ g.next = q.next /\ g.prev = q.prev
    /\ \A i \in Page : i # p => g.slab[i] = q.slab[i]

CanFree(S, p, n) == (IsStart(S, p) /\ n = S[p].n) \/ (Partial(S, p) /\ n = 1)

LEMMA FreeApart ==
    ASSUME NEW q, Sound(q, {}), NEW p \in Page, NEW n, CanFree(q.slab, p, n), NEW g, SameBut(q, p, g),
           NEW c, Cleared(g, p, n, c), NEW r, r = IF c.next[p] # NoPage THEN Unlink(c, p) ELSE c
    PROVE  Sound(r, {p}) /\ Frees(q.slab, p, n, r.slab)
  <1>. DEFINE S == q.slab
              V == q.prev
              X == q.next
              L == Listed(S, {})
              R == p + 1 .. p + n - 1
              Z == Freed(S, p, n)
  <1>1. /\ IsPool(q) /\ S \in Descriptors /\ Tiling(S)
        /\ Homed(L, HomeOf(S)) /\ Chained(X, Ptr(V), L, HomeOf(S))
        /\ Unlisted(S, X, {}) /\ Typed(S, V, {})
        /\ \A i \in L : IsTile(S, i)
    BY SoundFields, Zenon
  <1>2. (IsStart(S, p) /\ n = S[p].n) \/ (Partial(S, p) /\ IsChunks(S, p) /\ n = 1)
    BY DEF CanFree, Partial
  <1>3. Frees(S, p, n, Z)
    BY <1>1, <1>2, FreeTiling
  <1>4. /\ Z \in Descriptors /\ n \in Nat \ {0}
        /\ \A i \in R : i \in Page /\ S[i] = Busy
    BY <1>3, Zenon DEF Frees
  <1>5. /\ IsPool(c) /\ c.slab = Freed(g.slab, p, n)
        /\ \A i \in Node : c.next[i] = IF i \in R THEN NoPage ELSE X[i]
        /\ \A i \in Node : c.prev[i] = IF i \in R THEN Unlinked("page") ELSE V[i]
    BY DEF Cleared, SameBut
  <1>6. c.slab = Z
    BY <1>5 DEF Freed, SameBut
  <1>7. p \in Int /\ p \notin R /\ (n = 1 => R = {})
    BY Numbers DEF Page
  <1>. HIDE DEF Z, R
  <1>8. \A i \in R : ~IsTile(S, i) /\ i \notin L /\ X[i] = NoPage /\ V[i].type = "page"
    <2>1. \A i \in R : ~IsTile(S, i)
      BY <1>4, Fields DEF IsTile, IsRun, IsStart, IsChunks
    <2>2. \A i \in R : i \notin L
      BY <2>1, <1>1
    <2>3. \A i \in R : X[i] = NoPage
      BY <2>2, <1>1, <1>4 DEF Unlisted
    <2>4. \A i \in R : S[i].tag # "chunks"
      BY <1>4, Fields
    <2>. QED
      BY <2>1, <2>2, <2>3, <2>4, <1>1, <1>4 DEF Typed
  <1>9. (Unlinked("page")).type = "page"
    BY DEF Unlinked, Link
  <1>10. \A i \in Page : i \in Node
    BY Nodes
  <1>11. ~IsRun(S, p)
    BY <1>2 DEF IsRun, IsStart, IsChunks
  <1>12. /\ Listed(Z, {p}) = L \ {p}
         /\ \A i \in L \ {p} : HomeOf(Z)[i] = HomeOf(S)[i]
    BY <1>3, FreeListed
  <1>13. L \subseteq Page
    BY DEF Listed
  <1>20. ASSUME IsStart(S, p) PROVE Sound(r, {p}) /\ r.slab = Z
    <2>1. p \notin L
      BY <1>20 DEF Listed, IsStart, IsRun, Partial, IsChunks
    <2>2. X[p] = NoPage
      BY <2>1, <1>1 DEF Unlisted
    <2>3. c.next[p] = NoPage
      BY <2>2, <1>5, <1>7, <1>10
    <2>4. r = c
      BY <2>3
    <2>5. FreeMove(q, p, r)
      <3>1. \A i \in Page : i \notin L => r.next[i] = NoPage
        BY <2>4, <1>1, <1>5, <1>10 DEF Unlisted
      <3>2. \A i \in Page : r.prev[i].type = V[i].type
        BY <2>4, <1>5, <1>8, <1>9, <1>10
      <3>3. \A i \in Page : ~IsTile(S, i) /\ S[i] # Busy => r.prev[i] = V[i]
        BY <2>4, <1>4, <1>5, <1>10
      <3>. QED
        BY <3>1, <3>2, <3>3 DEF FreeMove
    <2>6. Chained(r.next, Ptr(r.prev), Listed(Z, {p}), HomeOf(Z))
      <3>. DEFINE P == Ptr(V)
                  P2 == Ptr(r.prev)
                  H == HomeOf(S)
                  H2 == HomeOf(Z)
                  X2 == r.next
      <3>1. /\ \A i \in Node : P[i] = V[i].ptr
            /\ \A i \in Node : P2[i] = r.prev[i].ptr
        BY DEF Ptr
      <3>2. \A i \in L : i \in Node /\ i \notin R /\ i # p
        BY <2>1, <1>8, <1>10, <1>13
      <3>3. \A i \in Heads : i \in Node /\ i \notin R
        BY <1>4, Nodes
      <3>. HIDE DEF P, P2, H, H2, X2, L
      <3>4. \A i \in L \cup Heads : X2[i] = X[i]
        BY <3>2, <3>3, <2>4, <1>5 DEF X2
      <3>5. \A i \in L : P2[i] = P[i]
        BY <3>1, <3>2, <2>4, <1>5
      <3>6. \A i \in L : H2[i] = H[i]
        BY <3>2, <1>12 DEF H, H2
      <3>7. Same(X, P, L, H, X2, P2, H2)
        BY <3>4, <3>5, <3>6 DEF Same
      <3>8. Chained(X, P, L, H) /\ Homed(L, H)
        BY <1>1 DEF P, L, H
      <3>9. Chained(X2, P2, L, H2)
        BY <3>7, <3>8, SameList
      <3>10. Listed(Z, {p}) = L
        BY <3>2, <1>12
      <3>. QED
        BY <3>9, <3>10 DEF X2, P2, H2
    <2>7. IsPool(r) /\ r.slab = Z
      BY <2>4, <1>5, <1>6
    <2>8. Sound(r, {p})
      BY <2>5, <2>6, <2>7, <1>3, <1>11, FreeMoveSound
    <2>. QED
      BY <2>7, <2>8
  <1>30. ASSUME Partial(S, p), n = 1 PROVE Sound(r, {p}) /\ r.slab = Z
    <2>1. p \in L
      BY <1>30 DEF Listed
    <2>2. /\ X[p] \in Node /\ V[p].ptr \in Node /\ X[p] # p /\ V[p].ptr # p
          /\ X[p] \in L \/ X[p] = HomeOf(S)[p]
          /\ V[p].ptr \in L \/ V[p].ptr = HomeOf(S)[p]
          /\ X[p] \in Page => V[X[p]].type = V[p].type
          /\ HomeOf(S)[p] \in Heads
      BY <2>1, PoolLinks
    <2>3. /\ \A i \in Node : c.next[i] = X[i]
          /\ \A i \in Node : c.prev[i] = V[i]
      BY <1>5, <1>7, <1>30
    <2>4. c.next[p] \in Node /\ c.prev[p].ptr \in Node /\ c.next[p] # NoPage
      BY <2>2, <2>3, <1>10, Nodes
    <2>5. r = Unlink(c, p)
      BY <2>4
    <2>6. /\ IsPool(r)
          /\ r = [slab |-> c.slab, next |-> r.next, prev |-> r.prev,
                  pfree |-> c.pfree, total |-> c.total, used |-> c.used]
          /\ \A i \in Node : r.next[i] = IF i = c.prev[p].ptr THEN c.next[p] ELSE c.next[i]
          /\ \A i \in Node : r.prev[i] = IF i = c.next[p] THEN c.prev[p] ELSE c.prev[i]
      BY <2>4, <2>5, <1>5, UnlinkPool
    <2>7. IsPool(r) /\ r.slab = Z
      <3>1. r.slab = c.slab
        BY <2>6
      <3>. QED
        BY <3>1, <2>6, <1>6
    <2>8. /\ \A i \in Node : r.next[i] = IF i = V[p].ptr THEN X[p] ELSE X[i]
          /\ \A i \in Node : r.prev[i] = IF i = X[p] THEN V[p] ELSE V[i]
      BY <2>3, <2>6, <1>10
    <2>9. FreeMove(q, p, r)
      <3>1. \A i \in Page : i # p /\ i \notin L => r.next[i] = NoPage
        <4>1. \A i \in Page : i \notin L => i # V[p].ptr
          BY <2>2, Nodes
        <4>. QED
          BY <4>1, <2>8, <1>1, <1>10 DEF Unlisted
      <3>2. \A i \in Page : r.prev[i].type = V[i].type
        BY <2>2, <2>8, <1>10
      <3>3. \A i \in Page : ~IsTile(S, i) => r.prev[i] = V[i]
        <4>1. \A i \in Page : ~IsTile(S, i) => i # X[p]
          BY <2>2, <1>1, Nodes
        <4>. QED
          BY <4>1, <2>8, <1>10
      <3>. QED
        BY <3>1, <3>2, <3>3 DEF FreeMove
    <2>10. Chained(r.next, Ptr(r.prev), Listed(Z, {p}), HomeOf(Z))
      <3>. DEFINE P == Ptr(V)
                  P2 == Ptr(r.prev)
                  H == HomeOf(S)
                  H2 == HomeOf(Z)
                  X2 == r.next
      <3>1. /\ \A i \in Node : P[i] = V[i].ptr
            /\ \A i \in Node : P2[i] = r.prev[i].ptr
        BY DEF Ptr
      <3>2. \A i \in L \cup Heads : i \in Node
        BY <1>10, <1>13, Nodes
      <3>. HIDE DEF P, P2, H, H2, X2, L
      <3>3. p \in Node
        BY <1>10
      <3>4. \A i \in (L \ {p}) \cup Heads : X2[i] = IF i = P[p] THEN X[p] ELSE X[i]
        BY <3>1, <3>2, <3>3, <2>8 DEF X2
      <3>5. \A i \in L \ {p} : P2[i] = IF i = X[p] THEN P[p] ELSE P[i]
        BY <3>1, <3>2, <3>3, <2>8
      <3>6. \A i \in L \ {p} : H2[i] = H[i]
        BY <1>12 DEF H, H2
      <3>7. Leaves(X, P, L, H, X2, P2, H2, p)
        BY <3>4, <3>5, <3>6 DEF Leaves
      <3>8. Chained(X, P, L, H) /\ Homed(L, H)
        BY <1>1 DEF P, L, H
      <3>9. Chained(X2, P2, L \ {p}, H2)
        BY <3>7, <3>8, <2>1, UnlinkList
      <3>. QED
        BY <3>9, <1>12 DEF X2, P2, H2
    <2>11. Sound(r, {p})
      BY <2>7, <2>9, <2>10, <1>3, <1>11, FreeMoveSound
    <2>. QED
      BY <2>7, <2>11
  <1>. QED
    BY <1>2, <1>3, <1>20, <1>30

\* The page p is no longer held, and nothing else changes in what is.
Drops(S, p, Z) ==
    \A i \in Page : /\ IsStart(Z, i) <=> i # p /\ IsStart(S, i)
                    /\ IsChunks(Z, i) <=> i # p /\ IsChunks(S, i)
                    /\ IsStart(Z, i) \/ IsChunks(Z, i) => Z[i] = S[i]

LEMMA FreeDrops ==
    ASSUME NEW S, NEW p, NEW n, NEW Z, Frees(S, p, n, Z), NEW Y, Keeps(Z, Y), NEW W, Keeps(Y, W)
    PROVE  Drops(S, p, W)
  <1>1. \A i \in Page : /\ IsStart(Z, i) <=> i # p /\ IsStart(S, i)
                        /\ IsChunks(Z, i) <=> i # p /\ IsChunks(S, i)
                        /\ IsTile(S, i) /\ i # p => Z[i] = S[i]
    BY DEF Frees
  <1>2. \A i \in Page : /\ IsStart(Z, i) <=> IsStart(W, i)
                        /\ IsChunks(Z, i) <=> IsChunks(W, i)
                        /\ IsStart(Z, i) \/ IsChunks(Z, i) => W[i] = Z[i]
    BY DEF Keeps
  <1>. QED
    BY <1>1, <1>2 DEF Drops, IsTile

LEMMA FreePagesSound ==
    ASSUME NEW q, Sound(q, {}), NEW p \in Page, NEW n, CanFree(q.slab, p, n), NEW g, SameBut(q, p, g),
           NEW r, r = FreePages(g, p, n)
    PROVE  Sound(r, {}) /\ Drops(q.slab, p, r.slab)
  <1>. DEFINE c == [g EXCEPT
           !.pfree = @ + n,
           !.slab = [i \in Page |-> IF i = p THEN Run(n) ELSE IF i \in p + 1 .. p + n - 1 THEN Run(0) ELSE @[i]],
           !.next = [i \in Node |-> IF i \in p + 1 .. p + n - 1 THEN NoPage ELSE @[i]],
           !.prev = [i \in Node |-> IF i \in p + 1 .. p + n - 1 THEN Unlinked("page") ELSE @[i]]]
              a == IF c.next[p] # NoPage THEN Unlink(c, p) ELSE c
              b == JoinNext(a, p)
              j == JoinPrev(b, p)
              h == RunBefore(b, p)
  <1>1. r = PushFree(j, h)
    BY DEF FreePages
  <1>2. Clears(g, p, n, c)
    BY DEF Clears
  <1>3. n \in Nat
    <2>1. q.slab \in Descriptors
      BY SoundFields
    <2>. QED
      BY <2>1 DEF CanFree, Descriptors
  <1>. HIDE DEF c
  <1>4. Cleared(g, p, n, c)
    BY <1>2, <1>3, ClearPool DEF SameBut
  <1>5. Sound(a, {p}) /\ Frees(q.slab, p, n, a.slab)
    BY <1>4, FreeApart
  <1>. HIDE DEF a
  <1>6. IsRun(a.slab, p)
    BY <1>5 DEF Frees
  <1>7. JoinedNext(a, p, b)
    BY <1>5, <1>6, JoinNextSound
  <1>. HIDE DEF b
  <1>8. Sound(b, {p}) /\ IsRun(b.slab, p) /\ ~IsRun(b.slab, p + b.slab[p].n) /\ Keeps(a.slab, b.slab)
    BY <1>7 DEF JoinedNext
  <1>9. Ready(j, h) /\ Keeps(b.slab, j.slab)
    BY <1>8, JoinPrevSound
  <1>. HIDE DEF j, h
  <1>10. Sound(r, {}) /\ r.slab = j.slab
    BY <1>1, <1>9, PushSound
  <1>11. Drops(q.slab, p, j.slab)
    BY <1>5, <1>8, <1>9, FreeDrops
  <1>. QED
    BY <1>10, <1>11

(***************************************************************************)
(* Chunks are freed.                                                       *)
(***************************************************************************)
LEMMA OtherUsed ==
    ASSUME NEW q, NEW D, Sound(q, D), NEW s, NEW r, r = [q EXCEPT !.used[s] = @ - 1]
    PROVE  Sound(r, D) /\ r.slab = q.slab
  <1>. DEFINE u == [q.used EXCEPT ![s] = @ - 1]
  <1>1. q = [slab |-> q.slab, next |-> q.next, prev |-> q.prev,
             pfree |-> q.pfree, total |-> q.total, used |-> q.used]
    BY DEF Sound, IsPool
  <1>2. r = [q EXCEPT !.used = u]
    OBVIOUS
  <1>. HIDE DEF u
  <1>3. r = [slab |-> q.slab, next |-> q.next, prev |-> q.prev, pfree |-> q.pfree, total |-> q.total, used |-> u]
    BY <1>1, <1>2
  <1>4. r = [slab |-> q.slab, next |-> q.next, prev |-> q.prev,
                pfree |-> r.pfree, total |-> r.total, used |-> r.used]
    BY <1>3
  <1>5. Sound(r, D)
    BY <1>4, SoundOther, Zenon
  <1>. QED
    BY <1>3, <1>5

LessTotal(q, s, k, r) == r = [q EXCEPT !.total[s] = @ - k]

LEMMA OtherTotal ==
    ASSUME NEW q, NEW D, Sound(q, D), NEW s, NEW k, NEW r, LessTotal(q, s, k, r)
    PROVE  Sound(r, D) /\ r.slab = q.slab
  <1>. DEFINE u == [q.total EXCEPT ![s] = @ - k]
  <1>1. q = [slab |-> q.slab, next |-> q.next, prev |-> q.prev,
             pfree |-> q.pfree, total |-> q.total, used |-> q.used]
    BY DEF Sound, IsPool
  <1>2. r = [q EXCEPT !.total = u]
    BY DEF LessTotal
  <1>. HIDE DEF u
  <1>3. r = [slab |-> q.slab, next |-> q.next, prev |-> q.prev, pfree |-> q.pfree, total |-> u, used |-> q.used]
    BY <1>1, <1>2
  <1>4. r = [slab |-> q.slab, next |-> q.next, prev |-> q.prev,
                pfree |-> r.pfree, total |-> r.total, used |-> r.used]
    BY <1>3
  <1>5. Sound(r, D)
    BY <1>4, SoundOther, Zenon
  <1>. QED
    BY <1>3, <1>5

\* The map without one of the chunks that are held.
LEMMA GivenMap ==
    ASSUME NEW s, NEW map, MapOK(s, map), NEW c \in map \ ReservedSet(s)
    PROVE  /\ map \ {c} # ChunkSet(s)
           /\ ~(map \ {c} \subseteq ReservedSet(s)) => MapOK(s, map \ {c})
           /\ map \ {c} \subseteq ReservedSet(s) => map # ChunkSet(s) /\ map = ReservedSet(s) \cup {c}
  <1>1. /\ s \in Shift
        /\ ReservedSet(s) \subseteq map /\ map \subseteq ChunkSet(s)
    BY DEF MapOK
  <1>2. c \in ChunkSet(s)
    BY <1>1
  <1>3. ASSUME map \ {c} \subseteq ReservedSet(s), map = ChunkSet(s) PROVE FALSE
    <2>. DEFINE m == Reserved(s)
                k == ChunksOf(s)
    <2>1. k \in Nat /\ m \in Nat /\ m + 2 <= k
      BY <1>1, ChunkFacts
    <2>2. ReservedSet(s) = 0 .. m - 1 /\ ChunkSet(s) = 0 .. k - 1
      BY DEF ReservedSet, ChunkSet
    <2>. HIDE DEF m, k
    <2>3. m \in ChunkSet(s) /\ m + 1 \in ChunkSet(s) /\ m \notin ReservedSet(s) /\ m + 1 \notin ReservedSet(s) /\ m # m + 1
      BY <2>1, <2>2
    <2>. QED
      BY <2>3, <1>3
  <1>. QED
    BY <1>1, <1>2, <1>3 DEF MapOK

\* What is left when a chunk is given back: the page without it, or a free page.
Gives(q, p, c, r) ==
    /\ Sound(r, {})
    /\ \/ /\ q.slab[p].map \ {c} \subseteq ReservedSet(q.slab[p].n)
          /\ Drops(q.slab, p, r.slab)
       \/ /\ ~(q.slab[p].map \ {c} \subseteq ReservedSet(q.slab[p].n))
          /\ Chunked(q.slab, p, q.slab[p].n, q.slab[p].map \ {c}, r.slab)

LEMMA GiveSound ==
    ASSUME NEW q, Sound(q, {}), NEW p \in Page, IsChunks(q.slab, p),
           NEW c \in q.slab[p].map \ ReservedSet(q.slab[p].n), NEW r, r = GiveChunk(q, p, c)
    PROVE  Gives(q, p, c, r)
  <1>. DEFINE S == q.slab
              s == S[p].n
              old == S[p].map
              map == old \ {c}
              linked == IF q.next[p] = NoPage THEN Relink(q, p, s) ELSE q
              given == [linked EXCEPT !.slab[p].map = @ \ {c}]
              t == IF given.slab[p].map \subseteq ReservedSet(s)
                   THEN [FreePages(given, p, 1) EXCEPT !.total[s] = @ - ChunkCapacity(s)]
                   ELSE given
  <1>1. r = [t EXCEPT !.used[s] = @ - 1]
    BY DEF GiveChunk
  <1>2. /\ S[p] = Chunks(s, old) /\ MapOK(s, old) /\ s \in Shift
        /\ p \in Listed(S, {}) <=> old # ChunkSet(s)
        /\ p \notin Listed(S, {}) => q.next[p] = NoPage
    BY ChunkLinks
  <1>3. /\ map # ChunkSet(s)
        /\ ~(map \subseteq ReservedSet(s)) => MapOK(s, map)
        /\ map \subseteq ReservedSet(s) => old # ChunkSet(s)
    BY <1>2, GivenMap
  <1>4. old # ChunkSet(s) => q.next[p] # NoPage
    <2>1. p \in Listed(S, {}) => q.next[p] \in Node
      BY PoolLinks
    <2>. QED
      BY <2>1, <1>2, Nodes
  <1>5. linked = IF old = ChunkSet(s) THEN Relink(q, p, s) ELSE q
    BY <1>2, <1>4
  <1>6. IsPool(q)
    BY SoundFields
  <1>7. IsPool(linked) /\ linked.slab = S
    <2>1. CASE old # ChunkSet(s)
      BY <2>1, <1>5, <1>6
    <2>2. CASE old = ChunkSet(s)
      <3>. DEFINE w == Relink(q, p, s)
      <3>1. q.next[SlotHead(s)] \in Node
        BY <1>2, HeadLinks, Nodes
      <3>2. /\ IsPool(w)
            /\ w = [slab |-> q.slab, next |-> w.next, prev |-> w.prev,
                   pfree |-> q.pfree, total |-> q.total, used |-> q.used]
        <4>1. Relinked(q, p, s, w)
          BY <3>1, <1>2, <1>6, RelinkPool
        <4>. HIDE DEF w
        <4>. QED
          BY <4>1, Zenon DEF Relinked
      <3>. HIDE DEF w
      <3>3. w.slab = S
        BY <3>2
      <3>4. linked = w
        BY <2>2, <1>5 DEF w
      <3>. QED
        BY <3>2, <3>3, <3>4
    <2>. QED
      BY <2>1, <2>2
  <1>. HIDE DEF linked
  <1>8. given = Remap(linked, p, s, map, linked.used)
    <2>1. linked.slab[p] = Chunks(s, old) /\ linked.slab[p].map = old
      BY <1>2, <1>7, Fields
    <2>2. Remaps1(linked, p, map, given)
      BY <2>1 DEF Remaps1
    <2>. HIDE DEF given, s, old, map
    <2>. QED
      BY <2>1, <2>2, <1>7, RemapIs1
  <1>. HIDE DEF given
  <1>9. given = [slab |-> [S EXCEPT ![p] = Chunks(s, map)], next |-> linked.next, prev |-> linked.prev,
                 pfree |-> linked.pfree, total |-> linked.total, used |-> linked.used]
    BY <1>7, <1>8 DEF Remap
  <1>10. /\ given.slab = [S EXCEPT ![p] = Chunks(s, map)] /\ given.next = linked.next /\ given.prev = linked.prev
    BY <1>9
  <1>11. S \in Descriptors
    BY <1>6 DEF IsPool
  <1>12. given.slab[p].map = map
    <2>1. given.slab[p] = Chunks(s, map)
      BY <1>10, <1>11 DEF Descriptors
    <2>. QED
      BY <2>1, Fields
  <1>20. CASE map \subseteq ReservedSet(s)
    <2>. DEFINE f == FreePages(given, p, 1)
    <2>1. Partial(S, p) /\ linked = q
      BY <1>3, <1>5, <1>20 DEF Partial
    <2>2. IsPool(given)
      <3>1. Chunks(s, map) \in [tag : {"run", "start", "busy", "chunks"}, n : Nat, map : SUBSET Nat]
        <4>1. s \in Nat /\ old \in SUBSET Nat
          BY <1>2, MapTyped
        <4>2. map \in SUBSET Nat
          BY <4>1
        <4>. HIDE DEF s, map
        <4>. QED
          BY <4>1, <4>2, DescriptorType
      <3>2. given.slab \in Descriptors
        BY <3>1, <1>10, <1>11 DEF Descriptors
      <3>3. given = [slab |-> given.slab, next |-> given.next, prev |-> given.prev,
                     pfree |-> given.pfree, total |-> given.total, used |-> given.used]
        BY <1>9
      <3>. QED
        BY <3>2, <3>3, <1>6, <1>10, <2>1 DEF IsPool
    <2>3. SameBut(q, p, given)
      BY <2>1, <2>2, <1>10, <1>11 DEF SameBut, Descriptors
    <2>4. CanFree(S, p, 1)
      BY <2>1 DEF CanFree
    <2>5. Sound(f, {}) /\ Drops(S, p, f.slab)
      BY <2>3, <2>4, FreePagesSound
    <2>6. LessTotal(f, s, ChunkCapacity(s), t)
      BY <1>12, <1>20 DEF LessTotal
    <2>. HIDE DEF f, t
    <2>7. Sound(t, {}) /\ t.slab = f.slab
      BY <2>5, <2>6, OtherTotal
    <2>8. Sound(r, {}) /\ r.slab = t.slab
      BY <2>7, <1>1, OtherUsed
    <2>. QED
      BY <2>5, <2>7, <2>8, <1>20 DEF Gives
  <1>30. CASE ~(map \subseteq ReservedSet(s))
    <2>1. t = given
      BY <1>12, <1>30
    <2>2. MapOK(s, map)
      BY <1>3, <1>30
    <2>3. Sound(given, {}) /\ Chunked(S, p, s, map, given.slab)
      <3>1. CASE old = ChunkSet(s)
        <4>1. given = Remap(Relink(q, p, s), p, s, map, linked.used)
          BY <3>1, <1>5, <1>8
        <4>. HIDE DEF map
        <4>. QED
          BY <4>1, <3>1, <2>2, <1>3, GiveFullSound
      <3>2. CASE old # ChunkSet(s)
        <4>1. given = Remap(q, p, s, map, q.used) /\ Partial(S, p)
          BY <3>2, <1>5, <1>8 DEF Partial
        <4>. HIDE DEF map
        <4>2. Sound(given, {})
          BY <4>1, <2>2, <1>3, RemapSound
        <4>3. Chunked(S, p, s, map, given.slab)
          BY <4>1, <2>2, RemapPool
        <4>. QED
          BY <4>2, <4>3
      <3>. QED
        BY <3>1, <3>2
    <2>. HIDE DEF t
    <2>4. Sound(r, {}) /\ r.slab = given.slab
      BY <2>1, <2>3, <1>1, OtherUsed
    <2>. QED
      BY <2>3, <2>4, <1>30 DEF Gives
  <1>. QED
    BY <1>20, <1>30

(***************************************************************************)
(* The first free run that is long enough.                                 *)
(***************************************************************************)
Fits(S, pages, p) ==
    \/ p \in Page /\ IsRun(S, p) /\ S[p].n >= pages
    \/ p = FreeHead /\ \A i \in Page : IsRun(S, i) => ~(S[i].n >= pages)

LEMMA FirstFitFinds ==
    ASSUME NEW q, Sound(q, {}), NEW pages \in Nat
    PROVE  Fits(q.slab, pages, FirstFit(q, pages))
  <1>. DEFINE S == q.slab
              X == q.next
              P == Ptr(q.prev)
              L == Listed(S, {})
              H == HomeOf(S)
              F == {i \in Page : IsRun(S, i)}
  <1>1. S \in Descriptors /\ Tiling(S) /\ Chained(X, P, L, H) /\ L \subseteq Page
    BY SoundFields DEF Listed
  <1>2. \A i \in L : H[i] = FreeHead <=> i \in F
    <2>1. /\ \A i \in Page : IsChunks(S, i) => S[i].n \in Shift
          /\ \A i \in Page : H[i] = IF S[i].tag = "chunks" THEN SlotHead(S[i].n) ELSE FreeHead
      BY <1>1, ListedPages
    <2>2. \A i \in L : IsRun(S, i) \/ IsChunks(S, i)
      BY DEF Listed, Partial
    <2>. HIDE DEF H, L
    <2>. QED
      BY <2>1, <2>2, <1>1, Nodes DEF IsChunks, IsRun
  <1>3. F \subseteq L /\ F \subseteq Page
    BY DEF Listed
  <1>4. \A i \in F : S[i].n \in Nat
    BY <1>1 DEF Descriptors
  <1>5. PICK rank \in [Page -> Nat] : Linked(X, P, L, H, rank)
    BY <1>1 DEF Chained
  <1>6. PICK f : IsWalk(S, X, pages, NPages, f) /\ FirstFit(q, pages) = f[NPages]
    BY FirstFitWalks
  <1>7. FreeHead \in Heads
    BY Nodes
  <1>. HIDE DEF F, L, H, P
  <1>8. /\ \A i \in L : X[i] \in L \cup {H[i]}
        /\ \A i \in L : X[i] \in L => H[X[i]] = H[i] /\ P[X[i]] = i
        /\ \A i \in L : P[i] \in L \cup {H[i]} /\ X[P[i]] = i
        /\ \A i \in L : P[i] \in L => H[P[i]] = H[i] /\ rank[P[i]] < rank[i]
        /\ \A h \in Heads : X[h] = h \/ (X[h] \in L /\ H[X[h]] = h /\ P[X[h]] = h)
    BY <1>5, Zenon DEF Linked
  <1>9. X[FreeHead] \in F \cup {FreeHead}
    BY <1>2, <1>7, <1>8
  <1>10. \A i \in F : X[i] \in F \cup {FreeHead} /\ (X[i] \in F => rank[i] < rank[X[i]])
    <2>. TAKE i \in F
    <2>1. i \in L /\ H[i] = FreeHead
      BY <1>2, <1>3
    <2>2. X[i] \in F \cup {FreeHead}
      BY <2>1, <1>2, <1>8
    <2>3. ASSUME X[i] \in F PROVE rank[i] < rank[X[i]]
      <3>1. X[i] \in L
        BY <2>3, <1>3
      <3>2. P[X[i]] = i
        BY <3>1, <2>1, <1>8
      <3>3. P[X[i]] \in L
        BY <3>2, <2>1
      <3>4. rank[P[X[i]]] < rank[X[i]]
        BY <3>1, <3>3, <1>8
      <3>. QED
        BY <3>2, <3>4
    <2>. QED
      BY <2>2, <2>3
  <1>11. \A i \in F : P[i] \in F \cup {FreeHead} /\ X[P[i]] = i
    BY <1>2, <1>3, <1>8
  <1>12. \A i \in F : P[i] \in F => rank[P[i]] < rank[i]
    BY <1>3, <1>8
  <1>13. \/ f[NPages] \in F /\ S[f[NPages]].n >= pages
         \/ f[NPages] = FreeHead /\ \A i \in F : ~(S[i].n >= pages)
    BY <1>3, <1>4, <1>6, <1>9, <1>10, <1>11, <1>12, WalkFinds
  <1>14. \A i : i \in F <=> i \in Page /\ IsRun(S, i)
    BY DEF F
  <1>. QED
    BY <1>6, <1>13, <1>14 DEF Fits

(***************************************************************************)
(* Memory.                                                                 *)
(***************************************************************************)
\* The addresses of n pages.
Span(p, n) == p * PageSize .. (p + n) * PageSize - 1

LEMMA TimesLeq ==
    ASSUME NEW p \in Int, NEW q \in Int, NEW d \in Nat, p <= q
    PROVE  p * d <= q * d /\ p * d \in Int /\ q * d \in Int
  <1>1. CASE p = q
    BY <1>1
  <1>2. CASE p < q
    <2>1. p * d + d <= q * d
      BY <1>2, TimesStep
    <2>2. p * d \in Int /\ q * d \in Int
      OBVIOUS
    <2>. QED
      BY <2>1, <2>2
  <1>. QED
    BY <1>1, <1>2

LEMMA SpanIs ==
    ASSUME NEW p \in Int, NEW n \in Int, NEW x
    PROVE  x \in Span(p, n) <=> x \in Int /\ p * PageSize <= x /\ x < (p + n) * PageSize
  <1>1. p * PageSize \in Int /\ (p + n) * PageSize \in Int
    BY PageSizeOK
  <1>. QED
    BY <1>1 DEF Span

LEMMA SpanApart ==
    ASSUME NEW p \in Int, NEW n \in Int, NEW q \in Int, NEW m \in Int, p + n <= q
    PROVE  Span(p, n) \cap Span(q, m) = {}
  <1>. SUFFICES ASSUME NEW x, x \in Span(p, n), x \in Span(q, m) PROVE FALSE
    OBVIOUS
  <1>. DEFINE d == PageSize
              b == p + n
  <1>1. d \in Nat /\ b \in Int /\ b <= q
    BY PageSizeOK
  <1>2. x \in Int /\ x < b * d /\ q * d <= x
    BY SpanIs
  <1>. HIDE DEF b, d
  <1>3. b * d <= q * d /\ b * d \in Int /\ q * d \in Int
    BY <1>1, TimesLeq
  <1>. QED
    BY <1>2, <1>3

LEMMA SpanInside ==
    ASSUME NEW p \in Int, NEW n \in Int, NEW q \in Int, NEW m \in Int, q <= p, p + n <= q + m
    PROVE  Span(p, n) \subseteq Span(q, m)
  <1>. SUFFICES ASSUME NEW x, x \in Span(p, n) PROVE x \in Span(q, m)
    OBVIOUS
  <1>. DEFINE d == PageSize
              b == p + n
              e == q + m
  <1>1. d \in Nat /\ b \in Int /\ e \in Int /\ b <= e
    BY PageSizeOK
  <1>2. x \in Int /\ p * d <= x /\ x < b * d
    BY SpanIs
  <1>3. x \in Int /\ q * d <= x /\ x < e * d => x \in Span(q, m)
    BY SpanIs
  <1>. HIDE DEF b, d, e
  <1>4. b * d <= e * d /\ b * d \in Int /\ e * d \in Int
    BY <1>1, TimesLeq
  <1>5. q * d <= p * d /\ q * d \in Int /\ p * d \in Int
    BY <1>1, TimesLeq
  <1>. QED
    BY <1>2, <1>3, <1>4, <1>5

\* The first address of a page, and what the pages of the pool are.
LEMMA SpanFirst ==
    ASSUME NEW p \in Nat, NEW n \in Nat \ {0}
    PROVE  p * PageSize \in Span(p, n)
  <1>. DEFINE d == PageSize
              b == p + n
  <1>1. d \in Nat \ {0} /\ b \in Int /\ p < b
    BY PageSizeOK
  <1>2. p * d \in Int /\ p * d <= p * d /\ p * d < b * d => p * d \in Span(p, n)
    BY SpanIs
  <1>. HIDE DEF b, d
  <1>3. p * d + d <= b * d
    BY <1>1, TimesStep
  <1>4. p * d \in Int /\ b * d \in Int
    BY <1>1
  <1>5. p * d < b * d
    BY <1>1, <1>3, <1>4
  <1>. QED
    BY <1>2, <1>4, <1>5 DEF d

LEMMA SpanAddress ==
    ASSUME NEW p \in Nat, NEW n \in Nat, p + n <= NPages
    PROVE  Span(p, n) \subseteq Address
  <1>1. Span(p, n) \subseteq Span(0, NPages)
    BY Numbers, SpanInside
  <1>2. Span(0, NPages) = Address
    <2>1. 0 * PageSize = 0 /\ 0 + NPages = NPages
      BY PageSizeOK, Numbers
    <2>. QED
      BY <2>1 DEF Span, Address
  <1>. QED
    BY <1>1, <1>2

\* The page and the offset of an address.
LEMMA AddressPage ==
    ASSUME NEW x \in Address
    PROVE  /\ x \div PageSize \in Page /\ x % PageSize \in 0 .. PageSize - 1
           /\ x = (x \div PageSize) * PageSize + (x % PageSize)
           /\ x \in Nat
  <1>. DEFINE d == PageSize
              p == x \div d
              o == x % d
              N == NPages
  <1>1. d \in Nat \ {0} /\ N \in Nat
    BY PageSizeOK, Numbers
  <1>2. x \in Nat /\ x < N * d
    <2>1. N * d \in Nat
      BY <1>1
    <2>2. x \in 0 .. N * d - 1
      BY DEF Address
    <2>. HIDE DEF N, d
    <2>. QED
      BY <2>1, <2>2
  <1>. HIDE DEF d, N
  <1>3. p \in Nat /\ o \in 0 .. d - 1 /\ x = p * d + o
    BY <1>1, <1>2, DivMod
  <1>. HIDE DEF p, o
  <1>4. p < N
    <2>. SUFFICES ASSUME N <= p PROVE FALSE
      BY <1>1, <1>3
    <2>1. N * d <= p * d /\ N * d \in Int /\ p * d \in Int
      BY <1>1, <1>3, TimesLeq
    <2>. QED
      BY <2>1, <1>1, <1>2, <1>3
  <1>5. p \in Page
    BY <1>3, <1>4, Numbers DEF Page, N
  <1>. QED
    BY <1>2, <1>3, <1>5 DEF p, o, d

\* The addresses of a chunk.
ChunkBytes(p, c, s) == AddrOf(p, c, s) .. AddrOf(p, c, s) + Pow2[s] - 1

LEMMA ChunkBytesIs ==
    ASSUME NEW p \in Page, NEW s \in Shift, NEW c \in ChunkSet(s)
    PROVE  /\ c \in Nat /\ AddrOf(p, c, s) \in Nat
           /\ \A x : x \in ChunkBytes(p, c, s) <=>
                x \in Int /\ p * PageSize + c * Pow2[s] <= x /\ x < p * PageSize + (c + 1) * Pow2[s]
           /\ AddrOf(p, c, s) \in ChunkBytes(p, c, s)
           /\ ChunkBytes(p, c, s) \subseteq Span(p, 1)
  <1>. DEFINE d == PageSize
              w == Pow2[s]
              k == ChunksOf(s)
              a == AddrOf(p, c, s)
  <1>1. d \in Nat \ {0} /\ w \in Nat \ {0} /\ k \in Nat /\ d = k * w
    BY ChunkFacts, PageSizeOK
  <1>2. c \in Nat /\ c < k /\ c + 1 <= k
    <2>1. c \in 0 .. k - 1
      BY DEF ChunkSet
    <2>. HIDE DEF k
    <2>. QED
      BY <2>1, <1>1
  <1>3. a = p * d + c * w
    BY DEF AddrOf
  <1>4. p \in Nat
    BY Numbers DEF Page
  <1>5. ChunkBytes(p, c, s) = a .. a + w - 1
    BY DEF ChunkBytes
  <1>6. \A x : x \in Span(p, 1) <=> x \in Int /\ p * d <= x /\ x < (p + 1) * d
    BY <1>4, SpanIs
  <1>. HIDE DEF d, w, k, a
  <1>7. p * d \in Nat /\ c * w \in Nat /\ a \in Nat
    BY <1>1, <1>2, <1>3, <1>4
  <1>8. (c + 1) * w = c * w + w /\ (p + 1) * d = p * d + d
    BY <1>1, <1>2, <1>4
  <1>9. \A x : x \in ChunkBytes(p, c, s) <=> x \in Int /\ p * d + c * w <= x /\ x < p * d + (c + 1) * w
    <2>. TAKE x
    <2>1. x \in ChunkBytes(p, c, s) <=> x \in Int /\ a <= x /\ x < a + w
      BY <1>1, <1>5, <1>7
    <2>2. a + w = p * d + (c + 1) * w
      BY <1>1, <1>3, <1>7, <1>8
    <2>. QED
      BY <2>1, <2>2, <1>3
  <1>10. a \in ChunkBytes(p, c, s)
    BY <1>1, <1>5, <1>7
  <1>11. (c + 1) * w <= k * w
    BY <1>1, <1>2, TimesLeq
  <1>12. ASSUME NEW x, x \in ChunkBytes(p, c, s) PROVE x \in Span(p, 1)
    <2>1. x \in Int /\ p * d + c * w <= x /\ x < p * d + (c + 1) * w
      BY <1>9, <1>12
    <2>2. (c + 1) * w \in Int
      BY <1>1, <1>2
    <2>3. p * d <= x /\ x < p * d + d
      BY <2>1, <2>2, <1>1, <1>7, <1>11
    <2>. QED
      BY <2>1, <2>3, <1>6, <1>8
  <1>. QED
    BY <1>2, <1>7, <1>9, <1>10, <1>12 DEF a, d, w

LEMMA ChunkBytesApart ==
    ASSUME NEW p \in Page, NEW s \in Shift, NEW c \in ChunkSet(s), NEW e \in ChunkSet(s), c < e
    PROVE  ChunkBytes(p, c, s) \cap ChunkBytes(p, e, s) = {} /\ AddrOf(p, c, s) < AddrOf(p, e, s)
  <1>. DEFINE w == Pow2[s]
              b == p * PageSize
  <1>1. w \in Nat \ {0} /\ b \in Int /\ c \in Nat /\ e \in Nat
    <2>1. p \in Int /\ PageSize \in Int
      BY PageSizeOK, Numbers DEF Page
    <2>. QED
      BY <2>1, ChunkFacts, ChunkBytesIs
  <1>2. AddrOf(p, c, s) = b + c * w /\ AddrOf(p, e, s) = b + e * w
    BY DEF AddrOf
  <1>3. /\ \A x : x \in ChunkBytes(p, c, s) => x \in Int /\ x < b + (c + 1) * w
        /\ \A x : x \in ChunkBytes(p, e, s) => x \in Int /\ b + e * w <= x
    BY ChunkBytesIs
  <1>. HIDE DEF w, b
  <1>4. c * w + w <= e * w /\ (c + 1) * w = c * w + w
    BY <1>1, TimesStep
  <1>5. c * w \in Int /\ e * w \in Int
    BY <1>1
  <1>6. ASSUME NEW x, x \in ChunkBytes(p, c, s), x \in ChunkBytes(p, e, s) PROVE FALSE
    BY <1>1, <1>3, <1>4, <1>5, <1>6
  <1>7. b + c * w < b + e * w
    BY <1>1, <1>4, <1>5
  <1>. QED
    BY <1>2, <1>6, <1>7

\* The pages of a tile.
SizeOf(S, p) == IF S[p].tag = "chunks" THEN 1 ELSE S[p].n

LEMMA TileSize ==
    ASSUME NEW S \in Descriptors, Tiling(S), NEW p \in Page, IsTile(S, p)
    PROVE  /\ SizeOf(S, p) \in Nat \ {0} /\ p + SizeOf(S, p) <= NPages
           /\ \A r \in Page : IsTile(S, r) => r = p \/ r < p \/ p + SizeOf(S, p) <= r
  <1>1. CASE IsChunks(S, p)
    <2>1. SizeOf(S, p) = 1
      BY <1>1 DEF SizeOf, IsChunks
    <2>. QED
      BY <2>1, Numbers DEF Page
  <1>2. CASE IsRun(S, p) \/ IsStart(S, p)
    <2>1. /\ S[p].n \in Nat \ {0} /\ p + S[p].n <= NPages
          /\ \A r \in Page : IsRun(S, r) \/ IsStart(S, r) \/ IsChunks(S, r) =>
                 r = p \/ r < p \/ p + S[p].n <= r
      BY <1>2, NoOverlap, Zenon
    <2>2. SizeOf(S, p) = S[p].n
      BY <1>2 DEF SizeOf, IsRun, IsStart
    <2>. QED
      BY <2>1, <2>2 DEF IsTile
  <1>. QED
    BY <1>1, <1>2 DEF IsTile

LEMMA TileSpans ==
    ASSUME NEW S \in Descriptors, Tiling(S), NEW p \in Page, IsTile(S, p), NEW r \in Page, IsTile(S, r), p # r
    PROVE  Span(p, SizeOf(S, p)) \cap Span(r, SizeOf(S, r)) = {}
  <1>. DEFINE n == SizeOf(S, p)
              m == SizeOf(S, r)
  <1>1. n \in Nat /\ (r < p \/ p + n <= r)
    BY TileSize
  <1>2. m \in Nat /\ (p < r \/ r + m <= p)
    BY TileSize
  <1>3. p \in Int /\ r \in Int
    BY Numbers DEF Page
  <1>. HIDE DEF n, m
  <1>4. CASE p + n <= r
    <2>1. Span(p, n) \cap Span(r, m) = {}
      BY <1>1, <1>2, <1>3, <1>4, SpanApart
    <2>. QED
      BY <2>1 DEF n, m
  <1>5. CASE r + m <= p
    <2>1. Span(r, m) \cap Span(p, n) = {}
      BY <1>1, <1>2, <1>3, <1>5, SpanApart
    <2>. QED
      BY <2>1 DEF n, m
  <1>. QED
    BY <1>1, <1>2, <1>3, <1>4, <1>5

\* The memory that is held of one page, or from it on.
HeldAt(S, p) ==
    {a \in {PageMemory(S, p)} : IsStart(S, p)}
    \cup {ChunkMemory(S, p, c) : c \in {c \in S[p].map \ ReservedSet(S[p].n) : IsChunks(S, p)}}

LEMMA HeldIs ==
    ASSUME NEW S, NEW a
    PROVE  a \in Held(S) <=> \E p \in Page : a \in HeldAt(S, p)
  BY DEF Held, HeldAt

LEMMA HeldAtIs ==
    ASSUME NEW S, NEW p, NEW a
    PROVE  a \in HeldAt(S, p) <=>
             \/ IsStart(S, p) /\ a = PageMemory(S, p)
             \/ IsChunks(S, p) /\ \E c \in S[p].map \ ReservedSet(S[p].n) : a = ChunkMemory(S, p, c)
  BY DEF HeldAt

LEMMA PageMemoryIs ==
    ASSUME NEW S \in Descriptors, NEW p \in Page
    PROVE  /\ Bytes(PageMemory(S, p)) = Span(p, S[p].n)
           /\ PageMemory(S, p).addr = p * PageSize
  <1>. DEFINE n == S[p].n
              d == PageSize
  <1>1. n \in Nat /\ p \in Nat /\ d \in Nat
    BY PageSizeOK, Numbers DEF Page, Descriptors
  <1>2. AddrOf(p, 0, 0) = p * d
    <2>1. Pow2[0] = 1
      BY Pow2Step
    <2>. QED
      BY <2>1, <1>1 DEF AddrOf
  <1>3. PageMemory(S, p).addr = p * d /\ PageMemory(S, p).len = n * d
    BY <1>2 DEF PageMemory
  <1>4. Bytes(PageMemory(S, p)) = p * d .. p * d + n * d - 1
    BY <1>3 DEF Bytes
  <1>5. Span(p, n) = p * d .. (p + n) * d - 1
    BY DEF Span
  <1>. HIDE DEF n, d
  <1>6. (p + n) * d = p * d + n * d /\ p * d \in Int /\ n * d \in Int
    BY <1>1
  <1>7. p * d + n * d - 1 = (p + n) * d - 1
    BY <1>6
  <1>. QED
    BY <1>3, <1>4, <1>5, <1>7 DEF n, d

LEMMA ChunkMemoryIs ==
    ASSUME NEW S, NEW p, NEW c
    PROVE  /\ Bytes(ChunkMemory(S, p, c)) = ChunkBytes(p, c, S[p].n)
           /\ ChunkMemory(S, p, c).addr = AddrOf(p, c, S[p].n)
  BY DEF Bytes, ChunkMemory, ChunkBytes

LEMMA HeldSpan ==
    ASSUME NEW S \in Descriptors, Tiling(S), NEW p \in Page, NEW a \in HeldAt(S, p)
    PROVE  /\ IsTile(S, p) /\ Bytes(a) \subseteq Span(p, SizeOf(S, p)) /\ a.addr \in Bytes(a)
           /\ ~IsRun(S, p)
  <1>1. CASE IsStart(S, p) /\ a = PageMemory(S, p)
    <2>1. S[p].n \in Nat \ {0} /\ SizeOf(S, p) = S[p].n /\ p \in Nat
      <3>1. IsTile(S, p) /\ SizeOf(S, p) = S[p].n
        BY <1>1 DEF SizeOf, IsStart, IsTile
      <3>. QED
        BY <3>1, TileSize, Numbers DEF Page
    <2>2. Bytes(a) = Span(p, S[p].n) /\ a.addr = p * PageSize
      BY <1>1, PageMemoryIs
    <2>3. p * PageSize \in Span(p, S[p].n)
      BY <2>1, SpanFirst
    <2>. QED
      BY <2>1, <2>2, <2>3, <1>1 DEF IsTile, IsStart, IsRun
  <1>2. CASE IsChunks(S, p) /\ \E c \in S[p].map \ ReservedSet(S[p].n) : a = ChunkMemory(S, p, c)
    <2>. DEFINE s == S[p].n
    <2>1. MapOK(s, S[p].map) /\ s \in Shift
      BY <1>2, ListedPages
    <2>2. PICK c \in S[p].map \ ReservedSet(s) : a = ChunkMemory(S, p, c)
      BY <1>2
    <2>3. c \in ChunkSet(s)
      BY <2>1, <2>2 DEF MapOK
    <2>4. Bytes(a) = ChunkBytes(p, c, s) /\ a.addr = AddrOf(p, c, s)
      BY <2>2, ChunkMemoryIs
    <2>. HIDE DEF s
    <2>5. ChunkBytes(p, c, s) \subseteq Span(p, 1) /\ AddrOf(p, c, s) \in ChunkBytes(p, c, s)
      BY <2>1, <2>3, ChunkBytesIs
    <2>6. SizeOf(S, p) = 1
      BY <1>2 DEF SizeOf, IsChunks
    <2>. QED
      BY <2>4, <2>5, <2>6, <1>2 DEF IsTile, IsRun, IsChunks
  <1>. QED
    BY <1>1, <1>2, HeldAtIs

\* What is held of two pages is apart.
LEMMA HeldTwo ==
    ASSUME NEW S \in Descriptors, Tiling(S), NEW p \in Page, NEW a \in HeldAt(S, p), NEW r \in Page, IsTile(S, r), p # r
    PROVE  Bytes(a) \cap Span(r, SizeOf(S, r)) = {}
  <1>1. IsTile(S, p) /\ Bytes(a) \subseteq Span(p, SizeOf(S, p))
    BY HeldSpan
  <1>2. Span(p, SizeOf(S, p)) \cap Span(r, SizeOf(S, r)) = {}
    BY <1>1, TileSpans
  <1>. QED
    BY <1>1, <1>2

\* Memory that is held is apart from all other that is.
LEMMA HeldApart ==
    ASSUME NEW S \in Descriptors, Tiling(S), NEW a \in Held(S), NEW b \in Held(S), a # b
    PROVE  Bytes(a) \cap Bytes(b) = {} /\ a.addr # b.addr
  <1>1. PICK p \in Page : a \in HeldAt(S, p)
    BY HeldIs
  <1>2. PICK r \in Page : b \in HeldAt(S, r)
    BY HeldIs
  <1>3. /\ IsTile(S, p) /\ Bytes(a) \subseteq Span(p, SizeOf(S, p)) /\ a.addr \in Bytes(a)
        /\ IsTile(S, r) /\ Bytes(b) \subseteq Span(r, SizeOf(S, r)) /\ b.addr \in Bytes(b)
    BY <1>1, <1>2, HeldSpan
  <1>4. CASE p # r
    BY <1>3, <1>4, TileSpans
  <1>5. CASE p = r
    <2>. DEFINE s == S[p].n
    <2>1. /\ IsChunks(S, p)
          /\ \E c \in S[p].map \ ReservedSet(s) : a = ChunkMemory(S, p, c)
          /\ \E c \in S[p].map \ ReservedSet(s) : b = ChunkMemory(S, p, c)
      BY <1>1, <1>2, <1>5, HeldAtIs DEF IsStart, IsChunks
    <2>2. MapOK(s, S[p].map) /\ s \in Shift
      BY <2>1, ListedPages
    <2>3. PICK c \in S[p].map \ ReservedSet(s) : a = ChunkMemory(S, p, c)
      BY <2>1
    <2>4. PICK e \in S[p].map \ ReservedSet(s) : b = ChunkMemory(S, p, e)
      BY <2>1
    <2>5. c \in ChunkSet(s) /\ e \in ChunkSet(s) /\ c # e
      BY <2>2, <2>3, <2>4 DEF MapOK
    <2>6. Bytes(a) = ChunkBytes(p, c, s) /\ Bytes(b) = ChunkBytes(p, e, s)
      BY <2>3, <2>4, ChunkMemoryIs
    <2>. HIDE DEF s
    <2>7. c \in Nat /\ e \in Nat
      BY <2>2, <2>5, ChunkBytesIs
    <2>8. CASE c < e
      BY <2>2, <2>5, <2>6, <2>8, <1>3, ChunkBytesApart
    <2>9. CASE e < c
      BY <2>2, <2>5, <2>6, <2>9, <1>3, ChunkBytesApart
    <2>. QED
      BY <2>5, <2>7, <2>8, <2>9
  <1>. QED
    BY <1>4, <1>5

\* ... and in the pool.
LEMMA HeldInside ==
    ASSUME NEW S \in Descriptors, Tiling(S), NEW a \in Held(S)
    PROVE  Bytes(a) \subseteq Address /\ a.addr \in Bytes(a)
  <1>1. PICK p \in Page : a \in HeldAt(S, p)
    BY HeldIs
  <1>2. IsTile(S, p) /\ Bytes(a) \subseteq Span(p, SizeOf(S, p)) /\ a.addr \in Bytes(a)
    BY <1>1, HeldSpan
  <1>3. SizeOf(S, p) \in Nat /\ p + SizeOf(S, p) <= NPages /\ p \in Nat
    BY <1>2, TileSize, Numbers DEF Page
  <1>4. Span(p, SizeOf(S, p)) \subseteq Address
    BY <1>3, SpanAddress
  <1>. QED
    BY <1>2, <1>4

\* ... and apart from the maps of small chunks.
LEMMA HeldMaps ==
    ASSUME NEW q, Sound(q, {}), NEW a \in Held(q.slab), NEW r \in Page
    PROVE  Bytes(a) \cap MapBytes(q, r) = {}
  <1>. DEFINE S == q.slab
  <1>1. S \in Descriptors /\ Tiling(S)
    BY SoundFields
  <1>2. CASE ~IsChunkPage(q, r)
    BY <1>2 DEF MapBytes
  <1>3. CASE IsChunkPage(q, r)
    <2>. DEFINE s == S[r].n
                w == Pow2[s]
                m == Reserved(s)
                b == r * PageSize
    <2>1. IsChunks(S, r)
      BY <1>3, RunPage DEF Told, IsChunkPage
    <2>2. MapOK(s, S[r].map) /\ s \in Shift
      BY <2>1, <1>1, ListedPages
    <2>3. w \in Nat /\ m \in Nat /\ ChunksOf(s) \in Nat /\ m + 2 <= ChunksOf(s) /\ PageSize = ChunksOf(s) * w
      BY <2>2, ChunkFacts
    <2>4. r \in Int /\ PageSize \in Int /\ b \in Int /\ (r + 1) * PageSize = b + PageSize
      <3>1. r \in Int /\ PageSize \in Int
        BY PageSizeOK, Numbers DEF Page
      <3>. QED
        BY <3>1
    <2>5. MapBytes(q, r) = b .. b + m * w - 1
      BY <1>3 DEF MapBytes
    <2>6. m * w <= ChunksOf(s) * w /\ m * w \in Int
      <3>. DEFINE k == ChunksOf(s)
      <3>1. k \in Int /\ m <= k
        BY <2>3
      <3>. HIDE DEF m, w, k
      <3>2. m * w <= k * w /\ m * w \in Int
        BY <3>1, <2>3, TimesLeq
      <3>. QED
        BY <3>2 DEF k
    <2>7. MapBytes(q, r) \subseteq Span(r, 1)
      <3>. SUFFICES ASSUME NEW x, x \in MapBytes(q, r) PROVE x \in Span(r, 1)
        OBVIOUS
      <3>. HIDE DEF m, w, b
      <3>1. x \in Int /\ b <= x /\ x < b + m * w
        BY <2>4, <2>5, <2>6
      <3>2. x < b + PageSize
        BY <3>1, <2>3, <2>4, <2>6
      <3>. QED
        BY <3>1, <3>2, <2>4, SpanIs DEF b
    <2>8. SizeOf(S, r) = 1 /\ IsTile(S, r)
      BY <2>1 DEF SizeOf, IsChunks, IsTile
    <2>9. PICK p \in Page : a \in HeldAt(S, p)
      BY HeldIs
    <2>10. CASE p # r
      <3>1. Bytes(a) \cap Span(r, 1) = {}
        BY <2>8, <2>9, <2>10, <1>1, HeldTwo
      <3>. QED
        BY <3>1, <2>7
    <2>11. CASE p = r
      <3>1. PICK c \in S[r].map \ ReservedSet(s) : a = ChunkMemory(S, r, c)
        BY <2>1, <2>9, <2>11, HeldAtIs DEF IsStart, IsChunks
      <3>2. c \in ChunkSet(s) /\ Bytes(a) = ChunkBytes(r, c, s)
        BY <3>1, <2>2, ChunkMemoryIs DEF MapOK
      <3>3. c \notin 0 .. m - 1
        BY <3>1 DEF ReservedSet
      <3>4. c \in Nat /\ \A x : x \in ChunkBytes(r, c, s) => x \in Int /\ b + c * w <= x
        <4>. HIDE DEF s
        <4>. QED
          BY <3>2, <2>2, ChunkBytesIs DEF s
      <3>. HIDE DEF m, w, b
      <3>5. m <= c
        BY <3>3, <3>4, <2>3
      <3>6. m * w <= c * w /\ c * w \in Int
        BY <3>4, <3>5, <2>3, TimesLeq
      <3>7. ASSUME NEW x, x \in Bytes(a), x \in MapBytes(q, r) PROVE FALSE
        <4>1. x \in Int /\ b + c * w <= x
          BY <3>2, <3>4, <3>7
        <4>2. x < b + m * w
          BY <3>7, <2>4, <2>5, <2>6
        <4>. QED
          BY <4>1, <4>2, <3>6, <2>4, <2>6
      <3>. QED
        BY <3>7
    <2>. QED
      BY <2>10, <2>11
  <1>. QED
    BY <1>2, <1>3

(***************************************************************************)
(* How the memory that is held changes.                                    *)
(***************************************************************************)
LEMMA HeldOnce ==
    ASSUME NEW S \in Descriptors, Tiling(S), NEW p \in Page, NEW r \in Page, NEW a,
           a \in HeldAt(S, p), a \in HeldAt(S, r)
    PROVE  p = r
  <1>1. /\ IsTile(S, p) /\ Bytes(a) \subseteq Span(p, SizeOf(S, p)) /\ a.addr \in Bytes(a)
        /\ IsTile(S, r) /\ Bytes(a) \subseteq Span(r, SizeOf(S, r))
    BY HeldSpan
  <1>2. p # r => Span(p, SizeOf(S, p)) \cap Span(r, SizeOf(S, r)) = {}
    BY <1>1, TileSpans
  <1>. QED
    BY <1>1, <1>2

OthersHeld(S, p, Z) == \A i \in Page : i # p => HeldAt(Z, i) = HeldAt(S, i)

LEMMA OthersKept ==
    ASSUME NEW S, NEW p, NEW Z,
           \A i \in Page : i # p => /\ IsStart(Z, i) <=> IsStart(S, i)
                                    /\ IsChunks(Z, i) <=> IsChunks(S, i)
                                    /\ IsStart(S, i) \/ IsChunks(S, i) => Z[i] = S[i]
    PROVE  OthersHeld(S, p, Z) /\ OthersHeld(Z, p, S)
  <1>1. ASSUME NEW i \in Page, i # p PROVE HeldAt(Z, i) = HeldAt(S, i)
    <2>1. ASSUME NEW a PROVE a \in HeldAt(Z, i) <=> a \in HeldAt(S, i)
      <3>1. CASE IsStart(S, i) \/ IsChunks(S, i)
        <4>1. Z[i] = S[i]
          BY <3>1, <1>1
        <4>2. PageMemory(Z, i) = PageMemory(S, i) /\ \A c : ChunkMemory(Z, i, c) = ChunkMemory(S, i, c)
          BY <4>1 DEF PageMemory, ChunkMemory
        <4>. QED
          BY <4>1, <4>2, <1>1, HeldAtIs
      <3>2. CASE ~(IsStart(S, i) \/ IsChunks(S, i))
        BY <3>2, <1>1, HeldAtIs
      <3>. QED
        BY <3>1, <3>2
    <2>. QED
      BY <2>1
  <1>. QED
    BY <1>1 DEF OthersHeld

LEMMA AddHeld ==
    ASSUME NEW S \in Descriptors, NEW Z \in Descriptors, Tiling(Z), NEW p \in Page, OthersHeld(S, p, Z),
           NEW a, a \notin HeldAt(S, p), HeldAt(Z, p) = HeldAt(S, p) \cup {a}
    PROVE  Held(Z) = Held(S) \cup {a} /\ a \notin Held(S)
  <1>1. \A i \in Page : i # p => HeldAt(Z, i) = HeldAt(S, i)
    BY DEF OthersHeld
  <1>2. \A b : b \in Held(Z) <=> b \in Held(S) \/ b = a
    <2>. TAKE b
    <2>1. b \in Held(Z) <=> \E i \in Page : b \in HeldAt(Z, i)
      BY HeldIs
    <2>2. b \in Held(S) <=> \E i \in Page : b \in HeldAt(S, i)
      BY HeldIs
    <2>. QED
      BY <2>1, <2>2, <1>1
  <1>3. ASSUME a \in Held(S) PROVE FALSE
    <2>1. PICK i \in Page : a \in HeldAt(S, i)
      BY <1>3, HeldIs
    <2>2. i # p /\ a \in HeldAt(Z, i) /\ a \in HeldAt(Z, p)
      BY <2>1, <1>1
    <2>. QED
      BY <2>2, HeldOnce
  <1>. QED
    BY <1>2, <1>3

\* What is held of a page, by what the page is.
LEMMA HeldNone ==
    ASSUME NEW S, NEW p, ~IsStart(S, p), ~IsChunks(S, p)
    PROVE  HeldAt(S, p) = {}
  BY HeldAtIs

LEMMA HeldPages ==
    ASSUME NEW S, NEW p, IsStart(S, p)
    PROVE  HeldAt(S, p) = {PageMemory(S, p)}
  BY HeldAtIs DEF IsStart, IsChunks

ChunkAt(p, c, s) == [addr |-> AddrOf(p, c, s), len |-> Pow2[s]]

LEMMA HeldChunks ==
    ASSUME NEW S, NEW p \in Page, NEW s, NEW map, S[p] = Chunks(s, map)
    PROVE  HeldAt(S, p) = {ChunkAt(p, c, s) : c \in map \ ReservedSet(s)}
  <1>1. S[p].tag = "chunks" /\ S[p].n = s /\ S[p].map = map
    BY Fields
  <1>2. IsChunks(S, p) /\ ~IsStart(S, p)
    BY <1>1 DEF IsChunks, IsStart
  <1>3. \A c : ChunkMemory(S, p, c) = ChunkAt(p, c, s)
    BY <1>1 DEF ChunkMemory, ChunkAt
  <1>4. \A a : a \in HeldAt(S, p) <=> \E c \in map \ ReservedSet(s) : a = ChunkAt(p, c, s)
    BY <1>1, <1>2, <1>3, HeldAtIs
  <1>. QED
    BY <1>4

LEMMA ChunkAtOne ==
    ASSUME NEW p \in Page, NEW s \in Shift, NEW c \in ChunkSet(s), NEW e \in ChunkSet(s), ChunkAt(p, c, s) = ChunkAt(p, e, s)
    PROVE  c = e
  <1>1. AddrOf(p, c, s) = AddrOf(p, e, s)
    BY DEF ChunkAt
  <1>2. c \in Nat /\ e \in Nat /\ AddrOf(p, c, s) \in Nat
    BY ChunkBytesIs
  <1>3. ~(c < e)
    BY <1>1, <1>2, ChunkBytesApart
  <1>4. ~(e < c)
    BY <1>1, <1>2, ChunkBytesApart
  <1>. QED
    BY <1>2, <1>3, <1>4

\* A map with one more chunk.
IsMore(S, p, s, small, c, Z) ==
    /\ c \in ChunkSet(s) \ ReservedSet(s) /\ c \notin small /\ small \subseteq ChunkSet(s)
    /\ S[p] = Chunks(s, small) /\ Z[p] = Chunks(s, small \cup {c})

LEMMA HeldMore ==
    ASSUME NEW S, NEW Z, NEW p \in Page, NEW s \in Shift, NEW small, NEW c, IsMore(S, p, s, small, c, Z)
    PROVE  HeldAt(Z, p) = HeldAt(S, p) \cup {ChunkAt(p, c, s)} /\ ChunkAt(p, c, s) \notin HeldAt(S, p)
  <1>0. /\ c \in ChunkSet(s) \ ReservedSet(s) /\ c \notin small /\ small \subseteq ChunkSet(s)
        /\ S[p] = Chunks(s, small) /\ Z[p] = Chunks(s, small \cup {c})
    BY DEF IsMore
  <1>1. HeldAt(S, p) = {ChunkAt(p, e, s) : e \in small \ ReservedSet(s)}
    BY <1>0, HeldChunks
  <1>2. HeldAt(Z, p) = {ChunkAt(p, e, s) : e \in (small \cup {c}) \ ReservedSet(s)}
    BY <1>0, HeldChunks
  <1>3. (small \cup {c}) \ ReservedSet(s) = (small \ ReservedSet(s)) \cup {c}
    BY <1>0
  <1>4. \A e \in small : ChunkAt(p, e, s) # ChunkAt(p, c, s)
    BY <1>0, ChunkAtOne
  <1>. QED
    BY <1>1, <1>2, <1>3, <1>4

(***************************************************************************)
(* Requests.                                                               *)
(***************************************************************************)
\* What a request leaves: the pool as it was, or more memory that is held.
Grants(q, addr, len, r) ==
    /\ addr # NoPage /\ Sound(r, {})
    /\ [addr |-> addr, len |-> len] \notin Held(q.slab)
    /\ Held(r.slab) = Held(q.slab) \cup {[addr |-> addr, len |-> len]}

NoRun(S, pages) == \A i \in Page : IsRun(S, i) => ~(S[i].n >= pages)
NoPartial(S, s) == \A i \in Page : ~(Partial(S, i) /\ S[i].n = s)

LEMMA AllocPagesSound ==
    ASSUME NEW q, Sound(q, {}), NEW k \in Nat \ {0}, NEW r, r = AllocPages(q, k)
    PROVE  \/ r.addr = NoPage /\ r.pool = q /\ NoRun(q.slab, k)
           \/ Grants(q, r.addr, k * PageSize, r.pool)
  <1>. DEFINE S == q.slab
              p == FirstFit(q, k)
              t == TakeRun(q, p, k)
              Z == t.slab
  <1>1. Fits(S, k, p)
    BY FirstFitFinds
  <1>2. r = IF p = FreeHead THEN [addr |-> NoPage, pool |-> q] ELSE [addr |-> AddrOf(p, 0, 0), pool |-> t]
    BY DEF AllocPages
  <1>. HIDE DEF p
  <1>3. CASE p = FreeHead
    <2>1. r.addr = NoPage /\ r.pool = q
      BY <1>2, <1>3
    <2>2. p \notin Page
      BY <1>3, Nodes
    <2>. QED
      BY <2>1, <2>2, <1>1 DEF Fits, NoRun
  <1>4. CASE p # FreeHead
    <2>1. p \in Page /\ IsRun(S, p) /\ S[p].n >= k
      BY <1>1, <1>4 DEF Fits
    <2>2. S \in Descriptors /\ Tiling(S)
      BY SoundFields
    <2>3. k \in 1 .. S[p].n
      BY <2>1, <2>2 DEF Descriptors
    <2>4. Took(q, p, k, t)
      BY <2>1, <2>3, TakeSound
    <2>. HIDE DEF t
    <2>5. Sound(t, {}) /\ Z = Taken(S, p, k)
      BY <2>4 DEF Took
    <2>6. Takes(S, p, k, Z)
      BY <2>1, <2>2, <2>3, <2>5, TakeTiling
    <2>7. /\ Z \in Descriptors /\ Tiling(Z) /\ Z[p] = Start(k)
          /\ \A i \in Page : IsTile(S, i) /\ i # p => Z[i] = S[i]
          /\ \A i \in Page : IsStart(Z, i) <=> i = p \/ IsStart(S, i)
          /\ \A i \in Page : IsChunks(Z, i) <=> IsChunks(S, i)
      BY <2>6, Zenon DEF Takes
    <2>. HIDE DEF Z
    <2>. DEFINE a == [addr |-> AddrOf(p, 0, 0), len |-> k * PageSize]
    <2>8. OthersHeld(S, p, Z)
      BY <2>7, OthersKept DEF IsTile
    <2>9. HeldAt(S, p) = {}
      BY <2>1, HeldNone DEF IsRun, IsStart, IsChunks
    <2>10. HeldAt(Z, p) = {a}
      <3>1. PageMemory(Z, p) = a
        BY <2>7, Fields DEF PageMemory
      <3>. QED
        BY <3>1, <2>1, <2>7, HeldPages
    <2>11. r.addr = AddrOf(p, 0, 0) /\ r.pool = t
      BY <1>2, <1>4
    <2>12. r.addr # NoPage
      <3>1. PageMemory(S, p).addr = p * PageSize /\ PageMemory(S, p).addr = AddrOf(p, 0, 0)
        BY <2>1, <2>2, PageMemoryIs DEF PageMemory
      <3>2. p \in Nat /\ PageSize \in Nat
        BY <2>1, PageSizeOK, Numbers DEF Page
      <3>3. p * PageSize \in Nat
        BY <3>2
      <3>4. r.addr \in Nat
        BY <3>1, <3>3, <2>11
      <3>. QED
        BY <3>4 DEF NoPage
    <2>13. a = [addr |-> r.addr, len |-> k * PageSize]
      BY <2>11
    <2>. HIDE DEF a
    <2>14. Held(Z) = Held(S) \cup {a} /\ a \notin Held(S)
      <3>1. a \notin HeldAt(S, p) /\ HeldAt(Z, p) = HeldAt(S, p) \cup {a}
        BY <2>9, <2>10
      <3>. QED
        BY <3>1, <2>1, <2>2, <2>7, <2>8, AddHeld
    <2>. QED
      BY <2>5, <2>11, <2>12, <2>13, <2>14 DEF Grants, Z
  <1>. QED
    BY <1>3, <1>4

\* A page of chunks gives one more.
LEMMA ChunkGrants ==
    ASSUME NEW q, Sound(q, {}), NEW p \in Page, NEW s \in Shift, Partial(q.slab, p), q.slab[p].n = s,
           NEW c, c = Min(ChunkSet(s) \ q.slab[p].map), NEW t, t = TakeChunk(q, p, s)
    PROVE  Grants(q, AddrOf(p, c, s), Pow2[s], t)
  <1>. DEFINE S == q.slab
              Z == t.slab
              map == S[p].map
              a == ChunkAt(p, c, s)
  <1>1. /\ Sound(t, {}) /\ Chunked(S, p, s, map \cup {c}, Z) /\ c \in ChunkSet(s) \ map
    BY TakeChunkSound
  <1>2. S \in Descriptors /\ Tiling(S)
    BY SoundFields
  <1>3. IsChunks(S, p)
    BY DEF Partial
  <1>4. S[p] = Chunks(s, map) /\ MapOK(s, map)
    BY <1>2, <1>3, ListedPages
  <1>5. /\ Z \in Descriptors /\ Tiling(Z) /\ Z[p] = Chunks(s, map \cup {c})
        /\ \A i \in Page : i # p => Z[i] = S[i]
        /\ \A i \in Page : IsStart(Z, i) <=> IsStart(S, i) /\ i # p
        /\ \A i \in Page : IsChunks(Z, i) <=> IsChunks(S, i) \/ i = p
    BY <1>1, Zenon DEF Chunked
  <1>. HIDE DEF Z
  <1>6. OthersHeld(S, p, Z)
    BY <1>5, OthersKept
  <1>7. map \subseteq ChunkSet(s) /\ c \in ChunkSet(s) \ ReservedSet(s) /\ c \notin map
    BY <1>1, <1>4 DEF MapOK
  <1>. HIDE DEF map
  <1>8. HeldAt(Z, p) = HeldAt(S, p) \cup {a} /\ a \notin HeldAt(S, p)
    <2>1. IsMore(S, p, s, map, c, Z)
      BY <1>4, <1>5, <1>7 DEF IsMore
    <2>. QED
      BY <2>1, HeldMore
  <1>9. AddrOf(p, c, s) # NoPage
    <2>1. AddrOf(p, c, s) \in Nat
      BY <1>7, ChunkBytesIs
    <2>. QED
      BY <2>1 DEF NoPage
  <1>. HIDE DEF a
  <1>10. Held(Z) = Held(S) \cup {a} /\ a \notin Held(S)
    BY <1>2, <1>5, <1>6, <1>8, AddHeld
  <1>. QED
    BY <1>1, <1>9, <1>10 DEF Grants, Z, a, ChunkAt

\* A free page becomes one of chunks.
LEMMA PageGrants ==
    ASSUME NEW q, Sound(q, {}), NEW p \in Page, NEW s \in Shift, IsRun(q.slab, p),
           q.next[SlotHead(s)] = SlotHead(s), NEW t, t = NewChunkPage(q, p, s)
    PROVE  Grants(q, AddrOf(p, Reserved(s), s), Pow2[s], t)
  <1>. DEFINE S == q.slab
              Y == Taken(S, p, 1)
              Z == t.slab
              c == Reserved(s)
              a == ChunkAt(p, c, s)
  <1>1. Sound(t, {}) /\ Chunked(Y, p, s, NewMap(s), Z)
    BY NewChunkSound
  <1>2. S \in Descriptors /\ Tiling(S)
    BY SoundFields
  <1>3. Takes(S, p, 1, Y)
    <2>1. 1 \in 1 .. S[p].n
      <3>1. S[p].n \in Nat
        BY <1>2 DEF Descriptors
      <3>. QED
        BY <3>1 DEF IsRun
    <2>. QED
      BY <2>1, <1>2, TakeTiling
  <1>. HIDE DEF Y
  <1>4. /\ \A i \in Page : IsTile(S, i) /\ i # p => Y[i] = S[i]
        /\ \A i \in Page : IsStart(Y, i) <=> i = p \/ IsStart(S, i)
        /\ \A i \in Page : IsChunks(Y, i) <=> IsChunks(S, i)
    BY <1>3, Zenon DEF Takes
  <1>5. /\ Z \in Descriptors /\ Tiling(Z) /\ Z[p] = Chunks(s, NewMap(s))
        /\ \A i \in Page : i # p => Z[i] = Y[i]
        /\ \A i \in Page : IsStart(Z, i) <=> IsStart(Y, i) /\ i # p
        /\ \A i \in Page : IsChunks(Z, i) <=> IsChunks(Y, i) \/ i = p
    BY <1>1, Zenon DEF Chunked
  <1>. HIDE DEF Z
  <1>6. OthersHeld(S, p, Z)
    BY <1>4, <1>5, OthersKept DEF IsTile
  <1>7. HeldAt(S, p) = {}
    BY HeldNone DEF IsRun, IsStart, IsChunks
  <1>8. c \in ChunkSet(s) /\ NewMap(s) \ ReservedSet(s) = {c}
    <2>. DEFINE k == ChunksOf(s)
    <2>1. c \in Nat /\ k \in Nat /\ c + 2 <= k
      BY ChunkFacts
    <2>2. NewMap(s) = 0 .. c /\ ReservedSet(s) = 0 .. c - 1 /\ ChunkSet(s) = 0 .. k - 1
      BY DEF NewMap, ReservedSet, ChunkSet
    <2>. HIDE DEF c, k
    <2>. QED
      BY <2>1, <2>2
  <1>. HIDE DEF c
  <1>9. HeldAt(Z, p) = {a}
    <2>1. HeldAt(Z, p) = {ChunkAt(p, e, s) : e \in NewMap(s) \ ReservedSet(s)}
      BY <1>5, HeldChunks
    <2>. QED
      BY <2>1, <1>8
  <1>10. AddrOf(p, c, s) # NoPage
    <2>1. AddrOf(p, c, s) \in Nat
      BY <1>8, ChunkBytesIs
    <2>. QED
      BY <2>1 DEF NoPage
  <1>. HIDE DEF a
  <1>11. Held(Z) = Held(S) \cup {a} /\ a \notin Held(S)
    <2>1. a \notin HeldAt(S, p) /\ HeldAt(Z, p) = HeldAt(S, p) \cup {a}
      BY <1>7, <1>9
    <2>. QED
      BY <2>1, <1>2, <1>5, <1>6, AddHeld
  <1>. QED
    BY <1>1, <1>10, <1>11 DEF Grants, Z, a, c, ChunkAt

LEMMA AllocChunkSound ==
    ASSUME NEW q, Sound(q, {}), NEW s \in Shift, NEW r, r = AllocChunk(q, s)
    PROVE  \/ r.addr = NoPage /\ r.pool = q /\ NoRun(q.slab, 1) /\ NoPartial(q.slab, s)
           \/ Grants(q, r.addr, Pow2[s], r.pool)
  <1>. DEFINE S == q.slab
              h == SlotHead(s)
              p == q.next[h]
              f == FirstFit(q, 1)
              c == Min(ChunkSet(s) \ S[p].map)
  <1>1. S \in Descriptors /\ Tiling(S) /\ Homed(Listed(S, {}), HomeOf(S))
        /\ Chained(q.next, Ptr(q.prev), Listed(S, {}), HomeOf(S))
    BY SoundFields
  <1>2. h \in Heads /\ h \notin Page
    BY Nodes
  <1>3. p = h \/ (p \in Listed(S, {}) /\ HomeOf(S)[p] = h)
    BY <1>2, HeadLinks
  <1>4. Fits(S, 1, f)
    BY FirstFitFinds
  <1>5. r = IF q.next[p] # p THEN [addr |-> AddrOf(p, c, s), pool |-> TakeChunk(q, p, s)]
            ELSE IF f # FreeHead
            THEN [addr |-> AddrOf(f, Reserved(s), s), pool |-> NewChunkPage(q, f, s)]
            ELSE [addr |-> NoPage, pool |-> q]
    BY DEF AllocChunk
  <1>6. CASE p = h
    <2>1. q.next[h] = h /\ q.next[p] = p
      BY <1>6
    <2>. HIDE DEF h, p, f
    <2>2. CASE f # FreeHead
      <3>1. r.addr = AddrOf(f, Reserved(s), s) /\ r.pool = NewChunkPage(q, f, s)
        BY <2>1, <2>2, <1>5
      <3>2. f \in Page /\ IsRun(S, f)
        BY <2>2, <1>4 DEF Fits
      <3>3. Grants(q, AddrOf(f, Reserved(s), s), Pow2[s], NewChunkPage(q, f, s))
        BY <3>2, <2>1, PageGrants DEF h
      <3>. QED
        BY <3>1, <3>3
    <2>3. CASE f = FreeHead
      <3>1. r.addr = NoPage /\ r.pool = q
        BY <2>1, <2>3, <1>5
      <3>2. NoRun(S, 1)
        BY <2>3, <1>4, Nodes DEF Fits, NoRun
      <3>3. ASSUME NEW i \in Page, Partial(S, i), S[i].n = s PROVE FALSE
        <4>1. i \in Listed(S, {})
          BY <3>3 DEF Listed
        <4>2. HomeOf(S)[i] = h
          BY <3>3 DEF HomeOf, Partial, IsChunks, h
        <4>3. q.next[HomeOf(S)[i]] # HomeOf(S)[i]
          BY <4>1, <1>1, HeadListed
        <4>. QED
          BY <4>2, <4>3, <2>1
      <3>. QED
        BY <3>1, <3>2, <3>3 DEF NoPartial
    <2>. QED
      BY <2>2, <2>3
  <1>7. CASE p # h
    <2>1. p \in Listed(S, {}) /\ HomeOf(S)[p] = h
      BY <1>3, <1>7
    <2>2. q.next[p] # p /\ p \in Page
      BY <2>1, PoolLinks
    <2>3. S[p].tag = "chunks" /\ h = SlotHead(S[p].n)
      BY <2>1, <2>2, Nodes DEF HomeOf
    <2>4. IsChunks(S, p) /\ Partial(S, p)
      BY <2>1, <2>3 DEF Listed, Partial, IsChunks, IsRun
    <2>5. S[p].n \in Shift
      BY <2>2, <2>4, <1>1, ListedPages
    <2>6. S[p].n = s
      BY <2>3, <2>5, Nodes
    <2>7. r.addr = AddrOf(p, c, s) /\ r.pool = TakeChunk(q, p, s)
      BY <2>2, <1>5
    <2>. HIDE DEF h, p
    <2>8. Grants(q, AddrOf(p, c, s), Pow2[s], TakeChunk(q, p, s))
      BY <2>2, <2>4, <2>6, ChunkGrants
    <2>. QED
      BY <2>7, <2>8
  <1>. QED
    BY <1>6, <1>7

\* A request is granted, or there is no room for it.
Refuses(S, size) ==
    IF size > MaxSize THEN NoRun(S, PagesFor(size)) ELSE NoRun(S, 1) /\ NoPartial(S, ShiftFor(size))

Answers(q, size, r) ==
    \/ r.addr = NoPage /\ r.pool = q /\ Refuses(q.slab, size)
    \/ Grants(q, r.addr, LengthOf(size), r.pool)

LEMMA AllocSound ==
    ASSUME NEW q, Sound(q, {}), NEW size \in Sizes
    PROVE  Answers(q, size, SlabAlloc(q, size))
  <1>. DEFINE r == SlabAlloc(q, size)
  <1>1. size \in Nat \ {0} /\ MaxSize \in Nat
    <2>1. PageSize \in Nat
      BY PageSizeOK
    <2>. QED
      BY <2>1, SlabAssumption DEF MaxSize
  <1>2. CASE size > MaxSize
    <2>1. r = AllocPages(q, PagesFor(size))
      BY <1>2 DEF SlabAlloc
    <2>2. PagesFor(size) \in Nat \ {0}
      BY <1>1, PagesForOK
    <2>. HIDE DEF r
    <2>3. \/ r.addr = NoPage /\ r.pool = q /\ NoRun(q.slab, PagesFor(size))
          \/ Grants(q, r.addr, PagesFor(size) * PageSize, r.pool)
      BY <2>1, <2>2, AllocPagesSound
    <2>4. LengthOf(size) = PagesFor(size) * PageSize
      BY <1>2 DEF LengthOf
    <2>5. Answers(q, size, r)
      BY <2>3, <2>4, <1>2 DEF Answers, Refuses
    <2>. QED
      BY <2>5 DEF r
  <1>3. CASE ~(size > MaxSize)
    <2>1. r = AllocChunk(q, ShiftFor(size))
      BY <1>3 DEF SlabAlloc
    <2>2. ShiftFor(size) \in Shift
      BY <1>1, <1>3, ShiftForOK
    <2>. HIDE DEF r
    <2>3. \/ r.addr = NoPage /\ r.pool = q /\ NoRun(q.slab, 1) /\ NoPartial(q.slab, ShiftFor(size))
          \/ Grants(q, r.addr, Pow2[ShiftFor(size)], r.pool)
      BY <2>1, <2>2, AllocChunkSound
    <2>4. LengthOf(size) = Pow2[ShiftFor(size)]
      BY <1>3 DEF LengthOf
    <2>5. Answers(q, size, r)
      BY <2>3, <2>4, <1>3 DEF Answers, Refuses
    <2>. QED
      BY <2>5 DEF r
  <1>. QED
    BY <1>2, <1>3

(***************************************************************************)
(* Memory is given back.                                                   *)
(***************************************************************************)
\* Memory of the page p is no longer held.
LEMMA DropHeld ==
    ASSUME NEW S \in Descriptors, Tiling(S), NEW Z \in Descriptors, NEW p \in Page, Drops(S, p, Z), NEW a, HeldAt(S, p) = {a}
    PROVE  Held(Z) = Held(S) \ {a}
  <1>1. \A i \in Page : /\ IsStart(Z, i) <=> i # p /\ IsStart(S, i)
                        /\ IsChunks(Z, i) <=> i # p /\ IsChunks(S, i)
                        /\ IsStart(Z, i) \/ IsChunks(Z, i) => Z[i] = S[i]
    BY DEF Drops
  <1>2. OthersHeld(Z, p, S)
    BY <1>1, OthersKept
  <1>3. HeldAt(Z, p) = {}
    BY <1>1, HeldNone
  <1>4. Held(S) = Held(Z) \cup {a} /\ a \notin Held(Z)
    <2>1. a \notin HeldAt(Z, p) /\ HeldAt(S, p) = HeldAt(Z, p) \cup {a}
      BY <1>3
    <2>. QED
      BY <2>1, <1>2, AddHeld
  <1>. QED
    BY <1>4

Returns(q, a, r) == Sound(r, {}) /\ Held(r.slab) = Held(q.slab) \ {a}

LEMMA FreeStart ==
    ASSUME NEW q, Sound(q, {}), NEW p \in Page, IsStart(q.slab, p), NEW a, a = PageMemory(q.slab, p),
           NEW r, r = SlabFree(q, a.addr)
    PROVE  Returns(q, a, r)
  <1>. DEFINE S == q.slab
              d == PageSize
  <1>1. S \in Descriptors /\ Tiling(S) /\ IsPool(q)
    BY SoundFields
  <1>2. a.addr = p * d
    BY <1>1, PageMemoryIs
  <1>3. a.addr \div d = p /\ a.addr % d = 0
    <2>1. d \in Nat \ {0} /\ p \in Nat /\ 0 \in 0 .. d - 1
      BY PageSizeOK, Numbers DEF Page
    <2>2. (p * d + 0) \div d = p /\ (p * d + 0) % d = 0
      BY <2>1, DivModUnique
    <2>. HIDE DEF d
    <2>3. p * d + 0 = p * d
      BY <2>1
    <2>. QED
      BY <2>2, <2>3, <1>2
  <1>4. q.prev[p].type = "page" /\ S[p].tag = "start"
    <2>1. Told(q, p)
      BY RunPage
    <2>. QED
      BY <2>1 DEF Told, IsStart, IsChunks
  <1>5. r = FreePages(q, p, S[p].n)
    BY <1>3, <1>4 DEF SlabFree
  <1>6. SameBut(q, p, q)
    BY <1>1 DEF SameBut
  <1>7. CanFree(S, p, S[p].n)
    BY DEF CanFree
  <1>8. Sound(r, {}) /\ Drops(S, p, r.slab)
    BY <1>5, <1>6, <1>7, FreePagesSound
  <1>9. HeldAt(S, p) = {a}
    BY HeldPages
  <1>10. r.slab \in Descriptors
    BY <1>8, SoundFields
  <1>11. Held(r.slab) = Held(S) \ {a}
    BY <1>1, <1>8, <1>9, <1>10, DropHeld
  <1>. QED
    BY <1>8, <1>11 DEF Returns

LEMMA ChunkAddress ==
    ASSUME NEW p \in Page, NEW s \in Shift, NEW c \in ChunkSet(s), NEW x, x = AddrOf(p, c, s)
    PROVE  /\ x \div PageSize = p /\ (x % PageSize) % Pow2[s] = 0 /\ (x % PageSize) \div Pow2[s] = c
  <1>. DEFINE d == PageSize
              w == Pow2[s]
              k == ChunksOf(s)
              o == c * w
  <1>1. d \in Nat \ {0} /\ w \in Nat \ {0} /\ k \in Nat /\ d = k * w /\ p \in Nat
    BY ChunkFacts, PageSizeOK, Numbers DEF Page
  <1>2. c \in Nat /\ c < k
    <2>1. c \in 0 .. k - 1
      BY DEF ChunkSet
    <2>. HIDE DEF k
    <2>. QED
      BY <2>1, <1>1
  <1>3. x = p * d + o
    BY DEF AddrOf
  <1>. HIDE DEF d, w, k
  <1>4. c * w + w <= k * w /\ c * w \in Nat /\ k * w \in Nat
    BY <1>1, <1>2, TimesStep
  <1>5. o \in 0 .. d - 1
    BY <1>1, <1>4
  <1>6. o \div w = c /\ o % w = 0
    <2>1. 0 \in 0 .. w - 1
      BY <1>1
    <2>2. (c * w + 0) \div w = c /\ (c * w + 0) % w = 0
      BY <2>1, <1>1, <1>2, DivModUnique
    <2>3. c * w + 0 = o
      BY <1>4
    <2>. QED
      BY <2>2, <2>3
  <1>. HIDE DEF o
  <1>7. x \div d = p /\ x % d = o
    BY <1>1, <1>3, <1>5, DivModUnique
  <1>. QED
    BY <1>6, <1>7 DEF d, w

LEMMA FreeChunkMemory ==
    ASSUME NEW q, Sound(q, {}), NEW p \in Page, IsChunks(q.slab, p), NEW c \in q.slab[p].map \ ReservedSet(q.slab[p].n),
           NEW a, a = ChunkMemory(q.slab, p, c), NEW r, r = SlabFree(q, a.addr)
    PROVE  Returns(q, a, r)
  <1>. DEFINE S == q.slab
              s == S[p].n
              map == S[p].map
              small == map \ {c}
              Z == r.slab
  <1>1. S \in Descriptors /\ Tiling(S)
    BY SoundFields
  <1>2. S[p] = Chunks(s, map) /\ MapOK(s, map) /\ s \in Shift
    BY <1>1, ListedPages
  <1>3. c \in ChunkSet(s) /\ c \in map /\ map \subseteq ChunkSet(s) /\ ReservedSet(s) \subseteq map
    BY <1>2 DEF MapOK
  <1>4. a.addr = AddrOf(p, c, s)
    BY ChunkMemoryIs
  <1>5. a.addr \div PageSize = p /\ (a.addr % PageSize) % Pow2[s] = 0 /\ (a.addr % PageSize) \div Pow2[s] = c
    BY <1>2, <1>3, <1>4, ChunkAddress
  <1>6. q.prev[p].type # "page"
    <2>1. Told(q, p)
      BY RunPage
    <2>. QED
      BY <2>1 DEF Told
  <1>7. r = GiveChunk(q, p, c)
    BY <1>3, <1>5, <1>6 DEF SlabFree
  <1>8. Gives(q, p, c, r)
    BY <1>7, GiveSound
  <1>9. Sound(r, {}) /\ Z \in Descriptors
    <2>1. Sound(r, {})
      BY <1>8 DEF Gives
    <2>. QED
      BY <2>1, SoundFields
  <1>10. a = ChunkAt(p, c, s)
    BY DEF ChunkMemory, ChunkAt
  <1>11. CASE small \subseteq ReservedSet(s)
    <2>1. Drops(S, p, Z)
      BY <1>8, <1>11 DEF Gives
    <2>2. map \ ReservedSet(s) = {c}
      BY <1>11
    <2>3. HeldAt(S, p) = {ChunkAt(p, e, s) : e \in map \ ReservedSet(s)}
      BY <1>2, HeldChunks
    <2>4. HeldAt(S, p) = {a}
      BY <2>2, <2>3, <1>10
    <2>. HIDE DEF Z
    <2>5. Held(Z) = Held(S) \ {a}
      BY <2>1, <2>4, <1>1, <1>9, DropHeld
    <2>. QED
      BY <2>5, <1>9 DEF Returns, Z
  <1>12. CASE ~(small \subseteq ReservedSet(s))
    <2>1. Chunked(S, p, s, small, Z)
      BY <1>8, <1>12 DEF Gives
    <2>. HIDE DEF Z
    <2>2. /\ Z[p] = Chunks(s, small)
          /\ \A i \in Page : i # p => Z[i] = S[i]
          /\ \A i \in Page : IsStart(Z, i) <=> IsStart(S, i) /\ i # p
          /\ \A i \in Page : IsChunks(Z, i) <=> IsChunks(S, i) \/ i = p
      BY <2>1, Zenon DEF Chunked
    <2>3. OthersHeld(Z, p, S)
      BY <2>2, OthersKept
    <2>4. IsMore(Z, p, s, small, c, S)
      <3>1. small \cup {c} = map /\ c \notin small /\ small \subseteq ChunkSet(s)
        BY <1>3
      <3>. HIDE DEF small, map, s
      <3>. QED
        BY <3>1, <2>2, <1>2, <1>3 DEF IsMore, map, s
    <2>. HIDE DEF small, s
    <2>5. HeldAt(S, p) = HeldAt(Z, p) \cup {a} /\ a \notin HeldAt(Z, p)
      BY <2>4, <1>2, <1>10, HeldMore
    <2>6. Held(S) = Held(Z) \cup {a} /\ a \notin Held(Z)
      BY <2>3, <2>5, <1>1, <1>9, AddHeld
    <2>7. Held(Z) = Held(S) \ {a}
      BY <2>6
    <2>. QED
      BY <2>7, <1>9 DEF Returns, Z
  <1>. QED
    BY <1>11, <1>12

LEMMA FreeSound ==
    ASSUME NEW q, Sound(q, {}), NEW a \in Held(q.slab)
    PROVE  Returns(q, a, SlabFree(q, a.addr))
  <1>1. PICK p \in Page : a \in HeldAt(q.slab, p)
    BY HeldIs
  <1>2. CASE IsStart(q.slab, p) /\ a = PageMemory(q.slab, p)
    BY <1>2, FreeStart
  <1>3. CASE IsChunks(q.slab, p) /\ \E c \in q.slab[p].map \ ReservedSet(q.slab[p].n) : a = ChunkMemory(q.slab, p, c)
    BY <1>3, FreeChunkMemory
  <1>. QED
    BY <1>1, <1>2, <1>3, HeldAtIs

(***************************************************************************)
(* The invariant is one.                                                   *)
(***************************************************************************)
LEMMA SlabInitInv == SlabInit => SlabInv
  <1>. SUFFICES ASSUME SlabInit PROVE SlabInv
    OBVIOUS
  <1>. DEFINE S == [p \in Page |-> IF p = 0 THEN Run(NPages) ELSE Run(0)]
              X == [p \in Node |-> IF p = 0 THEN FreeHead
                                   ELSE IF p = FreeHead THEN 0
                                   ELSE IF p \in Page THEN NoPage ELSE p]
              V == [p \in Node |-> IF p = 0 THEN PagePtr(FreeHead) ELSE Unlinked("page")]
              z == [s \in Shift |-> 0]
  <1>1. pool = [slab |-> S, next |-> X, prev |-> V, pfree |-> NPages, total |-> z, used |-> z] /\ live = {}
    BY DEF SlabInit
  <1>2. 0 \in Page /\ 0 \in Node /\ NPages \in Nat \ {0} /\ \A p \in Page : p \in Nat /\ p < NPages
    <2>1. 0 \in Page
      BY Numbers DEF Page
    <2>. QED
      BY <2>1, Numbers, Nodes DEF Page
  <1>3. FreeHead \in Node /\ FreeHead # 0 /\ FreeHead \in Heads
    BY <1>2, Nodes
  <1>4. S \in Descriptors
    <2>1. /\ Run(0) \in [tag : {"run", "start", "busy", "chunks"}, n : Nat, map : SUBSET Nat]
          /\ Run(NPages) \in [tag : {"run", "start", "busy", "chunks"}, n : Nat, map : SUBSET Nat]
      BY <1>2, DescriptorType
    <2>. QED
      BY <2>1 DEF Descriptors
  <1>5. X \in [Node -> Node \cup {NoPage}]
    BY <1>2, <1>3
  <1>6. V \in [Node -> [ptr : Node \cup {NoPage}, type : SlabTypes]]
    <2>1. /\ PagePtr(FreeHead) \in [ptr : Node \cup {NoPage}, type : SlabTypes]
          /\ Unlinked("page") \in [ptr : Node \cup {NoPage}, type : SlabTypes]
      BY <1>3 DEF PagePtr, Unlinked, Link, SlabTypes
    <2>. QED
      BY <2>1
  <1>7. /\ S[0] = Run(NPages) /\ \A p \in Page : p # 0 => S[p] = Run(0)
        /\ X[0] = FreeHead /\ X[FreeHead] = 0
        /\ \A p \in Page : p # 0 => X[p] = NoPage
        /\ \A h \in Heads : h # FreeHead => X[h] = h
        /\ \A p \in Page : V[p].type = "page"
        /\ V[0].ptr = FreeHead
    <2>1. PagePtr(FreeHead).ptr = FreeHead /\ PagePtr(FreeHead).type = "page" /\ (Unlinked("page")).type = "page"
      BY DEF PagePtr, Unlinked, Link
    <2>2. \A p \in Page : p \in Node /\ p # FreeHead
      BY Nodes
    <2>3. \A h \in Heads : h \in Node /\ h \notin Page /\ h # 0
      BY <1>2, Nodes
    <2>. QED
      BY <2>1, <2>2, <2>3, <1>2, <1>3
  <1>. HIDE DEF S, X, V, z
  <1>8. pool.slab = S /\ pool.next = X /\ pool.prev = V
    BY <1>1
  <1>9. IsPool(pool)
    <2>1. pool = [slab |-> pool.slab, next |-> pool.next, prev |-> pool.prev,
                  pfree |-> pool.pfree, total |-> pool.total, used |-> pool.used]
      BY <1>1
    <2>. QED
      BY <2>1, <1>4, <1>5, <1>6, <1>8 DEF IsPool
  <1>10. S[0].tag = "run" /\ S[0].n = NPages /\ \A p \in Page : p # 0 => S[p].tag = "run" /\ S[p].n = 0
    BY <1>7, Fields
  <1>11. \A p \in Page : (IsRun(S, p) <=> p = 0) /\ ~IsStart(S, p) /\ ~IsChunks(S, p)
    BY <1>2, <1>10 DEF IsRun, IsStart, IsChunks
  <1>12. Tiling(S)
    <2>1. \A i \in 0 + 1 .. NPages - 1 : S[i] = Run(0)
      BY <1>2, <1>7 DEF Page
    <2>2. NPages = 0 + NPages /\ NPages \in Int /\ NPages <= NPages
      BY <1>2
    <2>3. Tiled(S, 0, NPages)
      BY <2>1, <2>2, <1>2, <1>7, RunBlock
    <2>. QED
      BY <2>3, TiledAll
  <1>13. Listed(S, {}) = {0}
    BY <1>2, <1>11 DEF Listed, Partial
  <1>14. HomeOf(S)[0] = FreeHead
    BY <1>2, <1>10 DEF HomeOf
  <1>15. Chained(X, Ptr(V), Listed(S, {}), HomeOf(S))
    <2>. DEFINE rank == [p \in Page |-> 0]
    <2>1. Ptr(V)[0] = FreeHead
      BY <1>2, <1>7 DEF Ptr
    <2>2. FreeHead \notin {0}
      BY <1>3
    <2>3. Linked(X, Ptr(V), {0}, HomeOf(S), rank)
      BY <2>1, <2>2, <1>3, <1>7, <1>14 DEF Linked
    <2>4. rank \in [Page -> Nat]
      OBVIOUS
    <2>. HIDE DEF rank
    <2>. QED
      BY <2>3, <2>4, <1>13 DEF Chained
  <1>16. Unlisted(S, X, {})
    BY <1>7, <1>13 DEF Unlisted
  <1>17. Typed(S, V, {})
    BY <1>7, <1>10 DEF Typed
  <1>18. Tails(S, V, {})
    BY <1>2, <1>10, <1>11 DEF Tails
  <1>19. Apart(S, {})
    BY <1>2, <1>10, <1>11 DEF Apart
  <1>20. Sound(pool, {})
    BY <1>8, <1>9, <1>12, <1>15, <1>16, <1>17, <1>18, <1>19, Zenon DEF Sound
  <1>21. Held(S) = {}
    BY <1>11 DEF Held
  <1>. QED
    BY <1>1, <1>8, <1>20, <1>21 DEF SlabInv

LEMMA AllocInv ==
    ASSUME SlabInv, NEW size \in Sizes, Alloc(size)
    PROVE  SlabInv'
  <1>. DEFINE r == SlabAlloc(pool, size)
  <1>1. Sound(pool, {}) /\ live = Held(pool.slab)
    BY DEF SlabInv
  <1>2. /\ pool' = r.pool
        /\ live' = IF r.addr = NoPage THEN live ELSE live \cup {[addr |-> r.addr, len |-> LengthOf(size)]}
    BY DEF Alloc
  <1>3. Answers(pool, size, r)
    BY <1>1, AllocSound
  <1>. HIDE DEF r
  <1>4. CASE r.addr = NoPage
    <2>1. r.pool = pool
      BY <1>3, <1>4 DEF Answers, Grants
    <2>2. pool' = pool /\ live' = live
      BY <2>1, <1>2, <1>4
    <2>. QED
      BY <2>2, <1>1 DEF SlabInv
  <1>5. CASE r.addr # NoPage
    <2>1. Sound(r.pool, {}) /\ Held(r.pool.slab) = Held(pool.slab) \cup {[addr |-> r.addr, len |-> LengthOf(size)]}
      BY <1>3, <1>5 DEF Answers, Grants
    <2>2. Sound(pool', {}) /\ live' = Held(pool'.slab)
      BY <2>1, <1>1, <1>2, <1>5
    <2>. QED
      BY <2>2 DEF SlabInv
  <1>. QED
    BY <1>4, <1>5

LEMMA FreeInv ==
    ASSUME SlabInv, NEW a \in live, Free(a)
    PROVE  SlabInv'
  <1>1. Sound(pool, {}) /\ live = Held(pool.slab)
    BY DEF SlabInv
  <1>2. pool' = SlabFree(pool, a.addr) /\ live' = live \ {a}
    BY DEF Free
  <1>3. Returns(pool, a, SlabFree(pool, a.addr))
    BY <1>1, FreeSound
  <1>4. Sound(pool', {}) /\ Held(pool'.slab) = Held(pool.slab) \ {a}
    BY <1>2, <1>3 DEF Returns
  <1>. QED
    BY <1>1, <1>2, <1>4 DEF SlabInv

\* The invariant of the allocator (stl_slab.c:207, 383, 457): the descriptors divide the
\* pool into free runs, allocations and pages of chunks; the lists hold the free runs, no two
\* of which touch, and the pages that have a free chunk; and what callers hold is what the
\* descriptors and the maps say.
THEOREM SlabInvariant == SlabSpec => []SlabInv
  <1>1. SlabInit => SlabInv
    BY SlabInitInv
  <1>2. SlabInv /\ [SlabNext]_slabVars => SlabInv'
    <2>. SUFFICES ASSUME SlabInv, [SlabNext]_slabVars PROVE SlabInv'
      OBVIOUS
    <2>1. ASSUME NEW size \in Sizes, Alloc(size) PROVE SlabInv'
      BY <2>1, AllocInv
    <2>2. ASSUME NEW a \in live, Free(a) PROVE SlabInv'
      BY <2>2, FreeInv
    <2>3. CASE UNCHANGED slabVars
      BY <2>3 DEF slabVars, SlabInv
    <2>. QED
      BY <2>1, <2>2, <2>3 DEF SlabNext
  <1>. QED
    BY <1>1, <1>2, PTL DEF SlabSpec

(***************************************************************************)
(* Pages that nobody holds.                                                *)
(***************************************************************************)
LEMMA UnusedIs ==
    ASSUME SlabInv, NEW p \in Page
    PROVE  p \in Unused <=> \E h \in Page : IsRun(pool.slab, h) /\ p \in Block(pool.slab, h)
  <1>. DEFINE S == pool.slab
  <1>1. Sound(pool, {}) /\ live = Held(S)
    BY DEF SlabInv
  <1>2. S \in Descriptors /\ Tiling(S)
    BY <1>1, SoundFields
  <1>3. p \in Unused <=> \A a \in Held(S) : Bytes(a) \cap Span(p, 1) = {}
    BY <1>1 DEF Unused, Span
  <1>4. \A i \in Page : i \in Nat
    BY Numbers DEF Page
  <1>5. ASSUME NEW h \in Page, IsRun(S, h), p \in Block(S, h), NEW a \in Held(S)
        PROVE  Bytes(a) \cap Span(p, 1) = {}
    <2>1. PICK i \in Page : a \in HeldAt(S, i)
      BY HeldIs
    <2>2. i # h
      BY <2>1, <1>2, <1>5, HeldSpan
    <2>3. IsTile(S, h) /\ SizeOf(S, h) = S[h].n /\ S[h].n \in Nat
      BY <1>2, <1>5 DEF IsTile, SizeOf, IsRun, Descriptors
    <2>4. Bytes(a) \cap Span(h, S[h].n) = {}
      BY <2>1, <2>2, <2>3, <1>2, HeldTwo
    <2>5. h <= p /\ p + 1 <= h + S[h].n
      BY <2>3, <1>4, <1>5 DEF Block
    <2>6. Span(p, 1) \subseteq Span(h, S[h].n)
      BY <2>3, <2>5, <1>4, SpanInside
    <2>. QED
      BY <2>4, <2>6
  <1>6. ASSUME \A h \in Page : ~(IsRun(S, h) /\ p \in Block(S, h))
        PROVE  \E a \in Held(S) : Bytes(a) \cap Span(p, 1) # {}
    <2>1. p * PageSize \in Span(p, 1)
      BY <1>4, SpanFirst
    <2>2. ASSUME NEW h \in Page, IsStart(S, h), h <= p, p < h + S[h].n
          PROVE  \E a \in Held(S) : Bytes(a) \cap Span(p, 1) # {}
      <3>1. S[h].n \in Nat
        BY <1>2 DEF Descriptors
      <3>2. Span(p, 1) \subseteq Span(h, S[h].n)
        BY <3>1, <2>2, <1>4, SpanInside
      <3>3. Bytes(PageMemory(S, h)) = Span(h, S[h].n)
        BY <1>2, PageMemoryIs
      <3>4. PageMemory(S, h) \in Held(S)
        BY <2>2 DEF Held
      <3>. QED
        BY <3>2, <3>3, <3>4, <2>1
    <2>3. CASE IsRun(S, p)
      <3>1. p \in Block(S, p)
        BY <2>3, <1>2, BlockFacts
      <3>. QED
        BY <3>1, <2>3, <1>6
    <2>4. CASE IsStart(S, p)
      <3>1. S[p].n \in Nat \ {0}
        BY <2>4, <1>2, NoOverlap, Zenon
      <3>2. p <= p /\ p < p + S[p].n
        BY <3>1, <1>4
      <3>. QED
        BY <3>2, <2>2, <2>4
    <2>5. CASE IsChunks(S, p)
      <3>. DEFINE s == S[p].n
      <3>1. MapOK(s, S[p].map) /\ s \in Shift
        BY <2>5, <1>2, ListedPages
      <3>2. PICK c \in S[p].map : c \notin ReservedSet(s)
        BY <3>1 DEF MapOK
      <3>3. c \in ChunkSet(s)
        BY <3>1, <3>2 DEF MapOK
      <3>4. ChunkMemory(S, p, c) \in HeldAt(S, p)
        BY <3>2, <2>5, HeldAtIs
      <3>5. ChunkMemory(S, p, c) \in Held(S)
        BY <3>4, HeldIs
      <3>6. Bytes(ChunkMemory(S, p, c)) = ChunkBytes(p, c, s)
        BY ChunkMemoryIs
      <3>. HIDE DEF s
      <3>7. ChunkBytes(p, c, s) \subseteq Span(p, 1) /\ AddrOf(p, c, s) \in ChunkBytes(p, c, s)
        BY <3>1, <3>3, ChunkBytesIs
      <3>. QED
        BY <3>5, <3>6, <3>7
    <2>6. CASE ~IsTile(S, p)
      <3>1. S[p] = Run(0) \/ S[p] = Busy
        BY <2>6, <1>2, NoTile
      <3>2. CASE S[p] = Run(0)
        <4>1. PICK h \in Page : IsRun(S, h) /\ h < p /\ p < h + S[h].n
          BY <3>2, <1>2 DEF Tiling
        <4>2. S[h].n \in Nat
          BY <1>2 DEF Descriptors
        <4>3. p \in Block(S, h)
          BY <4>1, <4>2, <1>4 DEF Block
        <4>. QED
          BY <4>1, <4>3, <1>6
      <3>3. CASE S[p] = Busy
        <4>1. PICK h \in Page : IsStart(S, h) /\ h < p /\ p < h + S[h].n
          BY <3>3, <1>2 DEF Tiling
        <4>2. h <= p
          BY <4>1, <1>4
        <4>. QED
          BY <4>1, <4>2, <2>2
      <3>. QED
        BY <3>1, <3>2, <3>3
    <2>. QED
      BY <2>3, <2>4, <2>5, <2>6 DEF IsTile
  <1>. QED
    BY <1>3, <1>5, <1>6

\* What is before a free run, and what is behind it, is not free.
LEMMA RunEnds ==
    ASSUME SlabInv, NEW h \in Page, IsRun(pool.slab, h)
    PROVE  h - 1 \notin Unused /\ h + pool.slab[h].n \notin Unused
  <1>. DEFINE S == pool.slab
              n == S[h].n
  <1>1. Sound(pool, {})
    BY DEF SlabInv
  <1>2. S \in Descriptors /\ Tiling(S) /\ Apart(S, {})
    BY <1>1, SoundFields
  <1>3. \A i \in Page : i \in Nat
    BY Numbers DEF Page
  <1>4. n \in Nat \ {0}
    BY <1>2, NoOverlap, Zenon
  <1>5. \A p \in Unused : p \in Page
    BY DEF Unused
  <1>6. ASSUME h - 1 \in Unused PROVE FALSE
    <2>. DEFINE k == h - 1
    <2>1. k \in Page /\ k \in Unused
      BY <1>5, <1>6
    <2>2. h = k + 1 /\ k \in Nat
      BY <2>1, <1>3
    <2>. HIDE DEF k
    <2>3. PICK i \in Page : IsRun(S, i) /\ k \in Block(S, i)
      BY <2>1, UnusedIs
    <2>. DEFINE m == S[i].n
    <2>4. m \in Nat \ {0} /\ (h = i \/ h < i \/ i + m <= h)
      <3>1. /\ m \in Nat \ {0}
            /\ \A j \in Page : IsRun(S, j) \/ IsStart(S, j) \/ IsChunks(S, j) => j = i \/ j < i \/ i + m <= j
        BY <2>3, <1>2, NoOverlap, Zenon
      <3>. QED
        BY <3>1
    <2>5. k \in i .. i + m - 1
      BY <2>3 DEF Block
    <2>6. i + S[i].n # h
      BY <2>3, <1>2 DEF Apart
    <2>. HIDE DEF m
    <2>7. i + m = h
      BY <2>2, <2>4, <2>5, <1>3
    <2>. QED
      BY <2>6, <2>7 DEF m
  <1>7. ASSUME h + n \in Unused PROVE FALSE
    <2>. DEFINE k == h + n
    <2>1. k \in Page /\ k \in Unused
      BY <1>5, <1>7
    <2>2. PICK i \in Page : IsRun(S, i) /\ k \in Block(S, i)
      <3>. HIDE DEF k
      <3>. QED
        BY <2>1, UnusedIs
    <2>3. k \in Block(S, h) <=> FALSE
      <3>1. h \in Int
        BY <1>3
      <3>. HIDE DEF n
      <3>2. Block(S, h) = h .. h + n - 1
        BY DEF Block, n
      <3>. QED
        BY <3>1, <3>2, <1>4
    <2>4. i # h
      BY <2>2, <2>3
    <2>5. Boundary(S, k)
      BY <1>2, Boundaries
    <2>6. IsTile(S, k)
      <3>1. S[k] # Run(0) /\ S[k] # Busy
        BY <2>1, <2>5 DEF Boundary, Page
      <3>. HIDE DEF k
      <3>. QED
        BY <3>1, <2>1, <1>2, NoTile
    <2>7. k = i
      <3>. HIDE DEF k
      <3>. QED
        BY <2>1, <2>2, <2>6, <1>2, BlockFacts
    <2>. QED
      BY <2>2, <2>7, <1>2 DEF Apart
  <1>. QED
    BY <1>6, <1>7

(***************************************************************************)
(* What the runs check.                                                    *)
(***************************************************************************)
LEMMA AllocDisjointInv == SlabInv => AllocDisjoint
  <1>. SUFFICES ASSUME SlabInv, NEW size \in Sizes, SlabAlloc(pool, size).addr # NoPage
                PROVE  LET r == SlabAlloc(pool, size)
                           bytes == Bytes([addr |-> r.addr, len |-> LengthOf(size)])
                       IN /\ bytes \subseteq Address
                          /\ \A a \in live : Bytes(a) \cap bytes = {}
                          /\ \A p \in Page : \A a \in live \cup {[addr |-> r.addr, len |-> LengthOf(size)]} :
                               Bytes(a) \cap MapBytes(r.pool, p) = {}
    BY DEF AllocDisjoint
  <1>. DEFINE r == SlabAlloc(pool, size)
              b == [addr |-> r.addr, len |-> LengthOf(size)]
  <1>1. Sound(pool, {}) /\ live = Held(pool.slab)
    BY DEF SlabInv
  <1>2. Answers(pool, size, r)
    BY <1>1, AllocSound
  <1>3. /\ Sound(r.pool, {}) /\ b \notin live
        /\ Held(r.pool.slab) = live \cup {b}
    BY <1>1, <1>2 DEF Answers, Grants
  <1>. HIDE DEF r, b
  <1>4. r.pool.slab \in Descriptors /\ Tiling(r.pool.slab)
    BY <1>3, SoundFields
  <1>5. b \in Held(r.pool.slab)
    BY <1>3
  <1>6. Bytes(b) \subseteq Address
    BY <1>4, <1>5, HeldInside
  <1>7. \A a \in live : Bytes(a) \cap Bytes(b) = {}
    <2>. SUFFICES ASSUME NEW a \in live PROVE Bytes(a) \cap Bytes(b) = {}
      OBVIOUS
    <2>1. a \in Held(r.pool.slab) /\ a # b
      BY <1>3
    <2>. QED
      BY <2>1, <1>4, <1>5, HeldApart
  <1>8. \A p \in Page : \A a \in live \cup {b} : Bytes(a) \cap MapBytes(r.pool, p) = {}
    <2>. SUFFICES ASSUME NEW p \in Page, NEW a \in live \cup {b} PROVE Bytes(a) \cap MapBytes(r.pool, p) = {}
      OBVIOUS
    <2>1. a \in Held(r.pool.slab)
      BY <1>3
    <2>. QED
      BY <2>1, <1>3, HeldMaps
  <1>. QED
    BY <1>6, <1>7, <1>8, Zenon DEF r, b

\* Memory that stl_slab_alloc returns is in the pool, disjoint from what callers hold and from
\* the maps of the allocator (stl_slab.c:207), for every pool, sizes of pages and chunks, and
\* sequence of requests.
THEOREM AllocationsDisjoint == SlabSpec => []AllocDisjoint
  BY SlabInvariant, AllocDisjointInv, PTL

\* A free run holds all the unused pages from one of its pages on.
LEMMA UnusedRun ==
    ASSUME SlabInv, NEW p \in Page, NEW k \in Nat \ {0}, p .. p + k - 1 \subseteq Unused
    PROVE  ~NoRun(pool.slab, k)
  <1>. DEFINE S == pool.slab
  <1>1. S \in Descriptors /\ Tiling(S)
    BY SoundFields DEF SlabInv
  <1>2. \A i \in Page : i \in Nat
    BY Numbers DEF Page
  <1>3. p \in Unused
    BY <1>2
  <1>4. PICK h \in Page : IsRun(S, h) /\ p \in Block(S, h)
    BY <1>3, UnusedIs
  <1>. DEFINE n == S[h].n
  <1>5. n \in Nat
    BY <1>1 DEF Descriptors
  <1>6. h + n \notin Unused
    BY <1>4, RunEnds
  <1>7. p \in h .. h + n - 1
    BY <1>4 DEF Block
  <1>. HIDE DEF n
  <1>8. h <= p /\ p < h + n
    BY <1>2, <1>5, <1>7
  <1>9. ~(h + n \in p .. p + k - 1)
    BY <1>6
  <1>10. n >= k
    BY <1>2, <1>5, <1>8, <1>9
  <1>. QED
    BY <1>4, <1>10 DEF NoRun, n

LEMMA NoMemoryLostInv == SlabInv => NoMemoryLost
  <1>. SUFFICES ASSUME SlabInv, NEW size \in Sizes, SlabAlloc(pool, size).addr = NoPage, Room(size)
                PROVE  FALSE
    BY DEF NoMemoryLost
  <1>. DEFINE S == pool.slab
  <1>1. Sound(pool, {})
    BY DEF SlabInv
  <1>2. Answers(pool, size, SlabAlloc(pool, size))
    BY <1>1, AllocSound
  <1>3. Refuses(S, size)
    BY <1>2 DEF Answers, Grants
  <1>4. size \in Nat \ {0}
    BY SlabAssumption
  <1>5. CASE size > MaxSize
    <2>. DEFINE k == PagesFor(size)
    <2>1. NoRun(S, k) /\ \E p \in Page : p .. p + k - 1 \subseteq Unused
      BY <1>3, <1>5 DEF Refuses, Room
    <2>2. k \in Nat \ {0}
      BY <1>4, PagesForOK
    <2>. HIDE DEF k
    <2>. QED
      BY <2>1, <2>2, UnusedRun
  <1>6. CASE ~(size > MaxSize)
    <2>1. NoRun(S, 1) /\ NoPartial(S, ShiftFor(size))
      BY <1>3, <1>6 DEF Refuses
    <2>2. CASE Unused # {}
      <3>1. PICK p \in Page : p \in Unused
        BY <2>2 DEF Unused
      <3>2. p \in Int
        BY Numbers DEF Page
      <3>3. p .. p + 1 - 1 \subseteq Unused
        BY <3>1, <3>2
      <3>. QED
        BY <3>3, <2>1, UnusedRun
    <2>3. ASSUME NEW p \in Page, IsChunkPage(pool, p), S[p].n = ShiftFor(size), S[p].map # ChunkSet(ShiftFor(size))
          PROVE  FALSE
      <3>1. Told(pool, p)
        BY <1>1, RunPage
      <3>2. IsChunks(S, p)
        BY <3>1, <2>3 DEF Told, IsChunkPage
      <3>. QED
        BY <3>2, <2>1, <2>3 DEF NoPartial, Partial
    <2>. QED
      BY <2>2, <2>3, <1>6 DEF Room
  <1>. QED
    BY <1>5, <1>6

\* Memory is never lost: stl_slab_alloc refuses a request only if what callers hold leaves no
\* room for it (stl_slab.c:207, 383), whatever was allocated and given back before.
THEOREM MemoryNeverLost == SlabSpec => []NoMemoryLost
  BY SlabInvariant, NoMemoryLostInv, PTL

LEMMA ListsSoundInv == SlabInv => ListsSound
  <1>. SUFFICES ASSUME SlabInv PROVE ListsSound
    OBVIOUS
  <1>. DEFINE S == pool.slab
              X == pool.next
              P == Ptr(pool.prev)
              L == Listed(S, {})
              H == HomeOf(S)
  <1>1. Sound(pool, {})
    BY DEF SlabInv
  <1>2. /\ S \in Descriptors /\ Tiling(S) /\ Unlisted(S, X, {})
        /\ Chained(X, P, L, H) /\ Homed(L, H)
    BY <1>1, SoundFields
  <1>3. ASSUME NEW p \in Page, X[p] # NoPage
        PROVE  X[pool.prev[p].ptr] = p /\ (X[p] \in Page => pool.prev[X[p]].ptr = p)
    <2>1. p \in L
      BY <1>2, <1>3 DEF Unlisted
    <2>. HIDE DEF X, P, L, H
    <2>2. Links(X, P, L, H, p)
      BY <2>1, <1>2, ListedLinks
    <2>3. X[P[p]] = p /\ (X[p] \in Page => P[X[p]] = p)
      BY <2>2 DEF Links
    <2>4. \A i \in Page : P[i] = pool.prev[i].ptr
      BY Numbers DEF P, Ptr, Page, Node
    <2>. QED
      BY <2>3, <2>4
  <1>4. \A p \in Page : p \in RunHeads <=> IsRun(S, p)
    <2>. SUFFICES ASSUME NEW p \in Page PROVE p \in RunHeads <=> IsRun(S, p)
      OBVIOUS
    <2>1. Told(pool, p)
      BY <1>1, RunPage
    <2>. QED
      BY <2>1 DEF Told, RunHeads, IsChunkPage
  <1>5. RunHeads \subseteq Page /\ Unused \subseteq Page
    BY DEF RunHeads, Unused
  <1>6. Unused = UNION {Block(S, p) : p \in RunHeads}
    <2>1. \A p \in RunHeads : Block(S, p) \subseteq Page
      BY <1>2, <1>4, <1>5, BlockFacts
    <2>2. \A i \in Page : i \in Unused <=> \E h \in RunHeads : i \in Block(S, h)
      <3>. SUFFICES ASSUME NEW i \in Page PROVE i \in Unused <=> \E h \in RunHeads : i \in Block(S, h)
        OBVIOUS
      <3>1. i \in Unused <=> \E h \in Page : IsRun(S, h) /\ i \in Block(S, h)
        BY UnusedIs
      <3>. QED
        BY <3>1, <1>4, <1>5
    <2>. QED
      BY <2>1, <2>2, <1>5
  <1>7. \A p \in RunHeads : p - 1 \notin Unused /\ p + S[p].n \notin Unused
    BY <1>4, <1>5, RunEnds
  <1>. QED
    BY <1>3, <1>6, <1>7 DEF ListsSound, Block

\* The lists can be followed in both directions, and the free runs are all the memory that
\* nobody holds, joined as far as they go (stl_slab_free_pages, stl_slab.c:457).
THEOREM ListsAlwaysSound == SlabSpec => []ListsSound
  BY SlabInvariant, ListsSoundInv, PTL

\* A chunk in the map of a page is held by a caller, or holds the map.
LEMMA UsedChunk ==
    ASSUME SlabInv, NEW p \in Page, IsChunks(pool.slab, p), NEW c \in pool.slab[p].map,
           NEW x, x = AddrOf(p, c, pool.slab[p].n)
    PROVE  (\E a \in live : a.addr = x) \/ x \in MapBytes(pool, p)
  <1>. DEFINE S == pool.slab
              s == S[p].n
              w == Pow2[s]
              m == Reserved(s)
              b == p * PageSize
  <1>1. Sound(pool, {}) /\ live = Held(S)
    BY DEF SlabInv
  <1>2. S \in Descriptors /\ Tiling(S)
    BY <1>1, SoundFields
  <1>3. MapOK(s, S[p].map) /\ s \in Shift
    BY <1>2, ListedPages
  <1>4. CASE c \notin ReservedSet(s)
    <2>1. ChunkMemory(S, p, c) \in HeldAt(S, p)
      BY <1>4, HeldAtIs
    <2>2. ChunkMemory(S, p, c) \in live
      BY <2>1, <1>1, HeldIs
    <2>3. ChunkMemory(S, p, c).addr = x
      BY ChunkMemoryIs
    <2>. QED
      BY <2>2, <2>3
  <1>5. CASE c \in ReservedSet(s)
    <2>1. IsChunkPage(pool, p)
      <3>1. Told(pool, p)
        BY <1>1, RunPage
      <3>. QED
        BY <3>1 DEF Told, IsChunkPage
    <2>2. MapBytes(pool, p) = b .. b + m * w - 1
      BY <2>1 DEF MapBytes
    <2>3. w \in Nat \ {0} /\ m \in Nat
      BY <1>3, ChunkFacts
    <2>4. b \in Int
      <3>1. p \in Int /\ PageSize \in Int
        BY PageSizeOK, Numbers DEF Page
      <3>. QED
        BY <3>1
    <2>5. c \in 0 .. m - 1
      BY <1>5 DEF ReservedSet
    <2>6. x = b + c * w
      BY DEF AddrOf
    <2>. HIDE DEF m, w, b
    <2>7. c \in Nat /\ c < m
      BY <2>3, <2>5
    <2>8. c * w + w <= m * w /\ c * w \in Nat /\ m * w \in Nat
      BY <2>3, <2>7, TimesStep
    <2>9. x \in b .. b + m * w - 1
      BY <2>3, <2>4, <2>6, <2>8
    <2>. QED
      BY <2>2, <2>9
  <1>. QED
    BY <1>4, <1>5

LEMMA StrayFreeIgnoredInv == SlabInv => StrayFreeIgnored
  <1>. SUFFICES ASSUME SlabInv, NEW x \in Address, SlabFree(pool, x) # pool
                PROVE  (\E a \in live : a.addr = x) \/ (\E p \in Page : x \in MapBytes(pool, p))
    BY DEF StrayFreeIgnored
  <1>. DEFINE S == pool.slab
              p == x \div PageSize
              o == x % PageSize
              s == S[p].n
              w == Pow2[s]
              c == o \div w
  <1>1. Sound(pool, {}) /\ live = Held(S)
    BY DEF SlabInv
  <1>2. S \in Descriptors /\ Tiling(S)
    BY <1>1, SoundFields
  <1>3. p \in Page /\ o \in 0 .. PageSize - 1 /\ x = p * PageSize + o
    BY AddressPage
  <1>4. Told(pool, p)
    <2>. HIDE DEF p
    <2>. QED
      BY <1>1, <1>3, RunPage
  <1>5. \/ pool.prev[p].type = "page" /\ o = 0 /\ S[p].tag = "start"
        \/ pool.prev[p].type # "page" /\ o % w = 0 /\ c \in S[p].map
    BY DEF SlabFree
  <1>6. PageSize \in Nat \ {0} /\ p \in Nat /\ o \in Nat
    <2>1. PageSize \in Nat \ {0} /\ p \in Nat
      <3>. HIDE DEF p
      <3>. QED
        BY <1>3, PageSizeOK, Numbers DEF Page
    <2>. HIDE DEF o
    <2>. QED
      BY <2>1, <1>3
  <1>. HIDE DEF p, o
  <1>7. CASE pool.prev[p].type = "page" /\ o = 0 /\ S[p].tag = "start"
    <2>1. IsStart(S, p)
      BY <1>3, <1>7 DEF IsStart
    <2>2. PageMemory(S, p) \in live
      BY <2>1, <1>1, <1>3 DEF Held
    <2>3. PageMemory(S, p).addr = p * PageSize
      BY <1>2, <1>3, PageMemoryIs
    <2>4. x = p * PageSize
      BY <1>3, <1>6, <1>7
    <2>. QED
      BY <2>2, <2>3, <2>4
  <1>8. CASE pool.prev[p].type # "page" /\ o % w = 0 /\ c \in S[p].map
    <2>1. IsChunks(S, p)
      BY <1>4, <1>8 DEF Told
    <2>2. s \in Shift
      BY <2>1, <1>2, <1>3, ListedPages
    <2>3. w \in Nat \ {0}
      BY <2>2, ChunkFacts
    <2>4. o = c * w + (o % w) /\ c \in Nat
      <3>. HIDE DEF w
      <3>. QED
        BY <2>3, <1>6, DivMod
    <2>5. o = c * w
      <3>. HIDE DEF c, w
      <3>. QED
        BY <2>3, <2>4, <1>8
    <2>6. x = AddrOf(p, c, s)
      <3>. HIDE DEF c
      <3>. QED
        BY <2>5, <1>3 DEF AddrOf
    <2>. HIDE DEF c, w
    <2>. QED
      BY <2>1, <2>6, <1>3, <1>8, UsedChunk
  <1>. QED
    BY <1>5, <1>7, <1>8

\* A pointer that no caller holds, one given back before or one into the middle of an
\* allocation, is left alone by stl_slab_free, unless it is into the map of a page of small
\* chunks (stl_slab.c:579).
THEOREM StrayFreesIgnored == SlabSpec => []StrayFreeIgnored
  BY SlabInvariant, StrayFreeIgnoredInv, PTL
=============================================================================
