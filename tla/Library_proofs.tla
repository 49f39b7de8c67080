---------------------------- MODULE Library_proofs ----------------------------
(***************************************************************************)
(* Proofs about the mailbox (Cond), for any threads; the ring buffer       *)
(* (RingBuffer), for any capacity, size of a slot and number of items; the *)
(* dictionary (Dict), for any keys and any hash; the growing array of      *)
(* raft_log.c (RaftLog), which implements the sequence that the server,    *)
(* and Raft.tla with it, takes the log for; the changes of the membership  *)
(* (RaftMembership), for any peers and changes; the configuration files    *)
(* (Ini), for any names, lines and calls; and Base64, for any bytes and    *)
(* texts of any length.                                                    *)
(***************************************************************************)
EXTENDS Cond, RingBuffer, Dict, RaftLog, RaftMembership, Ini, Base64, FiniteSetTheorems,
        SequenceTheorems, WellFoundedInduction, TLAPS

\* Used for induction: a set of naturals has a least one.
LEMMA Least ==
    ASSUME NEW T \in SUBSET Nat, T # {}
    PROVE  \E m \in T : \A y \in T : m <= y
  <1>. DEFINE R == OpToRel(<, Nat)
  <1>1. PICK m \in T : \A y \in T : ~(<<y, m>> \in R)
    BY NatLessThanWellFounded, WFMin, Zenon
  <1>2. \A j, n \in Nat : j < n => <<j, n>> \in R
    BY DEF OpToRel
  <1>. HIDE DEF R
  <1>3. \A y \in T : ~(y < m)
    BY <1>1, <1>2
  <1>. QED
    BY <1>3

-----------------------------------------------------------------------------
(* The mailbox. *)

\* NotSleptOver with the places where a thread may be: what a step preserves.
CondInv ==
    /\ pc \in [Signaller \cup Waiter -> {"lock", "locked", "asleep", "woken", "end"}]
    /\ NotSleptOver

\* A datum never lies there while all who have asked for one sleep, whichever sleeper
\* pthread_cond_signal wakes, and however many wake without a signal.
THEOREM NobodySleepsOver == CondSpec => []NotSleptOver
  <1>1. CondInit => CondInv
    BY DEF CondInit, CondInv, NotSleptOver, Asleep
  <1>2. CondInv /\ [CondNext]_condVars => CondInv'
    <2>. SUFFICES ASSUME CondInv, [CondNext]_condVars PROVE CondInv'
      OBVIOUS
    <2>. USE DEF CondInv, NotSleptOver, Asleep
    <2>1. ASSUME NEW t \in Signaller \cup Waiter, Lock(t) PROVE CondInv'
      BY <2>1 DEF Lock
    <2>2. ASSUME NEW t \in Signaller, Signal(t) PROVE CondInv'
      BY <2>2 DEF Signal
    <2>3. ASSUME NEW w \in Waiter, Sleep(w) PROVE CondInv'
      BY <2>3 DEF Sleep
    <2>4. ASSUME NEW w \in Waiter, SpuriousWakeup(w) PROVE CondInv'
      BY <2>4 DEF SpuriousWakeup
    <2>5. ASSUME NEW w \in Waiter, Fetch(w) PROVE CondInv'
      BY <2>5 DEF Fetch
    <2>6. CASE UNCHANGED condVars
      BY <2>6 DEF condVars
    <2>. QED  BY <2>1, <2>2, <2>3, <2>4, <2>5, <2>6 DEF CondNext
  <1>3. CondInv => NotSleptOver
    BY DEF CondInv
  <1>. QED  BY <1>1, <1>2, <1>3, PTL DEF CondSpec

-----------------------------------------------------------------------------
(* The ring buffer.  Arithmetic of offsets first: they are multiples of the size of a slot,   *)
(* so that the code's sums modulo the size of the buffer are steps around a ring of slots.    *)

LEMMA ModBelow ==
    ASSUME NEW m \in Nat \ {0}, NEW x \in Nat, x < m
    PROVE  x % m = x
  OBVIOUS

LEMMA ModOnce ==
    ASSUME NEW m \in Nat \ {0}, NEW x \in Nat, m <= x, x < m + m
    PROVE  x % m = x - m
  OBVIOUS

LEMMA DivTimes ==
    ASSUME NEW d \in Nat \ {0}, NEW q \in Nat
    PROVE  (q * d) \div d = q
  OBVIOUS

LEMMA TimesLess ==
    ASSUME NEW d \in Nat \ {0}, NEW a \in Nat, NEW b \in Nat, a < b
    PROVE  a * d + d <= b * d
  <1>1. a + 1 <= b
    OBVIOUS
  <1>2. (b - a - 1) * d >= 0
    BY <1>1
  <1>. QED  BY <1>2

\* The slot x steps around the ring, for x up to twice its length.
Wrap(x) == IF x < Capacity THEN x ELSE x - Capacity

\* A whole number of slots is advanced by a slot, and read as a slot.
LEMMA OffsetOf ==
    ASSUME NEW i \in Slot
    PROVE  /\ SlotOf(i * DSize) = i
           /\ Advance(i * DSize) = Wrap(i + 1) * DSize
           /\ Wrap(i + 1) \in Slot
  <1>. USE RingAssumption
  <1>1. SlotOf(i * DSize) = i
    BY DivTimes DEF SlotOf, Slot
  <1>2. /\ i \in Nat /\ Capacity * DSize \in Nat \ {0}
        /\ i * DSize + DSize = (i + 1) * DSize /\ (i + 1) * DSize \in Nat
    <2>1. Capacity * DSize >= DSize
      BY TimesLess
    <2>. QED  BY <2>1 DEF Slot
  <1>3. CASE i + 1 < Capacity
    <2>1. (i + 1) * DSize < Capacity * DSize
      BY <1>2, <1>3, TimesLess
    <2>2. ((i + 1) * DSize) % (Capacity * DSize) = (i + 1) * DSize
      BY <1>2, <2>1, ModBelow
    <2>. QED  BY <1>1, <1>2, <1>3, <2>2 DEF Advance, Wrap, Slot
  <1>4. CASE i + 1 = Capacity
    <2>. DEFINE M == Capacity * DSize
    <2>1. (i + 1) * DSize = M
      BY <1>4
    <2>2. M \in Nat \ {0}
      BY <1>2
    <2>. HIDE DEF M
    <2>3. M % M = 0
      BY <2>2, ModOnce
    <2>4. Advance(i * DSize) = 0
      BY <1>2, <2>1, <2>3 DEF Advance, M
    <2>. QED  BY <1>1, <1>4, <2>4 DEF Wrap, Slot
  <1>. QED  BY <1>3, <1>4 DEF Slot

LEMMA SameOffset ==
    ASSUME NEW i \in Slot, NEW j \in Slot, i * DSize = j * DSize
    PROVE  i = j
  BY OffsetOf

\* What the two threads have between them.  Consumed counts the items given up, not those
\* handed out: the last one handed out is given up by the store of head.
Consumed == IF consumer = "release" THEN received - 1 ELSE received
InRing == sent - Consumed
HeadSlot == SlotOf(head)
TailSlot == SlotOf(tail)

RingType ==
    /\ sent \in Nat /\ received \in Nat /\ (consumer = "release" => received # 0)
    /\ producer \in {"idle", "copy", "copied", "publish"}
    /\ consumer \in {"idle", "release"}
    /\ slots \in [Slot -> Nat]
    /\ HeadSlot \in Slot /\ head = HeadSlot * DSize
    /\ TailSlot \in Slot /\ tail = TailSlot * DSize

\* One slot is always empty, two while the producer is at work.
Room ==
    /\ InRing \in 0 .. Capacity - 1
    /\ TailSlot = Wrap(HeadSlot + InRing)
    /\ sent <= MaxItems
    /\ producer # "idle" => InRing < Capacity - 1 /\ sent < MaxItems
    /\ consumer = "release" => 0 < InRing

\* The items are in their slots, also the one that is to be published and the one that the
\* consumer still reads: it is right behind the head.
Items ==
    /\ \A k \in 0 .. InRing - 1 : slots[Wrap(HeadSlot + k)] = Consumed + k + 1
    /\ producer = "publish" => slots[TailSlot] = sent + 1
    /\ ptr # NoSlot => /\ ptr \in Slot /\ slots[ptr] = received
                       /\ IF consumer = "release" THEN ptr = HeadSlot
                                                  ELSE Wrap(ptr + 1) = HeadSlot

\* What makes PointerValid inductive.
RingInv == RingType /\ Room /\ Items

LEMMA RingStart == RingInit => RingInv
  <1>. SUFFICES ASSUME RingInit PROVE RingInv
    OBVIOUS
  <1>. USE RingAssumption
  <1>1. 0 \in Slot /\ 0 * DSize = 0
    BY DEF Slot
  <1>2. HeadSlot = 0 /\ TailSlot = 0
    BY <1>1, OffsetOf DEF RingInit, HeadSlot, TailSlot
  <1>3. Consumed = 0 /\ InRing = 0
    BY DEF RingInit, Consumed, InRing
  <1>4. RingType
    BY <1>1, <1>2 DEF RingInit, RingType, Torn
  <1>5. Room
    BY <1>2, <1>3 DEF RingInit, Room, Wrap
  <1>6. Items
    BY <1>3 DEF RingInit, Items
  <1>. QED  BY <1>4, <1>5, <1>6 DEF RingInv

LEMMA RingStep == RingInv /\ [RingNext]_ringVars => RingInv'
  <1>. SUFFICES ASSUME RingInv, [RingNext]_ringVars PROVE RingInv'
    OBVIOUS
  <1>. USE RingAssumption
  <1>0. RingType /\ Room /\ Items
    BY DEF RingInv
  <1>1. CASE UNCHANGED ringVars
    BY <1>0, <1>1 DEF ringVars, RingInv, RingType, Room, Items, Consumed, InRing, HeadSlot, TailSlot
  <1>2. CASE QueueTest
    <2>1. /\ HeadSlot' = HeadSlot /\ TailSlot' = TailSlot /\ Consumed' = Consumed /\ InRing' = InRing
          /\ producer' = "copy"
          /\ UNCHANGED <<head, tail, slots, consumer, ptr, sent, received>> /\ sent < MaxItems
      BY <1>2 DEF QueueTest, HeadSlot, TailSlot, Consumed, InRing
    <2>2. Wrap(TailSlot + 1) # HeadSlot
      BY <1>0, <1>2, OffsetOf DEF QueueTest, IsFull, RingType
    <2>3. InRing < Capacity - 1
      BY <1>0, <2>2 DEF RingType, Room, Wrap, Slot
    <2>. QED  BY <1>0, <2>1, <2>3 DEF RingInv, RingType, Room, Items
  <1>3. CASE QueueCopy \/ QueueCopied
    <2>1. /\ HeadSlot' = HeadSlot /\ TailSlot' = TailSlot /\ Consumed' = Consumed /\ InRing' = InRing
          /\ producer \in {"copy", "copied"}
          /\ UNCHANGED <<head, tail, consumer, ptr, sent, received>>
      BY <1>3 DEF QueueCopy, QueueCopied, HeadSlot, TailSlot, Consumed, InRing
    <2>2. \/ producer' = "copied" /\ slots' = [slots EXCEPT ![TailSlot] = Torn]
          \/ producer' = "publish" /\ slots' = [slots EXCEPT ![TailSlot] = sent + 1]
      BY <1>3 DEF QueueCopy, QueueCopied, TailSlot
    <2>3. RingType'
      BY <1>0, <2>1, <2>2 DEF RingType, Torn
    <2>4. Room'
      BY <1>0, <2>1, <2>2 DEF Room
    <2>5. \A j \in Slot : j # TailSlot => slots'[j] = slots[j]
      BY <1>0, <2>2 DEF RingType
    <2>6. \A k \in 0 .. InRing - 1 : Wrap(HeadSlot + k) \in Slot /\ Wrap(HeadSlot + k) # TailSlot
      BY <1>0 DEF RingType, Room, Wrap, Slot
    <2>7. ptr # NoSlot => ptr \in Slot /\ ptr # TailSlot
      <3>1. InRing < Capacity - 1
        BY <1>0, <2>1 DEF Room
      <3>. QED  BY <1>0, <3>1 DEF RingType, Room, Items, Wrap, Slot
    <2>8. producer' = "publish" => slots'[TailSlot] = sent + 1
      BY <1>0, <2>2 DEF RingType
    <2>9. Items'
      BY <1>0, <2>1, <2>5, <2>6, <2>7, <2>8 DEF Items
    <2>. QED  BY <2>3, <2>4, <2>9 DEF RingInv
  <1>4. CASE QueuePublish
    <2>1. /\ tail' = Advance(tail) /\ sent' = sent + 1 /\ producer = "publish" /\ producer' = "idle"
          /\ UNCHANGED <<head, slots, consumer, ptr, received>>
      BY <1>4 DEF QueuePublish
    <2>2. /\ tail' = Wrap(TailSlot + 1) * DSize /\ Wrap(TailSlot + 1) \in Slot
          /\ TailSlot' = Wrap(TailSlot + 1)
      BY <1>0, <2>1, OffsetOf DEF RingType, TailSlot
    <2>3. HeadSlot' = HeadSlot /\ Consumed' = Consumed
      BY <2>1 DEF HeadSlot, Consumed
    <2>4. InRing' = InRing + 1 /\ InRing < Capacity - 1 /\ sent < MaxItems
      BY <1>0, <2>1, <2>3 DEF InRing, Consumed, RingType, Room
    <2>5. RingType'
      BY <1>0, <2>1, <2>2, <2>3 DEF RingType
    <2>6. Room'
      BY <1>0, <2>1, <2>2, <2>3, <2>4 DEF RingType, Room, Wrap, Slot
    <2>7. \A k \in 0 .. InRing : slots[Wrap(HeadSlot + k)] = Consumed + k + 1
      <3>. SUFFICES ASSUME NEW k \in 0 .. InRing PROVE slots[Wrap(HeadSlot + k)] = Consumed + k + 1
        OBVIOUS
      <3>1. CASE k = InRing
        <4>1. slots[TailSlot] = sent + 1 /\ TailSlot = Wrap(HeadSlot + k)
          BY <1>0, <2>1, <3>1 DEF Items, Room
        <4>2. Consumed + k = sent
          BY <1>0, <3>1 DEF InRing, Consumed, RingType
        <4>. QED  BY <4>1, <4>2
      <3>2. CASE k # InRing
        BY <1>0, <3>2 DEF Items, Room
      <3>. QED  BY <3>1, <3>2
    <2>8. Items'
      <3>1. \A k \in 0 .. InRing' - 1 : slots'[Wrap(HeadSlot' + k)] = Consumed' + k + 1
        BY <1>0, <2>1, <2>3, <2>4, <2>7 DEF Room
      <3>. QED  BY <1>0, <2>1, <2>3, <3>1 DEF Items
    <2>. QED  BY <2>5, <2>6, <2>8 DEF RingInv
  <1>5. CASE DequeueTest
    <2>1. /\ consumer = "idle" /\ consumer' = "release" /\ head # tail
          /\ ptr' = HeadSlot /\ received' = received + 1
          /\ UNCHANGED <<head, tail, slots, producer, sent>>
      BY <1>5 DEF DequeueTest, IsEmpty, HeadSlot
    <2>2. HeadSlot' = HeadSlot /\ TailSlot' = TailSlot /\ Consumed' = Consumed /\ InRing' = InRing
      BY <1>0, <2>1 DEF HeadSlot, TailSlot, Consumed, InRing, RingType
    <2>3. 0 < InRing
      BY <1>0, <2>1 DEF RingType, Room, Wrap, Slot
    <2>4. RingType' /\ Room'
      BY <1>0, <2>1, <2>2, <2>3 DEF RingType, Room
    <2>5. ptr' \in Slot /\ slots[ptr'] = received'
      <3>1. Wrap(HeadSlot + 0) = HeadSlot /\ 0 \in 0 .. InRing - 1
        BY <1>0, <2>3 DEF RingType, Room, Wrap, Slot
      <3>2. slots[HeadSlot] = Consumed + 0 + 1
        BY <1>0, <3>1 DEF Items
      <3>. QED  BY <1>0, <2>1, <3>2 DEF RingType, Consumed
    <2>6. Items'
      BY <1>0, <2>1, <2>2, <2>5 DEF Items
    <2>. QED  BY <2>4, <2>6 DEF RingInv
  <1>6. CASE DequeueRelease
    <2>1. /\ consumer = "release" /\ consumer' = "idle" /\ head' = Advance(head)
          /\ UNCHANGED <<tail, slots, producer, ptr, sent, received>>
      BY <1>6 DEF DequeueRelease
    <2>2. /\ head' = Wrap(HeadSlot + 1) * DSize /\ Wrap(HeadSlot + 1) \in Slot
          /\ HeadSlot' = Wrap(HeadSlot + 1)
      BY <1>0, <2>1, OffsetOf DEF RingType, HeadSlot
    <2>3. /\ TailSlot' = TailSlot /\ Consumed' = Consumed + 1 /\ InRing' = InRing - 1
      BY <1>0, <2>1 DEF TailSlot, Consumed, InRing, RingType
    <2>4. RingType'
      BY <1>0, <2>1, <2>2, <2>3 DEF RingType
    <2>5. Room'
      BY <1>0, <2>1, <2>2, <2>3 DEF RingType, Room, Wrap, Slot
    <2>6. ASSUME NEW k \in 0 .. InRing' - 1
          PROVE  slots'[Wrap(HeadSlot' + k)] = Consumed' + k + 1
      <3>1. k + 1 \in 0 .. InRing - 1 /\ Wrap(HeadSlot' + k) = Wrap(HeadSlot + (k + 1))
        BY <1>0, <2>2, <2>3 DEF RingType, Room, Wrap, Slot
      <3>2. slots[Wrap(HeadSlot + (k + 1))] = Consumed + (k + 1) + 1
        BY <1>0, <3>1 DEF Items
      <3>3. Consumed \in Int
        BY <1>0 DEF RingType, Consumed
      <3>. QED  BY <2>1, <2>3, <3>1, <3>2, <3>3
    <2>7. Items'
      BY <1>0, <2>1, <2>2, <2>3, <2>6 DEF Items
    <2>. QED  BY <2>4, <2>5, <2>7 DEF RingInv
  <1>. QED  BY <1>1, <1>2, <1>3, <1>4, <1>5, <1>6 DEF RingNext

\* The offsets, the counts and the slots agree with each other at every moment.
THEOREM RingInvariant == RingSpec => []RingInv
  BY RingStart, RingStep, PTL DEF RingSpec

\* The pointer that stl_ring_buffer_dequeue returned shows the item whose turn it was until
\* the next call, for a buffer of any size.
THEOREM PointersValid == RingSpec => []PointerValid
  <1>1. RingInv => PointerValid
    BY DEF RingInv, Items, PointerValid
  <1>. QED  BY <1>1, RingInvariant, PTL

-----------------------------------------------------------------------------
(* The ring buffer implements a bounded queue: the one that holds the numbers of the items     *)
(* that are in the ring.                                                                       *)

Numbers(c, n) == [i \in 1 .. n |-> c + i]

LEMMA NumbersProperties ==
    ASSUME NEW c \in Nat, NEW n \in Nat
    PROVE  /\ Numbers(c, n) \in Seq(Nat) /\ Len(Numbers(c, n)) = n
           /\ Numbers(c, n + 1) = Append(Numbers(c, n), c + n + 1)
           /\ n # 0 => /\ Numbers(c, n) # << >>
                       /\ Numbers(c + 1, n - 1) = Tail(Numbers(c, n))
  <1>1. \A b, m \in Nat : Numbers(b, m) \in Seq(Nat) /\ Len(Numbers(b, m)) = m
                          /\ \A i \in 1 .. m : Numbers(b, m)[i] = b + i
    BY DEF Numbers
  <1>. DEFINE s == Numbers(c, n)
              t == Numbers(c, n + 1)
              a == Append(s, c + n + 1)
  <1>2. t = a
    <2>1. t \in Seq(Nat) /\ Len(t) = n + 1 /\ \A i \in 1 .. n + 1 : t[i] = c + i
      BY <1>1
    <2>2. s \in Seq(Nat) /\ Len(s) = n /\ \A i \in 1 .. n : s[i] = c + i
      BY <1>1
    <2>. HIDE DEF s, t
    <2>3. /\ a \in Seq(Nat) /\ Len(a) = n + 1 /\ a[n + 1] = c + n + 1
          /\ \A i \in 1 .. n : a[i] = s[i]
      BY <2>2, AppendProperties
    <2>4. \A i \in 1 .. n + 1 : t[i] = a[i]
      BY <2>1, <2>2, <2>3
    <2>. HIDE DEF a
    <2>. QED  BY <2>1, <2>3, <2>4, SeqEqual
  <1>3. ASSUME n # 0 PROVE s # << >> /\ Numbers(c + 1, n - 1) = Tail(s)
    <2>. DEFINE r == Numbers(c + 1, n - 1)
    <2>0. c + 1 \in Nat /\ n - 1 \in Nat
      BY <1>3
    <2>1. r \in Seq(Nat) /\ Len(r) = n - 1 /\ \A i \in 1 .. n - 1 : r[i] = c + 1 + i
      BY <1>1, <2>0
    <2>2. s \in Seq(Nat) /\ Len(s) = n /\ \A i \in 1 .. n : s[i] = c + i
      BY <1>1
    <2>. HIDE DEF r, s
    <2>3. s # << >>
      BY <1>3, <2>2, EmptySeq
    <2>4. Tail(s) \in Seq(Nat) /\ Len(Tail(s)) = n - 1 /\ \A i \in 1 .. n - 1 : Tail(s)[i] = s[i + 1]
      BY <2>2, <2>3, HeadTailProperties
    <2>5. \A i \in 1 .. n - 1 : r[i] = Tail(s)[i]
      BY <1>3, <2>1, <2>2, <2>4
    <2>6. r = Tail(s)
      BY <2>1, <2>4, <2>5, SeqEqual
    <2>. QED  BY <2>3, <2>6 DEF r
  <1>. QED  BY <1>1, <1>2, <1>3

\* The distance of two offsets around the ring, in slots.
LEMMA OffsetDistance ==
    ASSUME NEW h \in Slot, NEW n \in Slot
    PROVE  ((Wrap(h + n) * DSize + Capacity * DSize - h * DSize) % (Capacity * DSize)) \div DSize = n
  <1>. USE RingAssumption
  <1>. DEFINE M == Capacity * DSize
  <1>1. M \in Nat \ {0} /\ n * DSize \in Nat /\ n * DSize < M /\ (n * DSize) \div DSize = n
    <2>1. M >= DSize /\ n * DSize + DSize <= M
      BY TimesLess DEF Slot
    <2>. QED  BY <2>1, DivTimes DEF Slot
  <1>2. \/ Wrap(h + n) * DSize + M - h * DSize = n * DSize
        \/ Wrap(h + n) * DSize + M - h * DSize = n * DSize + M
    <2>1. CASE h + n < Capacity
      <3>1. (h + n) * DSize = h * DSize + n * DSize
        BY DEF Slot
      <3>. QED  BY <1>1, <2>1, <3>1 DEF Wrap, Slot
    <2>2. CASE ~(h + n < Capacity)
      <3>1. (h + n - Capacity) * DSize = h * DSize + n * DSize - M
        BY DEF Slot
      <3>. QED  BY <1>1, <2>2, <3>1 DEF Wrap, Slot
    <2>. QED  BY <2>1, <2>2
  <1>. HIDE DEF M
  <1>3. (n * DSize) % M = n * DSize /\ (n * DSize + M) % M = n * DSize
    <2>. DEFINE x == n * DSize
    <2>1. x \in Nat /\ x < M /\ M \in Nat \ {0}
      BY <1>1
    <2>. HIDE DEF x
    <2>2. x % M = x /\ (x + M) % M = x
      BY <2>1, ModBelow, ModOnce
    <2>. QED  BY <2>2 DEF x
  <1>. QED  BY <1>1, <1>2, <1>3 DEF M

LEMMA ContentsAre == RingInv => RingContents = Numbers(Consumed, InRing)
  <1>. SUFFICES ASSUME RingInv PROVE RingContents = Numbers(Consumed, InRing)
    OBVIOUS
  <1>. USE RingAssumption
  <1>. DEFINE n == ((tail + Capacity * DSize - head) % (Capacity * DSize)) \div DSize
  <1>1. /\ HeadSlot \in Slot /\ InRing \in Slot
        /\ tail = Wrap(HeadSlot + InRing) * DSize /\ head = HeadSlot * DSize
    BY DEF RingInv, RingType, Room, Slot
  <1>2. n = InRing
    BY <1>1, OffsetDistance
  <1>3. RingContents = [i \in 1 .. n |-> slots[(SlotOf(head) + i - 1) % Capacity]]
    BY DEF RingContents
  <1>. HIDE DEF n
  <1>4. ASSUME NEW i \in 1 .. InRing
        PROVE  slots[(SlotOf(head) + i - 1) % Capacity] = Consumed + i
    <2>. DEFINE x == HeadSlot + i - 1
    <2>1. x \in Nat /\ x < Capacity + Capacity /\ i - 1 \in 0 .. InRing - 1 /\ x = HeadSlot + (i - 1)
      BY <1>1 DEF Slot
    <2>2. x % Capacity = Wrap(x)
      <3>. HIDE DEF x
      <3>1. CASE x < Capacity
        BY <2>1, <3>1, ModBelow DEF Wrap
      <3>2. CASE ~(x < Capacity)
        BY <2>1, <3>2, ModOnce DEF Wrap
      <3>. QED  BY <3>1, <3>2
    <2>3. slots[Wrap(HeadSlot + (i - 1))] = Consumed + (i - 1) + 1
      BY <2>1 DEF RingInv, Items
    <2>4. Consumed \in Int
      BY DEF RingInv, RingType, Consumed
    <2>. QED  BY <2>1, <2>2, <2>3, <2>4 DEF HeadSlot
  <1>. QED  BY <1>2, <1>3, <1>4 DEF Numbers

\* The ring buffer implements the bounded queue: the store of tail puts an item in, the store
\* of head takes one out, in the order of the puts, and no other step changes it.
THEOREM RingImplementsQueue == RingSpec => RingIsQueue
  <1>1. RingInit => Queue!Init
    <2>. SUFFICES ASSUME RingInit PROVE RingContents = << >>
      BY DEF Queue!Init
    <2>1. RingInv
      BY RingStart
    <2>2. Consumed = 0 /\ InRing = 0
      BY DEF RingInit, Consumed, InRing
    <2>3. RingContents = Numbers(0, 0)
      BY <2>1, <2>2, ContentsAre
    <2>. QED  BY <2>3 DEF Numbers
  <1>2. RingInv' => (RingContents = Numbers(Consumed, InRing))'
    BY ContentsAre, PTL
  <1>3. RingInv /\ RingInv' /\ [RingNext]_ringVars => [Queue!Next]_RingContents
    <2>. SUFFICES ASSUME RingInv, RingInv', [RingNext]_ringVars
                  PROVE  Queue!Next \/ UNCHANGED RingContents
      OBVIOUS
    <2>0. RingContents = Numbers(Consumed, InRing) /\ RingContents' = Numbers(Consumed', InRing')
      BY <1>2, ContentsAre DEF Numbers
    <2>1. Consumed \in Nat /\ InRing \in Nat /\ sent \in Nat
      BY DEF RingInv, RingType, Room, Consumed
    <2>2. CASE UNCHANGED <<Consumed, InRing>>
      BY <2>0, <2>2
    <2>3. CASE UNCHANGED ringVars \/ QueueTest \/ QueueCopy \/ QueueCopied
      BY <2>2, <2>3 DEF ringVars, QueueTest, QueueCopy, QueueCopied, Consumed, InRing
    <2>4. CASE DequeueTest
      BY <2>2, <2>4 DEF DequeueTest, Consumed, InRing, RingInv, RingType
    <2>5. CASE QueuePublish
      <3>1. Consumed' = Consumed /\ InRing' = InRing + 1
        BY <2>1, <2>5 DEF QueuePublish, Consumed, InRing, RingInv, RingType
      <3>2. Consumed + InRing + 1 \in 1 .. MaxItems /\ InRing < Capacity - 1
        BY <2>1, <2>5, RingAssumption DEF QueuePublish, InRing, RingInv, Room
      <3>3. RingContents' = Append(RingContents, Consumed + InRing + 1) /\ Len(RingContents) = InRing
        BY <2>0, <2>1, <3>1, NumbersProperties
      <3>4. Queue!Put(Consumed + InRing + 1)
        BY <3>2, <3>3 DEF Queue!Put
      <3>. QED  BY <3>2, <3>4 DEF Queue!Next
    <2>6. CASE DequeueRelease
      <3>1. Consumed' = Consumed + 1 /\ InRing' = InRing - 1 /\ InRing # 0
        BY <2>1, <2>6 DEF DequeueRelease, Consumed, InRing, RingInv, RingType, Room
      <3>2. RingContents # << >> /\ RingContents' = Tail(RingContents)
        BY <2>0, <2>1, <3>1, NumbersProperties
      <3>3. Queue!Get
        BY <3>2 DEF Queue!Get
      <3>. QED  BY <3>3 DEF Queue!Next
    <2>. QED  BY <2>3, <2>4, <2>5, <2>6 DEF RingNext
  <1>. QED  BY <1>1, <1>3, RingInvariant, PTL DEF RingSpec, RingIsQueue, Queue!Spec

-----------------------------------------------------------------------------
(* The dictionary. *)

Pair == [key : {CopyOf(k) : k \in DictKey}, value : {CopyOf(v) : v \in DictValue}, number : Nat \ {0}]

Pushed == Len(inserted)

DictType ==
    /\ buckets \in [DictBucket -> Seq(Pair)] /\ stacks \in [Place -> Seq(Nat \ {0})]
    /\ inserted \in Seq(DictValue) /\ dictAlive \in BOOLEAN
    /\ dictAlive => lost \in Nat

\* The pair holds the v-th value inserted, under the place p.
Is(pair, p, v) == pair.key.data = p[2] /\ pair.number = v

\* The numbers of the values at p in its chain, and of those inserted and not deleted.
Held(p) == {v \in Nat \ {0} : \E i \in DOMAIN buckets[p[1]] : Is(buckets[p[1]][i], p, v)}
Stacked(p) == {v \in Nat \ {0} : \E i \in DOMAIN stacks[p] : stacks[p][i] = v}

\* Newer values are in front, in chains and on stacks.
ChainFalls(chain) ==
    \A i, j \in DOMAIN chain :
        chain[i].number <= Pushed /\ (i < j => chain[j].number < chain[i].number)
StackFalls(stack) ==
    \A i, j \in DOMAIN stack : stack[i] <= Pushed /\ (i < j => stack[j] < stack[i])

\* A chain holds copies of what was inserted.
ChainCopies(chain) == \A i \in DOMAIN chain : chain[i].value = CopyOf(inserted[chain[i].number])

\* A chain holds the newest values of a place, if not all of them.
Newest(p) ==
    /\ Held(p) \subseteq Stacked(p)
    /\ \A v \in Held(p), u \in Stacked(p) : v < u => u \in Held(p)
    /\ dictAlive /\ lost = 0 => Held(p) = Stacked(p)

\* What makes LookupIsNewest inductive.
DictInv ==
    /\ DictType
    /\ \A b \in DictBucket : ChainFalls(buckets[b]) /\ ChainCopies(buckets[b])
    /\ \A p \in Place : StackFalls(stacks[p]) /\ Newest(p)

\* The first pair of a place in its chain.
First(p) == SelectInSeq(buckets[p[1]], LAMBDA pair : pair.key.data = p[2])

LEMMA PlaceIs ==
    /\ \A p \in Place : p[1] \in DictBucket
    /\ \A p, q \in Place : p[1] = q[1] /\ p[2] = q[2] => p = q
    /\ \A k \in DictKey : /\ Stored(k) \in Place /\ Stored(k)[1] = HashOf[k] /\ Stored(k)[2] = CopyOf(k).data
                          /\ Sought(k) \in Place /\ Sought(k)[1] = HashOf[k] /\ Sought(k)[2] = k.data
  BY DictAssumption DEF Place, Stored, Sought

LEMMA PairAtIsFirst == \A k \in DictKey : PairAt(k) = First(Sought(k))
  <1>. SUFFICES ASSUME NEW k \in DictKey PROVE PairAt(k) = First(Sought(k))
    OBVIOUS
  <1>1. Sought(k)[1] = HashOf[k] /\ Sought(k)[2] = k.data
    BY PlaceIs
  <1>. DEFINE I == {i \in 1 .. Len(buckets[HashOf[k]]) : buckets[HashOf[k]][i].key.data = k.data}
              J == {i \in 1 .. Len(buckets[Sought(k)[1]]) :
                        buckets[Sought(k)[1]][i].key.data = Sought(k)[2]}
  <1>2. PairAt(k) = IF I # {} THEN Min(I) ELSE 0
    BY DEF PairAt, SelectInSeq
  <1>3. First(Sought(k)) = IF J # {} THEN Min(J) ELSE 0
    BY DEF First, SelectInSeq
  <1>4. I = J
    BY <1>1
  <1>. HIDE DEF I, J
  <1>. QED  BY <1>2, <1>3, <1>4

LEMMA PushedIs == DictType => Pushed \in Nat
  BY LenProperties DEF DictType, Pushed

LEMMA ConsIs ==
    ASSUME NEW S, NEW s \in Seq(S), NEW e \in S
    PROVE  LET t == <<e>> \o s IN
           /\ t \in Seq(S) /\ Len(t) = Len(s) + 1 /\ Len(s) \in Nat
           /\ DOMAIN t = 1 .. Len(s) + 1 /\ DOMAIN s = 1 .. Len(s)
           /\ t[1] = e
           /\ \A i \in 1 .. Len(s) : t[i + 1] = s[i]
  <1>1. <<e>> \in Seq(S) /\ Len(<<e>>) = 1 /\ <<e>>[1] = e
    OBVIOUS
  <1>. DEFINE t == <<e>> \o s
  <1>2. Len(s) \in Nat /\ DOMAIN s = 1 .. Len(s)
    BY LenProperties
  <1>3. /\ t \in Seq(S) /\ Len(t) = 1 + Len(s)
        /\ \A i \in 1 .. 1 + Len(s) : t[i] = IF i <= 1 THEN <<e>>[i] ELSE s[i - 1]
    BY <1>1, ConcatProperties
  <1>4. DOMAIN t = 1 .. Len(t)
    BY <1>3, LenProperties
  <1>. HIDE DEF t
  <1>5. t[1] = e
    BY <1>1, <1>2, <1>3
  <1>6. ASSUME NEW i \in 1 .. Len(s) PROVE t[i + 1] = s[i]
    <2>1. i + 1 \in 1 .. 1 + Len(s) /\ ~(i + 1 <= 1) /\ (i + 1) - 1 = i
      BY <1>2
    <2>. QED  BY <1>3, <2>1
  <1>. QED  BY <1>2, <1>3, <1>4, <1>5, <1>6 DEF t

LEMMA RemoveAtIs ==
    ASSUME NEW S, NEW s \in Seq(S), NEW n \in 1 .. Len(s)
    PROVE  LET t == RemoveAt(s, n) IN
           /\ t \in Seq(S) /\ Len(t) = Len(s) - 1 /\ Len(s) \in Nat
           /\ DOMAIN t = 1 .. Len(s) - 1 /\ DOMAIN s = 1 .. Len(s)
           /\ \A i \in 1 .. Len(s) - 1 : t[i] = IF i < n THEN s[i] ELSE s[i + 1]
  <1>. DEFINE t == RemoveAt(s, n)
              x == SubSeq(s, 1, n - 1)
              y == SubSeq(s, n + 1, Len(s))
  <1>1. Len(s) \in Nat /\ DOMAIN s = 1 .. Len(s) /\ \A i \in 1 .. Len(s) : s[i] \in S
    BY LenProperties, ElementOfSeq
  <1>2. /\ x \in Seq(S) /\ Len(x) = n - 1 /\ \A i \in 1 .. n - 1 : x[i] = s[i]
    <2>1. /\ x \in Seq(S) /\ Len(x) = (IF 1 <= n - 1 THEN n - 1 - 1 + 1 ELSE 0)
          /\ \A i \in 1 .. n - 1 - 1 + 1 : x[i] = s[1 + i - 1]
      BY <1>1, SubSeqProperties
    <2>. HIDE DEF x
    <2>. QED  BY <2>1, <1>1
  <1>3. /\ y \in Seq(S) /\ Len(y) = Len(s) - n /\ \A i \in 1 .. Len(s) - n : y[i] = s[n + i]
    <2>1. /\ y \in Seq(S) /\ Len(y) = (IF n + 1 <= Len(s) THEN Len(s) - (n + 1) + 1 ELSE 0)
          /\ \A i \in 1 .. Len(s) - (n + 1) + 1 : y[i] = s[(n + 1) + i - 1]
      BY <1>1, SubSeqProperties
    <2>. HIDE DEF y
    <2>2. Len(y) = Len(s) - n /\ Len(s) - (n + 1) + 1 = Len(s) - n
      <3>1. Len(y) = IF n + 1 <= Len(s) THEN Len(s) - (n + 1) + 1 ELSE 0
        BY <2>1
      <3>2. n \in Nat /\ n <= Len(s) /\ Len(s) \in Nat
        BY <1>1
      <3>. QED  BY <3>1, <3>2
    <2>3. \A i \in 1 .. Len(s) - n : (n + 1) + i - 1 = n + i
      BY <1>1
    <2>. QED  BY <2>1, <2>2, <2>3
  <1>4. t = x \o y
    BY DEF RemoveAt
  <1>. HIDE DEF x, y, t
  <1>5. /\ t \in Seq(S) /\ Len(t) = Len(s) - 1
        /\ \A i \in 1 .. Len(s) - 1 : t[i] = IF i <= n - 1 THEN x[i] ELSE y[i - (n - 1)]
    <2>1. /\ t \in Seq(S) /\ Len(t) = Len(x) + Len(y)
          /\ \A i \in 1 .. Len(x) + Len(y) : t[i] = IF i <= Len(x) THEN x[i] ELSE y[i - Len(x)]
      BY <1>2, <1>3, <1>4, ConcatProperties
    <2>2. Len(x) + Len(y) = Len(s) - 1
      BY <1>1, <1>2, <1>3
    <2>. QED  BY <1>2, <2>1, <2>2
  <1>6. DOMAIN t = 1 .. Len(t)
    BY <1>5, LenProperties
  <1>7. ASSUME NEW i \in 1 .. Len(s) - 1 PROVE t[i] = IF i < n THEN s[i] ELSE s[i + 1]
    <2>1. CASE i < n
      <3>1. i \in 1 .. n - 1
        BY <2>1
      <3>. QED  BY <1>2, <1>5, <2>1, <3>1
    <2>2. CASE ~(i < n)
      <3>1. i - (n - 1) \in 1 .. Len(s) - n /\ n + (i - (n - 1)) = i + 1 /\ ~(i <= n - 1)
        BY <1>1, <2>2
      <3>2. t[i] = y[i - (n - 1)]
        BY <1>5, <3>1
      <3>. QED  BY <1>3, <2>2, <3>1, <3>2
    <2>. QED  BY <2>1, <2>2
  <1>. QED  BY <1>1, <1>5, <1>6, <1>7 DEF t

\* stl_dict_lookup and stl_dict_delete find the first pair with the key.
LEMMA FirstIs ==
    ASSUME DictType, NEW p \in Place
    PROVE  LET chain == buckets[p[1]] IN
           /\ chain \in Seq(Pair) /\ Len(chain) \in Nat /\ DOMAIN chain = 1 .. Len(chain)
           /\ \/ /\ First(p) = 0 /\ \A i \in DOMAIN chain : chain[i].key.data # p[2]
              \/ /\ First(p) \in DOMAIN chain /\ chain[First(p)].key.data = p[2]
                 /\ \A i \in DOMAIN chain : chain[i].key.data = p[2] => First(p) <= i
  <1>. DEFINE chain == buckets[p[1]]
              I == {i \in 1 .. Len(chain) : chain[i].key.data = p[2]}
  <1>1. First(p) = IF I # {} THEN Min(I) ELSE 0
    BY DEF First, SelectInSeq
  <1>2. chain \in Seq(Pair)
    BY PlaceIs DEF DictType
  <1>3. Len(chain) \in Nat /\ DOMAIN chain = 1 .. Len(chain)
    BY <1>2, LenProperties
  <1>4. CASE I = {}
    BY <1>1, <1>2, <1>3, <1>4
  <1>5. CASE I # {}
    <2>1. I \subseteq Nat
      OBVIOUS
    <2>2. PICK m \in I : \A y \in I : m <= y
      <3>. HIDE DEF I
      <3>1. I \in SUBSET Nat
        BY <2>1
      <3>. QED
        BY <1>5, <3>1, Least
    <2>3. Min(I) \in I /\ \A y \in I : Min(I) <= y
      <3>. HIDE DEF I
      <3>. QED  BY <2>2, Zenon DEF Min
    <2>4. First(p) \in I /\ \A y \in I : First(p) <= y
      BY <1>1, <1>5, <2>3
    <2>. QED  BY <1>2, <1>3, <2>4
  <1>. QED  BY <1>4, <1>5

\* The first value of a stack is the newest.
LEMMA TopIsNewest ==
    ASSUME DictInv, NEW p \in Place, stacks[p] # << >>
    PROVE  stacks[p][1] \in Stacked(p) /\ \A v \in Stacked(p) : v <= stacks[p][1]
  <1>. DEFINE s == stacks[p]
  <1>1. s \in Seq(Nat \ {0}) /\ StackFalls(s)
    BY DEF DictInv, DictType
  <1>2. Len(s) \in Nat \ {0} /\ DOMAIN s = 1 .. Len(s) /\ \A i \in 1 .. Len(s) : s[i] \in Nat \ {0}
    BY <1>1, EmptySeq, LenProperties, ElementOfSeq
  <1>3. 1 \in DOMAIN s /\ s[1] \in Nat \ {0}
    BY <1>2
  <1>4. ASSUME NEW i \in DOMAIN s PROVE s[i] <= s[1]
    <2>1. i = 1 \/ 1 < i
      BY <1>2
    <2>2. 1 < i => s[i] < s[1]
      BY <1>1, <1>3 DEF StackFalls
    <2>3. s[i] \in Nat /\ s[1] \in Nat
      BY <1>2, <1>3
    <2>. QED  BY <2>1, <2>2, <2>3
  <1>. QED  BY <1>3, <1>4 DEF Stacked

LEMMA StackEmpty ==
    ASSUME DictInv, NEW p \in Place
    PROVE  stacks[p] = << >> <=> Stacked(p) = {}
  <1>1. ASSUME stacks[p] # << >> PROVE Stacked(p) # {}
    BY <1>1, TopIsNewest
  <1>2. ASSUME stacks[p] = << >> PROVE Stacked(p) = {}
    BY <1>2 DEF Stacked
  <1>. QED  BY <1>1, <1>2

\* What a lookup finds is the newest value of its key in the chain.
LEMMA FirstPair ==
    ASSUME DictInv, NEW p \in Place
    PROVE  /\ First(p) = 0 => Held(p) = {}
           /\ First(p) # 0 =>
                 LET pair == buckets[p[1]][First(p)] IN
                 /\ pair.number \in Held(p)
                 /\ stacks[p] # << >> /\ pair.number = stacks[p][1]
  <1>. DEFINE chain == buckets[p[1]]
              n == First(p)
  <1>1. DictType /\ ChainFalls(chain) /\ Newest(p)
    BY PlaceIs DEF DictInv
  <1>2. /\ chain \in Seq(Pair) /\ Len(chain) \in Nat /\ DOMAIN chain = 1 .. Len(chain)
        /\ \/ /\ n = 0 /\ \A i \in DOMAIN chain : chain[i].key.data # p[2]
           \/ /\ n \in DOMAIN chain /\ chain[n].key.data = p[2]
              /\ \A i \in DOMAIN chain : chain[i].key.data = p[2] => n <= i
    BY <1>1, FirstIs
  <1>3. \A i \in DOMAIN chain : chain[i] \in Pair
    BY <1>2, ElementOfSeq
  <1>4. \A v \in Held(p) : \E i \in DOMAIN chain : chain[i].key.data = p[2] /\ chain[i].number = v
    BY DEF Held, Is
  <1>. HIDE DEF n
  <1>5. CASE n = 0
    <2>1. \A i \in DOMAIN chain : chain[i].key.data # p[2]
      BY <1>2, <1>5
    <2>. QED  BY <1>4, <1>5, <2>1 DEF n
  <1>6. CASE n # 0
    <2>1. /\ n \in DOMAIN chain /\ chain[n].key.data = p[2]
          /\ \A i \in DOMAIN chain : chain[i].key.data = p[2] => n <= i
      BY <1>2, <1>6
    <2>2. chain[n].number \in Nat \ {0} /\ Is(chain[n], p, chain[n].number)
      BY <1>3, <2>1 DEF Pair, Is
    <2>3. chain[n].number \in Held(p)
      BY <2>1, <2>2 DEF Held
    <2>4. \A v \in Held(p) : v <= chain[n].number
      <3>. SUFFICES ASSUME NEW i \in DOMAIN chain, chain[i].key.data = p[2] PROVE chain[i].number <= chain[n].number
        BY <1>4
      <3>1. n <= i
        BY <2>1
      <3>2. chain[i].number \in Nat
        BY <1>3 DEF Pair
      <3>. QED  BY <1>1, <1>2, <2>1, <2>2, <3>1, <3>2 DEF ChainFalls
    <2>5. chain[n].number \in Stacked(p)
      BY <1>1, <2>3 DEF Newest
    <2>6. stacks[p] # << >>
      BY <2>5, StackEmpty
    <2>7. stacks[p][1] \in Stacked(p) /\ chain[n].number <= stacks[p][1]
      BY <2>5, <2>6, TopIsNewest
    <2>8. chain[n].number < stacks[p][1] => stacks[p][1] \in Held(p)
      BY <1>1, <2>3, <2>7 DEF Newest
    <2>9. stacks[p][1] \in Nat
      BY <2>7 DEF Stacked
    <2>10. chain[n].number = stacks[p][1]
      BY <2>2, <2>4, <2>7, <2>8, <2>9
    <2>. QED  BY <1>6, <2>3, <2>6, <2>10 DEF n
  <1>. QED  BY <1>5, <1>6 DEF n

\* A copy has the data that the len of its item covers, and of a text all.
LEMMA CopyCovers ==
    ASSUME NEW item \in DictItem
    PROVE  Covers(CopyOf(item).data, item)
  <1>1. item.data \in Seq(Nat)
    BY DEF DictItem
  <1>2. Len(item.data) \in Nat /\ DOMAIN item.data = 1 .. Len(item.data)
    BY <1>1, LenProperties
  <1>3. CASE item.text
    BY <1>3 DEF Covers, CopyOf
  <1>4. CASE ~item.text
    <2>. DEFINE d == CopyOf(item).data
    <2>1. d = [i \in 1 .. Len(item.data) |-> IF i <= item.len THEN item.data[i] ELSE 0]
      BY <1>2, <1>4 DEF CopyOf
    <2>2. \A i \in 1 .. Len(item.data) : d[i] = IF i <= item.len THEN item.data[i] ELSE 0
      BY <2>1
    <2>3. Len(d) = Len(item.data) /\ DOMAIN d = 1 .. Len(item.data)
      BY <1>2, <2>1
    <2>. HIDE DEF d
    <2>4. Covers(d, item)
      BY <1>4, <2>2, <2>3 DEF Covers
    <2>. QED  BY <2>4 DEF d
  <1>. QED  BY <1>3, <1>4

LEMMA DictInvGives == DictInv => LookupIsNewest
  <1>. SUFFICES ASSUME DictInv, NEW k \in DictKey
                PROVE  LET stack == stacks[Sought(k)] IN
                       /\ Lookup(k) # NoValue => stack # << >> /\ Covers(Lookup(k)[1].data, inserted[stack[1]])
                       /\ dictAlive /\ lost = 0 /\ stack # << >> => Lookup(k) # NoValue
    BY DEF LookupIsNewest
  <1>. DEFINE p == Sought(k)
              n == First(p)
              pair == buckets[p[1]][n]
  <1>1. p \in Place /\ p[1] = HashOf[k] /\ PairAt(k) = n /\ p[1] \in DictBucket
    BY PlaceIs, PairAtIsFirst
  <1>2. Lookup(k) = IF n = 0 THEN NoValue ELSE <<pair.value>>
    BY <1>1 DEF Lookup
  <1>. HIDE DEF p
  <1>3. CASE n = 0
    <2>1. Held(p) = {}
      BY <1>1, <1>3, FirstPair
    <2>2. dictAlive /\ lost = 0 => Stacked(p) = {}
      BY <1>1, <2>1 DEF DictInv, Newest
    <2>3. dictAlive /\ lost = 0 => stacks[p] = << >>
      BY <1>1, <2>2, StackEmpty
    <2>4. Lookup(k) = NoValue
      BY <1>2, <1>3
    <2>. QED  BY <2>3, <2>4 DEF p
  <1>4. CASE n # 0
    <2>1. pair.number \in Held(p) /\ stacks[p] # << >> /\ pair.number = stacks[p][1]
      BY <1>1, <1>4, FirstPair
    <2>2. n \in DOMAIN buckets[p[1]] /\ buckets[p[1]] \in Seq(Pair)
      BY <1>1, <1>4, FirstIs DEF DictInv
    <2>3. /\ pair \in Pair /\ pair.value = CopyOf(inserted[pair.number])
          /\ pair.number \in Nat \ {0} /\ pair.number <= Pushed
      <3>1. pair \in Pair
        BY <2>2, LenProperties, ElementOfSeq
      <3>. QED  BY <1>1, <2>2, <3>1 DEF DictInv, ChainCopies, ChainFalls, Pair
    <2>4. inserted[pair.number] \in DictItem
      <3>1. inserted \in Seq(DictValue) /\ Pushed \in Nat
        BY PushedIs DEF DictInv, DictType
      <3>2. pair.number \in 1 .. Len(inserted)
        BY <2>3, <3>1 DEF Pushed
      <3>3. inserted[pair.number] \in DictValue
        BY <3>1, <3>2, ElementOfSeq
      <3>. QED  BY <3>3, DictAssumption
    <2>5. Covers(pair.value.data, inserted[stacks[p][1]])
      BY <2>1, <2>3, <2>4, CopyCovers
    <2>. HIDE DEF n, pair
    <2>6. Lookup(k) = <<pair.value>> /\ Lookup(k) # NoValue /\ Lookup(k)[1] = pair.value
      BY <1>2, <1>4 DEF NoValue
    <2>. QED  BY <2>1, <2>5, <2>6 DEF p
  <1>. QED  BY <1>3, <1>4

\* stl_dict_insert adds a value that is newer than all others to the chain and to the stack.
LEMMA DictInvInsert ==
    ASSUME DictInv, NEW k \in DictKey, NEW value \in DictValue, DictInsert(k, value)
    PROVE  DictInv'
  <1>. DEFINE p == Stored(k)
              b == HashOf[k]
              pair == NewPair(k, value)
              chain == buckets[b]
              new == <<pair>> \o chain
              stack == stacks[p]
              newStack == <<Pushed + 1>> \o stack
  <1>1. /\ DictType /\ b \in DictBucket /\ Pushed \in Nat
        /\ p \in Place /\ p[1] = b /\ p[2] = CopyOf(k).data
        /\ chain \in Seq(Pair) /\ stack \in Seq(Nat \ {0}) /\ dictAlive
        /\ buckets \in [DictBucket -> Seq(Pair)] /\ stacks \in [Place -> Seq(Nat \ {0})]
    BY PlaceIs, PushedIs, DictAssumption DEF DictInv, DictType, DictInsert, PairInsert
  <1>2. /\ inserted' = Append(inserted, value) /\ UNCHANGED <<dictAlive, lost>>
        /\ buckets' = [buckets EXCEPT ![b] = new]
        /\ stacks' = [stacks EXCEPT ![p] = newStack]
    BY DEF DictInsert, PairInsert, Pushed
  <1>3. /\ pair \in Pair /\ Pushed + 1 \in Nat \ {0} /\ Is(pair, p, Pushed + 1)
        /\ pair.number = Pushed + 1 /\ pair.value = CopyOf(value) /\ pair.key.data = p[2]
    BY <1>1 DEF Pair, NewPair, Pushed, Is
  <1>0. /\ Pushed' = Pushed + 1 /\ inserted' \in Seq(DictValue)
        /\ inserted'[Pushed + 1] = value
        /\ \A i \in 1 .. Pushed : inserted'[i] = inserted[i]
    <2>1. inserted \in Seq(DictValue)
      BY <1>1 DEF DictType
    <2>. QED  BY <1>2, <2>1, AppendProperties DEF Pushed
  <1>. HIDE DEF pair, p
  <1>4. /\ new \in Seq(Pair) /\ Len(new) = Len(chain) + 1 /\ Len(chain) \in Nat
        /\ DOMAIN new = 1 .. Len(chain) + 1 /\ DOMAIN chain = 1 .. Len(chain)
        /\ new[1] = pair
        /\ \A i \in 1 .. Len(chain) : new[i + 1] = chain[i]
    BY <1>1, <1>3, ConsIs
  <1>5. /\ newStack \in Seq(Nat \ {0}) /\ Len(newStack) = Len(stack) + 1 /\ Len(stack) \in Nat
        /\ DOMAIN newStack = 1 .. Len(stack) + 1 /\ DOMAIN stack = 1 .. Len(stack)
        /\ newStack[1] = Pushed + 1
        /\ \A i \in 1 .. Len(stack) : newStack[i + 1] = stack[i]
    BY <1>1, <1>3, ConsIs
  <1>. HIDE DEF new, newStack
  <1>6. DictType'
    BY <1>0, <1>1, <1>2, <1>3, <1>4, <1>5 DEF DictType
  <1>7. \A i \in DOMAIN new : i = 1 \/ (i - 1 \in DOMAIN chain /\ new[i] = chain[i - 1])
    <2>. SUFFICES ASSUME NEW i \in DOMAIN new, i # 1 PROVE i - 1 \in DOMAIN chain /\ new[i] = chain[i - 1]
      OBVIOUS
    <2>1. i - 1 \in 1 .. Len(chain) /\ (i - 1) + 1 = i
      BY <1>4
    <2>. QED  BY <1>4, <2>1
  <1>8. \A i \in DOMAIN newStack : i = 1 \/ (i - 1 \in DOMAIN stack /\ newStack[i] = stack[i - 1])
    <2>. SUFFICES ASSUME NEW i \in DOMAIN newStack, i # 1
                  PROVE  i - 1 \in DOMAIN stack /\ newStack[i] = stack[i - 1]
      OBVIOUS
    <2>1. i - 1 \in 1 .. Len(stack) /\ (i - 1) + 1 = i
      BY <1>5
    <2>. QED  BY <1>5, <2>1
  <1>9. ASSUME NEW c \in DictBucket PROVE ChainFalls(buckets[c])'
    <2>1. ChainFalls(buckets[c])
      BY DEF DictInv
    <2>2. buckets[c] \in Seq(Pair)
      BY <1>1
    <2>3. \A i \in DOMAIN buckets[c] : buckets[c][i].number \in Nat
      <3>1. \A i \in DOMAIN buckets[c] : buckets[c][i] \in Pair
        BY <2>2, LenProperties, ElementOfSeq
      <3>. QED  BY <3>1 DEF Pair
    <2>4. CASE c # b
      <3>1. buckets'[c] = buckets[c]
        BY <1>1, <1>2, <2>4
      <3>. QED  BY <1>1, <1>0, <2>1, <2>3, <3>1 DEF ChainFalls
    <2>5. CASE c = b
      <3>1. buckets'[c] = new
        BY <1>1, <1>2, <2>5
      <3>2. /\ \A i \in DOMAIN chain : chain[i].number \in Nat /\ chain[i].number <= Pushed
            /\ \A i, j \in DOMAIN chain : i < j => chain[j].number < chain[i].number
        BY <2>1, <2>3, <2>5 DEF ChainFalls
      <3>. HIDE DEF chain
      <3>3. ASSUME NEW i \in DOMAIN new, NEW j \in DOMAIN new
            PROVE  new[i].number <= Pushed + 1 /\ (i < j => new[j].number < new[i].number)
        <4>1. i \in Nat /\ j \in Nat /\ 1 <= i
          BY <1>4
        <4>2. CASE i = 1
          <5>1. new[i].number = Pushed + 1
            BY <1>3, <1>4, <4>2
          <5>2. j # 1 => new[j].number \in Nat /\ new[j].number <= Pushed
            BY <1>7, <3>2
          <5>. QED  BY <1>1, <4>1, <4>2, <5>1, <5>2
        <4>3. CASE i # 1
          <5>1. i - 1 \in DOMAIN chain /\ new[i] = chain[i - 1]
            BY <1>7, <4>3
          <5>2. new[i].number \in Nat /\ new[i].number <= Pushed
            BY <3>2, <5>1
          <5>3. ASSUME i < j PROVE new[j].number < new[i].number
            <6>1. j - 1 \in DOMAIN chain /\ new[j] = chain[j - 1] /\ i - 1 < j - 1
              BY <1>7, <4>1, <5>3
            <6>. QED  BY <3>2, <5>1, <6>1
          <5>. QED  BY <1>1, <5>2, <5>3
        <4>. QED  BY <4>2, <4>3
      <3>. QED  BY <1>0, <3>1, <3>3 DEF ChainFalls
    <2>. QED  BY <2>4, <2>5
  <1>10. ASSUME NEW c \in Place PROVE StackFalls(stacks[c])'
    <2>1. StackFalls(stacks[c])
      BY DEF DictInv
    <2>2. stacks[c] \in Seq(Nat \ {0})
      BY <1>1
    <2>3. \A i \in DOMAIN stacks[c] : stacks[c][i] \in Nat
      BY <2>2, LenProperties, ElementOfSeq
    <2>4. CASE c # p
      <3>1. stacks'[c] = stacks[c]
        BY <1>1, <1>2, <2>4
      <3>. QED  BY <1>1, <1>0, <2>1, <2>3, <3>1 DEF StackFalls
    <2>5. CASE c = p
      <3>1. stacks'[c] = newStack
        BY <1>1, <1>2, <2>5
      <3>2. /\ \A i \in DOMAIN stack : stack[i] \in Nat /\ stack[i] <= Pushed
            /\ \A i, j \in DOMAIN stack : i < j => stack[j] < stack[i]
        BY <2>1, <2>3, <2>5 DEF StackFalls
      <3>. HIDE DEF stack
      <3>3. ASSUME NEW i \in DOMAIN newStack, NEW j \in DOMAIN newStack
            PROVE  newStack[i] <= Pushed + 1 /\ (i < j => newStack[j] < newStack[i])
        <4>1. i \in Nat /\ j \in Nat /\ 1 <= i
          BY <1>5
        <4>2. CASE i = 1
          <5>1. newStack[i] = Pushed + 1
            BY <1>5, <4>2
          <5>2. j # 1 => newStack[j] \in Nat /\ newStack[j] <= Pushed
            BY <1>8, <3>2
          <5>. QED  BY <1>1, <4>1, <4>2, <5>1, <5>2
        <4>3. CASE i # 1
          <5>1. i - 1 \in DOMAIN stack /\ newStack[i] = stack[i - 1]
            BY <1>8, <4>3
          <5>2. newStack[i] \in Nat /\ newStack[i] <= Pushed
            BY <3>2, <5>1
          <5>3. ASSUME i < j PROVE newStack[j] < newStack[i]
            <6>1. j - 1 \in DOMAIN stack /\ newStack[j] = stack[j - 1] /\ i - 1 < j - 1
              BY <1>8, <4>1, <5>3
            <6>. QED  BY <3>2, <5>1, <6>1
          <5>. QED  BY <1>1, <5>2, <5>3
        <4>. QED  BY <4>2, <4>3
      <3>. QED  BY <1>0, <3>1, <3>3 DEF StackFalls
    <2>. QED  BY <2>4, <2>5
  <1>11. ASSUME NEW c \in Place
         PROVE  /\ Held(c)' = IF c = p THEN Held(p) \cup {Pushed + 1} ELSE Held(c)
                /\ Stacked(c)' = IF c = p THEN Stacked(p) \cup {Pushed + 1} ELSE Stacked(c)
    <2>1. CASE c = p
      <3>1. buckets'[c[1]] = new /\ buckets[c[1]] = chain /\ stacks'[c] = newStack
        BY <1>1, <1>2, <2>1
      <3>2. ASSUME NEW v \in Nat \ {0}
            PROVE  (\E i \in DOMAIN new : Is(new[i], p, v))
                   <=> v = Pushed + 1 \/ \E i \in DOMAIN chain : Is(chain[i], p, v)
        <4>1. ASSUME NEW i \in DOMAIN new, Is(new[i], p, v)
              PROVE  v = Pushed + 1 \/ \E j \in DOMAIN chain : Is(chain[j], p, v)
          BY <1>3, <1>4, <1>7, <4>1 DEF Is
        <4>2. ASSUME v = Pushed + 1 PROVE 1 \in DOMAIN new /\ Is(new[1], p, v)
          BY <1>3, <1>4, <4>2
        <4>3. ASSUME NEW i \in DOMAIN chain, Is(chain[i], p, v)
              PROVE  i + 1 \in DOMAIN new /\ Is(new[i + 1], p, v)
          BY <1>4, <4>3
        <4>. QED  BY <4>1, <4>2, <4>3
      <3>3. ASSUME NEW v \in Nat \ {0}
            PROVE  (\E i \in DOMAIN newStack : newStack[i] = v)
                   <=> v = Pushed + 1 \/ \E i \in DOMAIN stack : stack[i] = v
        <4>1. ASSUME NEW i \in DOMAIN newStack, newStack[i] = v
              PROVE  v = Pushed + 1 \/ \E j \in DOMAIN stack : stack[j] = v
          BY <1>5, <1>8, <4>1
        <4>2. ASSUME v = Pushed + 1 PROVE 1 \in DOMAIN newStack /\ newStack[1] = v
          BY <1>5, <4>2
        <4>3. ASSUME NEW i \in DOMAIN stack, stack[i] = v
              PROVE  i + 1 \in DOMAIN newStack /\ newStack[i + 1] = v
          BY <1>5, <4>3
        <4>. QED  BY <4>1, <4>2, <4>3
      <3>. QED  BY <1>3, <2>1, <3>1, <3>2, <3>3 DEF Held, Stacked
    <2>2. CASE c # p
      <3>1. stacks'[c] = stacks[c]
        BY <1>1, <1>2, <2>2
      <3>2. Held(c)' = Held(c)
        <4>1. CASE c[1] # b
          <5>1. buckets'[c[1]] = buckets[c[1]]
            BY <1>1, <1>2, <4>1, PlaceIs
          <5>. QED  BY <5>1 DEF Held
        <4>2. CASE c[1] = b
          <5>1. buckets'[c[1]] = new
            BY <1>1, <1>2, <4>2
          <5>2. ASSUME NEW v \in Nat \ {0}
                PROVE  (\E i \in DOMAIN new : Is(new[i], c, v))
                       <=> \E i \in DOMAIN chain : Is(chain[i], c, v)
            <6>1. ASSUME NEW i \in DOMAIN new, Is(new[i], c, v)
                  PROVE  \E j \in DOMAIN chain : Is(chain[j], c, v)
              <7>1. new[i].key.data = c[2] /\ c[2] # p[2]
                BY <1>1, <2>2, <4>2, <6>1, PlaceIs DEF Is
              <7>2. i # 1
                BY <1>3, <1>4, <7>1
              <7>. QED  BY <1>7, <6>1, <7>2
            <6>2. ASSUME NEW i \in DOMAIN chain, Is(chain[i], c, v)
                  PROVE  i + 1 \in DOMAIN new /\ Is(new[i + 1], c, v)
              BY <1>4, <6>2
            <6>. QED  BY <6>1, <6>2
          <5>. QED  BY <4>2, <5>1, <5>2 DEF Held
        <4>. QED  BY <4>1, <4>2
      <3>. QED  BY <2>2, <3>1, <3>2 DEF Stacked
    <2>. QED  BY <2>1, <2>2
  <1>13. ASSUME NEW c \in DictBucket PROVE ChainCopies(buckets[c])'
    <2>1. /\ ChainCopies(buckets[c]) /\ ChainFalls(buckets[c]) /\ buckets[c] \in Seq(Pair)
      BY <1>1 DEF DictInv
    <2>2. ASSUME NEW i \in DOMAIN buckets[c]
          PROVE  buckets[c][i].value = CopyOf(inserted'[buckets[c][i].number])
      <3>1. buckets[c][i] \in Pair
        BY <2>1, LenProperties, ElementOfSeq
      <3>2. buckets[c][i].number \in 1 .. Pushed
        BY <1>1, <2>1, <3>1 DEF ChainFalls, Pair
      <3>. QED  BY <1>0, <2>1, <3>2 DEF ChainCopies
    <2>3. CASE c # b
      <3>1. buckets'[c] = buckets[c]
        BY <1>1, <1>2, <2>3
      <3>. QED  BY <2>2, <3>1 DEF ChainCopies
    <2>4. CASE c = b
      <3>1. buckets'[c] = new /\ buckets[c] = chain
        BY <1>1, <1>2, <2>4
      <3>2. \A i \in DOMAIN chain : chain[i].value = CopyOf(inserted'[chain[i].number])
        BY <2>2, <3>1
      <3>3. \A i \in DOMAIN new : new[i].value = CopyOf(inserted'[new[i].number])
        <4>. SUFFICES ASSUME NEW i \in DOMAIN new PROVE new[i].value = CopyOf(inserted'[new[i].number])
          OBVIOUS
        <4>1. CASE i = 1
          BY <1>0, <1>3, <1>4, <4>1
        <4>2. CASE i # 1
          <5>1. i - 1 \in DOMAIN chain /\ new[i] = chain[i - 1]
            BY <1>7, <4>2
          <5>. QED  BY <3>2, <5>1
        <4>. QED  BY <4>1, <4>2
      <3>. QED  BY <3>1, <3>3 DEF ChainCopies
    <2>. QED  BY <2>3, <2>4
  <1>12. ASSUME NEW c \in Place PROVE Newest(c)'
    <2>1. Newest(c) /\ Held(c) \subseteq Nat /\ Stacked(c) \subseteq Nat
      BY DEF DictInv, Held, Stacked
    <2>2. CASE c # p
      BY <1>1, <1>2, <1>11, <2>1, <2>2 DEF Newest
    <2>3. CASE c = p
      <3>1. \A v \in Stacked(p) : v < Pushed + 1
        <4>1. StackFalls(stack) /\ \A i \in DOMAIN stack : stack[i] \in Nat
          BY <1>1, LenProperties, ElementOfSeq DEF DictInv
        <4>. QED  BY <1>1, <4>1 DEF Stacked, StackFalls
      <3>2. Held(c)' = Held(p) \cup {Pushed + 1} /\ Stacked(c)' = Stacked(p) \cup {Pushed + 1}
        BY <1>11, <2>3
      <3>. QED  BY <1>1, <1>2, <2>1, <2>3, <3>1, <3>2 DEF Newest
    <2>. QED  BY <2>2, <2>3
  <1>. QED  BY <1>6, <1>9, <1>10, <1>12, <1>13 DEF DictInv

\* The stack of a key without its newest value.
LEMMA StackPopped ==
    ASSUME DictInv, NEW p \in Place, UNCHANGED Pushed,
           stacks' = [stacks EXCEPT ![p] = IF @ = << >> THEN @ ELSE Tail(@)]
    PROVE  /\ stacks' \in [Place -> Seq(Nat \ {0})]
           /\ \A c \in Place : StackFalls(stacks[c])'
           /\ \A c \in Place : c # p => Stacked(c)' = Stacked(c)
           /\ stacks[p] = << >> => Stacked(p)' = {}
           /\ stacks[p] # << >> => Stacked(p)' = Stacked(p) \ {stacks[p][1]}
  <1>. DEFINE s == stacks[p]
              t == IF s = << >> THEN s ELSE Tail(s)
  <1>1. stacks \in [Place -> Seq(Nat \ {0})] /\ s \in Seq(Nat \ {0}) /\ StackFalls(s)
    BY DEF DictInv, DictType
  <1>2. \A c \in Place : stacks'[c] = IF c = p THEN t ELSE stacks[c]
    BY <1>1
  <1>3. ASSUME NEW c \in Place, c # p PROVE StackFalls(stacks[c])' /\ Stacked(c)' = Stacked(c)
    <2>1. stacks'[c] = stacks[c] /\ StackFalls(stacks[c])
      BY <1>2, <1>3 DEF DictInv
    <2>. QED  BY <2>1 DEF StackFalls, Stacked
  <1>4. CASE s = << >>
    <2>1. stacks'[p] = << >>
      BY <1>2, <1>4
    <2>2. StackFalls(stacks[p])' /\ Stacked(p)' = {}
      BY <2>1 DEF StackFalls, Stacked
    <2>3. stacks' = stacks
      BY <1>1, <1>4
    <2>. QED  BY <1>1, <1>3, <1>4, <2>2, <2>3
  <1>5. CASE s # << >>
    <2>1. stacks'[p] = Tail(s)
      BY <1>2, <1>5
    <2>2. /\ Tail(s) \in Seq(Nat \ {0}) /\ Len(Tail(s)) = Len(s) - 1
          /\ \A i \in 1 .. Len(Tail(s)) : Tail(s)[i] = s[i + 1]
      BY <1>1, <1>5, HeadTailProperties
    <2>3. /\ Len(s) \in Nat \ {0} /\ DOMAIN s = 1 .. Len(s) /\ DOMAIN Tail(s) = 1 .. Len(s) - 1
          /\ \A i \in 1 .. Len(s) : s[i] \in Nat \ {0}
      BY <1>1, <1>5, <2>2, EmptySeq, LenProperties, ElementOfSeq
    <2>4. \A i \in DOMAIN Tail(s) : i \in Nat /\ 1 <= i /\ i + 1 \in DOMAIN s /\ Tail(s)[i] = s[i + 1]
      BY <2>2, <2>3
    <2>5. /\ \A i \in DOMAIN s : s[i] <= Pushed
          /\ \A i, j \in DOMAIN s : i < j => s[j] < s[i]
      BY <1>1 DEF StackFalls
    <2>6. StackFalls(stacks[p])'
      <3>. DEFINE r == Tail(s)
      <3>1. \A i \in DOMAIN r : r[i] <= Pushed
        BY <2>4, <2>5
      <3>2. ASSUME NEW i \in DOMAIN r, NEW j \in DOMAIN r, i < j PROVE r[j] < r[i]
        <4>1. i + 1 < j + 1
          BY <2>4, <3>2
        <4>. QED  BY <2>4, <2>5, <4>1
      <3>. HIDE DEF r
      <3>3. r = stacks'[p]
        BY <2>1 DEF r
      <3>. QED  BY <3>1, <3>2, <3>3 DEF StackFalls
    <2>7. Stacked(p)' = Stacked(p) \ {s[1]}
      <3>1. ASSUME NEW i \in DOMAIN Tail(s)
            PROVE  i + 1 \in DOMAIN s /\ Tail(s)[i] = s[i + 1] /\ Tail(s)[i] # s[1]
        <4>1. 1 \in DOMAIN s /\ 1 < i + 1 /\ s[1] \in Nat /\ s[i + 1] \in Nat
          BY <2>3, <2>4
        <4>. QED  BY <2>4, <2>5, <4>1
      <3>2. ASSUME NEW i \in DOMAIN s, s[i] # s[1] PROVE i - 1 \in DOMAIN Tail(s) /\ Tail(s)[i - 1] = s[i]
        <4>1. i # 1
          BY <3>2
        <4>2. i - 1 \in 1 .. Len(s) - 1 /\ (i - 1) + 1 = i
          BY <2>3, <4>1
        <4>. QED  BY <2>3, <2>4, <4>2
      <3>3. Stacked(p)' = {v \in Nat \ {0} : \E i \in DOMAIN Tail(s) : Tail(s)[i] = v}
        BY <2>1 DEF Stacked
      <3>4. Stacked(p) = {v \in Nat \ {0} : \E i \in DOMAIN s : s[i] = v}
        BY DEF Stacked
      <3>. DEFINE r == Tail(s)
      <3>5. /\ \A i \in DOMAIN r : r[i] # s[1] /\ \E j \in DOMAIN s : s[j] = r[i]
            /\ \A i \in DOMAIN s : s[i] # s[1] => \E j \in DOMAIN r : r[j] = s[i]
        BY <3>1, <3>2
      <3>. HIDE DEF s, r
      <3>6. ASSUME NEW v PROVE v \in Stacked(p)' <=> v \in Stacked(p) \ {s[1]}
        <4>1. v \in Stacked(p)' <=> v \in Nat \ {0} /\ \E i \in DOMAIN r : r[i] = v
          BY <3>3 DEF r
        <4>2. v \in Stacked(p) <=> v \in Nat \ {0} /\ \E i \in DOMAIN s : s[i] = v
          BY <3>4
        <4>3. (\E i \in DOMAIN r : r[i] = v) <=> v # s[1] /\ \E i \in DOMAIN s : s[i] = v
          BY <3>5
        <4>. QED  BY <4>1, <4>2, <4>3
      <3>. QED  BY <3>6
    <2>8. stacks' \in [Place -> Seq(Nat \ {0})]
      BY <1>1, <1>5, <2>2
    <2>. QED  BY <1>3, <1>5, <2>6, <2>7, <2>8
  <1>. QED  BY <1>4, <1>5

\* A chain without its first pair of a key, which is not at its head.
LEMMA PairRemoved ==
    ASSUME DictInv, NEW p \in Place, First(p) # 0, UNCHANGED <<inserted, Pushed>>,
           buckets' = [buckets EXCEPT ![p[1]] = RemoveAt(@, First(p))]
    PROVE  /\ buckets' \in [DictBucket -> Seq(Pair)]
           /\ Len(buckets'[p[1]]) = Len(buckets[p[1]]) - 1
           /\ \A b \in DictBucket : ChainFalls(buckets[b])' /\ ChainCopies(buckets[b])'
           /\ \A c \in Place : c # p => Held(c)' = Held(c)
           /\ Held(p)' = Held(p) \ {stacks[p][1]}
  <1>. DEFINE b == p[1]
              n == First(p)
              s == buckets[b]
              t == RemoveAt(s, n)
  <1>1. /\ DictType /\ b \in DictBucket /\ buckets \in [DictBucket -> Seq(Pair)] /\ ChainFalls(s) /\ ChainCopies(s)
    BY PlaceIs DEF DictInv, DictType
  <1>2. /\ s \in Seq(Pair) /\ n \in 1 .. Len(s) /\ s[n].key.data = p[2]
    BY <1>1, FirstIs
  <1>3. s[n].number = stacks[p][1]
    BY FirstPair
  <1>. HIDE DEF n
  <1>4. /\ t \in Seq(Pair) /\ Len(t) = Len(s) - 1 /\ Len(s) \in Nat
        /\ DOMAIN t = 1 .. Len(s) - 1 /\ DOMAIN s = 1 .. Len(s)
        /\ \A i \in 1 .. Len(s) - 1 : t[i] = IF i < n THEN s[i] ELSE s[i + 1]
    BY <1>2, RemoveAtIs
  <1>5. \A i \in DOMAIN s : s[i] \in Pair
    BY <1>2, <1>4, ElementOfSeq
  <1>6. buckets' = [buckets EXCEPT ![b] = t]
    BY DEF n
  <1>. HIDE DEF t
  <1>7. /\ buckets' \in [DictBucket -> Seq(Pair)]
        /\ \A d \in DictBucket : buckets'[d] = IF d = b THEN t ELSE buckets[d]
    BY <1>1, <1>4, <1>6
  <1>. DEFINE at(i) == IF i < n THEN i ELSE i + 1
  <1>8. \A i \in DOMAIN t : i \in Nat /\ at(i) \in DOMAIN s /\ at(i) # n /\ t[i] = s[at(i)]
    <2>. SUFFICES ASSUME NEW i \in DOMAIN t
                  PROVE  i \in Nat /\ at(i) \in DOMAIN s /\ at(i) # n /\ t[i] = s[at(i)]
      OBVIOUS
    <2>1. i \in Nat /\ 1 <= i /\ i <= Len(s) - 1 /\ n \in Nat
      BY <1>2, <1>4
    <2>2. t[i] = IF i < n THEN s[i] ELSE s[i + 1]
      BY <1>4
    <2>3. at(i) \in 1 .. Len(s) /\ at(i) # n
      BY <1>4, <2>1
    <2>. QED  BY <1>4, <2>1, <2>2, <2>3
  <1>9. ASSUME NEW i \in DOMAIN s, i # n PROVE \E j \in DOMAIN t : t[j] = s[i]
    <2>1. CASE i < n
      <3>1. i \in 1 .. Len(s) - 1
        BY <1>2, <1>4, <2>1
      <3>. QED  BY <1>4, <2>1, <3>1
    <2>2. CASE ~(i < n)
      <3>1. i - 1 \in 1 .. Len(s) - 1 /\ ~(i - 1 < n) /\ (i - 1) + 1 = i
        BY <1>2, <1>4, <1>9, <2>2
      <3>. QED  BY <1>4, <3>1
    <2>. QED  BY <2>1, <2>2
  <1>10. /\ \A i \in DOMAIN s : s[i].number <= Pushed /\ s[i].number \in Nat \ {0}
         /\ \A i, j \in DOMAIN s : i < j => s[j].number < s[i].number
    <2>1. \A i \in DOMAIN s : s[i].number \in Nat \ {0}
      BY <1>5 DEF Pair
    <2>. QED  BY <1>1, <2>1 DEF ChainFalls
  <1>11. ASSUME NEW d \in DictBucket PROVE ChainFalls(buckets[d])' /\ ChainCopies(buckets[d])'
    <2>1. CASE d # b
      <3>1. buckets'[d] = buckets[d] /\ ChainFalls(buckets[d]) /\ ChainCopies(buckets[d])
        BY <1>7, <2>1 DEF DictInv
      <3>. QED  BY <3>1 DEF ChainFalls, ChainCopies
    <2>2. CASE d = b
      <3>1. ASSUME NEW i \in DOMAIN t, NEW j \in DOMAIN t
            PROVE  t[i].number <= Pushed /\ (i < j => t[j].number < t[i].number)
        <4>1. i < j => at(i) < at(j)
          BY <1>2, <1>8
        <4>2. at(i) \in DOMAIN s /\ t[i] = s[at(i)] /\ at(j) \in DOMAIN s /\ t[j] = s[at(j)]
          BY <1>8
        <4>. HIDE DEF at
        <4>. QED  BY <1>10, <4>1, <4>2
      <3>2. buckets'[d] = t
        BY <1>7, <2>2
      <3>3. \A i \in DOMAIN t : t[i].value = CopyOf(inserted[t[i].number])
        BY <1>1, <1>8 DEF ChainCopies
      <3>. QED  BY <3>1, <3>2, <3>3 DEF ChainFalls, ChainCopies
    <2>. QED  BY <2>1, <2>2
  <1>12. ASSUME NEW c \in Place, c[1] = b
         PROVE  /\ Held(c) = {v \in Nat \ {0} : \E i \in DOMAIN s : Is(s[i], c, v)}
                /\ Held(c)' = {v \in Nat \ {0} : \E i \in DOMAIN t : Is(t[i], c, v)}
    <2>1. buckets'[c[1]] = t /\ buckets[c[1]] = s
      BY <1>1, <1>7, <1>12
    <2>. QED  BY <2>1 DEF Held
  <1>13. ASSUME NEW c \in Place, c # p PROVE Held(c)' = Held(c)
    <2>1. CASE c[1] # b
      <3>1. buckets'[c[1]] = buckets[c[1]]
        BY <1>7, <2>1, PlaceIs
      <3>. QED  BY <3>1 DEF Held
    <2>2. CASE c[1] = b
      <3>1. ASSUME NEW v, NEW i \in DOMAIN s, Is(s[i], c, v) PROVE \E j \in DOMAIN t : Is(t[j], c, v)
        <4>1. s[i].key.data = c[2] /\ c[2] # p[2]
          BY <1>1, <1>13, <2>2, <3>1, PlaceIs DEF Is
        <4>2. i # n
          BY <1>2, <4>1
        <4>. QED  BY <1>9, <3>1, <4>2
      <3>2. ASSUME NEW v, NEW i \in DOMAIN t, Is(t[i], c, v) PROVE \E j \in DOMAIN s : Is(s[j], c, v)
        BY <1>8, <3>2
      <3>. QED  BY <1>12, <2>2, <3>1, <3>2
    <2>. QED  BY <2>1, <2>2
  <1>14. Held(p)' = Held(p) \ {s[n].number}
    <2>1. ASSUME NEW v, v # s[n].number, NEW i \in DOMAIN s, Is(s[i], p, v)
          PROVE  \E j \in DOMAIN t : Is(t[j], p, v)
      <3>1. s[i].number = v
        BY <2>1 DEF Is
      <3>2. i # n
        BY <2>1, <3>1
      <3>. QED  BY <1>9, <2>1, <3>2
    <2>2. ASSUME NEW v, NEW i \in DOMAIN t, Is(t[i], p, v)
          PROVE  v # s[n].number /\ \E j \in DOMAIN s : Is(s[j], p, v)
      <3>1. at(i) \in DOMAIN s /\ at(i) # n /\ Is(s[at(i)], p, v)
        BY <1>8, <2>2
      <3>. HIDE DEF at
      <3>2. s[at(i)].number = v
        BY <3>1 DEF Is
      <3>3. at(i) \in Nat /\ n \in Nat /\ n \in DOMAIN s
        BY <1>2, <1>4, <3>1
      <3>4. s[at(i)].number # s[n].number
        <4>1. at(i) < n \/ n < at(i)
          BY <3>1, <3>3
        <4>. QED  BY <1>10, <3>1, <3>3, <4>1
      <3>. QED  BY <3>1, <3>2, <3>4
    <2>. QED  BY <1>12, <2>1, <2>2
  <1>15. Len(buckets'[b]) = Len(s) - 1
    BY <1>1, <1>4, <1>7
  <1>. QED  BY <1>3, <1>7, <1>11, <1>13, <1>14, <1>15 DEF n

\* stl_dict_delete takes the newest value of the key, and with the head of a chain all others.
LEMMA DictInvDelete ==
    ASSUME DictInv, NEW k \in DictKey, DictDelete(k)
    PROVE  DictInv'
  <1>. DEFINE p == Sought(k)
              b == HashOf[k]
              n == First(p)
              chain == buckets[b]
  <1>1. /\ DictType /\ b \in DictBucket /\ dictAlive /\ lost \in Nat
        /\ buckets \in [DictBucket -> Seq(Pair)] /\ UNCHANGED <<dictAlive, inserted, Pushed>>
        /\ p \in Place /\ p[1] = b /\ p[2] = k.data /\ n = PairAt(k)
        /\ stacks' = [stacks EXCEPT ![p] = IF @ = << >> THEN @ ELSE Tail(@)]
    BY PlaceIs, PairAtIsFirst, DictAssumption DEF DictInv, DictType, DictDelete, Pushed
  <1>. HIDE DEF p
  <1>2. /\ stacks' \in [Place -> Seq(Nat \ {0})]
        /\ \A c \in Place : StackFalls(stacks[c])'
        /\ \A c \in Place : c # p => Stacked(c)' = Stacked(c)
        /\ stacks[p] = << >> => Stacked(p)' = {}
        /\ stacks[p] # << >> => Stacked(p)' = Stacked(p) \ {stacks[p][1]}
    BY <1>1, StackPopped
  <1>3. \A c \in Place : Newest(c)
    BY DEF DictInv
  <1>4. CASE n = 0
    <2>1. UNCHANGED <<buckets, lost>> /\ Held(p) = {}
      BY <1>1, <1>4, FirstPair DEF DictDelete
    <2>2. \A c \in Place : Held(c)' = Held(c)
      BY <2>1 DEF Held
    <2>3. lost = 0 => Stacked(p) = {}
      BY <1>1, <1>3, <2>1 DEF Newest
    <2>4. lost = 0 => Stacked(p)' = {}
      BY <1>2, <2>3
    <2>5. ASSUME NEW c \in Place PROVE Newest(c)'
      <3>1. CASE c = p
        BY <2>1, <2>2, <2>4, <3>1 DEF Newest
      <3>2. CASE c # p
        BY <1>1, <1>2, <1>3, <2>1, <2>2, <3>2 DEF Newest
      <3>. QED  BY <3>1, <3>2
    <2>6. \A d \in DictBucket : ChainFalls(buckets[d])' /\ ChainCopies(buckets[d])'
      BY <1>1, <2>1 DEF DictInv, ChainFalls, ChainCopies
    <2>7. DictType'
      BY <1>1, <1>2, <2>1 DEF DictType
    <2>. QED  BY <1>2, <2>5, <2>6, <2>7 DEF DictInv
  <1>5. CASE n # 0
    <2>1. /\ buckets' = [buckets EXCEPT ![b] = Unchain(chain, n)]
          /\ lost' = lost + Len(chain) - 1 - Len(Unchain(chain, n))
      BY <1>1, <1>5 DEF DictDelete
    <2>2. /\ chain \in Seq(Pair) /\ Len(chain) \in Nat /\ DOMAIN chain = 1 .. Len(chain)
          /\ n \in DOMAIN chain /\ chain[n].key.data = p[2]
      BY <1>1, <1>5, FirstIs
    <2>3. stacks[p] # << >> /\ stacks[p][1] \in Held(p)
      BY <1>1, <1>5, FirstPair
    <2>4. Held(p) \subseteq Stacked(p) /\ Stacked(p) \subseteq Nat /\ \A v \in Stacked(p) : v <= stacks[p][1]
      BY <1>1, <1>3, <2>3, TopIsNewest DEF Newest, Stacked
    <2>5. CASE n # 1
      <3>1. Unchain(chain, n) = RemoveAt(chain, n)
        BY <2>5 DEF Unchain
      <3>2. buckets' = [buckets EXCEPT ![b] = RemoveAt(@, n)]
        BY <1>1, <2>1, <3>1
      <3>3. /\ buckets' \in [DictBucket -> Seq(Pair)]
            /\ Len(buckets'[b]) = Len(chain) - 1
            /\ \A d \in DictBucket : ChainFalls(buckets[d])' /\ ChainCopies(buckets[d])'
            /\ \A c \in Place : c # p => Held(c)' = Held(c)
            /\ Held(p)' = Held(p) \ {stacks[p][1]}
        BY <1>1, <1>5, <3>2, PairRemoved
      <3>4. lost' = lost
        <4>1. buckets'[b] = RemoveAt(chain, n)
          BY <1>1, <3>2
        <4>2. Len(RemoveAt(chain, n)) = Len(chain) - 1
          BY <3>3, <4>1
        <4>. QED  BY <1>1, <2>1, <2>2, <3>1, <4>2
      <3>5. ASSUME NEW c \in Place PROVE Newest(c)'
        <4>1. CASE c = p
          <5>1. Held(c)' = Held(p) \ {stacks[p][1]} /\ Stacked(c)' = Stacked(p) \ {stacks[p][1]}
            BY <1>2, <2>3, <3>3, <4>1
          <5>. QED  BY <1>1, <1>3, <3>4, <5>1 DEF Newest
        <4>2. CASE c # p
          BY <1>1, <1>2, <1>3, <3>3, <3>4, <4>2 DEF Newest
        <4>. QED  BY <4>1, <4>2
      <3>6. DictType'
        BY <1>1, <1>2, <3>3, <3>4 DEF DictType
      <3>. QED  BY <1>2, <3>3, <3>5, <3>6 DEF DictInv
    <2>6. CASE n = 1
      <3>1. Unchain(chain, n) = << >> /\ Len(<< >>) = 0
        BY <2>6 DEF Unchain
      <3>2. /\ buckets' \in [DictBucket -> Seq(Pair)]
            /\ \A d \in DictBucket : buckets'[d] = IF d = b THEN << >> ELSE buckets[d]
            /\ lost' = lost + Len(chain) - 1
        BY <1>1, <2>1, <2>2, <3>1
      <3>3. ASSUME NEW c \in Place
            PROVE  Held(c)' = IF c[1] = b THEN {} ELSE Held(c)
        <4>1. buckets'[c[1]] = IF c[1] = b THEN << >> ELSE buckets[c[1]]
          BY <3>2, PlaceIs
        <4>2. CASE c[1] = b
          <5>1. buckets'[c[1]] = << >>
            BY <4>1, <4>2
          <5>. QED  BY <4>2, <5>1 DEF Held
        <4>3. CASE c[1] # b
          <5>1. buckets'[c[1]] = buckets[c[1]]
            BY <4>1, <4>3
          <5>. QED  BY <4>3, <5>1 DEF Held
        <4>. QED  BY <4>2, <4>3
      <3>4. lost' \in Nat /\ (lost' = 0 => lost = 0 /\ Len(chain) = 1)
        <4>1. 1 \in 1 .. Len(chain)
          BY <2>2, <2>6
        <4>2. Len(chain) \in Nat /\ 1 <= Len(chain) /\ lost' = lost + Len(chain) - 1
          BY <2>2, <3>2, <4>1
        <4>3. lost \in Nat
          BY <1>1
        <4>. DEFINE l == Len(chain)
        <4>4. l \in Nat /\ 1 <= l /\ lost' = lost + l - 1
          BY <4>2
        <4>. HIDE DEF l
        <4>5. lost' \in Nat /\ (lost' = 0 => lost = 0 /\ l = 1)
          BY <4>3, <4>4
        <4>. QED  BY <4>5 DEF l
      <3>5. ASSUME lost' = 0, NEW c \in Place, c[1] = b PROVE Stacked(c)' = {}
        <4>1. Held(c) = Stacked(c) /\ Held(p) = Stacked(p)
          BY <1>1, <1>3, <3>4, <3>5 DEF Newest
        <4>2. DOMAIN chain = {1}
          <5>1. DOMAIN chain = 1 .. 1
            BY <2>2, <3>4, <3>5
          <5>2. 1 .. 1 = {1}
            OBVIOUS
          <5>. QED  BY <5>1, <5>2
        <4>3. \A v \in Held(c) : c = p /\ v = chain[1].number
          <5>. SUFFICES ASSUME NEW v, Is(chain[1], c, v)
                        PROVE  c = p /\ v = chain[1].number
            BY <3>5, <4>2 DEF Held
          <5>1. chain[1].key.data = c[2] /\ chain[1].number = v
            BY DEF Is
          <5>. QED  BY <1>1, <2>2, <2>6, <3>5, <5>1, PlaceIs
        <4>4. CASE c # p
          BY <1>2, <4>1, <4>3, <4>4
        <4>5. CASE c = p
          <5>1. Stacked(p) \subseteq {stacks[p][1]}
            BY <2>3, <4>1, <4>3, <4>5
          <5>. QED  BY <1>2, <2>3, <4>5, <5>1
        <4>. QED  BY <4>4, <4>5
      <3>6. ASSUME NEW c \in Place PROVE Newest(c)'
        <4>1. CASE c[1] = b
          <5>1. Held(c)' = {}
            BY <3>3, <4>1
          <5>. QED  BY <3>5, <4>1, <5>1 DEF Newest
        <4>2. CASE c[1] # b
          <5>1. Held(c)' = Held(c) /\ Stacked(c)' = Stacked(c)
            BY <1>1, <1>2, <3>3, <4>2
          <5>. QED  BY <1>1, <1>3, <3>4, <5>1 DEF Newest
        <4>. QED  BY <4>1, <4>2
      <3>7. ASSUME NEW d \in DictBucket PROVE ChainFalls(buckets[d])' /\ ChainCopies(buckets[d])'
        <4>1. CASE d = b
          <5>1. buckets'[d] = << >>
            BY <3>2, <4>1
          <5>. QED  BY <5>1 DEF ChainFalls, ChainCopies
        <4>2. CASE d # b
          <5>1. buckets'[d] = buckets[d] /\ ChainFalls(buckets[d]) /\ ChainCopies(buckets[d])
            BY <3>2, <4>2 DEF DictInv
          <5>. QED  BY <1>1, <5>1 DEF ChainFalls, ChainCopies
        <4>. QED  BY <4>1, <4>2
      <3>8. DictType'
        BY <1>1, <1>2, <3>2, <3>4 DEF DictType
      <3>. QED  BY <1>2, <3>6, <3>7, <3>8 DEF DictInv
    <2>. QED  BY <2>5, <2>6
  <1>. QED  BY <1>4, <1>5

LEMMA DictInvDeinit ==
    ASSUME DictInv, DictDeinit
    PROVE  DictInv'
  <1>1. /\ buckets' = [b \in DictBucket |-> << >>] /\ dictAlive' = FALSE
        /\ UNCHANGED <<inserted, Pushed, stacks>>
    BY DEF DictDeinit, Pushed
  <1>2. DictType'
    BY <1>1, EmptySeq DEF DictInv, DictType
  <1>3. \A b \in DictBucket : ChainFalls(buckets[b])' /\ ChainCopies(buckets[b])'
    BY <1>1 DEF ChainFalls, ChainCopies
  <1>4. ASSUME NEW p \in Place PROVE StackFalls(stacks[p])' /\ Newest(p)'
    <2>1. buckets'[p[1]] = << >>
      BY <1>1, PlaceIs
    <2>2. Held(p)' = {}
      BY <2>1 DEF Held
    <2>. QED  BY <1>1, <2>2 DEF DictInv, StackFalls, Newest
  <1>. QED  BY <1>2, <1>3, <1>4 DEF DictInv

\* A chain holds the newest of the values that were inserted and not deleted, newest first,
\* although a deletion may drop a whole chain.
THEOREM DictInvariant == DictSpec => []DictInv
  <1>1. DictInit => DictInv
    <2>. SUFFICES ASSUME DictInit PROVE DictInv
      OBVIOUS
    <2>1. /\ \A b \in DictBucket : buckets[b] = << >>
          /\ \A p \in Place : stacks[p] = << >>
      BY DEF DictInit
    <2>2. DictType
      BY EmptySeq DEF DictInit, DictType
    <2>3. ASSUME NEW p \in Place PROVE StackFalls(stacks[p]) /\ Newest(p)
      <3>1. buckets[p[1]] = << >>
        BY <2>1, PlaceIs
      <3>2. Held(p) = {} /\ Stacked(p) = {}
        BY <2>1, <3>1 DEF Held, Stacked
      <3>. QED  BY <2>1, <3>2 DEF StackFalls, Newest
    <2>4. \A b \in DictBucket : ChainFalls(buckets[b]) /\ ChainCopies(buckets[b])
      BY <2>1 DEF ChainFalls, ChainCopies
    <2>. QED  BY <2>2, <2>3, <2>4 DEF DictInv
  <1>2. DictInv /\ [DictNext]_dictVars => DictInv'
    <2>. SUFFICES ASSUME DictInv, [DictNext]_dictVars PROVE DictInv'
      OBVIOUS
    <2>1. CASE UNCHANGED dictVars
      <3>1. UNCHANGED <<buckets, stacks, inserted, Pushed, dictAlive, lost>>
        BY <2>1 DEF dictVars, Pushed
      <3>2. \A b \in DictBucket : ChainFalls(buckets[b])' /\ ChainCopies(buckets[b])'
        BY <3>1 DEF DictInv, ChainFalls, ChainCopies
      <3>3. ASSUME NEW p \in Place PROVE StackFalls(stacks[p])' /\ Newest(p)'
        <4>1. Held(p)' = Held(p) /\ Stacked(p)' = Stacked(p)
          BY <3>1 DEF Held, Stacked
        <4>. QED  BY <3>1, <4>1 DEF DictInv, StackFalls, Newest
      <3>. QED  BY <3>1, <3>2, <3>3 DEF DictInv, DictType
    <2>. QED  BY <2>1, DictInvInsert, DictInvDelete, DictInvDeinit DEF DictNext
  <1>. QED  BY <1>1, <1>2, PTL DEF DictSpec

\* stl_dict_lookup returns the newest value that was inserted and not deleted and whose key
\* was stored with the data looked for, as far as the len of the value covers it, or nothing;
\* and while no deletion has dropped a chain it finds every value that is there: for any
\* items, of any len, and any hash.
THEOREM LookupsNewest == DictSpec => []LookupIsNewest
  BY DictInvariant, DictInvGives, PTL

-----------------------------------------------------------------------------
(* The log. *)

(* The inductive invariant.  As log_poll is never called, the entries lie at the start of *)
(* the array; back is where the next one goes.                                            *)
LogInv ==
    /\ size \in Nat \ {0} /\ count \in 0 .. size
    /\ front = 0 /\ base = 0 /\ back = count
    /\ entries \in [0 .. size - 1 -> Nat]

(* The remainder in log_get_at_idx changes nothing for an index of the array. *)
LEMMA SmallRemainder ==
    ASSUME NEW n \in Nat \ {0}, NEW i \in 0 .. n - 1
    PROVE  i % n = i
OBVIOUS

(* The entry with number i lies in the cell before i. *)
LEMMA Positions ==
    ASSUME LogInv, NEW i \in 1 .. size
    PROVE  Position(i) = i - 1
<1>1. front = 0 /\ base = 0 /\ size \in Nat \ {0}
  BY DEF LogInv
<1>2. i - 1 \in 0 .. size - 1
  BY <1>1
<1>3. (i - 1) % size = i - 1
  BY <1>1, <1>2, SmallRemainder
<1> QED
  BY <1>1, <1>3 DEF Position

LogContentsAre ==
    /\ LogContents = [i \in 1 .. count |-> entries[i - 1]]
    /\ LogContents \in Seq(Nat)
    /\ Len(LogContents) = count

(* The sequence that the array stands for. *)
LEMMA Contents == LogInv => LogContentsAre
<1> SUFFICES ASSUME LogInv PROVE LogContentsAre
  OBVIOUS
<1>1. count \in Nat /\ count <= size /\ size \in Nat
  BY DEF LogInv
<1>2. \A i \in 1 .. count : Position(i) = i - 1 /\ entries[i - 1] \in Nat
  BY <1>1, Positions DEF LogInv
<1> QED
  BY <1>1, <1>2 DEF LogContents, LogContentsAre

(* log_new makes an empty log. *)
LEMMA InitStep == LogInit => LogInv /\ Sequence!Init
<1> SUFFICES ASSUME LogInit PROVE LogInv /\ Sequence!Init
  OBVIOUS
<1>1. LogInv
  BY LogAssumption DEF LogInit, LogInv, Blank
<1>2. LogContents = << >>
  BY <1>1, Contents DEF LogInit, LogContentsAre
<1> QED
  BY <1>1, <1>2 DEF Sequence!Init

(* __ensurecapacity leaves room for one more entry and keeps those that are there. *)
LEMMA Growing ==
    ASSUME LogInv
    PROVE  LET room == EnsureCapacity
           IN /\ room.size \in Nat /\ count < room.size
              /\ room.front = 0 /\ room.back = count
              /\ room.entries \in [0 .. room.size - 1 -> Nat]
              /\ \A i \in 0 .. count - 1 : room.entries[i] = entries[i]
<1>0. /\ size \in Nat \ {0} /\ count \in Nat /\ count <= size
      /\ front = 0 /\ back = count
      /\ entries \in [0 .. size - 1 -> Nat]
  BY DEF LogInv
<1>1. CASE count < size
  BY <1>0, <1>1 DEF EnsureCapacity
<1>2. CASE ~(count < size)
  <2> DEFINE cells ==
        [i \in 0 .. 2 * size - 1 |->
            IF i < count
            THEN entries[IF front + i < size THEN front + i ELSE front + i - size]
            ELSE Blank]
  <2>1. count = size /\ 2 * size \in Nat /\ count < 2 * size
    BY <1>0, <1>2
  <2>2. EnsureCapacity = [size |-> 2 * size, front |-> 0, back |-> count, entries |-> cells]
    BY <1>2 DEF EnsureCapacity
  <2>3. /\ cells \in [0 .. 2 * size - 1 -> Nat]
        /\ \A i \in 0 .. count - 1 : cells[i] = entries[i]
    BY <1>0, <2>1 DEF Blank
  <2> HIDE DEF cells
  <2> QED
    BY <2>1, <2>2, <2>3
<1> QED
  BY <1>1, <1>2

(* log_append_entry puts the entry at the end. *)
LEMMA AppendStep ==
    ASSUME LogInv, NEW c \in Entry, AppendEntry(c)
    PROVE  LogInv' /\ Sequence!Extend(c)
<1> DEFINE room == EnsureCapacity
<1>0. count \in Nat /\ c \in Nat /\ base = 0
  BY LogAssumption DEF LogInv
<1>1. /\ room.size \in Nat /\ count < room.size
      /\ room.front = 0 /\ room.back = count
      /\ room.entries \in [0 .. room.size - 1 -> Nat]
      /\ \A i \in 0 .. count - 1 : room.entries[i] = entries[i]
  BY Growing
<1>2. /\ size' = room.size /\ front' = 0 /\ base' = 0
      /\ count' = count + 1 /\ back' = count + 1
      /\ entries' = [room.entries EXCEPT ![count] = c]
  BY <1>0, <1>1 DEF AppendEntry
<1> HIDE DEF room
<1>3. LogInv'
  BY <1>0, <1>1, <1>2 DEF LogInv
<1>4. LogContentsAre /\ LogContentsAre'
  BY <1>3, Contents, PTL
<1>5. \A i \in 1 .. count + 1 :
        entries'[i - 1] = IF i = count + 1 THEN c ELSE entries[i - 1]
  <2> DEFINE cells == room.entries
  <2>1. count \in 0 .. room.size - 1 /\ 0 .. count - 1 \subseteq 0 .. room.size - 1
    BY <1>0, <1>1
  <2>2. /\ entries'[count] = c
        /\ \A k \in 0 .. room.size - 1 : k # count => entries'[k] = cells[k]
    BY <1>1, <1>2, <2>1
  <2>3. \A k \in 0 .. count - 1 : entries'[k] = entries[k]
    <3> TAKE k \in 0 .. count - 1
    <3>1. k \in 0 .. room.size - 1 /\ k # count
      BY <1>0, <2>1
    <3> QED
      BY <1>1, <2>2, <3>1
  <2> TAKE i \in 1 .. count + 1
  <2>4. CASE i = count + 1
    <3>1. i - 1 = count
      BY <1>0, <2>4
    <3> QED
      BY <2>2, <2>4, <3>1
  <2>5. CASE i # count + 1
    <3>1. i - 1 \in 0 .. count - 1
      BY <1>0, <2>5
    <3> QED
      BY <2>3, <2>5, <3>1
  <2> QED
    BY <2>4, <2>5
<1>6. LogContents' = Append(LogContents, c)
  <2> DEFINE longer == Append(LogContents, c)
  <2>1. LogContents' \in Seq(Nat) /\ Len(LogContents') = count + 1
    BY <1>2, <1>4 DEF LogContentsAre
  <2>2. /\ longer \in Seq(Nat) /\ Len(longer) = count + 1
        /\ longer[count + 1] = c
        /\ \A i \in 1 .. count : longer[i] = LogContents[i]
    BY <1>0, <1>4, AppendProperties DEF LogContentsAre
  <2>3. \A i \in 1 .. count + 1 : LogContents'[i] = entries'[i - 1]
    BY <1>2, <1>4 DEF LogContentsAre
  <2>4. \A i \in 1 .. count : LogContents[i] = entries[i - 1]
    BY <1>4 DEF LogContentsAre
  <2> HIDE DEF longer
  <2>5. \A i \in 1 .. count + 1 : LogContents'[i] = longer[i]
    BY <1>0, <1>5, <2>2, <2>3, <2>4
  <2>6. LogContents' = longer
    BY <2>1, <2>2, <2>5, SeqEqual
  <2> QED
    BY <2>6 DEF longer
<1> QED
  BY <1>3, <1>6 DEF Sequence!Extend

(* log_delete cuts the log off before the index, or leaves it alone. *)
LEMMA DeleteStep ==
    ASSUME LogInv, NEW idx \in 1 .. MaxCount + 1, Delete(idx)
    PROVE  /\ LogInv'
           /\ \/ idx \in 1 .. Len(LogContents) /\ Sequence!CutFrom(idx)
              \/ UNCHANGED LogContents
<1>0. count \in Nat /\ base = 0 /\ back = count /\ idx \in Nat /\ idx >= 1
  BY LogAssumption DEF LogInv
<1>1. CASE idx <= count
  <2>1. count' = idx - 1 /\ back' = idx - 1 /\ UNCHANGED <<size, front, base, entries>>
    BY <1>0, <1>1 DEF Delete, Behind
  <2>2. LogInv'
    BY <1>0, <1>1, <2>1 DEF LogInv
  <2>3. LogContentsAre /\ LogContentsAre'
    BY <2>2, Contents, PTL
  <2>4. LogContents' = SubSeq(LogContents, 1, idx - 1)
    BY <1>0, <1>1, <2>1, <2>3 DEF LogContentsAre
  <2>5. idx \in 1 .. Len(LogContents)
    BY <1>0, <1>1, <2>3 DEF LogContentsAre
  <2> QED
    BY <2>2, <2>4, <2>5 DEF Sequence!CutFrom
<1>2. CASE ~(idx <= count)
  <2>1. UNCHANGED logVars
    BY <1>0, <1>2 DEF Delete, Behind, logVars
  <2> QED
    BY <2>1 DEF logVars, LogInv, LogContents, Position
<1> QED
  BY <1>1, <1>2

(* The entries lie at the start of the array, in every state that raft_log.c can reach. *)
THEOREM LogInvariant == LogSpec => []LogInv
<1>1. LogInv /\ [LogNext]_logVars => LogInv'
  <2> SUFFICES ASSUME LogInv, [LogNext]_logVars PROVE LogInv'
    OBVIOUS
  <2>1. CASE LogNext
    BY <2>1, AppendStep, DeleteStep DEF LogNext
  <2>2. CASE UNCHANGED logVars
    BY <2>2 DEF LogInv, logVars
  <2> QED
    BY <2>1, <2>2
<1> QED
  BY <1>1, InitStep, PTL DEF LogSpec

(* The array implements the sequence: for every number of entries, every capacity at the  *)
(* start and every set of entries, growing (raft_log.c:45) keeps them all in their order, *)
(* append adds one at the end and delete cuts the log off.                                *)
THEOREM ArrayImplementsSequence == LogSpec => ArrayIsSequence
<1>1. LogInv /\ [LogNext]_logVars => [Sequence!Next]_LogContents
  <2> SUFFICES ASSUME LogInv, [LogNext]_logVars
               PROVE  Sequence!Next \/ UNCHANGED LogContents
    OBVIOUS
  <2>1. CASE LogNext
    BY <2>1, AppendStep, DeleteStep DEF LogNext, Sequence!Next
  <2>2. CASE UNCHANGED logVars
    BY <2>2 DEF LogContents, Position, logVars
  <2> QED
    BY <2>1, <2>2
<1> QED
  BY <1>1, InitStep, LogInvariant, PTL DEF LogSpec, ArrayIsSequence, Sequence!Spec

(* log_get_at_idx and log_get_from_idx (raft_log.c:132 and 106) read that sequence, with *)
(* nothing behind its end, whether or not the array is full.                             *)
THEOREM ReadsTheSequence == LogSpec => []ReadsAgree
<1>1. LogInv => ReadsAgree
  <2> SUFFICES ASSUME LogInv, NEW idx \in 1 .. MaxCount + 1
               PROVE  /\ GetAtIdx(idx) = IF idx <= count THEN <<LogContents[idx]>> ELSE << >>
                      /\ GetFromIdx(idx) = SubSeq(LogContents, idx, count)
    BY DEF ReadsAgree
  <2>0. /\ count \in Nat /\ size \in Nat /\ count <= size
        /\ base = 0 /\ back = count /\ idx \in Nat /\ idx >= 1
    BY LogAssumption DEF LogInv
  <2>1. LogContentsAre
    BY Contents
  <2>2. CASE idx <= count
    <3>1. Within(idx) /\ Position(idx) = idx - 1
      BY <2>0, <2>2, Positions DEF Within
    <3>2. GetFromIdx(idx) = [k \in 1 .. count - (idx - 1) |-> entries[idx - 1 + k - 1]]
      BY <2>0, <2>2, <3>1 DEF GetFromIdx
    <3>3. SubSeq(LogContents, idx, count)
            = [k \in 1 .. count - (idx - 1) |-> entries[idx - 1 + k - 1]]
      BY <2>0, <2>1, <2>2 DEF LogContentsAre
    <3>4. GetAtIdx(idx) = <<LogContents[idx]>>
      BY <2>0, <2>1, <2>2, <3>1 DEF GetAtIdx, LogContentsAre
    <3> QED
      BY <2>2, <3>2, <3>3, <3>4
  <2>3. CASE ~(idx <= count)
    <3>1. ~Within(idx)
      BY <2>0, <2>3 DEF Within
    <3>2. SubSeq(LogContents, idx, count) = << >>
      BY <2>0, <2>1, <2>3 DEF LogContentsAre
    <3> QED
      BY <2>3, <3>1, <3>2 DEF GetAtIdx, GetFromIdx
  <2> QED
    BY <2>2, <2>3
<1> QED
  BY <1>1, LogInvariant, PTL

-----------------------------------------------------------------------------
(* Changes of the membership. *)

LogEntry ==
    [type : {"normal"}, node : {NoOne}, term : Nat]
    \cup [type : {"add_nonvoting", "add", "remove"}, node : Peer, term : Nat]

Node == [match : Nat, voting : BOOLEAN, voted : BOOLEAN, sufficient : BOOLEAN]

\* The server itself stays a voting node of its list.
Members(n) ==
    /\ n \in [DOMAIN n -> Node] /\ IsFiniteSet(DOMAIN n)
    /\ Me \in DOMAIN n /\ n[Me].voting = TRUE

MemberType ==
    /\ srv = [state |-> srv.state, term |-> srv.term, voted |-> srv.voted,
              log |-> srv.log, commit |-> srv.commit, applied |-> srv.applied, cfg |-> srv.cfg]
    /\ srv.term \in Nat /\ srv.commit \in Nat /\ srv.log \in Seq(LogEntry)

\* A leader has noted its term, so that no other leader of that term sends to it.
MemberInv ==
    /\ MemberType /\ Members(nodes)
    /\ srv.state = "leader" => srv.term \in led

\* The fields of a node when one is set.
LEMMA NodeFields ==
    ASSUME NEW r \in Node
    PROVE  /\ \A b \in BOOLEAN : /\ [r EXCEPT !.voting = b] \in Node /\ [r EXCEPT !.voted = b] \in Node
                                 /\ [r EXCEPT !.voted = b].voting = r.voting
                                 /\ [r EXCEPT !.sufficient = b] \in Node
                                 /\ [r EXCEPT !.sufficient = b].voting = r.voting
           /\ \A k \in Nat : [r EXCEPT !.match = k] \in Node /\ [r EXCEPT !.match = k].voting = r.voting
           /\ r.voting \in BOOLEAN /\ r.sufficient \in BOOLEAN /\ r.match \in Nat
  <1>1. PICK ma \in Nat, vg \in BOOLEAN, vd \in BOOLEAN, su \in BOOLEAN :
            r = [match |-> ma, voting |-> vg, voted |-> vd, sufficient |-> su]
    BY DEF Node
  <1>. QED
    BY <1>1 DEF Node

LEMMA NewNodeIs == NewNode \in Node /\ NewNode.voting = TRUE
  BY DEF NewNode, Node

\* A list in which one node is changed.
LEMMA NodeChanged ==
    ASSUME NEW n, Members(n), NEW id \in DOMAIN n, NEW r \in Node, id = Me => r.voting = TRUE
    PROVE  Members([n EXCEPT ![id] = r]) /\ DOMAIN [n EXCEPT ![id] = r] = DOMAIN n
  BY DEF Members

\* How an entry of a peer changes the list.
LEMMA OfferMembers ==
    ASSUME NEW n, Members(n), NEW e, e.type \in {"add_nonvoting", "add", "remove"} => e.node \in Peer
    PROVE  Members(Offer(n, e))
  <1>1. ASSUME NEW id \in Peer PROVE Members(AddNode(n, id)) /\ id \in DOMAIN AddNode(n, id)
    <2>0. id # Me
      BY MembershipAssumption
    <2>1. CASE id \in DOMAIN n
      <3>. DEFINE r == [n[id] EXCEPT !.voting = TRUE]
      <3>1. n[id] \in Node
        BY <2>1 DEF Members
      <3>2. r \in Node
        BY <3>1, NodeFields
      <3>3. AddNode(n, id) = [n EXCEPT ![id] = r]
        BY <2>1 DEF AddNode
      <3>. HIDE DEF r
      <3>4. Members([n EXCEPT ![id] = r]) /\ DOMAIN [n EXCEPT ![id] = r] = DOMAIN n
        BY <2>0, <2>1, <3>2, NodeChanged, Zenon
      <3>. QED
        BY <2>1, <3>3, <3>4, Zenon
    <2>2. CASE id \notin DOMAIN n
      <3>1. IsFiniteSet(DOMAIN n \cup {id})
        BY FS_AddElement DEF Members
      <3>. DEFINE R(i) == IF i = id THEN NewNode ELSE n[i]
                  D == DOMAIN n \cup {id}
      <3>2. AddNode(n, id) = [i \in D |-> R(i)] /\ id \in D
        BY <2>2 DEF AddNode
      <3>3. \A i \in D : R(i) \in Node
        BY NewNodeIs DEF Members
      <3>4. Me \in D /\ R(Me).voting = TRUE
        BY <2>0 DEF Members
      <3>. HIDE DEF R, D
      <3>5. IsFiniteSet(D)
        BY <3>1 DEF D
      <3>. QED
        BY <3>5, <3>2, <3>3, <3>4 DEF Members
    <2>. QED
      BY <2>1, <2>2
  <1>2. ASSUME NEW id \in Peer PROVE Members(AddNonVotingNode(n, id))
    <2>. DEFINE a == AddNode(n, id)
    <2>1. Members(a) /\ id \in DOMAIN a /\ id # Me
      BY <1>1, <1>2, MembershipAssumption
    <2>. HIDE DEF a
    <2>2. Members([a EXCEPT ![id].voting = FALSE])
      <3>. DEFINE r == [a[id] EXCEPT !.voting = FALSE]
      <3>1. a[id] \in Node
        BY <2>1 DEF Members
      <3>2. r \in Node
        BY <3>1, NodeFields
      <3>3. [a EXCEPT ![id].voting = FALSE] = [a EXCEPT ![id] = r]
        OBVIOUS
      <3>. HIDE DEF r
      <3>. QED
        BY <2>1, <3>2, <3>3, NodeChanged
    <2>. QED
      BY <2>2 DEF AddNonVotingNode, a
  <1>3. ASSUME NEW id \in Peer PROVE Members(RemoveNode(n, id))
    <2>0. id # Me
      BY MembershipAssumption
    <2>1. IsFiniteSet(DOMAIN n \ {id})
      BY FS_RemoveElement DEF Members
    <2>. QED
      BY <2>0, <2>1 DEF RemoveNode, Members
  <1>. QED
    BY <1>1, <1>2, <1>3 DEF Offer

IsOffers(n, es, k, f) == f = [i \in 0 .. k |-> IF i = 0 THEN n ELSE Offer(f[i - 1], es[i])]

LEMMA OffersExist ==
    ASSUME NEW n, NEW es, NEW len \in Nat
    PROVE  \E f : IsOffers(n, es, len, f)
  <1>. DEFINE Good(k) == \E f : IsOffers(n, es, k, f)
              T == {k \in Nat : ~Good(k)}
  <1>1. T = {}
    <2>. SUFFICES ASSUME T # {} PROVE FALSE
      OBVIOUS
    <2>1. PICK m \in T : \A y \in T : m <= y
      <3>1. T \in SUBSET Nat
        OBVIOUS
      <3>. HIDE DEF T
      <3>. QED
        BY <3>1, Least
    <2>2. m \in Nat /\ ~Good(m) /\ \A y \in Nat : ~Good(y) => m <= y
      BY <2>1
    <2>3. CASE m = 0
      <3>. DEFINE f == [i \in 0 .. 0 |-> n]
      <3>1. IsOffers(n, es, m, f)
        BY <2>3 DEF IsOffers
      <3>. HIDE DEF f
      <3>. QED
        BY <3>1, <2>2
    <2>4. CASE m # 0
      <3>1. m - 1 \in Nat /\ ~(m <= m - 1)
        BY <2>2, <2>4
      <3>. HIDE DEF Good
      <3>2. Good(m - 1)
        BY <3>1, <2>2
      <3>3. PICK f : IsOffers(n, es, m - 1, f)
        BY <3>2 DEF Good
      <3>. DEFINE g == [i \in 0 .. m |-> IF i = 0 THEN n ELSE Offer(f[i - 1], es[i])]
      <3>4. \A i \in 0 .. m - 1 : g[i] = f[i]
        <4>. TAKE i \in 0 .. m - 1
        <4>1. i \in 0 .. m
          BY <2>2
        <4>2. f[i] = IF i = 0 THEN n ELSE Offer(f[i - 1], es[i])
          BY <3>3 DEF IsOffers
        <4>. QED
          BY <4>1, <4>2
      <3>5. \A i \in 0 .. m : i # 0 => g[i - 1] = f[i - 1]
        <4>1. \A i \in 0 .. m : i # 0 => i - 1 \in 0 .. m - 1
          BY <2>2
        <4>. HIDE DEF g
        <4>. QED
          BY <3>4, <4>1
      <3>6. IsOffers(n, es, m, g)
        BY <3>5 DEF IsOffers
      <3>. QED
        BY <3>6, <2>2 DEF Good
    <2>. QED
      BY <2>3, <2>4
  <1>2. Good(len)
    BY <1>1
  <1>. QED
    BY <1>2

\* A list stays one of members, however many entries are offered.
LEMMA OfferAllMembers ==
    ASSUME NEW n, Members(n), NEW es \in Seq(LogEntry)
    PROVE  Members(OfferAll(n, es))
  <1>. DEFINE len == Len(es)
              W == CHOOSE f : IsOffers(n, es, len, f)
              T == {i \in 0 .. len : ~Members(W[i])}
  <1>1. len \in Nat /\ \A i \in 1 .. len : es[i] \in LogEntry
    OBVIOUS
  <1>2. OfferAll(n, es) = W[len]
    BY DEF OfferAll, IsOffers
  <1>3. IsOffers(n, es, len, W)
    <2>. HIDE DEF len
    <2>. QED
      BY <1>1, OffersExist
  <1>. HIDE DEF len, W
  <1>4. W[0] = n /\ \A i \in 1 .. len : W[i] = Offer(W[i - 1], es[i])
    BY <1>1, <1>3 DEF IsOffers
  <1>5. T = {}
    <2>. SUFFICES ASSUME T # {} PROVE FALSE
      OBVIOUS
    <2>1. PICK m \in T : \A y \in T : m <= y
      <3>1. T \in SUBSET Nat
        BY <1>1
      <3>. HIDE DEF T
      <3>. QED
        BY <3>1, Least
    <2>2. m # 0 /\ m \in 0 .. len
      BY <2>1, <1>4
    <2>3. m \in 1 .. len /\ m - 1 \in 0 .. len /\ ~(m <= m - 1)
      BY <2>2, <1>1
    <2>4. Members(W[m - 1])
      BY <2>1, <2>3
    <2>5. es[m] \in LogEntry
      BY <2>3, <1>1
    <2>6. es[m].type \in {"add_nonvoting", "add", "remove"} => es[m].node \in Peer
      BY <2>5 DEF LogEntry
    <2>. QED
      BY <2>1, <2>3, <2>4, <2>6, <1>4, OfferMembers
  <1>6. len \in 0 .. len
    BY <1>1
  <1>. QED
    BY <1>2, <1>5, <1>6

LEMMA EntriesAre ==
    ASSUME NEW t \in Nat
    PROVE  \A e \in Entries(t) : e \in LogEntry /\ (e.type \in {"add_nonvoting", "add", "remove"} => e.node \in Peer)
  BY MembershipAssumption DEF Entries, LogEntry, NoOne

LEMMA MemberStart == MemberInit => MemberInv
  <1>. SUFFICES ASSUME MemberInit PROVE MemberInv
    OBVIOUS
  <1>1. srv = [state |-> "follower", term |-> 0, voted |-> NoOne,
              log |-> << >>, commit |-> 0, applied |-> 0, cfg |-> NoChange]
    BY DEF MemberInit
  <1>2. MemberType /\ srv.state # "leader"
    BY <1>1 DEF MemberType
  <1>3. Members(nodes)
    BY MembershipAssumption, NewNodeIs DEF MemberInit, Members
  <1>. QED
    BY <1>2, <1>3 DEF MemberInv

\* The log of another leader.
LEMMA LeaderLogsAre ==
    ASSUME MemberInv, NEW term \in Nat, NEW l \in LeaderLogs(term)
    PROVE  l \in Seq(LogEntry)
  <1>1. srv.log \in Seq(LogEntry) /\ srv.commit \in Nat /\ Len(srv.log) \in Nat
    BY DEF MemberInv, MemberType
  <1>2. ASSUME NEW k \in srv.commit .. Len(srv.log) PROVE SubSeq(srv.log, 1, k) \in Seq(LogEntry)
    <2>1. k \in Int /\ \A i \in 1 .. k : srv.log[i] \in LogEntry
      BY <1>1
    <2>. QED
      BY <2>1, SubSeqProperties
  <1>3. ASSUME NEW t \in 1 .. term, NEW e \in Entries(t) PROVE e \in LogEntry
    BY EntriesAre
  <1>4. CASE \E k \in srv.commit .. Len(srv.log) : l = SubSeq(srv.log, 1, k)
    BY <1>2, <1>4
  <1>5. CASE \E k \in srv.commit .. Len(srv.log) : \E t \in 1 .. term : \E e \in Entries(t) :
               l = Append(SubSeq(srv.log, 1, k), e)
    BY <1>2, <1>3, <1>5
  <1>. DEFINE Terms(k) == {t \in (1 .. term) \ led : /\ k > 0 => srv.log[k].term <= t
                                                    /\ k < Len(srv.log) => srv.log[k + 1].term # t}
              Ks == {k \in srv.commit .. Len(srv.log) : k < MaxEntries}
              More(k) == {Append(SubSeq(srv.log, 1, k), e) : e \in UNION {Entries(t) : t \in Terms(k)}}
  <1>6. l \in {SubSeq(srv.log, 1, k) : k \in srv.commit .. Len(srv.log)} \cup UNION {More(k) : k \in Ks}
    BY DEF LeaderLogs
  <1>7. ASSUME NEW k \in Ks, l \in More(k)
        PROVE  \E t \in 1 .. term : \E e \in Entries(t) : l = Append(SubSeq(srv.log, 1, k), e)
    BY <1>7
  <1>. HIDE DEF More
  <1>8. Ks \subseteq srv.commit .. Len(srv.log)
    OBVIOUS
  <1>. HIDE DEF Ks
  <1>. QED
    BY <1>4, <1>5, <1>6, <1>7, <1>8

LEMMA PrefixIs ==
    ASSUME NEW log \in Seq(LogEntry), NEW m \in Int, m <= Len(log)
    PROVE  SubSeq(log, 1, m) \in Seq(LogEntry)
  <1>1. \A i \in 1 .. m : log[i] \in LogEntry
    OBVIOUS
  <1>. QED
    BY <1>1, SubSeqProperties

LEMMA ReceivedIs ==
    ASSUME NEW log \in Seq(LogEntry), NEW l \in Seq(LogEntry), NEW prev \in 0 .. Len(l), prev \in DOMAIN log \cup {0}
    PROVE  /\ Received(log, l, prev).new \in Seq(LogEntry)
           /\ Received(log, l, prev).kept \in Seq(LogEntry)
  <1>. DEFINE E == SubSeq(l, prev + 1, Len(l))
              cut == E = << >> /\ 0 < prev /\ prev + 1 < Len(log)
              D == {i \in DOMAIN E : prev + i \notin DOMAIN log \/ log[prev + i].term # E[i].term}
              f == IF D = {} THEN Len(E) + 1 ELSE CHOOSE i \in D : \A j \in D : i <= j
              kept == IF cut THEN SubSeq(log, 1, prev) ELSE IF D = {} THEN log ELSE SubSeq(log, 1, prev + f - 1)
              new == SubSeq(E, f, Len(E))
  <1>1. E \in Seq(LogEntry) /\ Len(E) \in Nat
    <2>1. prev + 1 \in Int /\ Len(l) \in Int /\ \A i \in prev + 1 .. Len(l) : l[i] \in LogEntry
      OBVIOUS
    <2>2. E \in Seq(LogEntry)
      BY <2>1, SubSeqProperties
    <2>. HIDE DEF E
    <2>. QED
      BY <2>2
  <1>2. Received(log, l, prev) = [kept |-> kept, new |-> new]
    BY DEF Received
  <1>. HIDE DEF E
  <1>3. /\ D \subseteq 1 .. Len(E)
        /\ \A i \in 1 .. Len(E) : i \notin D => prev + i \in DOMAIN log
    BY <1>1
  <1>4. /\ D = {} => f = Len(E) + 1
        /\ D # {} => f \in D /\ \A j \in D : f <= j
    <2>1. D \in SUBSET Nat
      BY <1>1, <1>3
    <2>. HIDE DEF D
    <2>2. D # {} => \E i \in D : \A j \in D : i <= j
      BY <2>1, Least
    <2>. QED
      BY <2>2
  <1>. HIDE DEF D, f
  <1>5. f \in 1 .. Len(E) + 1
    <2>1. CASE D = {}
      BY <2>1, <1>1, <1>4
    <2>2. CASE D # {}
      <3>1. f \in 1 .. Len(E)
        BY <2>2, <1>3, <1>4
      <3>. QED
        BY <3>1, <1>1
    <2>. QED
      BY <2>1, <2>2
  <1>6. new \in Seq(LogEntry)
    <2>1. f \in Int /\ Len(E) \in Int /\ \A i \in f .. Len(E) : E[i] \in LogEntry
      BY <1>1, <1>5
    <2>. QED
      BY <2>1, SubSeqProperties
  <1>7. prev \in Nat /\ prev <= Len(log) /\ Len(log) \in Nat
    OBVIOUS
  <1>8. D # {} => prev + f - 1 <= Len(log) /\ prev + f - 1 \in Int
    <2>1. CASE f = 1
      BY <2>1, <1>7
    <2>2. CASE f # 1 /\ D # {}
      <3>. DEFINE g == f - 1
      <3>1. f \in Int /\ g \in 1 .. Len(E) /\ ~(f <= g)
        <4>1. f \in 1 .. Len(E)
          BY <2>2, <1>3, <1>4
        <4>. QED
          BY <4>1, <2>2, <1>1
      <3>. HIDE DEF g
      <3>2. g \notin D
        BY <3>1, <2>2, <1>4
      <3>3. prev + g \in DOMAIN log
        BY <3>1, <3>2, <1>3
      <3>4. prev + g <= Len(log)
        BY <3>3
      <3>. QED
        BY <3>1, <3>4, <1>7 DEF g
    <2>. QED
      BY <2>1, <2>2
  <1>9. kept \in Seq(LogEntry)
    <2>. HIDE DEF cut
    <2>1. CASE cut
      BY <2>1, <1>7, PrefixIs
    <2>2. CASE ~cut /\ D # {}
      BY <2>2, <1>8, PrefixIs
    <2>3. CASE ~cut /\ D = {}
      BY <2>3
    <2>. QED
      BY <2>1, <2>2, <2>3
  <1>. HIDE DEF kept, new
  <1>. QED
    BY <1>2, <1>6, <1>9


\* The fields after raft_recv_appendentries has looked at the term; the server does not lead.
Follows(s, term) ==
    \E state, voted :
        /\ s = [state |-> state, term |-> term, voted |-> voted, log |-> srv.log,
                commit |-> srv.commit, applied |-> srv.applied, cfg |-> srv.cfg]
        /\ state # "leader"

LEMMA FollowIs ==
    ASSUME MemberInv, NEW term \in Nat, srv.term <= term, term \notin led
    PROVE  Follows(Follow(term), term)
  <1>. DEFINE b == IF srv.state = "candidate" /\ srv.term = term THEN [srv EXCEPT !.voted = NoOne] ELSE srv
              s == SetTerm(b, term)
  <1>1. MemberType /\ srv.term \in Nat /\ (srv.state = "leader" => srv.term # term)
    BY DEF MemberInv, MemberType
  <1>2. PICK v : b = [state |-> srv.state, term |-> srv.term, voted |-> v, log |-> srv.log,
                      commit |-> srv.commit, applied |-> srv.applied, cfg |-> srv.cfg]
    BY <1>1 DEF MemberType
  <1>3. Follow(term) = [s EXCEPT !.state = IF s.term = srv.term /\ srv.state # "candidate" THEN @ ELSE "follower"]
    BY DEF Follow
  <1>. HIDE DEF b
  <1>4. PICK vote : s = [state |-> srv.state, term |-> term, voted |-> vote, log |-> srv.log,
                         commit |-> srv.commit, applied |-> srv.applied, cfg |-> srv.cfg]
    <2>1. CASE srv.term < term
      BY <2>1, <1>2 DEF SetTerm
    <2>2. CASE srv.term = term
      <3>1. ~(srv.term < term)
        BY <2>2, <1>1
      <3>. QED
        BY <3>1, <2>2, <1>2 DEF SetTerm
    <2>. QED
      BY <2>1, <2>2, <1>1
  <1>. HIDE DEF s
  <1>5. s.term = term /\ s.state = srv.state
    BY <1>4
  <1>6. Follow(term) = [state |-> IF term = srv.term /\ srv.state # "candidate" THEN srv.state ELSE "follower",
                        term |-> term, voted |-> vote, log |-> srv.log,
                        commit |-> srv.commit, applied |-> srv.applied, cfg |-> srv.cfg]
    BY <1>3, <1>4, <1>5
  <1>. DEFINE state == IF term = srv.term /\ srv.state # "candidate" THEN srv.state ELSE "follower"
  <1>7. state # "leader"
    BY <1>1
  <1>8. Follow(term) = [state |-> state, term |-> term, voted |-> vote, log |-> srv.log,
                        commit |-> srv.commit, applied |-> srv.applied, cfg |-> srv.cfg]
    BY <1>6
  <1>. HIDE DEF state
  <1>. QED
    BY <1>7, <1>8, Zenon DEF Follows

\* raft_recv_appendentries: the server does not lead afterwards.
LEMMA MemberAppend ==
    ASSUME MemberInv, RecvAppendEntries
    PROVE  MemberInv' /\ srv'.state # "leader"
  <1>1. MemberType /\ Members(nodes)
    BY DEF MemberInv
  <1>2. srv.term \in Nat /\ srv.commit \in Nat /\ srv.log \in Seq(LogEntry)
    BY <1>1 DEF MemberType
  <1>3. PICK term \in (srv.term .. MaxTerms) \ (led \cup {0}) : \E l \in LeaderLogs(term) :
        \E prev \in 0 .. Len(l), leader_commit \in srv.commit .. Len(l) :
          LET m == Received(srv.log, l, prev)
              s == [Follow(term) EXCEPT !.log = m.kept \o m.new, !.cfg = NotedAt(m.kept, m.new)]
              last == IF Len(s.log) = 0 THEN 1 ELSE Len(s.log)
          IN /\ UNCHANGED led
             /\ prev \in DOMAIN srv.log \cup {0} /\ (prev > 0 => srv.log[prev].term = l[prev].term)
             /\ Len(m.kept) >= srv.commit
             /\ leader_commit <= Len(s.log)
             /\ nodes' = OfferAll(nodes, m.new)
             /\ srv' = [s EXCEPT !.commit = IF @ < leader_commit
                                            THEN (IF last < leader_commit THEN last ELSE leader_commit)
                                            ELSE @]
    BY Zenon DEF RecvAppendEntries
  <1>4. term \in Nat /\ srv.term <= term /\ term \notin led
    BY <1>2
  <1>. DEFINE t == Follow(term)
  <1>5. Follows(t, term)
    BY <1>4, FollowIs
  <1>6. PICK l \in LeaderLogs(term) :
        \E prev \in 0 .. Len(l), leader_commit \in srv.commit .. Len(l) :
          LET m == Received(srv.log, l, prev)
              s == [t EXCEPT !.log = m.kept \o m.new, !.cfg = NotedAt(m.kept, m.new)]
              last == IF Len(s.log) = 0 THEN 1 ELSE Len(s.log)
          IN /\ UNCHANGED led
             /\ prev \in DOMAIN srv.log \cup {0} /\ (prev > 0 => srv.log[prev].term = l[prev].term)
             /\ Len(m.kept) >= srv.commit
             /\ leader_commit <= Len(s.log)
             /\ nodes' = OfferAll(nodes, m.new)
             /\ srv' = [s EXCEPT !.commit = IF @ < leader_commit
                                            THEN (IF last < leader_commit THEN last ELSE leader_commit)
                                            ELSE @]
    BY <1>3, Zenon
  <1>. HIDE DEF t
  <1>7. l \in Seq(LogEntry)
    BY <1>4, LeaderLogsAre
  <1>8. PICK prev \in 0 .. Len(l), leader_commit \in srv.commit .. Len(l) :
          LET m == Received(srv.log, l, prev)
              s == [t EXCEPT !.log = m.kept \o m.new, !.cfg = NotedAt(m.kept, m.new)]
              last == IF Len(s.log) = 0 THEN 1 ELSE Len(s.log)
          IN /\ UNCHANGED led
             /\ prev \in DOMAIN srv.log \cup {0} /\ (prev > 0 => srv.log[prev].term = l[prev].term)
             /\ Len(m.kept) >= srv.commit
             /\ leader_commit <= Len(s.log)
             /\ nodes' = OfferAll(nodes, m.new)
             /\ srv' = [s EXCEPT !.commit = IF @ < leader_commit
                                            THEN (IF last < leader_commit THEN last ELSE leader_commit)
                                            ELSE @]
    BY <1>6, Zenon
  <1>. DEFINE m == Received(srv.log, l, prev)
              log == m.kept \o m.new
              cfg == NotedAt(m.kept, m.new)
              s == [t EXCEPT !.log = log, !.cfg = cfg]
              last == IF Len(s.log) = 0 THEN 1 ELSE Len(s.log)
  <1>9. /\ nodes' = OfferAll(nodes, m.new)
        /\ srv' = [s EXCEPT !.commit = IF @ < leader_commit
                                       THEN (IF last < leader_commit THEN last ELSE leader_commit)
                                       ELSE @]
    BY <1>8, Zenon
  <1>10. m.new \in Seq(LogEntry) /\ m.kept \in Seq(LogEntry)
    BY <1>2, <1>7, <1>8, ReceivedIs
  <1>. HIDE DEF m, cfg
  <1>11. Members(nodes')
    BY <1>1, <1>9, <1>10, OfferAllMembers
  <1>12. log \in Seq(LogEntry) /\ Len(log) \in Nat
    <2>1. log \in Seq(LogEntry)
      BY <1>10, ConcatProperties
    <2>. HIDE DEF log
    <2>. QED
      BY <2>1
  <1>. HIDE DEF log
  <1>21. PICK state, voted : /\ t = [state |-> state, term |-> term, voted |-> voted, log |-> srv.log,
                                     commit |-> srv.commit, applied |-> srv.applied, cfg |-> srv.cfg]
                             /\ state # "leader"
    BY <1>5 DEF Follows
  <1>13. s = [state |-> state, term |-> term, voted |-> voted, log |-> log,
              commit |-> srv.commit, applied |-> srv.applied, cfg |-> cfg]
    <2>1. [t EXCEPT !.log = log] = [state |-> state, term |-> term, voted |-> voted, log |-> log,
              commit |-> srv.commit, applied |-> srv.applied, cfg |-> srv.cfg]
      BY <1>21
    <2>2. s = [[t EXCEPT !.log = log] EXCEPT !.cfg = cfg]
      OBVIOUS
    <2>. HIDE DEF s
    <2>. QED
      BY <2>1, <2>2
  <1>. HIDE DEF s
  <1>14. s.log = log /\ s.commit = srv.commit
    BY <1>13
  <1>15. last \in Nat /\ leader_commit \in Nat
    BY <1>2, <1>12, <1>14
  <1>. HIDE DEF last
  <1>16. PICK commit \in Nat :
            srv' = [state |-> state, term |-> term, voted |-> voted, log |-> log,
                    commit |-> commit, applied |-> srv.applied, cfg |-> cfg]
    <2>. DEFINE commit == IF srv.commit < leader_commit
                          THEN (IF last < leader_commit THEN last ELSE leader_commit) ELSE srv.commit
    <2>1. srv' = [state |-> state, term |-> term, voted |-> voted, log |-> log,
                    commit |-> commit, applied |-> srv.applied, cfg |-> cfg]
      BY <1>9, <1>13, <1>14
    <2>2. commit \in Nat
      BY <1>2, <1>15
    <2>. HIDE DEF commit
    <2>. QED
      BY <2>1, <2>2
  <1>17. MemberType' /\ srv'.state = state
    BY <1>4, <1>12, <1>16 DEF MemberType
  <1>. QED
    BY <1>11, <1>17, <1>21 DEF MemberInv

LEMMA MemberConflict ==
    ASSUME MemberInv, RecvConflict
    PROVE  MemberInv' /\ srv'.state # "leader"
  <1>1. MemberType /\ Members(nodes)
    BY DEF MemberInv
  <1>2. srv.term \in Nat /\ srv.commit \in Nat /\ srv.log \in Seq(LogEntry)
    BY <1>1 DEF MemberType
  <1>3. PICK term \in (srv.term .. MaxTerms) \ led, prev \in srv.commit + 1 .. Len(srv.log) :
          srv' = [Follow(term) EXCEPT !.log = SubSeq(@, 1, prev - 1)]
    BY DEF RecvConflict
  <1>4. term \in Nat /\ srv.term <= term /\ term \notin led
    BY <1>2
  <1>. DEFINE t == Follow(term)
              log == SubSeq(srv.log, 1, prev - 1)
  <1>5. Follows(t, term)
    BY <1>4, FollowIs
  <1>6. srv' = [t EXCEPT !.log = SubSeq(@, 1, prev - 1)]
    BY <1>3
  <1>7. log \in Seq(LogEntry)
    <2>1. prev - 1 \in Int /\ prev - 1 <= Len(srv.log)
      BY <1>2
    <2>. QED
      BY <2>1, <1>2, PrefixIs
  <1>. HIDE DEF t
  <1>20. PICK state, voted : /\ t = [state |-> state, term |-> term, voted |-> voted, log |-> srv.log,
                                     commit |-> srv.commit, applied |-> srv.applied, cfg |-> srv.cfg]
                             /\ state # "leader"
    BY <1>5 DEF Follows
  <1>8. srv' = [state |-> state, term |-> term, voted |-> voted, log |-> log,
                commit |-> srv.commit, applied |-> srv.applied, cfg |-> srv.cfg]
    BY <1>6, <1>20
  <1>. HIDE DEF log
  <1>9. MemberType' /\ srv'.state = state
    BY <1>2, <1>4, <1>7, <1>8 DEF MemberType
  <1>10. nodes' = nodes
    BY DEF RecvConflict
  <1>. QED
    BY <1>1, <1>9, <1>10, <1>20 DEF MemberInv

\* The fields of the server when only some of them changed.
LEMMA FieldsAre ==
    ASSUME NEW state, NEW term \in Nat, NEW voted, NEW log \in Seq(LogEntry), NEW commit \in Nat,
           NEW applied, NEW cfg,
           srv' = [state |-> state, term |-> term, voted |-> voted, log |-> log,
                   commit |-> commit, applied |-> applied, cfg |-> cfg]
    PROVE  MemberType' /\ srv'.state = state /\ srv'.term = term /\ srv'.commit = commit
  BY DEF MemberType

\* raft_recv_entry: a leader commits the entry only when it is the only node.
LEMMA MemberEntry ==
    ASSUME MemberInv, RecvEntry
    PROVE  /\ MemberInv'
           /\ srv'.commit = srv.commit \/ Cardinality(DOMAIN nodes') = 1
  <1>1. MemberType /\ Members(nodes) /\ (srv.state = "leader" => srv.term \in led)
    BY DEF MemberInv
  <1>2. /\ srv.term \in Nat /\ srv.commit \in Nat /\ srv.log \in Seq(LogEntry)
        /\ srv = [state |-> srv.state, term |-> srv.term, voted |-> srv.voted,
                  log |-> srv.log, commit |-> srv.commit, applied |-> srv.applied, cfg |-> srv.cfg]
    BY <1>1 DEF MemberType
  <1>3. PICK e \in Entries(srv.term) :
        /\ srv.state = "leader" /\ led' = led
        /\ nodes' = Offer(nodes, e)
        /\ srv' = [srv EXCEPT !.log = Append(@, e),
                              !.commit = IF Cardinality(DOMAIN nodes') = 1 THEN Len(srv.log) + 1 ELSE @,
                              !.cfg = IF IsVotingChange(e) THEN Len(srv.log) + 1 ELSE @]
    BY Zenon DEF RecvEntry
  <1>4. e \in LogEntry
    BY <1>2, EntriesAre
  <1>5. Members(nodes')
    <2>1. e.type \in {"add_nonvoting", "add", "remove"} => e.node \in Peer
      BY <1>4 DEF LogEntry
    <2>. QED
      BY <1>1, <1>3, <2>1, OfferMembers
  <1>. DEFINE log == Append(srv.log, e)
              one == Cardinality(DOMAIN nodes') = 1
              commit == IF one THEN Len(srv.log) + 1 ELSE srv.commit
              cfg == IF IsVotingChange(e) THEN Len(srv.log) + 1 ELSE srv.cfg
  <1>6. log \in Seq(LogEntry) /\ commit \in Nat /\ (commit = srv.commit \/ one)
    BY <1>2, <1>4, AppendProperties
  <1>. HIDE DEF one
  <1>7. srv' = [srv EXCEPT !.log = log, !.commit = commit, !.cfg = cfg]
    BY <1>3, Zenon DEF one
  <1>. HIDE DEF log, commit, cfg
  <1>8. srv' = [state |-> srv.state, term |-> srv.term, voted |-> srv.voted,
                log |-> log, commit |-> commit, applied |-> srv.applied, cfg |-> cfg]
    BY <1>2, <1>7
  <1>9. MemberType' /\ srv'.state = srv.state /\ srv'.term = srv.term /\ srv'.commit = commit
    BY <1>2, <1>6, <1>8, FieldsAre, Zenon
  <1>10. MemberInv'
    BY <1>1, <1>3, <1>5, <1>9 DEF MemberInv
  <1>. QED
    BY <1>6, <1>9, <1>10, Zenon DEF one

LEMMA MemberElection ==
    ASSUME MemberInv, StartElection
    PROVE  MemberInv' /\ srv'.state # "leader"
  <1>1. MemberType /\ Members(nodes)
    BY DEF MemberInv
  <1>2. /\ srv.term \in Nat /\ srv.commit \in Nat /\ srv.log \in Seq(LogEntry)
        /\ srv = [state |-> srv.state, term |-> srv.term, voted |-> srv.voted,
                  log |-> srv.log, commit |-> srv.commit, applied |-> srv.applied, cfg |-> srv.cfg]
    BY <1>1 DEF MemberType
  <1>3. srv' = [state |-> "candidate", term |-> srv.term + 1, voted |-> Me,
                log |-> srv.log, commit |-> srv.commit, applied |-> srv.applied, cfg |-> srv.cfg]
    BY <1>2 DEF StartElection
  <1>4. srv.term + 1 \in Nat
    BY <1>2
  <1>5. MemberType' /\ srv'.state = "candidate"
    BY <1>2, <1>3, <1>4, FieldsAre, Zenon
  <1>6. nodes' = [i \in DOMAIN nodes |-> [nodes[i] EXCEPT !.voted = FALSE]]
    BY DEF StartElection
  <1>. DEFINE R(i) == [nodes[i] EXCEPT !.voted = FALSE]
  <1>8. \A i \in DOMAIN nodes : nodes[i] \in Node
    BY <1>1 DEF Members
  <1>9. \A i \in DOMAIN nodes : R(i) \in Node /\ R(i).voting = nodes[i].voting
    BY <1>8, NodeFields
  <1>10. nodes' = [i \in DOMAIN nodes |-> R(i)]
    BY <1>6
  <1>. HIDE DEF R
  <1>7. Members(nodes')
    BY <1>1, <1>9, <1>10 DEF Members
  <1>. QED
    BY <1>5, <1>7 DEF MemberInv

LEMMA MemberLater ==
    ASSUME MemberInv, LaterTerm
    PROVE  MemberInv' /\ srv'.state # "leader"
  <1>1. MemberType /\ Members(nodes)
    BY DEF MemberInv
  <1>2. /\ srv.term \in Nat /\ srv.commit \in Nat /\ srv.log \in Seq(LogEntry)
        /\ srv = [state |-> srv.state, term |-> srv.term, voted |-> srv.voted,
                  log |-> srv.log, commit |-> srv.commit, applied |-> srv.applied, cfg |-> srv.cfg]
    BY <1>1 DEF MemberType
  <1>3. PICK vote : srv' = [srv EXCEPT !.term = @ + 1, !.voted = vote, !.state = "follower"]
    BY DEF LaterTerm
  <1>4. srv' = [state |-> "follower", term |-> srv.term + 1, voted |-> vote,
                log |-> srv.log, commit |-> srv.commit, applied |-> srv.applied, cfg |-> srv.cfg]
    BY <1>2, <1>3
  <1>5. srv.term + 1 \in Nat
    BY <1>2
  <1>6. MemberType' /\ srv'.state = "follower"
    BY <1>2, <1>4, <1>5, FieldsAre, Zenon
  <1>7. nodes' = nodes
    BY DEF LaterTerm
  <1>. QED
    BY <1>1, <1>6, <1>7 DEF MemberInv

\* raft_become_leader: the list has the same nodes, and this server votes.
LEMMA MemberVote ==
    ASSUME MemberInv, RecvVote
    PROVE  MemberInv' /\ srv'.commit = srv.commit
  <1>1. MemberType /\ Members(nodes) /\ srv.term \in Nat /\ srv.commit \in Nat /\ srv.log \in Seq(LogEntry)
    BY DEF MemberInv, MemberType
  <1>. DEFINE after(from) == IF from \in DOMAIN nodes THEN [nodes EXCEPT ![from].voted = TRUE] ELSE nodes
              won(n) == /\ VotesForMe(n) <= Cardinality(DOMAIN n)
                        /\ Cardinality(DOMAIN n) \div 2 + 1 <= VotesForMe(n)
  <1>10. PICK from \in Peer :
            /\ srv.state = "candidate"
            /\ nodes' = IF won(after(from)) THEN Leading(after(from)) ELSE after(from)
            /\ srv' = IF won(after(from)) THEN [srv EXCEPT !.state = "leader"] ELSE srv
            /\ led' = IF won(after(from)) THEN led \cup {srv.term} ELSE led
    BY Zenon DEF RecvVote
  <1>. DEFINE n == after(from)
              wins == won(n)
  <1>. HIDE DEF wins
  <1>2. /\ n = (IF from \in DOMAIN nodes THEN [nodes EXCEPT ![from].voted = TRUE] ELSE nodes)
        /\ srv.state = "candidate"
        /\ nodes' = IF wins THEN Leading(n) ELSE n
        /\ srv' = IF wins THEN [srv EXCEPT !.state = "leader"] ELSE srv
        /\ led' = IF wins THEN led \cup {srv.term} ELSE led
    BY <1>10, Zenon DEF wins
  <1>. HIDE DEF n
  <1>3. from # Me
    BY MembershipAssumption
  <1>4. Members(n)
    <2>1. CASE from \in DOMAIN nodes
      <3>. DEFINE r == [nodes[from] EXCEPT !.voted = TRUE]
      <3>1. nodes[from] \in Node
        BY <1>1, <2>1 DEF Members
      <3>2. r \in Node
        BY <3>1, NodeFields
      <3>3. n = [nodes EXCEPT ![from] = r]
        BY <1>2, <2>1
      <3>. HIDE DEF r
      <3>. QED
        BY <1>1, <1>3, <2>1, <3>2, <3>3, NodeChanged
    <2>. QED
      BY <1>1, <1>2, <2>1
  <1>5. Members(Leading(n))
    <2>. DEFINE R(i) == IF i = Me \/ ~n[i].voting THEN n[i] ELSE [n[i] EXCEPT !.match = 0]
    <2>1. \A i \in DOMAIN n : n[i] \in Node
      BY <1>4 DEF Members
    <2>2. \A i \in DOMAIN n : R(i) \in Node
      BY <2>1, NodeFields
    <2>3. R(Me) = n[Me]
      OBVIOUS
    <2>4. Leading(n) = [i \in DOMAIN n |-> R(i)]
      BY DEF Leading
    <2>. HIDE DEF R
    <2>. QED
      BY <1>4, <2>2, <2>3, <2>4 DEF Members
  <1>6. Members(nodes')
    BY <1>2, <1>4, <1>5
  <1>7. CASE wins
    <2>1. srv' = [srv EXCEPT !.state = "leader"] /\ srv.term \in led'
      BY <1>2, <1>7
    <2>2. srv = [state |-> srv.state, term |-> srv.term, voted |-> srv.voted,
                 log |-> srv.log, commit |-> srv.commit, applied |-> srv.applied, cfg |-> srv.cfg]
      BY <1>1 DEF MemberType
    <2>3. srv' = [state |-> "leader", term |-> srv.term, voted |-> srv.voted,
                  log |-> srv.log, commit |-> srv.commit, applied |-> srv.applied, cfg |-> srv.cfg]
      BY <2>1, <2>2
    <2>4. MemberType' /\ srv'.term = srv.term /\ srv'.commit = srv.commit
      BY <1>1, <2>3, FieldsAre, Zenon
    <2>. QED
      BY <1>6, <2>1, <2>4, Zenon DEF MemberInv
  <1>8. CASE ~wins
    <2>1. srv' = srv
      BY <1>2, <1>8
    <2>2. MemberType'
      BY <1>1, <2>1 DEF MemberType
    <2>. QED
      BY <1>2, <1>6, <2>1, <2>2 DEF MemberInv
  <1>. QED
    BY <1>7, <1>8

LEMMA MemberApply ==
    ASSUME MemberInv, Apply
    PROVE  MemberInv' /\ srv'.commit = srv.commit
  <1>1. MemberType /\ Members(nodes) /\ (srv.state = "leader" => srv.term \in led)
    BY DEF MemberInv
  <1>2. /\ srv.term \in Nat /\ srv.commit \in Nat /\ srv.log \in Seq(LogEntry)
        /\ srv = [state |-> srv.state, term |-> srv.term, voted |-> srv.voted,
                  log |-> srv.log, commit |-> srv.commit, applied |-> srv.applied, cfg |-> srv.cfg]
    BY <1>1 DEF MemberType
  <1>. DEFINE applied == srv.applied + 1
              cfg == IF srv.cfg = srv.applied + 1 THEN NoChange ELSE srv.cfg
  <1>3. srv' = [srv EXCEPT !.applied = applied, !.cfg = cfg] /\ nodes' = nodes /\ led' = led
    BY DEF Apply
  <1>. HIDE DEF applied, cfg
  <1>4. srv' = [state |-> srv.state, term |-> srv.term, voted |-> srv.voted,
                log |-> srv.log, commit |-> srv.commit, applied |-> applied, cfg |-> cfg]
    BY <1>2, <1>3
  <1>5. MemberType' /\ srv'.state = srv.state /\ srv'.term = srv.term /\ srv'.commit = srv.commit
    BY <1>2, <1>4, FieldsAre, Zenon
  <1>. QED
    BY <1>1, <1>3, <1>5 DEF MemberInv

\* raft_recv_appendentries_response: what the leader commits, a majority of the voting nodes has.
LEMMA MemberResponse ==
    ASSUME MemberInv, RecvResponse
    PROVE  /\ MemberInv'
           /\ srv'.commit # srv.commit =>
                \E q \in Majority(nodes') : \A i \in q \ {Me} : nodes'[i].match >= srv'.commit
  <1>1. MemberType /\ Members(nodes) /\ (srv.state = "leader" => srv.term \in led)
    BY DEF MemberInv
  <1>2. /\ srv.term \in Nat /\ srv.commit \in Nat /\ srv.log \in Seq(LogEntry)
        /\ srv = [state |-> srv.state, term |-> srv.term, voted |-> srv.voted,
                  log |-> srv.log, commit |-> srv.commit, applied |-> srv.applied, cfg |-> srv.cfg]
    BY <1>1 DEF MemberType
  <1>. DEFINE suff(from, idx) == /\ ~nodes[from].voting /\ srv.cfg = NoChange
                                 /\ Len(srv.log) <= idx + 1 /\ ~nodes[from].sufficient
              after(from, idx) == [nodes EXCEPT ![from].match = idx, ![from].sufficient = @ \/ suff(from, idx)]
  <1>3. PICK from \in Peer \cap DOMAIN nodes, idx \in 1 .. Len(srv.log) :
            /\ srv.state = "leader"
            /\ led' = led
            /\ nodes' = after(from, idx)
            /\ srv' = [srv EXCEPT !.commit = IF Enough(after(from, idx), idx) /\ @ < idx THEN idx ELSE @]
    BY Zenon DEF RecvResponse
  <1>4. from # Me /\ from \in DOMAIN nodes /\ nodes[from] \in Node
    BY <1>1, MembershipAssumption DEF Members
  <1>5. idx \in Nat
    BY <1>2
  <1>. DEFINE b == nodes[from].sufficient \/ suff(from, idx)
              r == [nodes[from] EXCEPT !.match = idx]
              r2 == [r EXCEPT !.sufficient = b]
              n == after(from, idx)
  <1>6. n = [nodes EXCEPT ![from] = r2]
    <2>1. r.sufficient = nodes[from].sufficient
      BY <1>4 DEF Node
    <2>. HIDE DEF suff
    <2>. QED
      BY <1>4, <2>1
  <1>7. b \in BOOLEAN
    BY <1>4, NodeFields
  <1>. HIDE DEF b
  <1>8. r \in Node
    BY <1>4, <1>5, NodeFields
  <1>. HIDE DEF r
  <1>9. r2 \in Node
    BY <1>7, <1>8, NodeFields
  <1>. HIDE DEF r2, n
  <1>10. Members(n)
    BY <1>1, <1>4, <1>6, <1>9, NodeChanged
  <1>. DEFINE more == Enough(n, idx) /\ srv.commit < idx
              commit == IF more THEN idx ELSE srv.commit
  <1>11. srv' = [srv EXCEPT !.commit = commit] /\ nodes' = n /\ led' = led
    BY <1>3, Zenon DEF n
  <1>12. commit \in Nat /\ (commit # srv.commit => commit = idx /\ Enough(n, idx))
    BY <1>2, <1>5
  <1>. HIDE DEF commit
  <1>13. srv' = [state |-> srv.state, term |-> srv.term, voted |-> srv.voted,
                log |-> srv.log, commit |-> commit, applied |-> srv.applied, cfg |-> srv.cfg]
    BY <1>2, <1>11
  <1>14. MemberType' /\ srv'.state = srv.state /\ srv'.term = srv.term /\ srv'.commit = commit
    BY <1>2, <1>12, <1>13, FieldsAre, Zenon
  <1>15. MemberInv'
    BY <1>1, <1>3, <1>10, <1>11, <1>14 DEF MemberInv
  <1>16. ASSUME Enough(n, idx)
         PROVE  \E q \in Majority(n) : \A i \in q \ {Me} : n[i].match >= idx
    <2>. DEFINE A == Agreeing(n, idx)
                D == DOMAIN n
                V == {i \in D : n[i].voting}
                q == A \cup {Me}
    <2>1. A \subseteq V /\ Me \notin A /\ V \subseteq D /\ A \subseteq D /\ Me \in V
      BY <1>10 DEF Agreeing, Members
    <2>2. \A i \in A : idx <= n[i].match
      BY DEF Agreeing
    <2>3. Cardinality(D) \div 2 < Cardinality(A) + 1
      BY <1>16 DEF Enough
    <2>4. \A i \in q \ {Me} : n[i].match >= idx
      <3>1. \A i \in A : n[i] \in Node
        BY <2>1, <1>10 DEF Members
      <3>2. \A i \in A : n[i].match \in Nat
        BY <3>1, NodeFields
      <3>. HIDE DEF A
      <3>. QED
        BY <2>2, <3>2, <1>5
    <2>. HIDE DEF A, V
    <2>5. IsFiniteSet(D)
      BY <1>10 DEF Members
    <2>. HIDE DEF D
    <2>6. /\ IsFiniteSet(V) /\ Cardinality(V) <= Cardinality(D)
          /\ IsFiniteSet(A)
      BY <2>1, <2>5, FS_Subset
    <2>7. Cardinality(q) = Cardinality(A) + 1
      BY <2>1, <2>6, FS_AddElement
    <2>8. Cardinality(D) \in Nat /\ Cardinality(V) \in Nat /\ Cardinality(A) \in Nat
      BY <2>5, <2>6, FS_CardinalityType
    <2>9. Cardinality(V) < 2 * Cardinality(q)
      BY <2>3, <2>6, <2>7, <2>8
    <2>10. q \in SUBSET V
      BY <2>1
    <2>. HIDE DEF q
    <2>11. q \in Majority(n)
      BY <2>9, <2>10 DEF Majority, V, D
    <2>. QED
      BY <2>4, <2>11
  <1>. QED
    BY <1>11, <1>12, <1>14, <1>15, <1>16

-----------------------------------------------------------------------------
LEMMA MemberStep ==
    ASSUME MemberInv, [MemberNext]_memberVars
    PROVE  MemberInv'
  <1>1. CASE UNCHANGED memberVars
    <2>1. srv' = srv /\ nodes' = nodes /\ led' = led
      BY <1>1 DEF memberVars
    <2>. QED
      BY <2>1 DEF MemberInv, MemberType, Members
  <1>. QED
    BY <1>1, MemberEntry, MemberAppend, MemberConflict, MemberElection, MemberVote, MemberLater,
       MemberResponse, MemberApply DEF MemberNext

\* What CommitsOnMajority says of one step.
CommitStep ==
    srv.state = "leader" /\ srv'.state = "leader" /\ srv'.commit > srv.commit /\ Cardinality(DOMAIN nodes') > 1
       => \E q \in Majority(nodes') : \A i \in q \ {Me} : nodes'[i].match >= srv'.commit

LEMMA MemberCommits ==
    ASSUME MemberInv, [MemberNext]_memberVars
    PROVE  [CommitStep]_memberVars
  <1>. SUFFICES ASSUME srv'.state = "leader", srv'.commit > srv.commit, Cardinality(DOMAIN nodes') > 1,
                       ~UNCHANGED memberVars
                PROVE  \E q \in Majority(nodes') : \A i \in q \ {Me} : nodes'[i].match >= srv'.commit
    BY DEF CommitStep
  <1>1. MemberNext
    OBVIOUS
  <1>2. MemberInv'
    BY MemberStep
  <1>3. srv.commit \in Nat /\ srv'.commit \in Nat
    BY <1>2 DEF MemberInv, MemberType
  <1>4. srv'.commit # srv.commit /\ Cardinality(DOMAIN nodes') # 1
    BY <1>3
  <1>5. RecvResponse
    BY <1>1, <1>4, MemberEntry, MemberAppend, MemberConflict, MemberElection, MemberVote, MemberLater,
       MemberApply DEF MemberNext
  <1>. QED
    BY <1>4, <1>5, MemberResponse

\* A server of any cluster, whatever entries add, promote and remove its peers, stays a voting
\* node of its own list, which is finite; and no leader of its own term sends to it while it leads.
THEOREM MembersKnown == MemberSpec => []MemberInv
  <1>. QED
    BY MemberStart, MemberStep, PTL DEF MemberSpec

\* CommitsOnMajority, for any number of peers, changes, terms and entries: the only step by which a
\* leader of more than one node moves its commit index is a response, and the nodes that
\* raft_recv_appendentries_response counts are, with itself, more than half of those that vote,
\* although it compares them with half of all the nodes.
THEOREM LeadersCommitOnMajority == MemberSpec => CommitsOnMajority
  <1>1. MemberInv /\ [MemberNext]_memberVars => [CommitStep]_memberVars
    BY MemberCommits
  <1>2. CommitsOnMajority <=> [][CommitStep]_memberVars
    BY DEF CommitsOnMajority, CommitStep
  <1>. QED
    BY <1>1, <1>2, MembersKnown, PTL DEF MemberSpec

-----------------------------------------------------------------------------
(* Configuration files. *)

\* The first and the last of some positions.
LEMMA FirstAndLast ==
    ASSUME NEW len \in Nat, NEW T \in SUBSET (1 .. len), T # {}
    PROVE  /\ Min(T) \in T /\ \A y \in T : Min(T) <= y
           /\ Max(T) \in T /\ \A y \in T : y <= Max(T)
           /\ \E i \in T : \A y \in T : y <= i
  <1>1. T \in SUBSET Nat
    OBVIOUS
  <1>2. \E m \in T : \A y \in T : m <= y
    BY <1>1, Least
  <1>. DEFINE U == {k \in 0 .. len : len - k \in T}
  <1>3. U \in SUBSET Nat /\ U # {}
    <2>1. PICK i \in T : TRUE
      OBVIOUS
    <2>2. i \in 1 .. len
      BY <2>1
    <2>3. len - i \in 0 .. len /\ len - (len - i) = i
      BY <2>2
    <2>4. len - i \in U
      BY <2>1, <2>3
    <2>5. \A k \in U : k \in Nat
      OBVIOUS
    <2>. HIDE DEF U
    <2>. QED
      BY <2>4, <2>5
  <1>4. PICK u \in U : \A y \in U : u <= y
    <2>. HIDE DEF U
    <2>. QED
      BY <1>3, Least
  <1>5. \A y \in T : y <= len - u
    <2>. TAKE y \in T
    <2>1. y \in 1 .. len /\ u \in 0 .. len
      BY <1>4
    <2>2. len - y \in 0 .. len /\ len - (len - y) = y
      BY <2>1
    <2>3. u <= len - y
      BY <2>2, <1>4
    <2>. QED
      BY <2>1, <2>3
  <1>6. len - u \in T
    BY <1>4
  <1>7. \E m \in T : \A y \in T : y <= m
    BY <1>5, <1>6, Zenon
  <1>8. \E m \in T : \A y \in T : m >= y
    BY <1>5, <1>6, <1>1
  <1>9. Min(T) \in T /\ \A y \in T : Min(T) <= y
    BY <1>2, Zenon DEF Min
  <1>10. Max(T) \in T /\ \A y \in T : Max(T) >= y
    BY <1>8, Zenon DEF Max
  <1>. QED
    BY <1>1, <1>7, <1>9, <1>10

Name == Seq(Nat)
\* A line as it was written, and texts.
AnyLine ==
    {l \in [kind : {"blank", "neither", "section", "item"}, indent : BOOLEAN, name : Name,
            val : {Plain(n) : n \in Nat}] :
        /\ l.val = NotFound => l.kind \in {"section", "neither"} /\ ~l.indent
        /\ l.kind = "neither" => ~l.indent}
Val == {v \in [num : Nat \ {0}, form : {"plain", "trims", "long", "breaks"}, rest : Seq(AnyLine)] :
            v.form # "breaks" => v.rest = << >>}
Item == [key : Name, val : Val]
Section == [name : Name, items : Seq(Item)]

\* No section has a name that begins with that of a later one.
Distinct(st) == \A i, j \in DOMAIN st : i < j => ~Matches(st[i].name, st[j].name)

Has(st, section, key) ==
    \E i \in DOMAIN st : /\ Matches(st[i].name, section)
                         /\ \E j \in DOMAIN st[i].items : Matches(st[i].items[j].key, key)

\* What holds of the sections, and that every pair of names in the file leads to an item.
IniInv ==
    /\ linesRead \in Nat /\ calls \in Nat /\ parser.section \in Name /\ parser.key \in Name
    /\ store \in Seq(Section) /\ Distinct(store)
    /\ iniPhase # "wrecked" /\ ~deleted => \A line \in given : Has(store, line[1], line[2])

LEMMA MatchesSelf ==
    ASSUME NEW name \in Name
    PROVE  Matches(name, name)
  <1>1. Len(name) \in Nat
    BY DEF Name
  <1>. QED
    BY <1>1 DEF Matches, IsPrefix

\* What is found: the value of an item.
LEMMA SearchHits ==
    ASSUME NEW st \in Seq(Section), NEW section, NEW key, Has(st, section, key)
    PROVE  Search(st, section, key) # NotFound
  <1>. DEFINE J(i) == {j \in 1 .. Len(st[i].items) : Matches(st[i].items[j].key, key)}
              P(i) == IF J(i) # {} THEN Min(J(i)) ELSE 0
              hits == {i \in DOMAIN st : Matches(st[i].name, section) /\ P(i) > 0}
              last == CHOOSE i \in hits : \A other \in hits : other <= i
  <1>1. Search(st, section, key) = IF hits = {} THEN NotFound ELSE st[last].items[P(last)].val
    BY DEF Search, SelectInSeq
  <1>2. \A i \in DOMAIN st : st[i] \in Section
    OBVIOUS
  <1>3. \A i \in DOMAIN st : st[i].items \in Seq(Item)
    BY <1>2 DEF Section
  <1>4. \A i \in DOMAIN st : /\ Len(st[i].items) \in Nat /\ DOMAIN st[i].items = 1 .. Len(st[i].items)
                             /\ \A j \in 1 .. Len(st[i].items) : st[i].items[j] \in Item
    BY <1>3
  <1>5. ASSUME NEW i \in DOMAIN st, J(i) # {}
        PROVE  P(i) \in J(i)
    <2>1. J(i) \in SUBSET (1 .. Len(st[i].items)) /\ Len(st[i].items) \in Nat
      BY <1>4
    <2>2. Min(J(i)) \in J(i)
      <3>. HIDE DEF J
      <3>. QED
        BY <1>5, <2>1, FirstAndLast
    <2>. QED
      BY <1>5, <2>2
  <1>6. \A i \in DOMAIN st : J(i) # {} => P(i) > 0
    <2>. TAKE i \in DOMAIN st
    <2>. HAVE J(i) # {}
    <2>1. P(i) \in J(i)
      BY <1>5
    <2>2. P(i) \in 1 .. Len(st[i].items)
      BY <2>1
    <2>. HIDE DEF P
    <2>. QED
      BY <2>2, <1>4
  <1>7. hits # {}
    <2>1. PICK i \in DOMAIN st : /\ Matches(st[i].name, section)
                                 /\ \E j \in DOMAIN st[i].items : Matches(st[i].items[j].key, key)
      BY DEF Has
    <2>2. J(i) # {}
      BY <2>1, <1>4
    <2>3. P(i) > 0
      BY <2>2, <1>6
    <2>. HIDE DEF P
    <2>. QED
      BY <2>1, <2>3
  <1>8. last \in hits
    <2>1. hits \in SUBSET (1 .. Len(st)) /\ Len(st) \in Nat
      OBVIOUS
    <2>. HIDE DEF hits
    <2>2. \E i \in hits : \A y \in hits : y <= i
      BY <1>7, <2>1, FirstAndLast
    <2>. QED
      BY <2>2, Zenon
  <1>. HIDE DEF last
  <1>9. last \in DOMAIN st /\ P(last) > 0
    BY <1>8
  <1>10. J(last) # {}
    BY <1>9
  <1>11. P(last) \in J(last)
    BY <1>5, <1>9, <1>10
  <1>12. P(last) \in 1 .. Len(st[last].items)
    BY <1>11
  <1>13. st[last].items[P(last)] \in Item
    BY <1>4, <1>9, <1>12
  <1>14. st[last].items[P(last)].val # NotFound
    <2>. DEFINE val == st[last].items[P(last)].val
    <2>1. val \in Val
      <3>. HIDE DEF P
      <3>. QED
        BY <1>13 DEF Item
    <2>. HIDE DEF val
    <2>2. val.num # 0
      BY <2>1 DEF Val
    <2>3. NotFound.num = 0
      BY DEF NotFound, Plain
    <2>. QED
      BY <2>2, <2>3 DEF val
  <1>. QED
    BY <1>1, <1>7, <1>14

\* Beginnings of sequences.
LEMMA BeginsIs ==
    ASSUME NEW S, NEW a \in Seq(S), NEW b \in Seq(S)
    PROVE  IsPrefix(a, b) <=> Len(a) <= Len(b) /\ \A k \in 1 .. Len(a) : a[k] = b[k]
  <1>1. /\ Len(a) \in Nat /\ Len(b) \in Nat
        /\ \A k \in 1 .. Len(a) : a[k] \in S
        /\ \A k \in 1 .. Len(b) : b[k] \in S
    OBVIOUS
  <1>2. ASSUME Len(a) <= Len(b)
        PROVE  SubSeq(a, 1, Len(a)) = SubSeq(b, 1, Len(a)) <=> \A k \in 1 .. Len(a) : a[k] = b[k]
    <2>. DEFINE c == SubSeq(b, 1, Len(a))
    <2>1. \A k \in 1 .. Len(a) : b[k] \in S
      BY <1>1, <1>2
    <2>2. c \in Seq(S) /\ Len(c) = Len(a) /\ \A k \in 1 .. Len(a) : c[k] = b[k]
      BY <1>1, <1>2, <2>1, SubSeqProperties
    <2>3. SubSeq(a, 1, Len(a)) = a
      BY SubSeqFull
    <2>. HIDE DEF c
    <2>4. a = c <=> \A k \in 1 .. Len(a) : a[k] = c[k]
      BY <2>2, SeqEqual
    <2>5. (\A k \in 1 .. Len(a) : a[k] = c[k]) <=> \A k \in 1 .. Len(a) : a[k] = b[k]
      BY <2>2
    <2>. QED
      BY <2>3, <2>4, <2>5 DEF c
  <1>. QED
    BY <1>2 DEF IsPrefix

LEMMA PrefixOfSelf ==
    ASSUME NEW S, NEW a \in Seq(S)
    PROVE  IsPrefix(a, a)
  <1>1. Len(a) <= Len(a)
    OBVIOUS
  <1>. QED
    BY <1>1, BeginsIs

LEMMA PrefixOfAppend ==
    ASSUME NEW S, NEW a \in Seq(S), NEW e \in S
    PROVE  IsPrefix(a, Append(a, e))
  <1>. DEFINE b == Append(a, e)
  <1>1. b \in Seq(S) /\ Len(a) <= Len(b) /\ \A k \in 1 .. Len(a) : a[k] = b[k]
    OBVIOUS
  <1>. HIDE DEF b
  <1>2. IsPrefix(a, b)
    BY <1>1, BeginsIs, Zenon
  <1>. QED
    BY <1>2 DEF b

LEMMA GrowsSelf ==
    ASSUME NEW st \in Seq(Section)
    PROVE  Grows(st, st)
  <1>0. \A i \in DOMAIN st : st[i] \in Section
    OBVIOUS
  <1>1. \A i \in DOMAIN st : st[i].items \in Seq(Item)
    BY <1>0 DEF Section
  <1>2. Len(st) <= Len(st)
    OBVIOUS
  <1>. QED
    BY <1>1, <1>2, PrefixOfSelf DEF Grows

LEMMA GrowsTwice ==
    ASSUME NEW a \in Seq(Section), NEW b \in Seq(Section), NEW c \in Seq(Section), Grows(a, b), Grows(b, c)
    PROVE  Grows(a, c)
  <1>1. Len(a) <= Len(b) /\ Len(b) <= Len(c) /\ Len(a) \in Nat /\ Len(b) \in Nat /\ Len(c) \in Nat
    BY DEF Grows
  <1>2. ASSUME NEW i \in DOMAIN a PROVE a[i].name = c[i].name /\ IsPrefix(a[i].items, c[i].items)
    <2>1. i \in DOMAIN b /\ i \in DOMAIN c
      BY <1>1
    <2>. DEFINE x == a[i].items
                y == b[i].items
                z == c[i].items
    <2>2. x \in Seq(Item) /\ y \in Seq(Item) /\ z \in Seq(Item)
      <3>1. a[i] \in Section /\ b[i] \in Section /\ c[i] \in Section
        BY <2>1
      <3>. QED
        BY <3>1 DEF Section
    <2>3. IsPrefix(x, y) /\ IsPrefix(y, z) /\ a[i].name = b[i].name /\ b[i].name = c[i].name
      BY <2>1 DEF Grows
    <2>. HIDE DEF x, y, z
    <2>4. /\ Len(x) <= Len(y) /\ \A k \in 1 .. Len(x) : x[k] = y[k]
          /\ Len(y) <= Len(z) /\ \A k \in 1 .. Len(y) : y[k] = z[k]
          /\ Len(x) \in Nat /\ Len(y) \in Nat /\ Len(z) \in Nat
      BY <2>2, <2>3, BeginsIs
    <2>5. Len(x) <= Len(z) /\ \A k \in 1 .. Len(x) : x[k] = z[k]
      BY <2>4
    <2>6. IsPrefix(x, z)
      BY <2>2, <2>5, BeginsIs
    <2>. QED
      BY <2>3, <2>6 DEF x, z
  <1>. QED
    BY <1>1, <1>2 DEF Grows

\* One more item in a section.
LEMMA PutConfIs ==
    ASSUME NEW st \in Seq(Section), Distinct(st), NEW i \in DOMAIN st, NEW key \in Name, NEW val \in Val
    PROVE  /\ PutConf(st, i, key, val) \in Seq(Section) /\ Distinct(PutConf(st, i, key, val))
           /\ Grows(st, PutConf(st, i, key, val))
           /\ \A section : Matches(st[i].name, section) => Has(PutConf(st, i, key, val), section, key)
           /\ \A s, k : Has(st, s, k) => Has(PutConf(st, i, key, val), s, k)
  <1>. DEFINE item == [key |-> key, val |-> val]
              items == Append(st[i].items, item)
              old == st[i].items
              r == PutConf(st, i, key, val)
  <1>1. item \in Item /\ st[i] \in Section
    BY DEF Item
  <1>. HIDE DEF item
  <1>2. old \in Seq(Item) /\ st[i].name \in Name
    BY <1>1 DEF Section
  <1>. HIDE DEF old
  <1>3. /\ items \in Seq(Item) /\ Len(items) = Len(old) + 1 /\ Len(old) \in Nat
        /\ DOMAIN old = 1 .. Len(old) /\ DOMAIN items = 1 .. Len(items)
        /\ \A j \in 1 .. Len(old) : items[j] = old[j]
        /\ items[Len(old) + 1] = item
    BY <1>1, <1>2 DEF old
  <1>4. PICK name \in Name, its \in Seq(Item) : st[i] = [name |-> name, items |-> its]
    BY <1>1 DEF Section
  <1>5. r = [st EXCEPT ![i] = [name |-> name, items |-> items]]
    <2>1. r = [st EXCEPT ![i] = [st[i] EXCEPT !.items = items]]
      BY DEF PutConf, item
    <2>. HIDE DEF r, items
    <2>2. [st[i] EXCEPT !.items = items] = [name |-> name, items |-> items]
      BY <1>4
    <2>. QED
      BY <2>1, <2>2
  <1>. HIDE DEF r
  <1>6. name = st[i].name
    BY <1>4
  <1>. HIDE DEF items
  <1>7. [name |-> name, items |-> items] \in Section
    BY <1>3 DEF Section
  <1>8. /\ r \in Seq(Section) /\ DOMAIN r = DOMAIN st
        /\ r[i] = [name |-> name, items |-> items]
        /\ \A o \in DOMAIN st : o # i => r[o] = st[o]
    BY <1>5, <1>7
  <1>9. \A o \in DOMAIN st : r[o].name = st[o].name
    BY <1>6, <1>8
  <1>10. Distinct(r)
    BY <1>8, <1>9 DEF Distinct
  <1>11. \A section : Matches(st[i].name, section) => Has(r, section, key)
    <2>1. Len(old) + 1 \in DOMAIN items /\ items[Len(old) + 1].key = key
      BY <1>3 DEF item
    <2>2. Matches(key, key)
      BY MatchesSelf
    <2>3. r[i].items = items
      BY <1>8
    <2>. QED
      BY <1>6, <1>8, <1>9, <2>1, <2>2, <2>3 DEF Has
  <1>12. ASSUME NEW s, NEW k, Has(st, s, k) PROVE Has(r, s, k)
    <2>1. PICK o \in DOMAIN st : /\ Matches(st[o].name, s)
                                 /\ \E j \in DOMAIN st[o].items : Matches(st[o].items[j].key, k)
      BY <1>12 DEF Has
    <2>2. PICK j \in DOMAIN st[o].items : Matches(st[o].items[j].key, k)
      BY <2>1
    <2>3. j \in DOMAIN r[o].items /\ r[o].items[j] = st[o].items[j]
      <3>1. CASE o = i
        <4>1. j \in DOMAIN old
          BY <2>2, <3>1 DEF old
        <4>2. j \in DOMAIN items /\ items[j] = old[j]
          BY <4>1, <1>3
        <4>. QED
          BY <3>1, <4>2, <1>8 DEF old
      <3>2. CASE o # i
        BY <3>2, <2>2, <1>8
      <3>. QED
        BY <3>1, <3>2
    <2>. QED
      BY <1>8, <1>9, <2>1, <2>2, <2>3 DEF Has
  <1>13. Grows(st, r)
    <2>1. ASSUME NEW o \in DOMAIN st PROVE IsPrefix(st[o].items, r[o].items)
      <3>1. CASE o = i
        <4>1. IsPrefix(old, items)
          BY <1>1, <1>2, PrefixOfAppend DEF items, old
        <4>. QED
          BY <1>8, <3>1, <4>1 DEF old
      <3>2. CASE o # i
        <4>1. r[o] = st[o] /\ st[o] \in Section
          BY <1>8, <3>2
        <4>2. st[o].items \in Seq(Item)
          BY <4>1 DEF Section
        <4>. QED
          BY <4>1, <4>2, PrefixOfSelf
      <3>. QED
        BY <3>1, <3>2
    <2>2. Len(st) <= Len(r)
      BY <1>8
    <2>. QED
      BY <1>9, <2>1, <2>2 DEF Grows
  <1>. QED
    BY <1>8, <1>10, <1>11, <1>12, <1>13 DEF r

\* stl_ini_on_item_func: the item is where a search looks for it, and nothing is lost.
LEMMA OnItemIs ==
    ASSUME NEW st \in Seq(Section), Distinct(st), NEW section \in Name, NEW key \in Name, NEW val \in Val
    PROVE  /\ OnItem(st, section, key, val) \in Seq(Section) /\ Distinct(OnItem(st, section, key, val))
           /\ Grows(st, OnItem(st, section, key, val))
           /\ Has(OnItem(st, section, key, val), section, key)
           /\ \A s, k : Has(st, s, k) => Has(OnItem(st, section, key, val), s, k)
  <1>. DEFINE I == {i \in 1 .. Len(st) : Matches(st[i].name, section)}
              at == IF I # {} THEN Max(I) ELSE 0
              new == Append(st, [name |-> section, items |-> << >>])
  <1>1. OnItem(st, section, key, val) =
            IF at > 0 THEN PutConf(st, at, key, val) ELSE PutConf(new, Len(st) + 1, key, val)
    BY DEF OnItem, SelectLastInSeq
  <1>2. Len(st) \in Nat /\ DOMAIN st = 1 .. Len(st) /\ I \in SUBSET (1 .. Len(st))
    OBVIOUS
  <1>3. CASE I # {}
    <2>1. Max(I) \in I
      <3>. HIDE DEF I
      <3>. QED
        BY <1>2, <1>3, FirstAndLast
    <2>2. at \in 1 .. Len(st) /\ Matches(st[at].name, section)
      BY <1>3, <2>1
    <2>. HIDE DEF at
    <2>3. at > 0 /\ at \in DOMAIN st
      BY <2>2, <1>2
    <2>4. OnItem(st, section, key, val) = PutConf(st, at, key, val)
      BY <1>1, <2>3
    <2>. QED
      BY <2>2, <2>3, <2>4, PutConfIs
  <1>4. CASE I = {}
    <2>. DEFINE i == Len(st) + 1
                s0 == [name |-> section, items |-> << >>]
    <2>1. OnItem(st, section, key, val) = PutConf(new, i, key, val)
      BY <1>1, <1>4
    <2>2. s0 \in Section /\ s0.name = section
      BY DEF Section
    <2>. HIDE DEF s0
    <2>3. /\ new \in Seq(Section) /\ DOMAIN new = 1 .. i /\ i \in DOMAIN new /\ new[i] = s0
          /\ \A o \in DOMAIN st : o \in DOMAIN new /\ new[o] = st[o]
      BY <2>2, <1>2 DEF s0
    <2>. HIDE DEF new
    <2>4. Distinct(new)
      <3>. SUFFICES ASSUME NEW a \in DOMAIN new, NEW b \in DOMAIN new, a < b
                    PROVE  ~Matches(new[a].name, new[b].name)
        BY DEF Distinct
      <3>1. a \in DOMAIN st /\ (b \in DOMAIN st \/ b = i)
        BY <1>2, <2>3
      <3>2. CASE b \in DOMAIN st
        BY <3>1, <3>2, <2>3 DEF Distinct
      <3>3. CASE b = i
        <4>1. ~Matches(st[a].name, section)
          BY <1>2, <1>4, <3>1
        <4>. QED
          BY <3>1, <3>3, <4>1, <2>2, <2>3
      <3>. QED
        BY <3>1, <3>2, <3>3
    <2>5. \A s, k : Has(st, s, k) => Has(new, s, k)
      BY <2>3 DEF Has
    <2>6. Matches(new[i].name, section)
      BY <2>2, <2>3, MatchesSelf
    <2>7. Grows(st, new)
      <3>1. \A o \in DOMAIN st : st[o].items \in Seq(Item)
        <4>1. \A o \in DOMAIN st : st[o] \in Section
          OBVIOUS
        <4>. QED
          BY <4>1 DEF Section
      <3>2. Len(st) <= Len(new)
        BY <1>2, <2>3
      <3>. QED
        BY <2>3, <3>1, <3>2, PrefixOfSelf DEF Grows
    <2>8. /\ PutConf(new, i, key, val) \in Seq(Section)
          /\ Grows(new, PutConf(new, i, key, val))
      BY <2>3, <2>4, PutConfIs
    <2>9. Grows(st, OnItem(st, section, key, val))
      BY <2>1, <2>3, <2>7, <2>8, GrowsTwice
    <2>. QED
      BY <2>1, <2>3, <2>4, <2>5, <2>6, <2>9, PutConfIs
  <1>. QED
    BY <1>3, <1>4

\* What the parser may get.
Readable(line) ==
    /\ line.kind \in {"blank", "neither", "section", "item"} /\ line.indent \in BOOLEAN
    /\ line.kind \in {"section", "item"} => line.name \in Name
    /\ line.kind = "item" \/ (line.kind # "blank" /\ line.indent) => line.val \in Val
    /\ line.kind = "neither" => ~line.indent

\* One line of a file.  A new item is that of the names which the parser has then.
LEMMA ParseLineIs ==
    ASSUME NEW st \in Seq(Section), Distinct(st), NEW section \in Name, NEW key \in Name,
           NEW line, Readable(line),
           NEW p, p = ParseLine([section |-> section, key |-> key, ok |-> TRUE, store |-> st], line)
    PROVE  /\ p.store \in Seq(Section) /\ Distinct(p.store) /\ p.section \in Name /\ p.key \in Name
           /\ Grows(st, p.store)
           /\ p = [section |-> p.section, key |-> p.key, ok |-> p.ok, store |-> p.store] /\ p.ok \in BOOLEAN
           /\ p.store # st => Has(p.store, p.section, p.key)
           /\ \A s, k : Has(st, s, k) => Has(p.store, s, k)
  <1>. DEFINE p0 == [section |-> section, key |-> key, ok |-> TRUE, store |-> st]
  <1>1. /\ line.kind \in {"blank", "neither", "section", "item"} /\ line.indent \in BOOLEAN
        /\ line.kind \in {"section", "item"} => line.name \in Name
        /\ line.kind = "item" \/ (line.kind # "blank" /\ line.indent) => line.val \in Val
        /\ line.kind = "neither" => ~line.indent
    BY DEF Readable
  <1>0. Grows(st, st)
    BY GrowsSelf
  <1>2. CASE line.kind = "blank"
    BY <1>0, <1>2 DEF ParseLine
  <1>7. NoName \in Name
    BY DEF NoName, Name
  <1>3. CASE line.kind # "blank" /\ line.indent /\ key # NoName
    <2>1. p = [p0 EXCEPT !.store = OnItem(@, p0.section, p0.key, line.val)]
      BY <1>1, <1>3 DEF ParseLine
    <2>. DEFINE r == OnItem(st, section, key, line.val)
    <2>2. p = [p0 EXCEPT !.store = r]
      BY <1>1, <2>1
    <2>. HIDE DEF r
    <2>3. p.store = r /\ p.section = section /\ p.key = key /\ p.ok = TRUE
          /\ p = [section |-> section, key |-> key, ok |-> TRUE, store |-> r]
      BY <2>2
    <2>4. /\ r \in Seq(Section) /\ Distinct(r) /\ Has(r, section, key) /\ Grows(st, r)
          /\ \A s, k : Has(st, s, k) => Has(r, s, k)
      <3>1. line.val \in Val
        BY <1>1, <1>3
      <3>. QED
        BY <3>1, OnItemIs DEF r
    <2>. QED
      BY <2>3, <2>4, Zenon
  <1>4. CASE line.kind = "section" /\ ~(line.indent /\ key # NoName)
    <2>1. p = [p0 EXCEPT !.key = NoName, !.section = line.name]
      BY <1>4 DEF ParseLine
    <2>2. p.store = st /\ p.section = line.name /\ p.key = NoName /\ p.ok = TRUE
          /\ p = [section |-> line.name, key |-> NoName, ok |-> TRUE, store |-> st]
      BY <2>1
    <2>3. line.name \in Name
      BY <1>1, <1>4
    <2>. QED
      BY <1>0, <1>7, <2>2, <2>3, Zenon
  <1>5. CASE line.kind = "item" /\ ~(line.indent /\ key # NoName)
    <2>1. p = [p0 EXCEPT !.key = line.name, !.store = OnItem(@, p0.section, line.name, line.val)]
      BY <1>5 DEF ParseLine
    <2>. DEFINE r == OnItem(st, section, line.name, line.val)
    <2>2. p = [p0 EXCEPT !.key = line.name, !.store = r]
      BY <1>1, <2>1
    <2>5. line.name \in Name
      BY <1>1, <1>5
    <2>. HIDE DEF r
    <2>3. p.store = r /\ p.section = section /\ p.key = line.name /\ p.ok = TRUE
          /\ p = [section |-> section, key |-> line.name, ok |-> TRUE, store |-> r]
      BY <2>2
    <2>4. /\ r \in Seq(Section) /\ Distinct(r) /\ Has(r, section, line.name) /\ Grows(st, r)
          /\ \A s, k : Has(st, s, k) => Has(r, s, k)
      <3>1. line.kind = "item"
        BY <1>5
      <3>2. line.val \in Val
        BY <1>1, <3>1, Zenon
      <3>. QED
        BY <2>5, <3>2, OnItemIs DEF r
    <2>. QED
      BY <2>3, <2>4, <2>5, Zenon
  <1>6. CASE line.kind = "neither" /\ ~(line.indent /\ key # NoName)
    <2>1. p = [p0 EXCEPT !.ok = FALSE]
      BY <1>1, <1>6 DEF ParseLine
    <2>2. p.store = st /\ p.section = section /\ p.key = key /\ p.ok = FALSE
          /\ p = [section |-> section, key |-> key, ok |-> FALSE, store |-> st]
      BY <2>1
    <2>. QED
      BY <1>0, <2>2, Zenon
  <1>. QED
    BY <1>1, <1>2, <1>3, <1>4, <1>5, <1>6

\* Texts of files and calls.
LEMMA TextIs ==
    ASSUME NEW n \in Nat \ {0}
    PROVE  FileText(n) \subseteq Val /\ Text(n) \subseteq Val
  <1>1. << >> \in Seq(AnyLine)
    OBVIOUS
  <1>2. ASSUME NEW form \in {"plain", "trims", "long"} PROVE [Plain(n) EXCEPT !.form = form] \in Val
    BY <1>1 DEF Plain, Val
  <1>3. Line(Plain(n)) \subseteq AnyLine
    <2>1. Plain(n) # NotFound /\ Plain(n) \in {Plain(m) : m \in Nat}
      <3>1. Plain(n).num = n /\ NotFound.num = 0
        BY DEF NotFound, Plain
      <3>. QED
        BY <3>1
    <2>2. SectionName \subseteq Name /\ KeyName \subseteq Name /\ NoName \in Name
      BY IniAssumption DEF Name, NoName
    <2>. HIDE DEF Plain
    <2>. QED
      BY <2>1, <2>2 DEF Line, AnyLine
  <1>4. ASSUME NEW line \in Line(Plain(n)) PROVE <<line>> \in Seq(AnyLine)
    BY <1>3
  <1>5. [num : {n}, form : {"breaks"}, rest : {<<line>> : line \in Line(Plain(n))}] \subseteq Val
    BY <1>4 DEF Val
  <1>6. FileText(n) \subseteq Val
    BY <1>2, IniAssumption DEF FileText
  <1>. QED
    BY <1>2, <1>5, <1>6 DEF Text

LEMMA IniStart == IniInit => IniInv
  <1>. SUFFICES ASSUME IniInit PROVE IniInv
    OBVIOUS
  <1>1. << >> \in Seq(Section) /\ Distinct(<< >>) /\ NoName \in Name
    BY DEF Distinct, NoName, Name
  <1>. QED
    BY <1>1 DEF IniInit, IniInv

LEMMA IniRead ==
    ASSUME IniInv, ReadLine
    PROVE  IniInv'
  <1>. DEFINE now == [section |-> parser.section, key |-> parser.key, ok |-> TRUE, store |-> store]
  <1>1. PICK val \in FileText(linesRead + 1) : \E line \in Line(val) :
          LET p == ParseLine(now, line)
          IN /\ store' = p.store
             /\ parser' = [section |-> p.section, key |-> p.key]
             /\ iniPhase' = IF p.ok THEN "parsing" ELSE "ready"
             /\ given' = IF p.store = store THEN given ELSE given \cup {<<p.section, p.key>>}
    BY DEF ReadLine
  <1>0. PICK line \in Line(val) :
          LET p == ParseLine(now, line)
          IN /\ store' = p.store
             /\ parser' = [section |-> p.section, key |-> p.key]
             /\ iniPhase' = IF p.ok THEN "parsing" ELSE "ready"
             /\ given' = IF p.store = store THEN given ELSE given \cup {<<p.section, p.key>>}
    BY <1>1
  <1>. DEFINE p == ParseLine(now, line)
  <1>2. /\ store' = p.store /\ parser' = [section |-> p.section, key |-> p.key]
        /\ given' = IF p.store = store THEN given ELSE given \cup {<<p.section, p.key>>}
    BY <1>0
  <1>3. /\ iniPhase = "parsing" /\ linesRead' = linesRead + 1 /\ calls' = calls /\ deleted' = deleted
    BY DEF ReadLine
  <1>4. /\ linesRead \in Nat /\ calls \in Nat /\ parser.section \in Name /\ parser.key \in Name
        /\ store \in Seq(Section) /\ Distinct(store)
        /\ ~deleted => \A l \in given : Has(store, l[1], l[2])
    BY <1>3 DEF IniInv
  <1>5. linesRead + 1 \in Nat /\ val \in Val
    <2>1. linesRead + 1 \in Nat \ {0}
      BY <1>4
    <2>. QED
      BY <2>1, TextIs
  <1>6. /\ p.store \in Seq(Section) /\ Distinct(p.store) /\ p.section \in Name /\ p.key \in Name
        /\ p.store # store => Has(p.store, p.section, p.key)
        /\ \A s, k : Has(store, s, k) => Has(p.store, s, k)
    <2>. HIDE DEF p
    <2>1. p = ParseLine(now, line)
      BY DEF p
    <2>. QED
      <3>1. Readable(line)
        BY <1>5, IniAssumption DEF Readable, Line, Name
      <3>. QED
        BY <1>4, <2>1, <3>1, ParseLineIs
  <1>. HIDE DEF p
  <1>7. ~deleted => \A l \in given' : Has(store', l[1], l[2])
    <2>. SUFFICES ASSUME ~deleted, NEW l \in given' PROVE Has(store', l[1], l[2])
      OBVIOUS
    <2>1. CASE l \in given
      BY <2>1, <1>2, <1>4, <1>6
    <2>2. CASE l \notin given
      <3>1. p.store # store /\ l = <<p.section, p.key>>
        BY <1>2, <2>2
      <3>. QED
        BY <3>1, <1>2, <1>6
    <2>. QED
      BY <2>1, <2>2
  <1>8. parser'.section = p.section /\ parser'.key = p.key
    BY <1>2
  <1>. QED
    BY <1>2, <1>3, <1>5, <1>4, <1>6, <1>7, <1>8 DEF IniInv

\* The first section that matches.
LEMMA FirstSectionIs ==
    ASSUME store \in Seq(Section), NEW section
    PROVE  FirstSection(section) = 0 \/ FirstSection(section) \in DOMAIN store
  <1>. DEFINE I == {i \in 1 .. Len(store) : Matches(store[i].name, section)}
  <1>1. FirstSection(section) = IF I # {} THEN Min(I) ELSE 0
    BY DEF FirstSection, SelectInSeq
  <1>2. I \in SUBSET (1 .. Len(store)) /\ Len(store) \in Nat /\ DOMAIN store = 1 .. Len(store)
    OBVIOUS
  <1>. HIDE DEF I
  <1>. QED
    BY <1>1, <1>2, FirstAndLast

LEMMA IniPut ==
    ASSUME IniInv, NEW section \in SectionName, NEW key \in KeyName,
           NEW val \in Text(linesRead + calls + 1), Put(section, key, val)
    PROVE  IniInv'
  <1>. DEFINE i == FirstSection(section)
              there == i > 0 /\ \E item \in ToSet(store[i].items) : Matches(item.key, key)
  <1>1. /\ iniPhase = "ready" /\ calls' = calls + 1
        /\ store' = IF there THEN PutConf(store, i, key, val) ELSE store
        /\ parser' = parser /\ iniPhase' = iniPhase /\ linesRead' = linesRead /\ given' = given
        /\ deleted' = deleted
    BY DEF Put
  <1>2. /\ linesRead \in Nat /\ calls \in Nat /\ parser.section \in Name /\ parser.key \in Name
        /\ store \in Seq(Section) /\ Distinct(store)
        /\ ~deleted => \A l \in given : Has(store, l[1], l[2])
    BY <1>1 DEF IniInv
  <1>3. calls' \in Nat /\ val \in Val /\ key \in Name
    <2>1. linesRead + calls + 1 \in Nat \ {0} /\ calls' \in Nat
      BY <1>1, <1>2
    <2>2. key \in Name
      BY IniAssumption DEF Name
    <2>. QED
      BY <2>1, <2>2, TextIs
  <1>4. there => i \in DOMAIN store
    <2>1. i = 0 \/ i \in DOMAIN store
      BY <1>2, FirstSectionIs
    <2>. HIDE DEF i
    <2>. QED
      BY <2>1
  <1>. HIDE DEF there, i
  <1>5. /\ store' \in Seq(Section) /\ Distinct(store')
        /\ \A s, k : Has(store, s, k) => Has(store', s, k)
    <2>1. CASE there
      BY <1>1, <1>2, <1>3, <1>4, <2>1, PutConfIs
    <2>2. CASE ~there
      BY <1>1, <1>2, <2>2
    <2>. QED
      BY <2>1, <2>2
  <1>. QED
    BY <1>1, <1>2, <1>3, <1>5 DEF IniInv

LEMMA ItemRemoved ==
    ASSUME NEW items \in Seq(Item), NEW j \in DOMAIN items
    PROVE  RemoveAt(items, j) \in Seq(Item)
  <1>1. Len(items) \in Nat /\ j \in 1 .. Len(items) /\ \A i \in 1 .. Len(items) : items[i] \in Item
    OBVIOUS
  <1>2. SubSeq(items, 1, j - 1) \in Seq(Item)
    BY <1>1, SubSeqProperties
  <1>3. SubSeq(items, j + 1, Len(items)) \in Seq(Item)
    BY <1>1, SubSeqProperties
  <1>. QED
    BY <1>2, <1>3, ConcatProperties DEF RemoveAt

LEMMA IniDel ==
    ASSUME IniInv, NEW section \in SectionName, NEW key \in KeyName, Del(section, key)
    PROVE  IniInv'
  <1>. DEFINE i == FirstSection(section)
              items == store[i].items
              J == {n \in 1 .. Len(items) : Matches(items[n].key, key)}
              j == IF J # {} THEN Min(J) ELSE 0
              at == IF j = 0 THEN Len(items) ELSE j
  <1>1. /\ calls' = calls + 1 /\ deleted' = TRUE /\ parser' = parser /\ linesRead' = linesRead
        /\ \/ store' = store
           \/ i # 0 /\ items # << >> /\ store' = [store EXCEPT ![i].items = RemoveAt(items, at)]
    BY DEF Del, SelectInSeq
  <1>2. /\ linesRead \in Nat /\ calls \in Nat /\ parser.section \in Name /\ parser.key \in Name
        /\ store \in Seq(Section) /\ Distinct(store)
    BY DEF IniInv
  <1>3. i = 0 \/ i \in DOMAIN store
    BY <1>2, FirstSectionIs
  <1>. HIDE DEF i
  <1>4. CASE i # 0 /\ items # << >> /\ store' = [store EXCEPT ![i].items = RemoveAt(items, at)]
    <2>1. i \in DOMAIN store
      BY <1>3, <1>4
    <2>2. store[i] \in Section
      BY <1>2, <2>1
    <2>3. PICK name \in Name, its \in Seq(Item) : store[i] = [name |-> name, items |-> its]
      BY <2>2 DEF Section
    <2>4. items = its /\ its \in Seq(Item) /\ its # << >>
      BY <2>3, <1>4
    <2>5. J \in SUBSET (1 .. Len(items)) /\ Len(items) \in Nat /\ Len(items) # 0 /\ DOMAIN items = 1 .. Len(items)
      BY <2>4
    <2>. HIDE DEF items, J
    <2>6. at \in DOMAIN items
      <3>1. CASE J = {}
        BY <3>1, <2>5
      <3>2. CASE J # {}
        <4>1. Min(J) \in J
          BY <3>2, <2>5, FirstAndLast
        <4>2. j \in 1 .. Len(items)
          BY <3>2, <4>1, <2>5
        <4>. HIDE DEF j
        <4>. QED
          BY <4>2, <2>5
      <3>. QED
        BY <3>1, <3>2
    <2>. HIDE DEF at
    <2>7. RemoveAt(items, at) \in Seq(Item)
      BY <2>4, <2>6, ItemRemoved
    <2>. DEFINE rest == RemoveAt(items, at)
                s1 == [name |-> name, items |-> rest]
    <2>8. store' = [store EXCEPT ![i] = [store[i] EXCEPT !.items = rest]]
      BY <1>4
    <2>. HIDE DEF rest
    <2>9. [store[i] EXCEPT !.items = rest] = s1
      BY <2>3
    <2>10. s1 \in Section /\ s1.name = store[i].name
      BY <2>3, <2>7 DEF Section, rest
    <2>. HIDE DEF s1
    <2>11. store' = [store EXCEPT ![i] = s1]
      BY <2>8, <2>9
    <2>12. /\ store' \in Seq(Section) /\ DOMAIN store' = DOMAIN store
           /\ \A o \in DOMAIN store : store'[o].name = store[o].name
      BY <1>2, <2>1, <2>10, <2>11
    <2>13. Distinct(store')
      BY <1>2, <2>12 DEF Distinct
    <2>. QED
      BY <1>1, <1>2, <2>12, <2>13 DEF IniInv
  <1>5. CASE store' = store
    BY <1>1, <1>2, <1>5 DEF IniInv
  <1>. QED
    BY <1>1, <1>4, <1>5

LEMMA IniStep ==
    ASSUME IniInv, [IniNext]_iniVars
    PROVE  IniInv'
  <1>1. CASE ReadLine
    BY <1>1, IniRead
  <1>2. CASE EndOfInput
    BY <1>2 DEF EndOfInput, IniInv
  <1>3. CASE IniDeinit
    <2>1. << >> \in Seq(Section) /\ Distinct(<< >>)
      BY DEF Distinct
    <2>. QED
      BY <1>3, <2>1 DEF IniDeinit, IniInv
  <1>4. ASSUME NEW section \in SectionName, NEW key \in KeyName,
               Del(section, key) \/ \E val \in Text(linesRead + calls + 1) : Put(section, key, val)
        PROVE  IniInv'
    BY <1>4, IniPut, IniDel
  <1>5. CASE UNCHANGED iniVars
    BY <1>5 DEF iniVars, IniInv
  <1>. QED
    BY <1>1, <1>2, <1>3, <1>4, <1>5 DEF IniNext

\* The sections are such that no name begins with that of a later section, and
\* while nothing is deleted an item is there for every pair of names in the file.
THEOREM IniInvariant == IniSpec => []IniInv
  <1>. QED
    BY IniStart, IniStep, PTL DEF IniSpec

\* FoundAgain, for any names, lines and calls.
THEOREM KeysFoundAgain == IniSpec => []FoundAgain
  <1>1. IniInv => FoundAgain
    BY SearchHits DEF IniInv, FoundAgain
  <1>. QED
    BY <1>1, IniInvariant, PTL

-----------------------------------------------------------------------------
(* Writing a configuration file and reading it back. *)

\* What stl_ini_parse has after every line.
IsParse(lines, k, f) ==
    f = [i \in 0 .. k |-> IF i = 0 THEN Parsing ELSE ParseLine(f[i - 1], lines[i])]

LEMMA ParsesExist ==
    ASSUME NEW lines, NEW len \in Nat
    PROVE  \E f : IsParse(lines, len, f)
  <1>. DEFINE Good(k) == \E f : IsParse(lines, k, f)
              T == {k \in Nat : ~Good(k)}
  <1>1. T = {}
    <2>. SUFFICES ASSUME T # {} PROVE FALSE
      OBVIOUS
    <2>1. PICK m \in T : \A y \in T : m <= y
      <3>1. T \in SUBSET Nat
        OBVIOUS
      <3>. HIDE DEF T
      <3>. QED
        BY <3>1, Least
    <2>2. m \in Nat /\ ~Good(m) /\ \A y \in Nat : ~Good(y) => m <= y
      BY <2>1
    <2>3. CASE m = 0
      <3>. DEFINE f == [i \in 0 .. 0 |-> Parsing]
      <3>1. IsParse(lines, m, f)
        BY <2>3 DEF IsParse
      <3>. HIDE DEF f
      <3>. QED
        BY <3>1, <2>2
    <2>4. CASE m # 0
      <3>1. m - 1 \in Nat /\ ~(m <= m - 1)
        BY <2>2, <2>4
      <3>. HIDE DEF Good
      <3>2. Good(m - 1)
        BY <3>1, <2>2
      <3>3. PICK f : IsParse(lines, m - 1, f)
        BY <3>2 DEF Good
      <3>. DEFINE g == [i \in 0 .. m |-> IF i = 0 THEN Parsing ELSE ParseLine(f[i - 1], lines[i])]
      <3>4. \A i \in 0 .. m - 1 : g[i] = f[i]
        <4>. TAKE i \in 0 .. m - 1
        <4>1. i \in 0 .. m
          BY <2>2
        <4>2. f[i] = IF i = 0 THEN Parsing ELSE ParseLine(f[i - 1], lines[i])
          BY <3>3 DEF IsParse
        <4>. QED
          BY <4>1, <4>2
      <3>5. \A i \in 0 .. m : i # 0 => g[i - 1] = f[i - 1]
        <4>1. \A i \in 0 .. m : i # 0 => i - 1 \in 0 .. m - 1
          BY <2>2
        <4>. HIDE DEF g
        <4>. QED
          BY <3>4, <4>1
      <3>6. IsParse(lines, m, g)
        BY <3>5 DEF IsParse
      <3>. QED
        BY <3>6, <2>2 DEF Good
    <2>. QED
      BY <2>3, <2>4
  <1>2. Good(len)
    BY <1>1
  <1>. QED
    BY <1>2

LEMMA ParseIs ==
    ASSUME NEW lines, Len(lines) \in Nat
    PROVE  \E A : /\ A[0] = Parsing /\ Parse(lines) = A[Len(lines)].store
                  /\ \A i \in 1 .. Len(lines) : A[i] = ParseLine(A[i - 1], lines[i])
  <1>. DEFINE len == Len(lines)
              W == CHOOSE f : IsParse(lines, len, f)
  <1>1. Parse(lines) = W[len].store
    BY DEF Parse, IsParse
  <1>2. IsParse(lines, len, W)
    <2>. HIDE DEF len
    <2>1. len \in Nat
      BY DEF len
    <2>. QED
      BY <2>1, ParsesExist
  <1>. HIDE DEF len, W
  <1>3. len \in Nat
    BY DEF len
  <1>4. W[0] = Parsing /\ \A i \in 1 .. len : W[i] = ParseLine(W[i - 1], lines[i])
    BY <1>2, <1>3 DEF IsParse
  <1>. QED
    BY <1>1, <1>4 DEF len

\* The sections with items among the first ones.
IsWith(st, k, f) ==
    f = [i \in 0 .. k |-> IF i = 0 THEN << >> ELSE IF st[i].items = << >> THEN f[i - 1] ELSE Append(f[i - 1], st[i])]

LEMMA WithExist ==
    ASSUME NEW st, NEW len \in Nat
    PROVE  \E f : IsWith(st, len, f)
  <1>. DEFINE Good(k) == \E f : IsWith(st, k, f)
              T == {k \in Nat : ~Good(k)}
  <1>1. T = {}
    <2>. SUFFICES ASSUME T # {} PROVE FALSE
      OBVIOUS
    <2>1. PICK m \in T : \A y \in T : m <= y
      <3>1. T \in SUBSET Nat
        OBVIOUS
      <3>. HIDE DEF T
      <3>. QED
        BY <3>1, Least
    <2>2. m \in Nat /\ ~Good(m) /\ \A y \in Nat : ~Good(y) => m <= y
      BY <2>1
    <2>3. CASE m = 0
      <3>. DEFINE f == [i \in 0 .. 0 |-> << >>]
      <3>1. IsWith(st, m, f)
        BY <2>3 DEF IsWith
      <3>. HIDE DEF f
      <3>. QED
        BY <3>1, <2>2
    <2>4. CASE m # 0
      <3>1. m - 1 \in Nat /\ ~(m <= m - 1)
        BY <2>2, <2>4
      <3>. HIDE DEF Good
      <3>2. Good(m - 1)
        BY <3>1, <2>2
      <3>3. PICK f : IsWith(st, m - 1, f)
        BY <3>2 DEF Good
      <3>. DEFINE g == [i \in 0 .. m |-> IF i = 0 THEN << >> ELSE IF st[i].items = << >> THEN f[i - 1] ELSE Append(f[i - 1], st[i])]
      <3>4. \A i \in 0 .. m - 1 : g[i] = f[i]
        <4>. TAKE i \in 0 .. m - 1
        <4>1. i \in 0 .. m
          BY <2>2
        <4>2. f[i] = IF i = 0 THEN << >> ELSE IF st[i].items = << >> THEN f[i - 1] ELSE Append(f[i - 1], st[i])
          BY <3>3 DEF IsWith
        <4>. QED
          BY <4>1, <4>2
      <3>5. \A i \in 0 .. m : i # 0 => g[i - 1] = f[i - 1]
        <4>1. \A i \in 0 .. m : i # 0 => i - 1 \in 0 .. m - 1
          BY <2>2
        <4>. HIDE DEF g
        <4>. QED
          BY <3>4, <4>1
      <3>6. IsWith(st, m, g)
        BY <3>5 DEF IsWith
      <3>. QED
        BY <3>6, <2>2 DEF Good
    <2>. QED
      BY <2>3, <2>4
  <1>2. Good(len)
    BY <1>1
  <1>. QED
    BY <1>2

LEMMA WithItemsIs ==
    ASSUME NEW st, Len(st) \in Nat
    PROVE  \E w : /\ w[0] = << >> /\ WithItems(st) = w[Len(st)]
                  /\ \A i \in 1 .. Len(st) :
                        w[i] = IF st[i].items = << >> THEN w[i - 1] ELSE Append(w[i - 1], st[i])
  <1>. DEFINE len == Len(st)
              W == CHOOSE f : IsWith(st, len, f)
  <1>1. WithItems(st) = W[len]
    BY DEF WithItems, IsWith
  <1>2. IsWith(st, len, W)
    <2>. HIDE DEF len
    <2>1. len \in Nat
      BY DEF len
    <2>. QED
      BY <2>1, WithExist
  <1>. HIDE DEF len, W
  <1>3. len \in Nat
    BY DEF len
  <1>4. /\ W[0] = << >>
        /\ \A i \in 1 .. len : W[i] = IF st[i].items = << >> THEN W[i - 1] ELSE Append(W[i - 1], st[i])
    <2>. DEFINE N(i) == IF st[i].items = << >> THEN W[i - 1] ELSE Append(W[i - 1], st[i])
    <2>1. W = [i \in 0 .. len |-> IF i = 0 THEN << >> ELSE N(i)]
      BY <1>2 DEF IsWith
    <2>. HIDE DEF N
    <2>2. W[0] = << >> /\ \A i \in 1 .. len : W[i] = N(i)
      BY <1>3, <2>1
    <2>. QED
      BY <2>2, Zenon DEF N
  <1>. QED
    BY <1>1, <1>4 DEF len

\* Sequences joined one after the other.
IsFlat(seqs, k, f) ==
    f = [i \in 1 .. k |-> IF i = 1 THEN seqs[i] ELSE f[i - 1] \o seqs[i]]

LEMMA FlatExist ==
    ASSUME NEW seqs, NEW len \in Nat
    PROVE  \E f : IsFlat(seqs, len, f)
  <1>. DEFINE Good(k) == \E f : IsFlat(seqs, k, f)
              T == {k \in Nat : ~Good(k)}
  <1>1. T = {}
    <2>. SUFFICES ASSUME T # {} PROVE FALSE
      OBVIOUS
    <2>1. PICK m \in T : \A y \in T : m <= y
      <3>1. T \in SUBSET Nat
        OBVIOUS
      <3>. HIDE DEF T
      <3>. QED
        BY <3>1, Least
    <2>2. m \in Nat /\ ~Good(m) /\ \A y \in Nat : ~Good(y) => m <= y
      BY <2>1
    <2>3. CASE m = 0
      <3>. DEFINE f == [i \in 1 .. 0 |-> seqs[i]]
      <3>1. IsFlat(seqs, m, f)
        BY <2>3 DEF IsFlat
      <3>. HIDE DEF f
      <3>. QED
        BY <3>1, <2>2
    <2>4. CASE m # 0
      <3>1. m - 1 \in Nat /\ ~(m <= m - 1)
        BY <2>2, <2>4
      <3>. HIDE DEF Good
      <3>2. Good(m - 1)
        BY <3>1, <2>2
      <3>3. PICK f : IsFlat(seqs, m - 1, f)
        BY <3>2 DEF Good
      <3>. DEFINE g == [i \in 1 .. m |-> IF i = 1 THEN seqs[i] ELSE f[i - 1] \o seqs[i]]
      <3>4. \A i \in 1 .. m - 1 : g[i] = f[i]
        <4>. TAKE i \in 1 .. m - 1
        <4>1. i \in 1 .. m
          BY <2>2
        <4>2. f[i] = IF i = 1 THEN seqs[i] ELSE f[i - 1] \o seqs[i]
          BY <3>3 DEF IsFlat
        <4>. QED
          BY <4>1, <4>2
      <3>5. \A i \in 1 .. m : i # 1 => g[i - 1] = f[i - 1]
        <4>1. \A i \in 1 .. m : i # 1 => i - 1 \in 1 .. m - 1
          BY <2>2
        <4>. HIDE DEF g
        <4>. QED
          BY <3>4, <4>1
      <3>6. IsFlat(seqs, m, g)
        BY <3>5 DEF IsFlat
      <3>. QED
        BY <3>6, <2>2 DEF Good
    <2>. QED
      BY <2>3, <2>4
  <1>2. Good(len)
    BY <1>1
  <1>. QED
    BY <1>2

Joined(X, seqs, n, F) ==
    /\ F[0] = << >> /\ \A i \in 1 .. n : seqs[i] \in Seq(X) /\ F[i] = F[i - 1] \o seqs[i]
    /\ \A i \in 0 .. n : F[i] \in Seq(X)

LEMMA FlattenIs ==
    ASSUME NEW X, NEW seqs, NEW n \in Nat, seqs \in Seq(Seq(X)), Len(seqs) = n
    PROVE  \E F : Joined(X, seqs, n, F) /\ FlattenSeq(seqs) = F[n]
  <1>. DEFINE W == CHOOSE f : IsFlat(seqs, n, f)
              F == [i \in 0 .. n |-> IF i = 0 THEN << >> ELSE W[i]]
  <1>1. FlattenSeq(seqs) = IF n = 0 THEN seqs ELSE W[n]
    BY DEF FlattenSeq, IsFlat
  <1>2. IsFlat(seqs, n, W)
    BY FlatExist
  <1>. HIDE DEF W
  <1>3. \A i \in 1 .. n : W[i] = IF i = 1 THEN seqs[i] ELSE W[i - 1] \o seqs[i]
    BY <1>2 DEF IsFlat
  <1>4. \A i \in 1 .. n : seqs[i] \in Seq(X)
    OBVIOUS
  <1>5. F[0] = << >> /\ \A i \in 1 .. n : F[i] = W[i]
    OBVIOUS
  <1>6. FlattenSeq(seqs) = F[n]
    <2>1. CASE n = 0
      <3>1. seqs = << >>
        BY <2>1
      <3>. QED
        BY <1>1, <1>5, <2>1, <3>1
    <2>2. CASE n # 0
      <3>1. n \in 1 .. n
        BY <2>2
      <3>. QED
        BY <1>1, <1>5, <2>2, <3>1
    <2>. QED
      BY <2>1, <2>2
  <1>. HIDE DEF F
  <1>7. \A i \in 1 .. n : F[i] = F[i - 1] \o seqs[i]
    <2>. TAKE i \in 1 .. n
    <2>1. CASE i = 1
      <3>1. F[i] = seqs[i] /\ F[i - 1] = << >>
        BY <2>1, <1>3, <1>5
      <3>2. << >> \o seqs[i] = seqs[i]
        BY <1>4, ConcatEmptySeq
      <3>. QED
        BY <3>1, <3>2
    <2>2. CASE i # 1
      <3>1. i - 1 \in 1 .. n
        BY <2>2
      <3>. QED
        BY <2>2, <3>1, <1>3, <1>5
    <2>. QED
      BY <2>1, <2>2
  <1>. DEFINE T == {i \in 0 .. n : F[i] \notin Seq(X)}
  <1>8. T = {}
    <2>. SUFFICES ASSUME T # {} PROVE FALSE
      OBVIOUS
    <2>1. PICK m \in T : \A y \in T : m <= y
      <3>1. T \in SUBSET Nat
        OBVIOUS
      <3>. HIDE DEF T
      <3>. QED
        BY <3>1, Least
    <2>2. << >> \in Seq(X)
      OBVIOUS
    <2>3. m # 0 /\ m \in 0 .. n
      BY <2>1, <2>2, <1>5
    <2>4. m \in 1 .. n /\ m - 1 \in 0 .. n /\ ~(m <= m - 1)
      BY <2>3
    <2>5. F[m - 1] \in Seq(X) /\ seqs[m] \in Seq(X)
      BY <2>1, <2>4, <1>4
    <2>6. F[m] \in Seq(X)
      BY <2>4, <2>5, <1>7, ConcatProperties
    <2>. QED
      BY <2>1, <2>6
  <1>9. \A i \in 0 .. n : F[i] \in Seq(X)
    BY <1>8
  <1>. QED
    BY <1>4, <1>5, <1>6, <1>7, <1>9 DEF Joined

\* The lines that stl_ini_dump writes for a section.
NameLine(s) == [kind |-> "section", indent |-> FALSE, name |-> s.name, val |-> NotFound]
ItemLine(item) == [kind |-> "item", indent |-> FALSE, name |-> item.key, val |-> item.val]
LinesOf(s) == <<NameLine(s)>> \o [j \in DOMAIN s.items |-> ItemLine(s.items[j])]

\* Sections with texts that are read as they were written, and the lines of them.
PlainItem == [key : Name, val : {Plain(n) : n \in Nat \ {0}}]
PlainSection == [name : Name, items : Seq(PlainItem)]
PlainDump(st) == FlattenSeq([i \in DOMAIN st |-> LinesOf(st[i])])

LEMMA PlainIs ==
    /\ PlainItem \subseteq Item /\ PlainSection \subseteq Section
    /\ \A s \in PlainSection : NameLine(s) \in AnyLine
    /\ \A item \in PlainItem : ItemLine(item) \in AnyLine
  <1>1. \A n \in Nat \ {0} : Plain(n) \in Val /\ Plain(n) # NotFound
    BY DEF Plain, NotFound, Val
  <1>2. PlainItem \subseteq Item
    BY <1>1 DEF PlainItem, Item
  <1>3. Seq(PlainItem) \subseteq Seq(Item)
    BY <1>2
  <1>4. PlainSection \subseteq Section
    BY <1>3 DEF PlainSection, Section
  <1>5. ASSUME NEW s \in PlainSection PROVE NameLine(s) \in AnyLine
    <2>1. NotFound \in {Plain(n) : n \in Nat} /\ s.name \in Name
      BY DEF NotFound, PlainSection
    <2>. HIDE DEF NotFound
    <2>. QED
      BY <2>1 DEF NameLine, AnyLine
  <1>6. ASSUME NEW item \in PlainItem PROVE ItemLine(item) \in AnyLine
    <2>1. item.val \in {Plain(n) : n \in Nat} /\ item.val # NotFound /\ item.key \in Name
      BY <1>1 DEF PlainItem
    <2>. QED
      BY <2>1 DEF ItemLine, AnyLine
  <1>. QED
    BY <1>2, <1>4, <1>5, <1>6

LEMMA LinesOfAre ==
    ASSUME NEW s \in PlainSection
    PROVE  /\ LinesOf(s) \in Seq(AnyLine) /\ Len(LinesOf(s)) = Len(s.items) + 1 /\ Len(s.items) \in Nat
           /\ LinesOf(s)[1] = NameLine(s)
           /\ \A j \in 1 .. Len(s.items) : LinesOf(s)[j + 1] = ItemLine(s.items[j])
  <1>. DEFINE its == s.items
              m == Len(its)
              a == <<NameLine(s)>>
              b == [j \in 1 .. m |-> ItemLine(its[j])]
  <1>1. its \in Seq(PlainItem)
    BY DEF PlainSection
  <1>2. m \in Nat /\ DOMAIN its = 1 .. m /\ \A j \in 1 .. m : its[j] \in PlainItem
    BY <1>1
  <1>3. LinesOf(s) = a \o b
    BY <1>2 DEF LinesOf
  <1>. HIDE DEF m, its
  <1>4. NameLine(s) \in AnyLine /\ \A j \in 1 .. m : ItemLine(its[j]) \in AnyLine
    BY <1>2, PlainIs
  <1>5. a \in Seq(AnyLine) /\ Len(a) = 1 /\ a[1] = NameLine(s)
    BY <1>4
  <1>6. b \in Seq(AnyLine) /\ Len(b) = m /\ \A j \in 1 .. m : b[j] = ItemLine(its[j])
    BY <1>2, <1>4
  <1>. HIDE DEF a, b
  <1>7. /\ a \o b \in Seq(AnyLine) /\ Len(a \o b) = m + 1
        /\ (a \o b)[1] = a[1] /\ \A j \in 1 .. m : (a \o b)[j + 1] = b[j]
    <2>1. /\ a \o b \in Seq(AnyLine) /\ Len(a \o b) = Len(a) + Len(b)
          /\ \A i \in 1 .. Len(a) + Len(b) : (a \o b)[i] = IF i <= Len(a) THEN a[i] ELSE b[i - Len(a)]
      BY <1>5, <1>6, ConcatProperties
    <2>. DEFINE c == a \o b
    <2>. HIDE DEF c
    <2>2. /\ c \in Seq(AnyLine) /\ Len(c) = 1 + m
          /\ \A i \in 1 .. 1 + m : c[i] = IF i <= 1 THEN a[i] ELSE b[i - 1]
      BY <2>1, <1>5, <1>6 DEF c
    <2>3. c[1] = a[1]
      BY <2>2, <1>2
    <2>4. \A j \in 1 .. m : c[j + 1] = b[j]
      <3>. TAKE j \in 1 .. m
      <3>1. j + 1 \in 1 .. 1 + m /\ ~(j + 1 <= 1) /\ (j + 1) - 1 = j
        BY <1>2
      <3>. QED
        BY <3>1, <2>2
    <2>. QED
      BY <1>2, <2>2, <2>3, <2>4 DEF c
  <1>. QED
    BY <1>2, <1>3, <1>5, <1>6, <1>7 DEF m, its

\* A new section, after the first j of its items have been read.
Grown(b, s, j) ==
    IF j = 0 THEN b ELSE Append(b, [name |-> s.name, items |-> SubSeq(s.items, 1, j)])

LEMMA ReplaceLast ==
    ASSUME NEW S, NEW b \in Seq(S), NEW x \in S, NEW y \in S
    PROVE  [Append(b, x) EXCEPT ![Len(b) + 1] = y] = Append(b, y)
  <1>. DEFINE n == Len(b) + 1
              c == Append(b, x)
              d == [c EXCEPT ![n] = y]
              e == Append(b, y)
  <1>1. /\ c \in Seq(S) /\ Len(c) = n /\ n \in 1 .. Len(c)
        /\ \A i \in 1 .. n : i # n => c[i] = b[i]
    OBVIOUS
  <1>2. e \in Seq(S) /\ Len(e) = n /\ e[n] = y /\ \A i \in 1 .. n : i # n => e[i] = b[i]
    OBVIOUS
  <1>. HIDE DEF c, e, n
  <1>3. d \in Seq(S) /\ Len(d) = n /\ \A i \in 1 .. n : d[i] = IF i = n THEN y ELSE c[i]
    BY <1>1, ExceptSeq
  <1>. HIDE DEF d
  <1>4. \A i \in 1 .. n : d[i] = e[i]
    BY <1>1, <1>2, <1>3
  <1>5. d = e
    BY <1>2, <1>3, <1>4, SeqEqual
  <1>. QED
    BY <1>5 DEF c, d, e, n

LEMMA OnItemGrows ==
    ASSUME NEW b \in Seq(Section), NEW s \in Section, \A a \in DOMAIN b : ~Matches(b[a].name, s.name),
           NEW j \in 1 .. Len(s.items)
    PROVE  OnItem(Grown(b, s, j - 1), s.name, s.items[j].key, s.items[j].val) = Grown(b, s, j)
  <1>. DEFINE its == s.items
              item == its[j]
              key == item.key
              val == item.val
              st == Grown(b, s, j - 1)
              I == {i \in 1 .. Len(st) : Matches(st[i].name, s.name)}
              at == IF I # {} THEN Max(I) ELSE 0
              n == Len(b) + 1
  <1>1. its \in Seq(Item) /\ s.name \in Name /\ Len(its) \in Nat /\ j \in 1 .. Len(its)
    BY DEF Section
  <1>2. item \in Item
    BY <1>1
  <1>3. item = [key |-> key, val |-> val]
    BY <1>2 DEF Item
  <1>4. OnItem(st, s.name, key, val) =
            IF at > 0 THEN PutConf(st, at, key, val)
            ELSE PutConf(Append(st, [name |-> s.name, items |-> << >>]), Len(st) + 1, key, val)
    BY DEF OnItem, SelectLastInSeq
  <1>5. PutConf(st, at, key, val) = [st EXCEPT ![at].items = Append(@, item)]
    BY <1>3 DEF PutConf
  <1>6. n \in Nat /\ n # 0 /\ Len(b) \in Nat /\ DOMAIN b = 1 .. Len(b)
    OBVIOUS
  <1>7. Matches(s.name, s.name)
    BY <1>1, MatchesSelf
  <1>. HIDE DEF key, val, item, its
  <1>8. CASE j = 1
    <2>1. st = b
      BY <1>8 DEF Grown
    <2>2. I = {}
      BY <2>1
    <2>. DEFINE s0 == [name |-> s.name, items |-> << >>]
                s1 == [name |-> s.name, items |-> <<item>>]
                c == Append(b, s0)
    <2>3. OnItem(st, s.name, key, val) = PutConf(c, n, key, val)
      BY <2>1, <2>2, <1>4
    <2>4. PutConf(c, n, key, val) = [c EXCEPT ![n] = [c[n] EXCEPT !.items = Append(c[n].items, item)]]
      BY <1>3 DEF PutConf
    <2>5. c[n] = s0
      OBVIOUS
    <2>6. [s0 EXCEPT !.items = Append(s0.items, item)] = s1
      OBVIOUS
    <2>7. [c EXCEPT ![n] = s1] = Append(b, s1)
      <3>1. s0 \in Section /\ s1 \in Section
        BY <1>1, <1>2 DEF Section
      <3>. HIDE DEF s0, s1
      <3>. QED
        BY <3>1, ReplaceLast
    <2>8. SubSeq(its, 1, j) = <<item>>
      <3>. DEFINE u == SubSeq(its, 1, 1)
                  v == <<item>>
      <3>1. u \in Seq(Item) /\ Len(u) = 1 /\ u[1] = its[1]
        <4>1. \A i \in 1 .. 1 : its[i] \in Item
          BY <1>1, <1>8
        <4>. QED
          BY <4>1, SubSeqProperties
      <3>2. v \in Seq(Item) /\ Len(v) = 1 /\ v[1] = its[1]
        BY <1>2, <1>8 DEF item
      <3>. HIDE DEF u, v
      <3>3. u = v
        BY <3>1, <3>2, SeqEqual
      <3>. QED
        BY <3>3, <1>8 DEF u, v
    <2>9. Grown(b, s, j) = Append(b, s1)
      <3>1. j # 0
        BY <1>8
      <3>2. Grown(b, s, j) = Append(b, [name |-> s.name, items |-> SubSeq(its, 1, j)])
        BY <3>1, Zenon DEF Grown, its
      <3>. QED
        BY <2>8, <3>2, Zenon
    <2>. HIDE DEF c, s0, s1
    <2>10. OnItem(st, s.name, key, val) = Append(b, s1)
      BY <2>3, <2>4, <2>5, <2>6, <2>7
    <2>. QED
      BY <2>9, <2>10 DEF key, val, item, its
  <1>9. CASE j # 1
    <2>. DEFINE g == SubSeq(its, 1, j - 1)
                s0 == [name |-> s.name, items |-> g]
                s1 == [name |-> s.name, items |-> Append(g, item)]
    <2>1. j - 1 # 0
      BY <1>1, <1>9
    <2>2. st = Append(b, s0)
      BY <2>1 DEF Grown, its
    <2>3. SubSeq(its, 1, j) = Append(g, item)
      BY <1>1, <1>9 DEF item
    <2>4. Grown(b, s, j) = Append(b, s1)
      <3>1. j # 0
        BY <1>1
      <3>2. Grown(b, s, j) = Append(b, [name |-> s.name, items |-> SubSeq(its, 1, j)])
        BY <3>1, Zenon DEF Grown, its
      <3>. QED
        BY <2>3, <3>2, Zenon
    <2>12. g \in Seq(Item)
      <3>1. \A i \in 1 .. j - 1 : its[i] \in Item
        BY <1>1
      <3>. QED
        BY <1>1, <3>1, SubSeqProperties
    <2>. HIDE DEF g
    <2>13. s0 \in Section /\ s1 \in Section
      BY <1>1, <1>2, <2>12 DEF Section
    <2>5. s0.name = s.name /\ [s0 EXCEPT !.items = Append(s0.items, item)] = s1
      <3>. DEFINE h == Append(g, item)
      <3>1. s0.name = s.name /\ s0.items = g
        OBVIOUS
      <3>. HIDE DEF h
      <3>2. [s0 EXCEPT !.items = h] = [name |-> s.name, items |-> h]
        OBVIOUS
      <3>. QED
        BY <3>1, <3>2 DEF h
    <2>. HIDE DEF g, s0, s1, st
    <2>6. Len(st) = n /\ st[n] = s0 /\ \A a \in DOMAIN b : st[a] = b[a]
      BY <2>2
    <2>7. n \in I /\ \A i \in I : i <= n
      BY <2>5, <2>6, <1>6, <1>7
    <2>8. at = n
      <3>1. I \in SUBSET (1 .. n) /\ I # {}
        BY <2>6, <2>7
      <3>. HIDE DEF I
      <3>2. Max(I) \in I /\ \A y \in I : y <= Max(I)
        BY <1>6, <3>1, FirstAndLast
      <3>3. Max(I) \in 1 .. n /\ n <= Max(I)
        BY <2>7, <3>1, <3>2
      <3>4. Max(I) = n
        BY <3>3, <1>6
      <3>. QED
        BY <3>1, <3>4
    <2>. HIDE DEF at
    <2>9. OnItem(st, s.name, key, val) = [st EXCEPT ![n] = [st[n] EXCEPT !.items = Append(st[n].items, item)]]
      BY <1>4, <1>5, <1>6, <2>8
    <2>10. OnItem(st, s.name, key, val) = [st EXCEPT ![n] = s1]
      BY <2>5, <2>6, <2>9
    <2>11. [st EXCEPT ![n] = s1] = Append(b, s1)
      BY <2>2, <2>13, ReplaceLast
    <2>. QED
      BY <2>4, <2>10, <2>11 DEF key, val, item, its, st
  <1>. QED
    BY <1>8, <1>9

\* What the parser has while it reads what was written.
Reads(p, st) ==
    \E section, key : p = [section |-> section, key |-> key, ok |-> TRUE, store |-> st]

\* The same, in the section of a given name.
ReadsIn(p, name, st) ==
    \E key : p = [section |-> name, key |-> key, ok |-> TRUE, store |-> st]

LEMMA ReadsSection ==
    ASSUME NEW p, NEW b, Reads(p, b), NEW s
    PROVE  ReadsIn(ParseLine(p, NameLine(s)), s.name, b)
  <1>1. PICK section, key : p = [section |-> section, key |-> key, ok |-> TRUE, store |-> b]
    BY DEF Reads
  <1>. DEFINE l == NameLine(s)
  <1>2. l.kind = "section" /\ l.indent = FALSE /\ l.name = s.name
    BY DEF NameLine
  <1>. HIDE DEF l
  <1>3. ParseLine(p, l) = [p EXCEPT !.key = NoName, !.section = l.name]
    BY <1>1, <1>2 DEF ParseLine
  <1>4. ParseLine(p, l) = [section |-> s.name, key |-> NoName, ok |-> TRUE, store |-> b]
    BY <1>1, <1>2, <1>3
  <1>. QED
    BY <1>4 DEF l, ReadsIn

LEMMA ReadsItem ==
    ASSUME NEW p, NEW b, NEW name, NEW item, ReadsIn(p, name, b)
    PROVE  ReadsIn(ParseLine(p, ItemLine(item)), name, OnItem(b, name, item.key, item.val))
  <1>. DEFINE l == ItemLine(item)
              r == OnItem(b, name, item.key, item.val)
  <1>5. PICK key : p = [section |-> name, key |-> key, ok |-> TRUE, store |-> b]
    BY DEF ReadsIn
  <1>1. l.kind = "item" /\ l.indent = FALSE /\ l.name = item.key /\ l.val = item.val
    BY DEF ItemLine
  <1>. HIDE DEF l
  <1>2. ParseLine(p, l) = [p EXCEPT !.key = l.name, !.store = OnItem(@, p.section, l.name, l.val)]
    BY <1>1, <1>5 DEF ParseLine
  <1>3. ParseLine(p, l) = [p EXCEPT !.key = l.name, !.store = r]
    BY <1>1, <1>2, <1>5
  <1>. HIDE DEF r
  <1>4. ParseLine(p, l) = [section |-> name, key |-> l.name, ok |-> TRUE, store |-> r]
    BY <1>3, <1>5
  <1>. QED
    BY <1>4 DEF l, r, ReadsIn

\* The lines of one section, read when no section is there whose name begins with its name.
LEMMA ReadsBackSection ==
    ASSUME NEW b \in Seq(Section), NEW s \in Section, \A a \in DOMAIN b : ~Matches(b[a].name, s.name),
           NEW A, NEW D, NEW o \in Nat, Reads(A[o], b),
           \A k \in o + 1 .. o + 1 + Len(s.items) : A[k] = ParseLine(A[k - 1], D[k]),
           D[o + 1] = NameLine(s),
           \A j \in 1 .. Len(s.items) : D[o + 1 + j] = ItemLine(s.items[j])
    PROVE  Reads(A[o + 1 + Len(s.items)], IF s.items = << >> THEN b ELSE Append(b, s))
  <1>. DEFINE m == Len(s.items)
              Good(j) == ReadsIn(A[o + 1 + j], s.name, Grown(b, s, j))
              T == {j \in 0 .. m : ~Good(j)}
  <1>1. s.items \in Seq(Item) /\ m \in Nat
    BY DEF Section
  <1>. HIDE DEF m
  <1>2. Good(0)
    <2>1. o + 1 \in o + 1 .. o + 1 + m /\ (o + 1) - 1 = o /\ o + 1 + 0 = o + 1
      BY <1>1
    <2>2. A[o + 1] = ParseLine(A[o], NameLine(s))
      BY <2>1 DEF m
    <2>3. ReadsIn(A[o + 1], s.name, b)
      BY <2>2, ReadsSection
    <2>4. Grown(b, s, 0) = b
      BY DEF Grown
    <2>. QED
      BY <2>1, <2>3, <2>4
  <1>3. ASSUME NEW j \in 1 .. m, Good(j - 1) PROVE Good(j)
    <2>. DEFINE g == Grown(b, s, j - 1)
    <2>1. /\ o + 1 + j \in o + 1 .. o + 1 + m /\ (o + 1 + j) - 1 = o + 1 + (j - 1)
      BY <1>1
    <2>2. ReadsIn(A[o + 1 + (j - 1)], s.name, g)
      BY <1>3
    <2>3. A[o + 1 + j] = ParseLine(A[(o + 1 + j) - 1], D[o + 1 + j])
      BY <2>1 DEF m
    <2>4. D[o + 1 + j] = ItemLine(s.items[j])
      BY DEF m
    <2>. DEFINE p == A[o + 1 + (j - 1)]
                item == s.items[j]
    <2>5. A[o + 1 + j] = ParseLine(p, ItemLine(item))
      BY <2>1, <2>3, <2>4
    <2>8. ReadsIn(p, s.name, g)
      BY <2>2
    <2>. HIDE DEF g, p, item
    <2>6. ReadsIn(A[o + 1 + j], s.name, OnItem(g, s.name, item.key, item.val))
      BY <2>5, <2>8, ReadsItem
    <2>7. OnItem(g, s.name, item.key, item.val) = Grown(b, s, j)
      BY OnItemGrows DEF g, m, item
    <2>. QED
      BY <2>6, <2>7
  <1>4. T = {}
    <2>. SUFFICES ASSUME T # {} PROVE FALSE
      OBVIOUS
    <2>. HIDE DEF Good
    <2>1. PICK q \in T : \A y \in T : q <= y
      <3>1. T \in SUBSET Nat
        BY <1>1
      <3>. HIDE DEF T
      <3>. QED
        BY <3>1, Least
    <2>2. q \in 0 .. m /\ ~Good(q) /\ q # 0
      BY <2>1, <1>2
    <2>3. q \in 1 .. m /\ q - 1 \in 0 .. m /\ ~(q <= q - 1)
      BY <2>2, <1>1
    <2>4. Good(q - 1)
      BY <2>1, <2>3
    <2>. QED
      BY <2>2, <2>3, <2>4, <1>3
  <1>5. Good(m)
    <2>. HIDE DEF Good
    <2>1. m \in 0 .. m
      BY <1>1
    <2>. QED
      BY <1>4, <2>1
  <1>6. Grown(b, s, m) = IF s.items = << >> THEN b ELSE Append(b, s)
    <2>1. CASE s.items = << >>
      <3>1. m = 0
        BY <2>1 DEF m
      <3>. QED
        BY <2>1, <3>1 DEF Grown
    <2>2. CASE s.items # << >>
      <3>1. m # 0
        BY <2>2, <1>1 DEF m
      <3>2. SubSeq(s.items, 1, m) = s.items
        BY <1>1, SubSeqFull DEF m
      <3>3. s = [name |-> s.name, items |-> s.items]
        BY DEF Section
      <3>4. Grown(b, s, m) = Append(b, [name |-> s.name, items |-> SubSeq(s.items, 1, m)])
        BY <3>1, Zenon DEF Grown
      <3>5. Grown(b, s, m) = Append(b, s)
        BY <3>2, <3>3, <3>4, Zenon
      <3>. QED
        BY <2>2, <3>5
    <2>. QED
      BY <2>1, <2>2
  <1>. QED
    BY <1>5, <1>6 DEF Reads, ReadsIn, m

\* What was joined before stays at its place.
LEMMA JoinedStay ==
    ASSUME NEW X, NEW F, NEW seqs, NEW n \in Nat, Joined(X, seqs, n, F), NEW i \in 0 .. n
    PROVE  Len(F[i]) <= Len(F[n]) /\ \A k \in 1 .. Len(F[i]) : F[n][k] = F[i][k]
  <1>. DEFINE Good(a) == Len(F[i]) <= Len(F[a]) /\ \A k \in 1 .. Len(F[i]) : F[a][k] = F[i][k]
              T == {a \in i .. n : ~Good(a)}
  <1>0. /\ \A a \in 1 .. n : seqs[a] \in Seq(X) /\ F[a] = F[a - 1] \o seqs[a]
        /\ \A a \in 0 .. n : F[a] \in Seq(X)
    BY DEF Joined
  <1>1. \A a \in 0 .. n : Len(F[a]) \in Nat
    BY <1>0
  <1>2. Good(i)
    BY <1>1
  <1>3. ASSUME NEW a \in 1 .. n, Good(a - 1) PROVE Good(a)
    <2>. DEFINE u == F[a - 1]
                v == seqs[a]
                w == F[a]
    <2>1. a - 1 \in 0 .. n /\ a \in 0 .. n
      OBVIOUS
    <2>2. u \in Seq(X) /\ v \in Seq(X) /\ w = u \o v
      BY <1>0, <2>1
    <2>5. Len(F[i]) \in Nat /\ Len(F[i]) <= Len(u) /\ \A k \in 1 .. Len(F[i]) : u[k] = F[i][k]
      BY <1>1, <1>3
    <2>. HIDE DEF u, v, w
    <2>3. /\ Len(w) = Len(u) + Len(v) /\ Len(u) \in Nat /\ Len(v) \in Nat
          /\ \A k \in 1 .. Len(u) + Len(v) : w[k] = IF k <= Len(u) THEN u[k] ELSE v[k - Len(u)]
      BY <2>2, ConcatProperties
    <2>4. \A k \in 1 .. Len(u) : w[k] = u[k]
      <3>. TAKE k \in 1 .. Len(u)
      <3>1. k \in 1 .. Len(u) + Len(v) /\ k <= Len(u)
        BY <2>3
      <3>. QED
        BY <2>3, <3>1
    <2>6. Len(F[i]) <= Len(w) /\ \A k \in 1 .. Len(F[i]) : w[k] = F[i][k]
      <3>1. \A k \in 1 .. Len(F[i]) : k \in 1 .. Len(u)
        BY <2>3, <2>5
      <3>. QED
        BY <2>3, <2>4, <2>5, <3>1
    <2>. QED
      BY <2>6 DEF w
  <1>. HIDE DEF Good
  <1>4. T = {}
    <2>. SUFFICES ASSUME T # {} PROVE FALSE
      OBVIOUS
    <2>1. PICK q \in T : \A y \in T : q <= y
      <3>1. T \in SUBSET Nat
        OBVIOUS
      <3>. HIDE DEF T
      <3>. QED
        BY <3>1, Least
    <2>2. q \in i .. n /\ ~Good(q) /\ q # i
      BY <2>1, <1>2
    <2>3. q \in 1 .. n /\ q - 1 \in i .. n /\ ~(q <= q - 1)
      BY <2>2
    <2>4. Good(q - 1)
      BY <2>1, <2>3
    <2>. QED
      BY <2>2, <2>3, <2>4, <1>3
  <1>5. n \in i .. n
    OBVIOUS
  <1>. QED
    BY <1>4, <1>5 DEF Good

\* stl_ini_dump and then stl_ini_init.
LEMMA DumpIsRead ==
    ASSUME NEW st \in Seq(PlainSection), Distinct(st), NEW A, A[0] = Parsing,
           \A k \in 1 .. Len(PlainDump(st)) : A[k] = ParseLine(A[k - 1], PlainDump(st)[k])
    PROVE  Len(PlainDump(st)) \in Nat /\ Reads(A[Len(PlainDump(st))], WithItems(st))
  <1>. DEFINE n == Len(st)
              seqs == [i \in 1 .. n |-> LinesOf(st[i])]
              D == PlainDump(st)
  <1>1. n \in Nat /\ DOMAIN st = 1 .. n /\ \A i \in 1 .. n : st[i] \in PlainSection /\ st[i] \in Section
    BY PlainIs
  <1>2. D = FlattenSeq(seqs)
    BY <1>1 DEF PlainDump
  <1>. HIDE DEF n, D
  <1>3. /\ seqs \in Seq(Seq(AnyLine)) /\ Len(seqs) = n /\ \A i \in 1 .. n : seqs[i] = LinesOf(st[i])
    <2>1. \A i \in 1 .. n : LinesOf(st[i]) \in Seq(AnyLine)
      BY <1>1, LinesOfAre
    <2>. QED
      BY <1>1, <2>1
  <1>. HIDE DEF seqs
  <1>15. PICK F : Joined(AnyLine, seqs, n, F) /\ FlattenSeq(seqs) = F[n]
    BY <1>1, <1>3, FlattenIs, Zenon
  <1>4. /\ F[0] = << >> /\ FlattenSeq(seqs) = F[n]
        /\ \A i \in 1 .. n : F[i] = F[i - 1] \o seqs[i]
        /\ \A i \in 0 .. n : F[i] \in Seq(AnyLine)
    BY <1>15 DEF Joined
  <1>5. D = F[n] /\ \A i \in 0 .. n : Len(F[i]) \in Nat
    BY <1>2, <1>4
  <1>6. Len(D) \in Nat
    <2>1. n \in 0 .. n
      BY <1>1
    <2>. QED
      BY <1>5, <2>1
  <1>7. A[0] = Parsing /\ \A k \in 1 .. Len(D) : A[k] = ParseLine(A[k - 1], D[k])
    BY DEF D
  <1>8. PICK w : /\ w[0] = << >> /\ WithItems(st) = w[n]
                 /\ \A i \in 1 .. n : w[i] = IF st[i].items = << >> THEN w[i - 1] ELSE Append(w[i - 1], st[i])
    BY <1>1, WithItemsIs DEF n
  <1>. DEFINE Known(i) == /\ w[i] \in Seq(Section)
                          /\ \A a \in DOMAIN w[i] : \E c \in 1 .. i : w[i][a] = st[c]
              Good(i) == Known(i) /\ Reads(A[Len(F[i])], w[i])
              T == {i \in 0 .. n : ~Good(i)}
  <1>9. Good(0)
    <2>1. Known(0)
      BY <1>8
    <2>2. Len(F[0]) = 0
      BY <1>4
    <2>3. Reads(Parsing, << >>)
      BY DEF Reads, Parsing
    <2>. QED
      BY <1>7, <1>8, <2>1, <2>2, <2>3
  <1>10. ASSUME NEW i \in 1 .. n, Good(i - 1) PROVE Good(i)
    <2>. DEFINE s == st[i]
                b == w[i - 1]
                o == Len(F[i - 1])
                m == Len(s.items)
                u == F[i - 1]
                v == LinesOf(s)
    <2>1. i - 1 \in 0 .. n /\ i \in 0 .. n /\ i \in DOMAIN st
      BY <1>1
    <2>2. s \in Section /\ s \in PlainSection /\ b \in Seq(Section) /\ o \in Nat /\ Reads(A[o], b) /\ u \in Seq(AnyLine)
      BY <1>1, <1>4, <1>5, <1>10, <2>1
    <2>3. /\ v \in Seq(AnyLine) /\ Len(v) = m + 1 /\ m \in Nat /\ v[1] = NameLine(s)
          /\ \A j \in 1 .. m : v[j + 1] = ItemLine(s.items[j])
      BY <2>2, LinesOfAre
    <2>4. F[i] = u \o v
      BY <1>3, <1>4
    <2>5. w[i] = IF s.items = << >> THEN b ELSE Append(b, s)
      BY <1>8
    <2>6. \A a \in DOMAIN b : \E c \in 1 .. i - 1 : b[a] = st[c]
      BY <1>10
    <2>7. \A a \in DOMAIN b : ~Matches(b[a].name, s.name)
      <3>1. \A c \in 1 .. i - 1 : c \in DOMAIN st /\ c < i
        BY <1>1
      <3>2. \A c \in 1 .. i - 1 : ~Matches(st[c].name, st[i].name)
        BY <2>1, <3>1 DEF Distinct
      <3>. QED
        BY <2>6, <3>2
    <2>8. /\ Len(F[i]) <= Len(D) /\ \A k \in 1 .. Len(F[i]) : D[k] = F[i][k]
      <3>2. Len(F[i]) <= Len(F[n]) /\ \A k \in 1 .. Len(F[i]) : F[n][k] = F[i][k]
        BY <1>1, <1>15, <2>1, JoinedStay
      <3>. QED
        BY <1>5, <3>2
    <2>18. i - 1 \in Nat
      OBVIOUS
    <2>. HIDE DEF u, v, m, o, s, b
    <2>9. o = Len(u)
      BY DEF o, u
    <2>10. /\ Len(F[i]) = o + (m + 1)
           /\ \A k \in 1 .. o + (m + 1) : F[i][k] = IF k <= o THEN u[k] ELSE v[k - o]
      <3>1. /\ Len(u \o v) = Len(u) + Len(v)
            /\ \A k \in 1 .. Len(u) + Len(v) : (u \o v)[k] = IF k <= Len(u) THEN u[k] ELSE v[k - Len(u)]
        BY <2>2, <2>3, ConcatProperties, Zenon
      <3>. QED
        BY <2>3, <2>4, <2>9, <3>1, Zenon
    <2>11. D[o + 1] = NameLine(s)
      <3>1. o + 1 \in 1 .. o + (m + 1) /\ ~(o + 1 <= o) /\ (o + 1) - o = 1
        BY <2>2, <2>3
      <3>. QED
        BY <2>3, <2>8, <2>10, <3>1
    <2>12. \A j \in 1 .. m : D[o + 1 + j] = ItemLine(s.items[j])
      <3>. TAKE j \in 1 .. m
      <3>1. o + 1 + j \in 1 .. o + (m + 1) /\ ~(o + 1 + j <= o) /\ (o + 1 + j) - o = j + 1
        BY <2>2, <2>3
      <3>2. F[i][o + 1 + j] = v[j + 1]
        BY <2>10, <3>1
      <3>. QED
        BY <2>3, <2>8, <2>10, <3>1, <3>2
    <2>13. \A k \in o + 1 .. o + 1 + m : A[k] = ParseLine(A[k - 1], D[k])
      <3>1. \A k \in o + 1 .. o + 1 + m : k \in 1 .. Len(D)
        BY <1>6, <2>2, <2>3, <2>8, <2>10
      <3>. QED
        BY <1>7, <3>1
    <2>14. Reads(A[o + 1 + m], IF s.items = << >> THEN b ELSE Append(b, s))
      BY <2>2, <2>7, <2>11, <2>12, <2>13, ReadsBackSection DEF m
    <2>15. o + 1 + m = Len(F[i])
      BY <2>2, <2>3, <2>10
    <2>16. Reads(A[Len(F[i])], w[i])
      BY <2>5, <2>14, <2>15
    <2>17. Known(i)
      <3>1. \A c \in 1 .. i - 1 : c \in 1 .. i
        BY <1>1
      <3>2. i \in 1 .. i
        BY <1>1
      <3>3. CASE s.items = << >>
        <4>1. w[i] = b
          BY <2>5, <3>3
        <4>. QED
          BY <4>1, <2>2, <2>6, <3>1
      <3>4. CASE s.items # << >>
        <4>1. w[i] = Append(b, s)
          BY <2>5, <3>4
        <4>. DEFINE x == Append(b, s)
        <4>2. /\ x \in Seq(Section) /\ DOMAIN x = 1 .. Len(b) + 1 /\ Len(b) \in Nat /\ DOMAIN b = 1 .. Len(b)
              /\ x[Len(b) + 1] = s /\ \A a \in 1 .. Len(b) : x[a] = b[a]
          BY <2>2
        <4>. HIDE DEF x
        <4>3. \A a \in DOMAIN x : a \in DOMAIN b \/ a = Len(b) + 1
          BY <4>2
        <4>4. \A a \in DOMAIN x : \E c \in 1 .. i : x[a] = st[c]
          <5>. TAKE a \in DOMAIN x
          <5>1. CASE a \in DOMAIN b
            <6>1. PICK c \in 1 .. i - 1 : b[a] = st[c]
              BY <2>6, <5>1
            <6>. QED
              BY <3>1, <4>2, <5>1, <6>1
          <5>2. CASE a = Len(b) + 1
            BY <3>2, <4>2, <5>2 DEF s
          <5>. QED
            BY <4>3, <5>1, <5>2
        <4>. QED
          BY <4>1, <4>2, <4>4 DEF x
      <3>. QED
        BY <3>3, <3>4
    <2>. QED
      BY <2>16, <2>17
  <1>. HIDE DEF Good
  <1>11. T = {}
    <2>. SUFFICES ASSUME T # {} PROVE FALSE
      OBVIOUS
    <2>1. PICK q \in T : \A y \in T : q <= y
      <3>1. T \in SUBSET Nat
        BY <1>1
      <3>. HIDE DEF T
      <3>. QED
        BY <3>1, Least
    <2>2. q \in 0 .. n /\ ~Good(q) /\ q # 0
      BY <2>1, <1>9
    <2>3. q \in 1 .. n /\ q - 1 \in 0 .. n /\ ~(q <= q - 1)
      BY <2>2, <1>1
    <2>4. Good(q - 1)
      BY <2>1, <2>3
    <2>. QED
      BY <2>2, <2>3, <2>4, <1>10
  <1>12. Good(n)
    <2>1. n \in 0 .. n
      BY <1>1
    <2>. QED
      BY <1>11, <2>1
  <1>13. Reads(A[Len(D)], w[n])
    BY <1>5, <1>12 DEF Good
  <1>. QED
    BY <1>6, <1>8, <1>13 DEF D

\* The lines that stl_ini_dump writes of any sections.
Lines(st, i) == <<SectionLine(st, i)>> \o FlattenSeq([j \in DOMAIN st[i].items |-> ItemLines(st[i].items, j)])
Fits(item) == item.val.form \in {"plain", "trims"}
Short(item) == [item EXCEPT !.val = Read(@)]

LEMMA AnyIsReadable ==
    ASSUME NEW l \in AnyLine
    PROVE  Readable(l)
  <1>1. /\ l.kind \in {"blank", "neither", "section", "item"} /\ l.indent \in BOOLEAN /\ l.name \in Name
        /\ l.val \in {Plain(n) : n \in Nat}
        /\ l.val = NotFound => l.kind \in {"section", "neither"} /\ ~l.indent
        /\ l.kind = "neither" => ~l.indent
    BY DEF AnyLine
  <1>2. ASSUME l.kind = "item" \/ (l.kind # "blank" /\ l.indent) PROVE l.val \in Val
    <2>1. PICK n \in Nat : l.val = Plain(n)
      BY <1>1
    <2>2. l.val # NotFound
      BY <1>1, <1>2
    <2>3. n \in Nat \ {0}
      BY <2>1, <2>2 DEF NotFound
    <2>. QED
      BY <2>1, <2>3 DEF Plain, Val
  <1>. QED
    BY <1>1, <1>2 DEF Readable

LEMMA ShortIs ==
    ASSUME NEW item \in Item
    PROVE  /\ Short(item) \in PlainItem /\ Short(item).key = item.key /\ Short(item).val = Plain(item.val.num)
           /\ item.val.num \in Nat \ {0} /\ item.val.rest \in Seq(AnyLine)
           /\ Fits(item) => item.val.rest = << >> /\ item.val.form # "long"
  <1>1. PICK key \in Name, val \in Val : item = [key |-> key, val |-> val]
    BY DEF Item
  <1>2. /\ val.num \in Nat \ {0} /\ val.rest \in Seq(AnyLine) /\ item.val = val /\ item.key = key
        /\ val.form # "breaks" => val.rest = << >>
    BY <1>1 DEF Val
  <1>. DEFINE x == Plain(val.num)
  <1>3. Short(item) = [item EXCEPT !.val = x]
    BY <1>2 DEF Short, Read
  <1>. HIDE DEF x
  <1>4. Short(item) = [key |-> key, val |-> x]
    BY <1>1, <1>3
  <1>5. Short(item) \in PlainItem
    BY <1>2, <1>4 DEF PlainItem, x
  <1>6. Fits(item) => item.val.rest = << >> /\ item.val.form # "long"
    BY <1>2 DEF Fits
  <1>. QED
    BY <1>2, <1>4, <1>5, <1>6 DEF x

LEMMA ItemLinesAre ==
    ASSUME NEW items \in Seq(Item), NEW j \in DOMAIN items
    PROVE  /\ ItemLines(items, j) \in Seq(AnyLine)
           /\ Fits(items[j]) /\ ~Long(items, j - 1) => ItemLines(items, j) = <<ItemLine(Short(items[j]))>>
  <1>. DEFINE item == items[j]
              name == IF Long(items, j - 1) THEN <<SomeLetter>> \o item.key ELSE item.key
              l == [kind |-> "item", indent |-> FALSE, name |-> name, val |-> Plain(item.val.num)]
              rest == item.val.rest
  <1>1. item \in Item
    OBVIOUS
  <1>2. ItemLines(items, j) = <<l>> \o rest
    BY DEF ItemLines, Read
  <1>. HIDE DEF item
  <1>3. item.key \in Seq(Nat)
    BY <1>1 DEF Item, Name
  <1>4. /\ Short(item).key = item.key /\ Short(item).val = Plain(item.val.num)
        /\ item.val.num \in Nat \ {0} /\ rest \in Seq(AnyLine)
        /\ Fits(item) => rest = << >>
    BY <1>1, ShortIs
  <1>5. <<SomeLetter>> \o item.key \in Seq(Nat)
    <2>1. <<SomeLetter>> \in Seq(Nat)
      BY DEF SomeLetter
    <2>. QED
      BY <1>3, <2>1, ConcatProperties
  <1>6. name \in Name
    BY <1>3, <1>5 DEF Name
  <1>. HIDE DEF name, rest
  <1>7. Plain(item.val.num) # NotFound
    <2>1. Plain(item.val.num).num = item.val.num /\ NotFound.num = 0
      BY DEF Plain, NotFound
    <2>. QED
      BY <1>4, <2>1
  <1>8. l \in AnyLine
    <2>1. Plain(item.val.num) \in {Plain(n) : n \in Nat}
      BY <1>4
    <2>. QED
      BY <1>6, <1>7, <2>1 DEF AnyLine
  <1>. HIDE DEF l
  <1>9. <<l>> \in Seq(AnyLine)
    BY <1>8
  <1>10. <<l>> \o rest \in Seq(AnyLine)
    BY <1>4, <1>9, ConcatProperties
  <1>11. ASSUME Fits(item), ~Long(items, j - 1) PROVE <<l>> \o rest = <<ItemLine(Short(item))>>
    <2>1. rest = << >>
      BY <1>4, <1>11
    <2>2. <<l>> \o rest = <<l>>
      BY <1>9, <2>1, ConcatEmptySeq
    <2>3. name = item.key
      BY <1>11 DEF name
    <2>4. l = ItemLine(Short(item))
      BY <1>4, <2>3 DEF l, ItemLine
    <2>. QED
      BY <2>2, <2>4
  <1>. QED
    BY <1>2, <1>10, <1>11 DEF item

LEMMA SectionLineIs ==
    ASSUME NEW st \in Seq(Section), NEW i \in DOMAIN st
    PROVE  /\ SectionLine(st, i) \in AnyLine
           /\ (i > 1 => ~Long(st[i - 1].items, Len(st[i - 1].items))) => SectionLine(st, i) = NameLine(st[i])
  <1>1. st[i].name \in Name /\ NoName \in Name
    <2>1. st[i] \in Section
      OBVIOUS
    <2>. QED
      BY <2>1 DEF Section, NoName, Name
  <1>2. NotFound \in {Plain(n) : n \in Nat}
    BY DEF NotFound
  <1>. DEFINE joined == i > 1 /\ Long(st[i - 1].items, Len(st[i - 1].items))
  <1>3. SectionLine(st, i) = [kind |-> IF joined THEN "neither" ELSE "section", indent |-> FALSE,
                              name |-> IF joined THEN NoName ELSE st[i].name, val |-> NotFound]
    BY DEF SectionLine
  <1>4. (i > 1 => ~Long(st[i - 1].items, Len(st[i - 1].items))) <=> ~joined
    OBVIOUS
  <1>. HIDE DEF joined
  <1>5. CASE joined
    <2>1. SectionLine(st, i) = [kind |-> "neither", indent |-> FALSE, name |-> NoName, val |-> NotFound]
      BY <1>3, <1>5
    <2>2. SectionLine(st, i) \in AnyLine
      BY <1>1, <1>2, <2>1 DEF AnyLine
    <2>. QED
      BY <1>4, <1>5, <2>2
  <1>6. CASE ~joined
    <2>1. SectionLine(st, i) = [kind |-> "section", indent |-> FALSE, name |-> st[i].name, val |-> NotFound]
      BY <1>3, <1>6
    <2>2. SectionLine(st, i) \in AnyLine
      BY <1>1, <1>2, <2>1 DEF AnyLine
    <2>. QED
      BY <2>1, <2>2 DEF NameLine
  <1>. QED
    BY <1>5, <1>6

\* Sequences joined, of which the first are single.
Single(X, seqs, m, heads) == \A j \in 1 .. m : heads[j] \in X /\ seqs[j] = <<heads[j]>>

LEMMA FlattenBegins ==
    ASSUME NEW X, NEW seqs \in Seq(Seq(X)), NEW m \in 0 .. Len(seqs), NEW heads, Single(X, seqs, m, heads)
    PROVE  /\ FlattenSeq(seqs) \in Seq(X) /\ m <= Len(FlattenSeq(seqs))
           /\ \A j \in 1 .. m : FlattenSeq(seqs)[j] = heads[j]
           /\ m = Len(seqs) => Len(FlattenSeq(seqs)) = m
  <1>. DEFINE n == Len(seqs)
  <1>1. n \in Nat /\ m \in 0 .. n
    OBVIOUS
  <1>0. \A j \in 1 .. m : heads[j] \in X /\ seqs[j] = <<heads[j]>>
    BY DEF Single
  <1>2. PICK F : Joined(X, seqs, n, F) /\ FlattenSeq(seqs) = F[n]
    BY <1>1, FlattenIs
  <1>3. /\ F[0] = << >> /\ \A i \in 1 .. n : seqs[i] \in Seq(X) /\ F[i] = F[i - 1] \o seqs[i]
        /\ \A i \in 0 .. n : F[i] \in Seq(X)
    BY <1>2 DEF Joined
  <1>. HIDE DEF n
  <1>. DEFINE Good(i) == Len(F[i]) = i /\ \A j \in 1 .. i : F[i][j] = heads[j]
              T == {i \in 0 .. m : ~Good(i)}
  <1>4. Good(0)
    BY <1>3
  <1>5. ASSUME NEW i \in 1 .. m, Good(i - 1) PROVE Good(i)
    <2>. DEFINE u == F[i - 1]
                v == <<heads[i]>>
                w == F[i]
    <2>1. u \in Seq(X) /\ v \in Seq(X) /\ w = u \o v
      <3>1. i \in 1 .. n /\ i - 1 \in 0 .. n
        BY <1>1
      <3>2. seqs[i] = v
        BY <1>0
      <3>. QED
        BY <1>3, <3>1, <3>2
    <2>2. Len(u) = i - 1 /\ \A j \in 1 .. i - 1 : u[j] = heads[j]
      BY <1>5
    <2>3. Len(v) = 1 /\ v[1] = heads[i]
      OBVIOUS
    <2>. HIDE DEF u, v, w
    <2>4. /\ Len(w) = Len(u) + Len(v)
          /\ \A k \in 1 .. Len(u) + Len(v) : w[k] = IF k <= Len(u) THEN u[k] ELSE v[k - Len(u)]
      BY <2>1, ConcatProperties
    <2>5. Len(w) = i /\ \A k \in 1 .. i : w[k] = IF k <= i - 1 THEN u[k] ELSE v[k - (i - 1)]
      BY <2>2, <2>3, <2>4
    <2>6. \A k \in 1 .. i : w[k] = heads[k]
      <3>. TAKE k \in 1 .. i
      <3>1. CASE k <= i - 1
        <4>1. k \in 1 .. i - 1
          BY <3>1
        <4>. QED
          BY <2>2, <2>5, <3>1, <4>1
      <3>2. CASE ~(k <= i - 1)
        <4>1. k = i /\ k - (i - 1) = 1
          BY <3>2
        <4>. QED
          BY <2>3, <2>5, <3>2, <4>1
      <3>. QED
        BY <3>1, <3>2
    <2>. QED
      BY <2>5, <2>6 DEF w
  <1>. HIDE DEF Good
  <1>6. T = {}
    <2>. SUFFICES ASSUME T # {} PROVE FALSE
      OBVIOUS
    <2>1. PICK q \in T : \A y \in T : q <= y
      <3>1. T \in SUBSET Nat
        BY <1>1
      <3>. HIDE DEF T
      <3>. QED
        BY <3>1, Least
    <2>2. q \in 0 .. m /\ ~Good(q) /\ q # 0
      BY <2>1, <1>4
    <2>3. q \in 1 .. m /\ q - 1 \in 0 .. m /\ ~(q <= q - 1)
      BY <2>2, <1>1
    <2>4. Good(q - 1)
      BY <2>1, <2>3
    <2>. QED
      BY <2>2, <2>3, <2>4, <1>5
  <1>7. Good(m)
    <2>1. m \in 0 .. m
      BY <1>1
    <2>. QED
      BY <1>6, <2>1
  <1>8. Len(F[m]) <= Len(F[n]) /\ \A k \in 1 .. Len(F[m]) : F[n][k] = F[m][k]
    BY <1>1, <1>2, JoinedStay
  <1>9. F[n] \in Seq(X)
    <2>1. n \in 0 .. n
      BY <1>1
    <2>. QED
      BY <1>3, <2>1
  <1>. QED
    BY <1>2, <1>7, <1>8, <1>9 DEF Good, n

\* The lines of a section begin with those of its first items, if these fit on their lines.
LEMMA LinesAre ==
    ASSUME NEW st \in Seq(Section), NEW i \in DOMAIN st, NEW m \in 0 .. Len(st[i].items),
           i > 1 => ~Long(st[i - 1].items, Len(st[i - 1].items)),
           \A j \in 1 .. m : Fits(st[i].items[j])
    PROVE  /\ Lines(st, i) \in Seq(AnyLine) /\ m + 1 <= Len(Lines(st, i))
           /\ Lines(st, i)[1] = NameLine(st[i])
           /\ \A j \in 1 .. m : Lines(st, i)[j + 1] = ItemLine(Short(st[i].items[j]))
           /\ m = Len(st[i].items) => Len(Lines(st, i)) = m + 1
  <1>. DEFINE items == st[i].items
              n == Len(items)
              seqs == [j \in 1 .. n |-> ItemLines(items, j)]
              heads == [j \in 1 .. m |-> ItemLine(Short(items[j]))]
              flat == FlattenSeq(seqs)
              a == <<SectionLine(st, i)>>
              b == Lines(st, i)
  <1>1. items \in Seq(Item)
    <2>1. st[i] \in Section
      OBVIOUS
    <2>. QED
      BY <2>1 DEF Section
  <1>2. n \in Nat /\ DOMAIN items = 1 .. n /\ m \in 0 .. n /\ \A j \in 1 .. n : items[j] \in Item
    BY <1>1
  <1>3. b = a \o flat
    BY <1>2 DEF Lines
  <1>8. \A j \in 1 .. m : Fits(items[j])
    OBVIOUS
  <1>. HIDE DEF items, n
  <1>4. seqs \in Seq(Seq(AnyLine)) /\ Len(seqs) = n
    <2>1. \A j \in 1 .. n : ItemLines(items, j) \in Seq(AnyLine)
      BY <1>1, <1>2, ItemLinesAre
    <2>. QED
      BY <1>2, <2>1
  <1>5. ASSUME NEW j \in 1 .. m PROVE heads[j] \in AnyLine /\ seqs[j] = <<heads[j]>>
    <2>1. j \in 1 .. n /\ j \in DOMAIN items /\ items[j] \in Item /\ Fits(items[j])
      BY <1>2, <1>8
    <2>2. ~Long(items, j - 1)
      <3>. SUFFICES ASSUME Long(items, j - 1) PROVE FALSE
        OBVIOUS
      <3>1. j - 1 \in DOMAIN items /\ items[j - 1].val.form = "long"
        BY DEF Long
      <3>2. j - 1 \in 1 .. m
        BY <1>2, <3>1
      <3>3. items[j - 1] \in Item /\ Fits(items[j - 1])
        BY <1>2, <1>8, <3>1, <3>2
      <3>. QED
        BY <3>1, <3>3, ShortIs
    <2>3. ItemLines(items, j) = <<ItemLine(Short(items[j]))>>
      BY <1>1, <2>1, <2>2, ItemLinesAre
    <2>4. ItemLine(Short(items[j])) \in AnyLine
      BY <2>1, ShortIs, PlainIs
    <2>. QED
      BY <2>1, <2>3, <2>4
  <1>. HIDE DEF seqs
  <1>6. /\ flat \in Seq(AnyLine) /\ m <= Len(flat) /\ \A j \in 1 .. m : flat[j] = heads[j]
        /\ m = n => Len(flat) = m
    <2>. HIDE DEF heads
    <2>1. m \in 0 .. Len(seqs) /\ Single(AnyLine, seqs, m, heads)
      BY <1>2, <1>4, <1>5 DEF Single
    <2>2. /\ FlattenSeq(seqs) \in Seq(AnyLine) /\ m <= Len(FlattenSeq(seqs))
          /\ \A j \in 1 .. m : FlattenSeq(seqs)[j] = heads[j]
          /\ m = Len(seqs) => Len(FlattenSeq(seqs)) = m
      BY <1>4, <2>1, FlattenBegins
    <2>. QED
      BY <1>4, <2>2
  <1>7. SectionLine(st, i) \in AnyLine /\ SectionLine(st, i) = NameLine(st[i])
    BY SectionLineIs
  <1>9. a \in Seq(AnyLine) /\ Len(a) = 1 /\ a[1] = NameLine(st[i])
    BY <1>7
  <1>10. \A j \in 1 .. m : heads[j] = ItemLine(Short(items[j]))
    OBVIOUS
  <1>. HIDE DEF a, b, flat, heads
  <1>11. /\ b \in Seq(AnyLine) /\ Len(b) = Len(a) + Len(flat)
         /\ \A k \in 1 .. Len(a) + Len(flat) : b[k] = IF k <= Len(a) THEN a[k] ELSE flat[k - Len(a)]
    BY <1>3, <1>6, <1>9, ConcatProperties
  <1>12. Len(b) = 1 + Len(flat) /\ \A k \in 1 .. 1 + Len(flat) : b[k] = IF k <= 1 THEN a[k] ELSE flat[k - 1]
    BY <1>9, <1>11
  <1>13. Len(flat) \in Nat
    BY <1>6
  <1>14. b[1] = NameLine(st[i])
    BY <1>9, <1>12, <1>13
  <1>15. ASSUME NEW j \in 1 .. m PROVE b[j + 1] = ItemLine(Short(items[j]))
    <2>1. j + 1 \in 1 .. 1 + Len(flat) /\ ~(j + 1 <= 1) /\ (j + 1) - 1 = j
      BY <1>2, <1>6, <1>13
    <2>2. b[j + 1] = flat[j]
      BY <1>12, <2>1
    <2>. QED
      BY <1>6, <1>10, <2>2
  <1>16. m + 1 <= Len(b) /\ (m = n => Len(b) = m + 1)
    BY <1>2, <1>6, <1>12, <1>13
  <1>. QED
    BY <1>11, <1>14, <1>15, <1>16 DEF b, items, n

\* The same without any assumption on the texts.
LEMMA LinesAreLines ==
    ASSUME NEW st \in Seq(Section), NEW i \in DOMAIN st
    PROVE  Lines(st, i) \in Seq(AnyLine)
  <1>. DEFINE items == st[i].items
              n == Len(items)
              seqs == [j \in 1 .. n |-> ItemLines(items, j)]
              flat == FlattenSeq(seqs)
              a == <<SectionLine(st, i)>>
  <1>1. items \in Seq(Item)
    <2>1. st[i] \in Section
      OBVIOUS
    <2>. QED
      BY <2>1 DEF Section
  <1>2. n \in Nat /\ DOMAIN items = 1 .. n
    BY <1>1
  <1>3. Lines(st, i) = a \o flat
    BY <1>2 DEF Lines
  <1>. HIDE DEF items, n
  <1>4. seqs \in Seq(Seq(AnyLine)) /\ 0 \in 0 .. Len(seqs)
    <2>1. \A j \in 1 .. n : ItemLines(items, j) \in Seq(AnyLine)
      BY <1>1, <1>2, ItemLinesAre
    <2>. QED
      BY <1>2, <2>1
  <1>. HIDE DEF seqs
  <1>5. flat \in Seq(AnyLine)
    <2>. DEFINE m == 0
    <2>1. m \in 0 .. Len(seqs) /\ Single(AnyLine, seqs, m, << >>)
      BY <1>4 DEF Single
    <2>. HIDE DEF m
    <2>. QED
      BY <1>4, <2>1, FlattenBegins
  <1>6. a \in Seq(AnyLine)
    BY SectionLineIs
  <1>. HIDE DEF a, flat
  <1>. QED
    BY <1>3, <1>5, <1>6, ConcatProperties

\* The sections up to an item.
LEMMA CutIs ==
    ASSUME NEW st \in Seq(Section), NEW i \in DOMAIN st, NEW j \in 0 .. Len(st[i].items)
    PROVE  /\ Cut(st, i, j) \in Seq(Section) /\ Len(Cut(st, i, j)) = i
           /\ \A a \in 1 .. i : Cut(st, i, j)[a].name = st[a].name
           /\ \A a \in 1 .. i : a # i => Cut(st, i, j)[a].items = st[a].items
           /\ Len(Cut(st, i, j)[i].items) = j
           /\ \A k \in 1 .. j : Cut(st, i, j)[i].items[k] = st[i].items[k]
  <1>. DEFINE first == SubSeq(st, 1, i)
              items == SubSeq(st[i].items, 1, j)
              s == [name |-> st[i].name, items |-> items]
              c == Cut(st, i, j)
  <1>1. st[i] \in Section /\ i \in 1 .. Len(st) /\ Len(st) \in Nat
    OBVIOUS
  <1>2. PICK name \in Name, its \in Seq(Item) : st[i] = [name |-> name, items |-> its]
    BY <1>1 DEF Section
  <1>3. items \in Seq(Item) /\ Len(items) = j /\ \A k \in 1 .. j : items[k] = st[i].items[k]
    <2>1. its \in Seq(Item) /\ j \in 0 .. Len(its) /\ st[i].items = its
      BY <1>2
    <2>2. \A k \in 1 .. j : its[k] \in Item
      BY <2>1
    <2>. QED
      BY <2>1, <2>2, SubSeqProperties
  <1>4. s \in Section
    BY <1>2, <1>3 DEF Section
  <1>5. first \in Seq(Section) /\ Len(first) = i /\ \A a \in 1 .. i : first[a] = st[a]
    <2>1. \A a \in 1 .. i : st[a] \in Section
      BY <1>1
    <2>. QED
      BY <1>1, <2>1, SubSeqProperties
  <1>6. c = [first EXCEPT ![i] = [first[i] EXCEPT !.items = SubSeq(first[i].items, 1, j)]]
    BY DEF Cut
  <1>7. first[i] = st[i]
    BY <1>1, <1>5
  <1>. HIDE DEF first, c, items
  <1>8. c = [first EXCEPT ![i] = [st[i] EXCEPT !.items = items]]
    BY <1>6, <1>7 DEF items
  <1>9. [st[i] EXCEPT !.items = items] = s
    BY <1>2
  <1>. HIDE DEF s
  <1>10. c = [first EXCEPT ![i] = s]
    BY <1>8, <1>9
  <1>11. c \in Seq(Section) /\ Len(c) = i /\ \A a \in 1 .. i : c[a] = IF a = i THEN s ELSE first[a]
    BY <1>1, <1>4, <1>5, <1>10, ExceptSeq
  <1>12. s.name = st[i].name /\ s.items = items
    BY DEF s
  <1>13. \A a \in 1 .. i : c[a].name = st[a].name
    BY <1>5, <1>11, <1>12
  <1>14. \A a \in 1 .. i : a # i => c[a].items = st[a].items
    BY <1>5, <1>11
  <1>15. c[i].items = items
    BY <1>1, <1>11, <1>12
  <1>. QED
    BY <1>3, <1>11, <1>13, <1>14, <1>15 DEF c

LEMMA TrimmedIs ==
    ASSUME NEW st \in Seq(Section)
    PROVE  /\ Trimmed(st) \in Seq(PlainSection) /\ Len(Trimmed(st)) = Len(st)
           /\ \A a \in 1 .. Len(st) :
                /\ Trimmed(st)[a].name = st[a].name /\ Len(Trimmed(st)[a].items) = Len(st[a].items)
                /\ \A k \in 1 .. Len(st[a].items) : Trimmed(st)[a].items[k] = Short(st[a].items[k])
  <1>. DEFINE n == Len(st)
              t == Trimmed(st)
              s(a) == [name |-> st[a].name, items |-> TrimmedItems(st[a].items)]
  <1>1. n \in Nat /\ DOMAIN st = 1 .. n /\ \A a \in 1 .. n : st[a] \in Section
    OBVIOUS
  <1>. HIDE DEF n
  <1>2. ASSUME NEW a \in 1 .. n
        PROVE  /\ [st[a] EXCEPT !.items = TrimmedItems(@)] = s(a) /\ s(a) \in PlainSection
               /\ Len(TrimmedItems(st[a].items)) = Len(st[a].items)
               /\ \A k \in 1 .. Len(st[a].items) : TrimmedItems(st[a].items)[k] = Short(st[a].items[k])
    <2>1. PICK name \in Name, its \in Seq(Item) : st[a] = [name |-> name, items |-> its]
      BY <1>1 DEF Section
    <2>. DEFINE more == TrimmedItems(its)
    <2>2. Len(its) \in Nat /\ DOMAIN its = 1 .. Len(its) /\ \A k \in 1 .. Len(its) : its[k] \in Item
      BY <2>1
    <2>3. \A k \in 1 .. Len(its) : Short(its[k]) \in PlainItem
      BY <2>2, ShortIs
    <2>4. more = [k \in 1 .. Len(its) |-> Short(its[k])]
      BY <2>2 DEF TrimmedItems, Short
    <2>. HIDE DEF more
    <2>5. more \in Seq(PlainItem) /\ Len(more) = Len(its) /\ \A k \in 1 .. Len(its) : more[k] = Short(its[k])
      BY <2>2, <2>3, <2>4
    <2>6. [name |-> name, items |-> more] \in PlainSection
      BY <2>1, <2>5 DEF PlainSection
    <2>7. st[a].items = its /\ st[a].name = name
      BY <2>1
    <2>8. [st[a] EXCEPT !.items = more] = [name |-> name, items |-> more]
      BY <2>1
    <2>9. TrimmedItems(st[a].items) = more
      BY <2>7 DEF more
    <2>. QED
      BY <2>5, <2>6, <2>7, <2>8, <2>9
  <1>3. t = [a \in 1 .. n |-> s(a)]
    <2>1. t = [a \in 1 .. n |-> [st[a] EXCEPT !.items = TrimmedItems(@)]]
      BY <1>1 DEF Trimmed
    <2>. QED
      BY <1>2, <2>1
  <1>4. \A a \in 1 .. n : s(a).name = st[a].name /\ s(a).items = TrimmedItems(st[a].items)
    OBVIOUS
  <1>5. \A a \in 1 .. n : s(a) \in PlainSection
    BY <1>2
  <1>. HIDE DEF s, t
  <1>6. t \in Seq(PlainSection) /\ Len(t) = n /\ \A a \in 1 .. n : t[a] = s(a)
    BY <1>1, <1>3, <1>5
  <1>. QED
    BY <1>2, <1>4, <1>6 DEF n, t

LEMMA DistinctBegins ==
    ASSUME NEW st \in Seq(Section), Distinct(st), NEW t, Len(t) \in Nat, DOMAIN t = 1 .. Len(t), Len(t) <= Len(st),
           \A a \in 1 .. Len(t) : t[a].name = st[a].name
    PROVE  Distinct(t)
  <1>1. \A a \in 1 .. Len(t) : a \in DOMAIN st
    OBVIOUS
  <1>. QED
    BY <1>1 DEF Distinct

\* The sections up to an item, as they are read if all texts of theirs fit on their lines.
LEMMA CutTrimmedIs ==
    ASSUME NEW st \in Seq(Section), Distinct(st), NEW i \in DOMAIN st, NEW j \in 0 .. Len(st[i].items)
    PROVE  /\ Trimmed(Cut(st, i, j)) \in Seq(PlainSection) /\ Distinct(Trimmed(Cut(st, i, j)))
           /\ Len(Trimmed(Cut(st, i, j))) = i
           /\ \A a \in 1 .. i :
                LET m == IF a = i THEN j ELSE Len(st[a].items)
                IN /\ m \in 0 .. Len(st[a].items)
                   /\ Trimmed(Cut(st, i, j))[a].name = st[a].name /\ Len(Trimmed(Cut(st, i, j))[a].items) = m
                   /\ \A k \in 1 .. m : Trimmed(Cut(st, i, j))[a].items[k] = Short(st[a].items[k])
                   /\ OneLine(Cut(st, i, j)) => \A k \in 1 .. m : Fits(st[a].items[k])
  <1>. DEFINE c == Cut(st, i, j)
              t == Trimmed(c)
              M(a) == IF a = i THEN j ELSE Len(st[a].items)
  <1>1. /\ c \in Seq(Section) /\ Len(c) = i
        /\ \A a \in 1 .. i : c[a].name = st[a].name
        /\ \A a \in 1 .. i : a # i => c[a].items = st[a].items
        /\ Len(c[i].items) = j
        /\ \A k \in 1 .. j : c[i].items[k] = st[i].items[k]
    BY CutIs
  <1>. HIDE DEF c
  <1>2. /\ t \in Seq(PlainSection) /\ Len(t) = i
        /\ \A a \in 1 .. i :
             /\ t[a].name = c[a].name /\ Len(t[a].items) = Len(c[a].items)
             /\ \A k \in 1 .. Len(c[a].items) : t[a].items[k] = Short(c[a].items[k])
    BY <1>1, TrimmedIs
  <1>. HIDE DEF t
  <1>3. i \in 1 .. Len(st) /\ Len(st) \in Nat /\ j \in 0 .. Len(st[i].items)
    OBVIOUS
  <1>4. \A a \in 1 .. i : Len(st[a].items) \in Nat
    <2>1. \A a \in 1 .. i : st[a] \in Section
      BY <1>3
    <2>. QED
      BY <2>1 DEF Section
  <1>5. Distinct(t)
    <2>1. Len(t) \in Nat /\ DOMAIN t = 1 .. Len(t) /\ Len(t) <= Len(st) /\ \A a \in 1 .. Len(t) : t[a].name = st[a].name
      BY <1>1, <1>2, <1>3
    <2>. QED
      BY <2>1, DistinctBegins
  <1>6. ASSUME NEW a \in 1 .. i
        PROVE  /\ M(a) \in 0 .. Len(st[a].items)
               /\ t[a].name = st[a].name /\ Len(t[a].items) = M(a)
               /\ \A k \in 1 .. M(a) : t[a].items[k] = Short(st[a].items[k])
               /\ OneLine(c) => \A k \in 1 .. M(a) : Fits(st[a].items[k])
    <2>1. M(a) \in 0 .. Len(st[a].items) /\ Len(c[a].items) = M(a)
      BY <1>1, <1>3, <1>4
    <2>2. \A k \in 1 .. M(a) : c[a].items[k] = st[a].items[k]
      BY <1>1
    <2>. HIDE DEF M
    <2>3. OneLine(c) => \A k \in 1 .. M(a) : Fits(st[a].items[k])
      <3>1. a \in DOMAIN c /\ c[a] \in Section
        BY <1>1
      <3>2. DOMAIN c[a].items = 1 .. Len(c[a].items)
        BY <3>1 DEF Section
      <3>. QED
        BY <2>1, <2>2, <3>1, <3>2 DEF OneLine, Fits
    <2>4. t[a].name = c[a].name /\ c[a].name = st[a].name /\ Len(t[a].items) = M(a)
      BY <1>1, <1>2, <2>1
    <2>5. \A k \in 1 .. M(a) : t[a].items[k] = Short(c[a].items[k])
      BY <1>2, <2>1
    <2>. QED
      BY <2>1, <2>2, <2>3, <2>4, <2>5
  <1>. QED
    BY <1>2, <1>5, <1>6 DEF c, t

\* stl_ini_dump of all sections, and of those before the first text that does not fit.
LEMMA DumpIsLines ==
    ASSUME NEW st \in Seq(Section)
    PROVE  /\ Dump(st) = FlattenSeq([i \in 1 .. Len(st) |-> Lines(st, i)])
           /\ [i \in 1 .. Len(st) |-> Lines(st, i)] \in Seq(Seq(AnyLine))
  <1>1. DOMAIN st = 1 .. Len(st) /\ Len(st) \in Nat
    OBVIOUS
  <1>2. \A i \in 1 .. Len(st) : Lines(st, i) \in Seq(AnyLine)
    BY <1>1, LinesAreLines
  <1>. QED
    BY <1>1, <1>2 DEF Dump, Lines

LEMMA NotLong ==
    ASSUME NEW items, \A k \in 1 .. Len(items) : Fits(items[k]), items \in Seq(Item)
    PROVE  ~Long(items, Len(items))
  <1>. SUFFICES ASSUME Long(items, Len(items)) PROVE FALSE
    OBVIOUS
  <1>1. Len(items) \in DOMAIN items /\ items[Len(items)].val.form = "long"
    BY DEF Long
  <1>2. items[Len(items)] \in Item /\ Fits(items[Len(items)])
    BY <1>1
  <1>. QED
    BY <1>1, <1>2, ShortIs

\* The lines of one section are those of what is read of it.
LEMMA LinesMatch ==
    ASSUME NEW st \in Seq(Section), NEW i \in DOMAIN st, NEW m \in 0 .. Len(st[i].items), NEW s \in PlainSection,
           \A k \in 1 .. m : Fits(st[i].items[k]),
           i > 1 => \A k \in 1 .. Len(st[i - 1].items) : Fits(st[i - 1].items[k]),
           s.name = st[i].name, Len(s.items) = m, \A k \in 1 .. m : s.items[k] = Short(st[i].items[k])
    PROVE  /\ Len(LinesOf(s)) <= Len(Lines(st, i))
           /\ \A k \in 1 .. Len(LinesOf(s)) : LinesOf(s)[k] = Lines(st, i)[k]
           /\ m = Len(st[i].items) => Lines(st, i) = LinesOf(s)
  <1>. DEFINE u == LinesOf(s)
              v == Lines(st, i)
  <1>1. i > 1 => ~Long(st[i - 1].items, Len(st[i - 1].items))
    <2>. HAVE i > 1
    <2>1. i - 1 \in DOMAIN st
      OBVIOUS
    <2>2. st[i - 1] \in Section
      BY <2>1
    <2>3. st[i - 1].items \in Seq(Item)
      BY <2>2 DEF Section
    <2>. QED
      BY <2>3, NotLong
  <1>2. /\ v \in Seq(AnyLine) /\ m + 1 <= Len(v) /\ v[1] = NameLine(st[i])
        /\ \A k \in 1 .. m : v[k + 1] = ItemLine(Short(st[i].items[k]))
        /\ m = Len(st[i].items) => Len(v) = m + 1
    BY <1>1, LinesAre
  <1>3. /\ u \in Seq(AnyLine) /\ Len(u) = m + 1 /\ m \in Nat /\ u[1] = NameLine(s)
        /\ \A k \in 1 .. m : u[k + 1] = ItemLine(s.items[k])
    BY LinesOfAre
  <1>4. NameLine(s) = NameLine(st[i])
    BY DEF NameLine
  <1>5. \A k \in 1 .. m : s.items[k] = Short(st[i].items[k])
    OBVIOUS
  <1>. HIDE DEF u, v
  <1>6. ASSUME NEW k \in 1 .. m + 1 PROVE u[k] = v[k]
    <2>1. CASE k = 1
      BY <1>2, <1>3, <1>4, <2>1
    <2>2. CASE k # 1
      <3>1. k - 1 \in 1 .. m /\ (k - 1) + 1 = k
        BY <1>3, <2>2
      <3>2. u[(k - 1) + 1] = v[(k - 1) + 1]
        BY <1>2, <1>3, <1>5, <3>1
      <3>. QED
        BY <3>1, <3>2
    <2>. QED
      BY <2>1, <2>2
  <1>7. m = Len(st[i].items) => v = u
    BY <1>2, <1>3, <1>6, SeqEqual
  <1>. QED
    BY <1>2, <1>3, <1>6, <1>7 DEF u, v

\* What is written of the sections up to an item whose texts fit stands at the beginning.
LEMMA DumpBegins ==
    ASSUME NEW st \in Seq(Section), Distinct(st), NEW i \in DOMAIN st, NEW j \in 0 .. Len(st[i].items),
           OneLine(Cut(st, i, j)), NEW t, t = Trimmed(Cut(st, i, j))
    PROVE  /\ Len(PlainDump(t)) <= Len(Dump(st)) /\ Len(PlainDump(t)) \in Nat
           /\ \A k \in 1 .. Len(PlainDump(t)) : PlainDump(t)[k] = Dump(st)[k]
  <1>. DEFINE n == Len(st)
              seqs == [a \in 1 .. n |-> Lines(st, a)]
              parts == [a \in 1 .. i |-> LinesOf(t[a])]
              M(a) == IF a = i THEN j ELSE Len(st[a].items)
  <1>1. n \in Nat /\ DOMAIN st = 1 .. n /\ i \in 1 .. n /\ i \in Nat /\ i - 1 \in 0 .. i /\ \A a \in 1 .. i : a \in DOMAIN st
    OBVIOUS
  <1>2. Dump(st) = FlattenSeq(seqs) /\ seqs \in Seq(Seq(AnyLine)) /\ Len(seqs) = n
    BY <1>1, DumpIsLines
  <1>3. /\ t \in Seq(PlainSection) /\ Len(t) = i
        /\ \A a \in 1 .. i :
             /\ M(a) \in 0 .. Len(st[a].items) /\ t[a].name = st[a].name /\ Len(t[a].items) = M(a)
             /\ \A k \in 1 .. M(a) : t[a].items[k] = Short(st[a].items[k])
             /\ \A k \in 1 .. M(a) : Fits(st[a].items[k])
    BY CutTrimmedIs
  <1>4. \A a \in 1 .. i : t[a] \in PlainSection
    BY <1>1, <1>3
  <1>5. /\ PlainDump(t) = FlattenSeq(parts) /\ parts \in Seq(Seq(AnyLine)) /\ Len(parts) = i
        /\ \A a \in 1 .. i : LinesOf(t[a]) \in Seq(AnyLine)
    <2>1. \A a \in 1 .. i : LinesOf(t[a]) \in Seq(AnyLine)
      BY <1>4, LinesOfAre
    <2>2. DOMAIN t = 1 .. i
      BY <1>1, <1>3
    <2>. QED
      BY <1>1, <2>1, <2>2 DEF PlainDump
  <1>6. \A a \in 1 .. i : a # i => M(a) = Len(st[a].items)
    OBVIOUS
  <1>7. ASSUME NEW a \in 1 .. i
        PROVE  /\ Len(LinesOf(t[a])) <= Len(Lines(st, a))
               /\ \A k \in 1 .. Len(LinesOf(t[a])) : LinesOf(t[a])[k] = Lines(st, a)[k]
               /\ a # i => Lines(st, a) = LinesOf(t[a])
    <2>1. a > 1 => \A k \in 1 .. Len(st[a - 1].items) : Fits(st[a - 1].items[k])
      <3>. HAVE a > 1
      <3>1. a - 1 \in 1 .. i /\ a - 1 # i
        BY <1>1
      <3>2. M(a - 1) = Len(st[a - 1].items)
        BY <1>6, <3>1
      <3>. HIDE DEF M
      <3>. QED
        BY <1>3, <3>1, <3>2
    <2>. DEFINE m == M(a)
                s == t[a]
    <2>2. /\ m \in 0 .. Len(st[a].items) /\ s \in PlainSection /\ s.name = st[a].name /\ Len(s.items) = m
          /\ \A k \in 1 .. m : s.items[k] = Short(st[a].items[k])
          /\ \A k \in 1 .. m : Fits(st[a].items[k])
          /\ a \in DOMAIN st /\ (a # i => m = Len(st[a].items))
      BY <1>1, <1>3, <1>4, <1>6
    <2>. HIDE DEF m, s, M
    <2>3. /\ Len(LinesOf(s)) <= Len(Lines(st, a))
          /\ \A k \in 1 .. Len(LinesOf(s)) : LinesOf(s)[k] = Lines(st, a)[k]
          /\ m = Len(st[a].items) => Lines(st, a) = LinesOf(s)
      BY <2>1, <2>2, LinesMatch
    <2>. QED
      BY <2>2, <2>3 DEF s
  <1>8. /\ \A a \in 1 .. n : seqs[a] = Lines(st, a)
        /\ \A a \in 1 .. i : parts[a] = LinesOf(t[a])
    OBVIOUS
  <1>. HIDE DEF seqs, parts, n, M
  <1>9. PICK F : Joined(AnyLine, seqs, n, F) /\ FlattenSeq(seqs) = F[n]
    BY <1>1, <1>2, FlattenIs, Zenon
  <1>10. PICK G : Joined(AnyLine, parts, i, G) /\ FlattenSeq(parts) = G[i]
    BY <1>1, <1>5, FlattenIs, Zenon
  <1>11. /\ F[0] = << >> /\ \A a \in 1 .. n : F[a] = F[a - 1] \o seqs[a]
         /\ \A a \in 0 .. n : F[a] \in Seq(AnyLine)
         /\ G[0] = << >> /\ \A a \in 1 .. i : G[a] = G[a - 1] \o parts[a]
         /\ \A a \in 0 .. i : G[a] \in Seq(AnyLine)
    BY <1>9, <1>10 DEF Joined
  <1>. DEFINE T == {a \in 0 .. i - 1 : F[a] # G[a]}
  <1>12. T = {}
    <2>. SUFFICES ASSUME T # {} PROVE FALSE
      OBVIOUS
    <2>1. PICK q \in T : \A y \in T : q <= y
      <3>1. T \in SUBSET Nat
        BY <1>1
      <3>. HIDE DEF T
      <3>. QED
        BY <3>1, Least
    <2>2. q \in 0 .. i - 1 /\ F[q] # G[q] /\ q # 0
      BY <2>1, <1>11
    <2>3. q \in 1 .. i /\ q \in 1 .. n /\ q # i /\ q - 1 \in 0 .. i - 1 /\ ~(q <= q - 1)
      BY <2>2, <1>1
    <2>4. F[q - 1] = G[q - 1]
      BY <2>1, <2>3
    <2>5. seqs[q] = parts[q]
      BY <1>7, <1>8, <2>3
    <2>. QED
      BY <2>2, <2>3, <2>4, <2>5, <1>11
  <1>. DEFINE u == F[i - 1]
              v == Lines(st, i)
              x == LinesOf(t[i])
  <1>13. F[i] = u \o v /\ G[i] = u \o x /\ u \in Seq(AnyLine)
    <2>1. i - 1 \in 0 .. i - 1 /\ i \in 1 .. i /\ i - 1 \in 0 .. n
      BY <1>1
    <2>2. F[i - 1] = G[i - 1]
      BY <1>12, <2>1
    <2>3. seqs[i] = Lines(st, i) /\ parts[i] = LinesOf(t[i])
      BY <1>1, <1>8, <2>1
    <2>4. F[i] = F[i - 1] \o seqs[i]
      BY <1>1, <1>11
    <2>5. G[i] = G[i - 1] \o parts[i]
      BY <1>11, <2>1
    <2>6. F[i - 1] \in Seq(AnyLine)
      BY <1>11, <2>1
    <2>. QED
      BY <2>2, <2>3, <2>4, <2>5, <2>6, Zenon
  <1>14. /\ v \in Seq(AnyLine) /\ x \in Seq(AnyLine) /\ Len(x) <= Len(v) /\ \A k \in 1 .. Len(x) : x[k] = v[k]
    <2>1. i \in 1 .. i
      BY <1>1
    <2>. QED
      BY <1>1, <1>5, <1>7, <2>1, LinesAreLines
  <1>. HIDE DEF u, v, x
  <1>15. /\ Len(F[i]) = Len(u) + Len(v) /\ Len(G[i]) = Len(u) + Len(x)
         /\ \A k \in 1 .. Len(u) + Len(v) : F[i][k] = IF k <= Len(u) THEN u[k] ELSE v[k - Len(u)]
         /\ \A k \in 1 .. Len(u) + Len(x) : G[i][k] = IF k <= Len(u) THEN u[k] ELSE x[k - Len(u)]
    BY <1>13, <1>14, ConcatProperties
  <1>16. Len(u) \in Nat /\ Len(v) \in Nat /\ Len(x) \in Nat
    BY <1>13, <1>14
  <1>17. Len(G[i]) <= Len(F[i]) /\ Len(G[i]) \in Nat
    BY <1>14, <1>15, <1>16
  <1>18. ASSUME NEW k \in 1 .. Len(G[i]) PROVE G[i][k] = F[i][k]
    <2>1. k \in 1 .. Len(u) + Len(x) /\ k \in 1 .. Len(u) + Len(v)
      BY <1>14, <1>15, <1>16
    <2>2. CASE k <= Len(u)
      BY <1>15, <2>1, <2>2
    <2>3. CASE ~(k <= Len(u))
      <3>1. k - Len(u) \in 1 .. Len(x)
        BY <1>16, <2>1, <2>3
      <3>. QED
        BY <1>14, <1>15, <2>1, <2>3, <3>1
    <2>. QED
      BY <2>2, <2>3
  <1>19. Len(F[i]) <= Len(F[n]) /\ \A k \in 1 .. Len(F[i]) : F[n][k] = F[i][k]
    <2>1. i \in 0 .. n
      BY <1>1
    <2>. QED
      BY <1>1, <1>9, <2>1, JoinedStay
  <1>20. Len(F[n]) \in Nat /\ Len(F[i]) \in Nat
    <2>1. n \in 0 .. n /\ i \in 0 .. n
      BY <1>1
    <2>. QED
      BY <1>11, <2>1
  <1>21. Len(G[i]) <= Len(F[n])
    BY <1>17, <1>19, <1>20
  <1>22. \A k \in 1 .. Len(G[i]) : G[i][k] = F[n][k]
    <2>. TAKE k \in 1 .. Len(G[i])
    <2>1. k \in 1 .. Len(F[i])
      BY <1>17, <1>20
    <2>. QED
      BY <1>18, <1>19, <2>1
  <1>. QED
    BY <1>2, <1>5, <1>9, <1>10, <1>17, <1>21, <1>22

\* What is written of all sections, if every text fits.
LEMMA DumpWhole ==
    ASSUME NEW st \in Seq(Section), Distinct(st), OneLine(st)
    PROVE  /\ Trimmed(st) \in Seq(PlainSection) /\ Distinct(Trimmed(st))
           /\ Dump(st) = PlainDump(Trimmed(st))
  <1>. DEFINE n == Len(st)
              t == Trimmed(st)
  <1>1. n \in Nat /\ DOMAIN st = 1 .. n /\ \A a \in 1 .. n : st[a] \in Section
    OBVIOUS
  <1>2. /\ t \in Seq(PlainSection) /\ Len(t) = n
        /\ \A a \in 1 .. n :
             /\ t[a].name = st[a].name /\ Len(t[a].items) = Len(st[a].items)
             /\ \A k \in 1 .. Len(st[a].items) : t[a].items[k] = Short(st[a].items[k])
    BY TrimmedIs
  <1>. HIDE DEF t
  <1>3. Distinct(t)
    <2>1. Len(t) \in Nat /\ DOMAIN t = 1 .. Len(t) /\ Len(t) <= Len(st) /\ \A a \in 1 .. Len(t) : t[a].name = st[a].name
      BY <1>1, <1>2
    <2>. QED
      BY <2>1, DistinctBegins
  <1>4. ASSUME NEW a \in 1 .. n
        PROVE  /\ Len(st[a].items) \in 0 .. Len(st[a].items)
               /\ \A k \in 1 .. Len(st[a].items) : Fits(st[a].items[k])
    <2>1. st[a].items \in Seq(Item)
      BY <1>1 DEF Section
    <2>2. Len(st[a].items) \in Nat /\ DOMAIN st[a].items = 1 .. Len(st[a].items)
      BY <2>1
    <2>. QED
      BY <1>1, <2>2 DEF OneLine, Fits
  <1>5. ASSUME NEW a \in 1 .. n PROVE Lines(st, a) = LinesOf(t[a])
    <2>. DEFINE m == Len(st[a].items)
                s == t[a]
    <2>1. a > 1 => \A k \in 1 .. Len(st[a - 1].items) : Fits(st[a - 1].items[k])
      <3>. HAVE a > 1
      <3>1. a - 1 \in 1 .. n
        BY <1>1
      <3>. QED
        BY <1>4, <3>1
    <2>2. /\ m \in 0 .. Len(st[a].items) /\ s \in PlainSection /\ s.name = st[a].name /\ Len(s.items) = m
          /\ \A k \in 1 .. m : s.items[k] = Short(st[a].items[k])
          /\ \A k \in 1 .. m : Fits(st[a].items[k])
          /\ a \in DOMAIN st
      BY <1>1, <1>2, <1>4
    <2>3. m = Len(st[a].items)
      OBVIOUS
    <2>. HIDE DEF m, s
    <2>4. Lines(st, a) = LinesOf(s)
      BY <2>1, <2>2, <2>3, LinesMatch
    <2>. QED
      BY <2>4 DEF s
  <1>6. [a \in 1 .. n |-> Lines(st, a)] = [a \in DOMAIN t |-> LinesOf(t[a])]
    <2>1. DOMAIN t = 1 .. n
      BY <1>1, <1>2
    <2>. QED
      BY <1>5, <2>1
  <1>7. Dump(st) = FlattenSeq([a \in 1 .. n |-> Lines(st, a)])
    BY DumpIsLines
  <1>. QED
    BY <1>2, <1>3, <1>6, <1>7 DEF t, PlainDump

\* What the parser has while any lines are read.
Typed(p) ==
    /\ p.store \in Seq(Section) /\ Distinct(p.store) /\ p.section \in Name /\ p.key \in Name /\ p.ok \in BOOLEAN
    /\ p = [section |-> p.section, key |-> p.key, ok |-> p.ok, store |-> p.store]

LEMMA ParseTyped ==
    ASSUME NEW p, Typed(p), NEW l \in AnyLine
    PROVE  Typed(ParseLine(p, l)) /\ Grows(p.store, ParseLine(p, l).store)
  <1>. DEFINE q == ParseLine(p, l)
              st == p.store
              section == p.section
              key == p.key
  <1>1. /\ st \in Seq(Section) /\ Distinct(st) /\ section \in Name /\ key \in Name /\ p.ok \in BOOLEAN
        /\ p = [section |-> section, key |-> key, ok |-> p.ok, store |-> st]
    BY DEF Typed
  <1>2. Readable(l)
    BY AnyIsReadable
  <1>3. CASE p.ok = FALSE
    <2>1. q = p
      BY <1>3 DEF ParseLine
    <2>. QED
      BY <1>1, <2>1, GrowsSelf
  <1>4. CASE p.ok = TRUE
    <2>1. q = ParseLine([section |-> section, key |-> key, ok |-> TRUE, store |-> st], l)
      BY <1>1, <1>4
    <2>. HIDE DEF q, st, section, key
    <2>2. /\ q.store \in Seq(Section) /\ Distinct(q.store) /\ q.section \in Name /\ q.key \in Name
          /\ q.ok \in BOOLEAN
          /\ q = [section |-> q.section, key |-> q.key, ok |-> q.ok, store |-> q.store]
          /\ Grows(st, q.store)
      BY <1>1, <1>2, <2>1, ParseLineIs
    <2>. QED
      BY <2>2 DEF Typed, q, st
  <1>. QED
    BY <1>1, <1>3, <1>4

\* Items and sections are only added.
LEMMA ParseGrows ==
    ASSUME NEW lines \in Seq(AnyLine), NEW A, A[0] = Parsing,
           \A k \in 1 .. Len(lines) : A[k] = ParseLine(A[k - 1], lines[k]),
           NEW i \in 0 .. Len(lines)
    PROVE  Grows(A[i].store, A[Len(lines)].store)
  <1>. DEFINE Good(k) == Typed(A[k]) /\ (k >= i => Typed(A[i]) /\ Grows(A[i].store, A[k].store))
              n == Len(lines)
              T == {k \in 0 .. n : ~Good(k)}
  <1>1. n \in Nat /\ i \in 0 .. n /\ \A k \in 1 .. n : lines[k] \in AnyLine
    OBVIOUS
  <1>2. ASSUME NEW k \in 0 .. n, Typed(A[k]), k > i => Good(k - 1) /\ Grows(A[k - 1].store, A[k].store)
        PROVE  Good(k)
    <2>1. CASE k < i
      BY <1>1, <1>2, <2>1
    <2>2. CASE k = i
      <3>1. Grows(A[k].store, A[k].store)
        BY <1>2, GrowsSelf DEF Typed
      <3>. QED
        BY <1>2, <2>2, <3>1
    <2>3. CASE k > i
      <3>1. k - 1 >= i
        BY <1>1, <2>3
      <3>2. /\ Typed(A[i]) /\ Typed(A[k - 1]) /\ Grows(A[i].store, A[k - 1].store)
            /\ Grows(A[k - 1].store, A[k].store)
        BY <1>2, <2>3, <3>1
      <3>3. A[i].store \in Seq(Section) /\ A[k - 1].store \in Seq(Section) /\ A[k].store \in Seq(Section)
        BY <1>2, <3>2 DEF Typed
      <3>4. Grows(A[i].store, A[k].store)
        BY <3>2, <3>3, GrowsTwice
      <3>. QED
        BY <1>2, <3>2, <3>4
    <2>. QED
      BY <1>1, <2>1, <2>2, <2>3
  <1>3. Good(0)
    <2>1. Typed(A[0])
      BY DEF Parsing, Typed, NoName, Name, Distinct
    <2>2. 0 \in 0 .. n /\ ~(0 > i)
      BY <1>1
    <2>. HIDE DEF Good
    <2>. QED
      BY <2>1, <2>2, <1>2
  <1>4. ASSUME NEW k \in 1 .. n, Good(k - 1) PROVE Good(k)
    <2>1. Typed(A[k - 1]) /\ lines[k] \in AnyLine /\ A[k] = ParseLine(A[k - 1], lines[k])
      BY <1>1, <1>4
    <2>2. Typed(A[k]) /\ Grows(A[k - 1].store, A[k].store)
      BY <2>1, ParseTyped
    <2>3. k \in 0 .. n
      OBVIOUS
    <2>. HIDE DEF Good
    <2>. QED
      BY <2>2, <2>3, <1>2, <1>4
  <1>. HIDE DEF Good
  <1>5. T = {}
    <2>. SUFFICES ASSUME T # {} PROVE FALSE
      OBVIOUS
    <2>1. PICK q \in T : \A y \in T : q <= y
      <3>1. T \in SUBSET Nat
        BY <1>1
      <3>. HIDE DEF T
      <3>. QED
        BY <3>1, Least
    <2>2. q \in 0 .. n /\ ~Good(q) /\ q # 0
      BY <2>1, <1>3
    <2>3. q \in 1 .. n /\ q - 1 \in 0 .. n /\ ~(q <= q - 1)
      BY <2>2, <1>1
    <2>4. Good(q - 1)
      BY <2>1, <2>3
    <2>. QED
      BY <2>2, <2>3, <2>4, <1>4
  <1>6. n \in 0 .. n /\ n >= i
    BY <1>1
  <1>. QED
    BY <1>5, <1>6 DEF Good

\* DumpReadsBack, for any names, lines and calls, and texts of every form: the file that
\* stl_ini_dump writes is read as the sections that have items, with trimmed texts, at least
\* up to the first text that does not fit on a line.
THEOREM DumpsReadBack == IniSpec => []DumpReadsBack
  <1>1. ASSUME IniInv PROVE DumpReadsBack
    <2>. DEFINE D == Dump(store)
                read == Parse(D)
    <2>1. store \in Seq(Section) /\ Distinct(store)
      BY <1>1 DEF IniInv
    <2>2. D \in Seq(AnyLine) /\ Len(D) \in Nat
      <3>. DEFINE seqs == [i \in 1 .. Len(store) |-> Lines(store, i)]
      <3>1. D = FlattenSeq(seqs) /\ seqs \in Seq(Seq(AnyLine))
        BY <2>1, DumpIsLines
      <3>. HIDE DEF seqs, D
      <3>2. 0 \in 0 .. Len(seqs) /\ Single(AnyLine, seqs, 0, << >>)
        BY <3>1 DEF Single
      <3>3. D \in Seq(AnyLine)
        BY <3>1, <3>2, FlattenBegins
      <3>. QED
        BY <3>3
    <2>. HIDE DEF D
    <2>3. PICK A : /\ A[0] = Parsing /\ read = A[Len(D)].store
                   /\ \A k \in 1 .. Len(D) : A[k] = ParseLine(A[k - 1], D[k])
      BY <2>2, ParseIs
    <2>. HIDE DEF read
    <2>4. ASSUME OneLine(store) PROVE read = WithItems(Trimmed(store))
      <3>. DEFINE t == Trimmed(store)
      <3>1. t \in Seq(PlainSection) /\ Distinct(t) /\ D = PlainDump(t)
        BY <2>1, <2>4, DumpWhole DEF D
      <3>. HIDE DEF t
      <3>2. Reads(A[Len(D)], WithItems(t))
        BY <2>3, <3>1, DumpIsRead
      <3>3. A[Len(D)].store = WithItems(t)
        BY <3>2 DEF Reads
      <3>. QED
        BY <2>3, <3>3 DEF t
    <2>5. ASSUME NEW i \in DOMAIN store, NEW j \in 0 .. Len(store[i].items), OneLine(Cut(store, i, j))
          PROVE  Grows(WithItems(Trimmed(Cut(store, i, j))), read)
      <3>. DEFINE t == Trimmed(Cut(store, i, j))
                  E == PlainDump(t)
      <3>1. t \in Seq(PlainSection) /\ Distinct(t)
        BY <2>1, CutTrimmedIs
      <3>2. Len(E) <= Len(D) /\ Len(E) \in Nat /\ \A k \in 1 .. Len(E) : E[k] = D[k]
        BY <2>1, <2>5, DumpBegins DEF D
      <3>. HIDE DEF t
      <3>3. \A k \in 1 .. Len(E) : A[k] = ParseLine(A[k - 1], E[k])
        <4>1. \A k \in 1 .. Len(E) : k \in 1 .. Len(D)
          BY <2>2, <3>2
        <4>. QED
          BY <2>3, <3>2, <4>1
      <3>4. Reads(A[Len(E)], WithItems(t))
        BY <2>3, <3>1, <3>3, DumpIsRead
      <3>5. A[Len(E)].store = WithItems(t)
        BY <3>4 DEF Reads
      <3>6. Len(E) \in 0 .. Len(D)
        BY <2>2, <3>2
      <3>. HIDE DEF E
      <3>7. Grows(A[Len(E)].store, A[Len(D)].store)
        BY <2>2, <2>3, <3>6, ParseGrows
      <3>. QED
        BY <2>3, <3>5, <3>7 DEF t
    <2>. QED
      BY <2>4, <2>5 DEF DumpReadsBack, read, D
  <1>. QED
    BY <1>1, IniInvariant, PTL

-----------------------------------------------------------------------------
(* Base64. *)

Byte == 0 .. 255
Value == 0 .. 63

LEMMA SymbolIs ==
    ASSUME NEW v \in Value
    PROVE  Symbol(v) \in Byte /\ Symbol(v) # Equals /\ Symbol(v) \notin Whitespace /\ ValueOf(Symbol(v)) = v
  <1>1. CASE v < 26
    <2>1. Symbol(v) = 65 + v
      BY <1>1 DEF Symbol, Value
    <2>. QED
      BY <1>1, <2>1 DEF ValueOf, Value, Byte, Equals, Whitespace
  <1>2. CASE v \in 26 .. 51
    <2>1. Symbol(v) = 97 + v - 26
      BY <1>2 DEF Symbol, Value
    <2>. QED
      BY <1>2, <2>1 DEF ValueOf, Value, Byte, Equals, Whitespace
  <1>3. CASE v \in 52 .. 61
    <2>1. Symbol(v) = 48 + v - 52
      BY <1>3 DEF Symbol, Value
    <2>. QED
      BY <1>3, <2>1 DEF ValueOf, Value, Byte, Equals, Whitespace
  <1>4. CASE v = 62
    <2>1. Symbol(v) = 43
      BY <1>4 DEF Symbol, Value
    <2>. QED
      BY <1>4, <2>1 DEF ValueOf, Value, Byte, Equals, Whitespace
  <1>5. CASE v = 63
    <2>1. Symbol(v) = 47
      BY <1>5 DEF Symbol, Value
    <2>. QED
      BY <1>5, <2>1 DEF ValueOf, Value, Byte, Equals, Whitespace
  <1>. QED
    BY <1>1, <1>2, <1>3, <1>4, <1>5 DEF Value

LEMMA ValueOfIs ==
    ASSUME NEW c \in Byte
    PROVE  /\ ValueOf(c) \in Int
           /\ ~(ValueOf(c) < 0) => ValueOf(c) \in Value /\ Symbol(ValueOf(c)) = c
  <1>1. CASE c = 43
    <2>1. ValueOf(c) = 62
      BY <1>1 DEF ValueOf, Byte
    <2>. QED
      BY <1>1, <2>1 DEF Symbol, Value
  <1>2. CASE c = 47
    <2>1. ValueOf(c) = 63
      BY <1>2 DEF ValueOf, Byte
    <2>. QED
      BY <1>2, <2>1 DEF Symbol, Value
  <1>3. CASE c \in 48 .. 57
    <2>1. ValueOf(c) = 52 + c - 48
      BY <1>3 DEF ValueOf, Byte
    <2>. QED
      BY <1>3, <2>1 DEF Symbol, Value
  <1>4. CASE c \in 65 .. 90
    <2>1. ValueOf(c) = c - 65
      BY <1>4 DEF ValueOf, Byte
    <2>. QED
      BY <1>4, <2>1 DEF Symbol, Value
  <1>5. CASE c \in 97 .. 122
    <2>1. ValueOf(c) = 26 + c - 97
      BY <1>5 DEF ValueOf, Byte
    <2>. QED
      BY <1>5, <2>1 DEF Symbol, Value
  <1>6. CASE c \notin {43, 47} \cup 48 .. 57 \cup 65 .. 90 \cup 97 .. 122
    <2>1. ValueOf(c) = -1
      BY <1>6 DEF ValueOf, Byte
    <2>. QED
      BY <2>1
  <1>. QED
    BY <1>1, <1>2, <1>3, <1>4, <1>5, <1>6

\* Dividing in two steps.
LEMMA Halves ==
    ASSUME NEW x \in Nat
    PROVE  /\ x \div 64 \in Nat /\ x = 64 * (x \div 64) + (x % 64) /\ (x % 64) \in Value
           /\ x \div 4096 = (x \div 64) \div 64
           /\ x \div 262144 = (x \div 4096) \div 64
  BY SMT DEF Value

\* Four times six bits are the 24 of three bytes.
LEMMA SextetsJoin ==
    ASSUME NEW x \in Nat, x \div 262144 \in Value
    PROVE  /\ ((x \div 262144) % 64) \in Value /\ ((x \div 4096) % 64) \in Value
           /\ ((x \div 64) % 64) \in Value /\ ((x \div 1) % 64) \in Value
           /\ x = ((((x \div 262144) % 64) * 64 + ((x \div 4096) % 64)) * 64 + ((x \div 64) % 64)) * 64 + ((x \div 1) % 64)
  <1>. DEFINE a == x \div 64
              b == a \div 64
              c == b \div 64
  <1>1. x \in Nat /\ x \div 1 = x
    BY SMT
  <1>2. a \in Nat /\ x = 64 * a + (x % 64) /\ (x % 64) \in Value /\ x \div 4096 = b /\ x \div 262144 = (x \div 4096) \div 64
    BY <1>1, Halves, SMT
  <1>. HIDE DEF a
  <1>3. b \in Nat /\ a = 64 * b + (a % 64) /\ (a % 64) \in Value
    BY <1>2, Halves, SMT
  <1>. HIDE DEF b
  <1>4. c \in Nat /\ b = 64 * c + (b % 64) /\ (b % 64) \in Value
    BY <1>3, Halves, SMT
  <1>5. x \div 262144 = c
    BY <1>2, SMT
  <1>. HIDE DEF c
  <1>6. c \in Value
    BY <1>5, SMT
  <1>7. (c % 64) = c
    BY <1>6, SMT DEF Value
  <1>8. x = ((c * 64 + (b % 64)) * 64 + (a % 64)) * 64 + (x % 64)
    BY <1>1, <1>2, <1>3, <1>4, <1>6, SMT DEF Value
  <1>. QED
    BY <1>1, <1>2, <1>3, <1>4, <1>5, <1>6, <1>7, <1>8, SMT DEF a

LEMMA ByteHalves ==
    ASSUME NEW x \in Nat
    PROVE  /\ x \div 256 \in Nat /\ x = 256 * (x \div 256) + (x % 256) /\ (x % 256) \in Byte
           /\ x \div 65536 = (x \div 256) \div 256
  BY SMT DEF Byte

\* The bytes of their 24 bits.
LEMMA BytesOf ==
    ASSUME NEW a \in Byte, NEW b \in Byte, NEW c \in Byte, NEW x, x = a * 65536 + b * 256 + c
    PROVE  /\ x \in Nat /\ x \div 262144 \in Value
           /\ ((x \div 65536) % 256) = a /\ ((x \div 256) % 256) = b /\ ((x \div 1) % 256) = c
  <1>1. a \in 0 .. 255 /\ b \in 0 .. 255 /\ c \in 0 .. 255
    BY SMT DEF Byte
  <1>2. x \in Nat /\ x \div 262144 \in Value
    BY <1>1, SMT DEF Value
  <1>3. x \div 65536 = a
    BY <1>1, SMT
  <1>4. x \div 256 = a * 256 + b
    BY <1>1, SMT
  <1>5. (a * 256 + b) % 256 = b /\ (a % 256) = a
    BY <1>1, SMT
  <1>6. x \div 1 = x /\ (x % 256) = c
    BY <1>1, <1>2, SMT
  <1>. QED
    BY <1>2, <1>3, <1>4, <1>5, <1>6, SMT

\* The values behind the bytes of a short group are zero.
LEMMA ShortGroups ==
    ASSUME NEW a \in Byte, NEW b \in Byte
    PROVE  /\ ((a * 65536) \div 64) % 64 = 0 /\ ((a * 65536) \div 1) % 64 = 0
           /\ ((a * 65536 + b * 256) \div 1) % 64 = 0
  <1>1. a \in 0 .. 255 /\ b \in 0 .. 255
    BY SMT DEF Byte
  <1>2. (a * 65536) \div 64 = a * 1024 /\ (a * 1024) % 64 = 0 /\ (a * 65536) \div 1 = a * 65536 /\ (a * 65536) % 64 = 0
    BY <1>1, SMT
  <1>3. (a * 65536 + b * 256) \div 1 = a * 65536 + b * 256 /\ (a * 65536 + b * 256) % 64 = 0
    BY <1>1, SMT
  <1>. QED
    BY <1>2, <1>3, SMT

\* The 24 bits of four values, as three bytes.
LEMMA ValuesJoin ==
    ASSUME NEW p \in Value, NEW q \in Value, NEW r \in Value, NEW s \in Value,
           NEW x, x = ((p * 64 + q) * 64 + r) * 64 + s
    PROVE  /\ x \in Nat /\ x \div 262144 = p
           /\ ((x \div 65536) % 256) \in Byte /\ ((x \div 256) % 256) \in Byte /\ ((x \div 1) % 256) \in Byte
           /\ x = ((x \div 65536) % 256) * 65536 + ((x \div 256) % 256) * 256 + ((x \div 1) % 256)
           /\ ((x \div 262144) % 64) = p /\ ((x \div 4096) % 64) = q /\ ((x \div 64) % 64) = r /\ ((x \div 1) % 64) = s
  <1>1. p \in 0 .. 63 /\ q \in 0 .. 63 /\ r \in 0 .. 63 /\ s \in 0 .. 63
    BY SMT DEF Value
  <1>2. x \in Nat
    BY <1>1, SMT
  <1>3. x \div 262144 = p /\ (p % 64) = p
    BY <1>1, SMT
  <1>4. x \div 4096 = p * 64 + q /\ (p * 64 + q) % 64 = q
    BY <1>1, SMT
  <1>5. x \div 64 = (p * 64 + q) * 64 + r /\ ((p * 64 + q) * 64 + r) % 64 = r
    BY <1>1, SMT
  <1>6. x \div 1 = x /\ (x % 64) = s
    BY <1>1, SMT
  <1>. DEFINE y == x \div 256
              z == x \div 65536
  <1>7. y \in Nat /\ x = 256 * y + (x % 256) /\ (x % 256) \in Byte /\ z = y \div 256
    BY <1>2, ByteHalves, SMT
  <1>. HIDE DEF y, z
  <1>8. z \in Nat /\ y = 256 * z + (y % 256) /\ (y % 256) \in Byte
    BY <1>7, ByteHalves, SMT
  <1>12. 65536 * z <= x
    BY <1>2, <1>7, <1>8, SMT DEF Byte
  <1>9. z \in Byte
    BY <1>1, <1>2, <1>8, <1>12, SMT DEF Byte
  <1>10. (z % 256) = z
    BY <1>9, SMT DEF Byte
  <1>11. x = z * 65536 + (y % 256) * 256 + (x % 256)
    BY <1>2, <1>7, <1>8, <1>9, SMT DEF Byte
  <1>. QED
    BY <1>2, <1>3, <1>4, <1>5, <1>6, <1>7, <1>8, <1>9, <1>10, <1>11, SMT DEF y, z

\* The three bytes and the four values of 24 bits.
Byte1(x) == (x \div 65536) % 256
Byte2(x) == (x \div 256) % 256
Byte3(x) == (x \div 1) % 256
Six1(x) == (x \div 262144) % 64
Six2(x) == (x \div 4096) % 64
Six3(x) == (x \div 64) % 64
Six4(x) == (x \div 1) % 64

\* What a group of bytes encodes to.
GroupOf(grp, x) ==
    /\ x \in Nat
    /\ {Six1(x), Six2(x), Six3(x), Six4(x)} \subseteq Value
    /\ x = ((Six1(x) * 64 + Six2(x)) * 64 + Six3(x)) * 64 + Six4(x)
    /\ EncodeGroup(grp)
        = <<Symbol(Six1(x)), Symbol(Six2(x)), IF Len(grp) > 1 THEN Symbol(Six3(x)) ELSE Equals,
            IF Len(grp) > 2 THEN Symbol(Six4(x)) ELSE Equals>>
    /\ grp[1] = Byte1(x)
    /\ Len(grp) > 1 => grp[2] = Byte2(x)
    /\ Len(grp) > 2 => grp[3] = Byte3(x)
    /\ ~(Len(grp) > 1) => Six3(x) = 0
    /\ ~(Len(grp) > 2) => Six4(x) = 0

LEMMA EncodeGroupIs ==
    ASSUME NEW grp \in Seq(Byte), Len(grp) \in 1 .. 3
    PROVE  \E x : GroupOf(grp, x)
  <1>. DEFINE at(i) == IF i > Len(grp) THEN 0 ELSE grp[i]
              a == at(1)
              b == at(2)
              c == at(3)
              x == a * 65536 + b * 256 + c
  <1>0. 0 \in Byte /\ \A i \in 1 .. Len(grp) : grp[i] \in Byte
    <2>1. 0 \in Byte
      BY SMT DEF Byte
    <2>. QED
      BY <2>1, SMT
  <1>1. a \in Byte /\ b \in Byte /\ c \in Byte
    BY <1>0, SMT
  <1>2. a = grp[1] /\ (Len(grp) > 1 => b = grp[2]) /\ (Len(grp) > 2 => c = grp[3])
        /\ (~(Len(grp) > 1) => b = 0 /\ c = 0) /\ (~(Len(grp) > 2) => c = 0)
    BY SMT
  <1>3. EncodeGroup(grp)
          = <<Sextet(x, 262144), Sextet(x, 4096), IF Len(grp) > 1 THEN Sextet(x, 64) ELSE Equals,
              IF Len(grp) > 2 THEN Sextet(x, 1) ELSE Equals>>
    BY SMT DEF EncodeGroup
  <1>. HIDE DEF at, a, b, c
  <1>4. x \in Nat /\ x \div 262144 \in Value /\ Byte1(x) = a /\ Byte2(x) = b /\ Byte3(x) = c
    <2>. HIDE DEF x
    <2>1. x = a * 65536 + b * 256 + c
      BY SMT DEF x
    <2>. QED
      BY <1>1, <2>1, BytesOf, SMT DEF Byte1, Byte2, Byte3
  <1>5. ~(Len(grp) > 2) => Six4(x) = 0
    <2>. SUFFICES ASSUME ~(Len(grp) > 2) PROVE Six4(x) = 0
      BY SMT
    <2>1. x = a * 65536 + b * 256
      BY <1>1, <1>2, SMT DEF Byte
    <2>. HIDE DEF x
    <2>. QED
      BY <1>1, <2>1, ShortGroups, SMT DEF Six4
  <1>6. ~(Len(grp) > 1) => Six3(x) = 0
    <2>. SUFFICES ASSUME ~(Len(grp) > 1) PROVE Six3(x) = 0
      BY SMT
    <2>1. x = a * 65536
      BY <1>1, <1>2, SMT DEF Byte
    <2>. HIDE DEF x
    <2>. QED
      BY <1>1, <2>1, ShortGroups, SMT DEF Six3
  <1>. HIDE DEF x
  <1>7. {Six1(x), Six2(x), Six3(x), Six4(x)} \subseteq Value
        /\ x = ((Six1(x) * 64 + Six2(x)) * 64 + Six3(x)) * 64 + Six4(x)
    BY <1>4, SextetsJoin, SMT DEF Six1, Six2, Six3, Six4
  <1>8. Sextet(x, 262144) = Symbol(Six1(x)) /\ Sextet(x, 4096) = Symbol(Six2(x))
        /\ Sextet(x, 64) = Symbol(Six3(x)) /\ Sextet(x, 1) = Symbol(Six4(x))
    BY SMT DEF Sextet, Six1, Six2, Six3, Six4
  <1>9. EncodeGroup(grp)
          = <<Symbol(Six1(x)), Symbol(Six2(x)), IF Len(grp) > 1 THEN Symbol(Six3(x)) ELSE Equals,
              IF Len(grp) > 2 THEN Symbol(Six4(x)) ELSE Equals>>
    BY <1>3, <1>8, SMT
  <1>10. grp[1] = Byte1(x) /\ (Len(grp) > 1 => grp[2] = Byte2(x)) /\ (Len(grp) > 2 => grp[3] = Byte3(x))
    BY <1>2, <1>4, SMT
  <1>. QED
    BY <1>4, <1>5, <1>6, <1>7, <1>9, <1>10, SMT DEF GroupOf

\* Four values make three bytes that encode to their symbols.
LEMMA SymbolsAgain ==
    ASSUME NEW p \in Value, NEW q \in Value, NEW r \in Value, NEW s \in Value,
           NEW x, x = ((p * 64 + q) * 64 + r) * 64 + s,
           NEW grp \in Seq(Byte), Len(grp) = 3, grp[1] = Byte1(x), grp[2] = Byte2(x), grp[3] = Byte3(x)
    PROVE  EncodeGroup(grp) = <<Symbol(p), Symbol(q), Symbol(r), Symbol(s)>>
  <1>1. /\ x = Byte1(x) * 65536 + Byte2(x) * 256 + Byte3(x)
        /\ Six1(x) = p /\ Six2(x) = q /\ Six3(x) = r /\ Six4(x) = s
    BY ValuesJoin, SMT DEF Six1, Six2, Six3, Six4, Byte1, Byte2, Byte3
  <1>. DEFINE at(i) == IF i > Len(grp) THEN 0 ELSE grp[i]
              y == at(1) * 65536 + at(2) * 256 + at(3)
  <1>2. EncodeGroup(grp)
          = <<Sextet(y, 262144), Sextet(y, 4096), IF Len(grp) > 1 THEN Sextet(y, 64) ELSE Equals,
              IF Len(grp) > 2 THEN Sextet(y, 1) ELSE Equals>>
    BY SMT DEF EncodeGroup
  <1>3. at(1) = Byte1(x) /\ at(2) = Byte2(x) /\ at(3) = Byte3(x)
    BY SMT
  <1>. HIDE DEF at
  <1>4. y = x
    BY <1>1, <1>3, SMT
  <1>. HIDE DEF y
  <1>8. Sextet(x, 262144) = Symbol(Six1(x)) /\ Sextet(x, 4096) = Symbol(Six2(x))
        /\ Sextet(x, 64) = Symbol(Six3(x)) /\ Sextet(x, 1) = Symbol(Six4(x))
    BY SMT DEF Sextet, Six1, Six2, Six3, Six4
  <1>. QED
    BY <1>1, <1>2, <1>4, <1>8, SMT

\* The decoder between two characters, and after an error.
Dec(p, e, b, o) == [pos |-> p, end |-> e, buf |-> b, out |-> o, ok |-> TRUE]
Bad(p, e, b, o) == [pos |-> p, end |-> e, buf |-> b, out |-> o, ok |-> FALSE]
Written(d, p, b, o) == [d EXCEPT !.pos = p, !.buf = b, !.out = o]
Taken(d, e, b, p) == [d EXCEPT !.end = e, !.buf = b, !.pos = p]
Refused(d) == [d EXCEPT !.ok = FALSE]

LEMMA DecFields ==
    ASSUME NEW p, NEW e, NEW b, NEW o
    PROVE  /\ Dec(p, e, b, o).pos = p /\ Dec(p, e, b, o).end = e /\ Dec(p, e, b, o).buf = b
           /\ Dec(p, e, b, o).out = o /\ Dec(p, e, b, o).ok
           /\ Bad(p, e, b, o).pos = p /\ Bad(p, e, b, o).end = e /\ Bad(p, e, b, o).buf = b
           /\ Bad(p, e, b, o).out = o /\ ~Bad(p, e, b, o).ok
  BY SMT DEF Dec, Bad

LEMMA DecWritten ==
    ASSUME NEW p, NEW e, NEW b, NEW o, NEW p1, NEW b1, NEW o1
    PROVE  Written(Dec(p, e, b, o), p1, b1, o1) = Dec(p1, e, b1, o1)
  <1>. DEFINE k == TRUE
              R(i, j, l, m) == [pos |-> i, end |-> j, buf |-> l, out |-> m, ok |-> k]
  <1>. HIDE DEF k
  <1>1. [R(p, e, b, o) EXCEPT !.pos = p1] = R(p1, e, b, o)
    BY SMT
  <1>2. [R(p1, e, b, o) EXCEPT !.buf = b1] = R(p1, e, b1, o)
    BY SMT
  <1>3. [R(p1, e, b1, o) EXCEPT !.out = o1] = R(p1, e, b1, o1)
    BY SMT
  <1>4. [R(p, e, b, o) EXCEPT !.pos = p1, !.buf = b1, !.out = o1]
          = [[[R(p, e, b, o) EXCEPT !.pos = p1] EXCEPT !.buf = b1] EXCEPT !.out = o1]
    BY Zenon
  <1>. HIDE DEF R
  <1>5. [R(p, e, b, o) EXCEPT !.pos = p1, !.buf = b1, !.out = o1] = R(p1, e, b1, o1)
    BY <1>1, <1>2, <1>3, <1>4, Zenon
  <1>. QED
    BY <1>5, Zenon DEF Written, Dec, R, k

LEMMA DecTaken ==
    ASSUME NEW p, NEW e, NEW b, NEW o, NEW e1, NEW b1, NEW p1
    PROVE  Taken(Dec(p, e, b, o), e1, b1, p1) = Dec(p1, e1, b1, o)
  <1>. DEFINE k == TRUE
              R(i, j, l, m) == [pos |-> i, end |-> j, buf |-> l, out |-> m, ok |-> k]
  <1>. HIDE DEF k
  <1>1. [R(p, e, b, o) EXCEPT !.end = e1] = R(p, e1, b, o)
    BY SMT
  <1>2. [R(p, e1, b, o) EXCEPT !.buf = b1] = R(p, e1, b1, o)
    BY SMT
  <1>3. [R(p, e1, b1, o) EXCEPT !.pos = p1] = R(p1, e1, b1, o)
    BY SMT
  <1>4. [R(p, e, b, o) EXCEPT !.end = e1, !.buf = b1, !.pos = p1]
          = [[[R(p, e, b, o) EXCEPT !.end = e1] EXCEPT !.buf = b1] EXCEPT !.pos = p1]
    BY Zenon
  <1>. HIDE DEF R
  <1>5. [R(p, e, b, o) EXCEPT !.end = e1, !.buf = b1, !.pos = p1] = R(p1, e1, b1, o)
    BY <1>1, <1>2, <1>3, <1>4, Zenon
  <1>. QED
    BY <1>5, Zenon DEF Taken, Dec, R, k

LEMMA DecRefused ==
    ASSUME NEW p, NEW e, NEW b, NEW o
    PROVE  Refused(Dec(p, e, b, o)) = Bad(p, e, b, o) /\ Refused(Bad(p, e, b, o)) = Bad(p, e, b, o)
  <1>. DEFINE k == TRUE
              l == FALSE
              R(i) == [pos |-> p, end |-> e, buf |-> b, out |-> o, ok |-> i]
  <1>. HIDE DEF k, l
  <1>1. [R(k) EXCEPT !.ok = l] = R(l) /\ [R(l) EXCEPT !.ok = l] = R(l)
    BY SMT
  <1>. QED
    BY <1>1, Zenon DEF Refused, Dec, Bad, k, l

\* What the decoder writes for 24 bits.
Emitted(e, x) ==
    IF e = 0 THEN <<Byte1(x), Byte2(x), Byte3(x)>> ELSE IF e = 1 THEN <<Byte1(x)>> ELSE <<Byte1(x), Byte2(x)>>

LEMMA ByteIs ==
    ASSUME NEW x \in Nat
    PROVE  Byte1(x) \in Byte /\ Byte2(x) \in Byte /\ Byte3(x) \in Byte
  <1>1. x \div 65536 \in Nat /\ x \div 256 \in Nat /\ x \div 1 \in Nat
    BY SMT
  <1>2. \A y \in Nat : (y % 256) \in Byte
    BY SMT DEF Byte
  <1>. QED
    BY <1>1, <1>2, SMT DEF Byte1, Byte2, Byte3

LEMMA Lengthened ==
    ASSUME NEW X, NEW s \in Seq(X), NEW t \in Seq(X), NEW u \in X,
           Len(t) = Len(s) + 1, \A i \in 1 .. Len(s) : t[i] = s[i], t[Len(s) + 1] = u
    PROVE  s \o <<u>> = t
  <1>. DEFINE v == <<u>>
              w == s \o v
  <1>1. v \in Seq(X) /\ Len(v) = 1 /\ v[1] = u
    OBVIOUS
  <1>. HIDE DEF v
  <1>2. w \in Seq(X) /\ Len(w) = Len(s) + 1 /\ Len(s) \in Nat
        /\ \A i \in 1 .. Len(s) + 1 : w[i] = IF i <= Len(s) THEN s[i] ELSE v[i - Len(s)]
    BY <1>1, ConcatProperties
  <1>. HIDE DEF w
  <1>3. ASSUME NEW i \in 1 .. Len(w) PROVE w[i] = t[i]
    <2>1. CASE i <= Len(s)
      BY <1>2, <2>1, SMT
    <2>2. CASE ~(i <= Len(s))
      <3>1. i = Len(s) + 1 /\ i - Len(s) = 1
        BY <1>2, <2>2, SMT
      <3>. QED
        BY <1>1, <1>2, <2>2, <3>1, SMT
    <2>. QED
      BY <2>1, <2>2
  <1>. QED
    BY <1>2, <1>3, SeqEqual DEF v, w

LEMMA EmitIs ==
    ASSUME NEW e \in 0 .. 2, NEW x \in Nat, NEW o \in Seq(Byte), NEW p
    PROVE  Emit(Dec(p, e, x, o)) = Dec(0, e, 0, o \o Emitted(e, x)) /\ Emitted(e, x) \in Seq(Byte)
  <1>. DEFINE a == Byte1(x)
              b == Byte2(x)
              c == Byte3(x)
  <1>0. a \in Byte /\ b \in Byte /\ c \in Byte
    BY ByteIs, SMT
  <1>. DEFINE d == Dec(p, e, x, o)
              w == o \o <<a>> \o (IF e = 0 \/ e > 1 THEN <<b>> ELSE << >>) \o (IF e = 0 \/ e > 2 THEN <<c>> ELSE << >>)
  <1>1. Emit(d) = Dec(0, e, 0, w)
    <2>1. d.buf = x /\ d.end = e /\ d.out = o
      BY DecFields, SMT
    <2>. HIDE DEF d
    <2>2. Emit(d) = Written(d, 0, 0, w)
      BY <2>1, SMT DEF Emit, Written, Byte1, Byte2, Byte3
    <2>. HIDE DEF w
    <2>. QED
      BY <2>2, DecWritten, SMT DEF d
  <1>2. Emitted(e, x) = IF e = 0 THEN <<a, b, c>> ELSE IF e = 1 THEN <<a>> ELSE <<a, b>>
    BY SMT DEF Emitted
  <1>. HIDE DEF a, b, c, d
  <1>. DEFINE t1 == <<a>>
              t2 == <<a, b>>
              t3 == <<a, b, c>>
              u1 == o \o <<a>>
              u2 == u1 \o <<b>>
              u3 == u2 \o <<c>>
  <1>3. t1 \in Seq(Byte) /\ t2 \in Seq(Byte) /\ t3 \in Seq(Byte) /\ <<b>> \in Seq(Byte) /\ <<c>> \in Seq(Byte)
    BY <1>0, SMT
  <1>4. t2 = t1 \o <<b>>
    <2>1. Len(t1) = 1 /\ Len(t2) = 2 /\ t2[1] = a /\ t1[1] = a /\ t2[2] = b
      BY SMT
    <2>. HIDE DEF t1, t2
    <2>2. Len(t2) = Len(t1) + 1 /\ (\A i \in 1 .. Len(t1) : t2[i] = t1[i]) /\ t2[Len(t1) + 1] = b
      BY <2>1, SMT
    <2>. QED
      BY <1>0, <1>3, <2>2, Lengthened, SMT
  <1>5. t3 = t2 \o <<c>>
    <2>1. Len(t2) = 2 /\ Len(t3) = 3 /\ t3[1] = a /\ t2[1] = a /\ t3[2] = b /\ t2[2] = b /\ t3[3] = c
      BY SMT
    <2>. HIDE DEF t3, t2
    <2>2. Len(t3) = Len(t2) + 1 /\ (\A i \in 1 .. Len(t2) : t3[i] = t2[i]) /\ t3[Len(t2) + 1] = c
      BY <2>1, SMT
    <2>. QED
      BY <1>0, <1>3, <2>2, Lengthened, SMT
  <1>6. u1 = o \o t1 /\ u2 = o \o t2 /\ u3 = o \o t3
    <2>1. u1 = o \o t1
      BY SMT
    <2>2. u2 = (o \o t1) \o <<b>> /\ (o \o t1) \o <<b>> = o \o (t1 \o <<b>>)
      BY <1>3, <2>1, ConcatAssociative, SMT
    <2>. HIDE DEF t1, t2, t3
    <2>3. u2 = o \o t2
      BY <1>4, <2>2, SMT
    <2>. HIDE DEF u2
    <2>4. u3 = (o \o t2) \o <<c>>
      BY <2>3, SMT
    <2>5. (o \o t2) \o <<c>> = o \o (t2 \o <<c>>)
      BY <1>3, ConcatAssociative, SMT
    <2>. QED
      BY <1>5, <2>1, <2>3, <2>4, <2>5, SMT
  <1>7. u1 \in Seq(Byte) /\ u2 \in Seq(Byte)
    <2>. HIDE DEF u1, u2, t1, t2
    <2>. QED
      BY <1>3, <1>6, ConcatProperties, SMT
  <1>8. w = IF e = 0 THEN u3 ELSE IF e = 1 THEN u1 ELSE u2
    <2>1. CASE e = 0
      BY <2>1, SMT
    <2>2. CASE e = 1
      <3>1. w = (u1 \o << >>) \o << >>
        BY <2>2, SMT
      <3>. HIDE DEF u1, w
      <3>. QED
        BY <2>2, <3>1, <1>7, ConcatEmptySeq, SMT
    <2>3. CASE e = 2
      <3>1. w = u2 \o << >>
        BY <2>3, SMT
      <3>. HIDE DEF u2, w
      <3>. QED
        BY <2>3, <3>1, <1>7, ConcatEmptySeq, SMT
    <2>. QED
      BY <2>1, <2>2, <2>3, SMT
  <1>9. Emitted(e, x) = IF e = 0 THEN t3 ELSE IF e = 1 THEN t1 ELSE t2
    BY <1>2, SMT
  <1>. HIDE DEF u1, u2, u3, t1, t2, t3, w
  <1>10. w = o \o Emitted(e, x) /\ Emitted(e, x) \in Seq(Byte)
    BY <1>3, <1>6, <1>8, <1>9, SMT
  <1>. QED
    BY <1>1, <1>10, SMT DEF d

\* The decoder after a character whose value completes the bits x.
Fed(p, e, x, o) ==
    IF p = 3 THEN Dec(0, e, 0, o \o Emitted(e, x)) ELSE Dec(p + 1, e, x, o)

\* A character that is accepted, its value and what becomes of end.
Digit(p, e, c, v, f) ==
    \/ c # Equals /\ c \notin Whitespace /\ ValueOf(c) = v /\ f = e
    \/ c = Equals /\ v = 0 /\ e = 0 /\ p \in {2, 3} /\ f = p - 1
    \/ c = Equals /\ v = 0 /\ e # 0 /\ f = e

\* One turn of the loop of stl_base64_decode.
LEMMA DecodeCharIs ==
    ASSUME NEW p \in 0 .. 3, NEW e \in 0 .. 2, NEW b \in Nat, NEW o \in Seq(Byte), NEW c, NEW v \in Value, NEW f,
           Digit(p, e, c, v, f)
    PROVE  DecodeChar(Dec(p, e, b, o), c) = Fed(p, f, b * 64 + v, o) /\ f \in 0 .. 2 /\ b * 64 + v \in Nat
  <1>. DEFINE d == Dec(p, e, b, o)
              x == b * 64 + v
              d1 == Dec(p + 1, f, x, o)
  <1>1. d.pos = p /\ d.end = e /\ d.buf = b /\ d.out = o /\ d.ok
    BY DecFields, SMT
  <1>2. f \in 0 .. 2
    BY SMT DEF Digit
  <1>3. x \in Nat
    BY SMT DEF Value
  <1>9. ~(Equals \in Whitespace)
    BY SMT DEF Equals, Whitespace
  <1>4. Taken(d, f, x, p + 1) = d1
    BY DecTaken, SMT
  <1>5. d1.pos = p + 1
    BY DecFields, SMT
  <1>6. p + 1 = 4 => Emit(d1) = Dec(0, f, 0, o \o Emitted(f, x))
    <2>. HIDE DEF x
    <2>. QED
      BY <1>2, <1>3, EmitIs, SMT
  <1>. HIDE DEF d, d1
  <1>. DEFINE f1 == IF c # Equals \/ d.end # 0 THEN d.end ELSE d.pos - 1
              v1 == IF c = Equals THEN 0 ELSE ValueOf(c)
  <1>7. f1 = f /\ v1 = v /\ d.ok /\ ~(v < 0) /\ c \notin Whitespace /\ ~(c = Equals /\ d.end = 0 /\ d.pos \notin {2, 3})
    <2>1. f1 = f
      BY <1>1, SMT DEF Digit
    <2>2. v1 = v /\ ~(v < 0) /\ c \notin Whitespace
      BY <1>9, SMT DEF Value, Digit
    <2>3. d.ok /\ ~(c = Equals /\ d.end = 0 /\ d.pos \notin {2, 3})
      BY <1>1, SMT DEF Digit
    <2>. QED
      BY <2>1, <2>2, <2>3
  <1>8. DecodeChar(d, c)
          = IF ~d.ok \/ c \in Whitespace \/ v1 < 0 \/ (c = Equals /\ d.end = 0 /\ d.pos \notin {2, 3})
            THEN [d EXCEPT !.ok = FALSE]
            ELSE IF Taken(d, f1, d.buf * 64 + v1, d.pos + 1).pos = 4
                 THEN Emit(Taken(d, f1, d.buf * 64 + v1, d.pos + 1))
                 ELSE Taken(d, f1, d.buf * 64 + v1, d.pos + 1)
    BY SMT DEF DecodeChar, Taken
  <1>. HIDE DEF f1, v1
  <1>10. DecodeChar(d, c) = IF d1.pos = 4 THEN Emit(d1) ELSE d1
    BY <1>1, <1>4, <1>7, <1>8, SMT
  <1>11. p + 1 = 4 <=> p = 3
    BY SMT
  <1>. HIDE DEF x
  <1>12. DecodeChar(d, c) = Fed(p, f, x, o)
    BY <1>5, <1>6, <1>10, <1>11, Zenon DEF Fed, d1
  <1>. QED
    BY <1>2, <1>3, <1>12, Zenon DEF d, x

LEMMA DecodeCharRefuses ==
    ASSUME NEW p \in 0 .. 3, NEW e \in 0 .. 2, NEW b \in Nat, NEW o \in Seq(Byte), NEW c,
           \/ c \in Whitespace
           \/ c # Equals /\ ValueOf(c) < 0
           \/ c = Equals /\ e = 0 /\ p \notin {2, 3}
    PROVE  DecodeChar(Dec(p, e, b, o), c) = Bad(p, e, b, o)
  <1>. DEFINE d == Dec(p, e, b, o)
  <1>1. d.pos = p /\ d.end = e
    BY DecFields, SMT
  <1>2. Refused(d) = Bad(p, e, b, o)
    BY DecRefused, SMT
  <1>. HIDE DEF d
  <1>. DEFINE v1 == IF c = Equals THEN 0 ELSE ValueOf(c)
  <1>3. ~d.ok \/ c \in Whitespace \/ v1 < 0 \/ (c = Equals /\ d.end = 0 /\ d.pos \notin {2, 3})
    BY <1>1
  <1>4. DecodeChar(d, c) = Refused(d)
    BY <1>3, SMT DEF DecodeChar, Refused
  <1>. QED
    BY <1>2, <1>4, Zenon DEF d

\* What one turn may do.
Turn(p, e, b, o, c, r) ==
    \/ r = Bad(p, e, b, o)
    \/ \E v \in Value, f \in 0 .. 2 :
          r = Fed(p, f, b * 64 + v, o) /\ b * 64 + v \in Nat /\ (c # Equals => ValueOf(c) = v /\ f = e)

LEMMA DecodeCharMay ==
    ASSUME NEW p \in 0 .. 3, NEW e \in 0 .. 2, NEW b \in Nat, NEW o \in Seq(Byte), NEW c \in Byte
    PROVE  Turn(p, e, b, o, c, DecodeChar(Dec(p, e, b, o), c)) /\ DecodeChar(Bad(p, e, b, o), c) = Bad(p, e, b, o)
  <1>4. DecodeChar(Bad(p, e, b, o), c) = Bad(p, e, b, o)
    <2>. DEFINE d == Bad(p, e, b, o)
    <2>1. ~d.ok /\ Refused(d) = d
      BY DecFields, DecRefused, SMT
    <2>. HIDE DEF d
    <2>2. DecodeChar(d, c) = Refused(d)
      BY <2>1, SMT DEF DecodeChar, Refused
    <2>. QED
      BY <2>1, <2>2, Zenon DEF d
  <1>1. CASE \/ c \in Whitespace
             \/ c # Equals /\ ValueOf(c) < 0
             \/ c = Equals /\ e = 0 /\ p \notin {2, 3}
    <2>1. DecodeChar(Dec(p, e, b, o), c) = Bad(p, e, b, o)
      BY <1>1, DecodeCharRefuses
    <2>. QED
      BY <1>4, <2>1, Zenon DEF Turn
  <1>2. CASE c \notin Whitespace /\ c # Equals /\ ~(ValueOf(c) < 0)
    <2>1. ValueOf(c) \in Value
      BY <1>2, ValueOfIs
    <2>. DEFINE v == ValueOf(c)
    <2>2. c # Equals /\ c \notin Whitespace /\ ValueOf(c) = v /\ v \in Value /\ Digit(p, e, c, v, e)
      BY <1>2, <2>1 DEF Digit
    <2>. HIDE DEF v
    <2>3. DecodeChar(Dec(p, e, b, o), c) = Fed(p, e, b * 64 + v, o) /\ b * 64 + v \in Nat
      BY <2>2, DecodeCharIs, SMT
    <2>. QED
      BY <1>2, <1>4, <2>2, <2>3, Zenon DEF Turn
  <1>3. CASE c = Equals /\ ~(e = 0 /\ p \notin {2, 3})
    <2>1. PICK v : v = 0
      OBVIOUS
    <2>2. PICK f : f = IF e = 0 THEN p - 1 ELSE e
      OBVIOUS
    <2>3. v \in Value /\ f \in 0 .. 2
      BY <1>3, <2>1, <2>2 DEF Value
    <2>4. Digit(p, e, c, v, f)
      BY <1>3, <2>1, <2>2 DEF Digit
    <2>5. DecodeChar(Dec(p, e, b, o), c) = Fed(p, f, b * 64 + v, o) /\ b * 64 + v \in Nat
      BY <2>3, <2>4, DecodeCharIs, SMT
    <2>. QED
      BY <1>3, <1>4, <2>3, <2>5, Zenon DEF Turn
  <1>. QED
    BY <1>1, <1>2, <1>3

LEMMA EmittedIs ==
    ASSUME NEW e \in 0 .. 2, NEW x \in Nat
    PROVE  Emitted(e, x) \in Seq(Byte)
  <1>1. Byte1(x) \in Byte /\ Byte2(x) \in Byte /\ Byte3(x) \in Byte
    BY ByteIs, SMT
  <1>. QED
    BY <1>1, SMT DEF Emitted

\* The symbol of a value is read as that value.
LEMMA SymbolDigit ==
    ASSUME NEW p, NEW e, NEW v \in Value
    PROVE  Digit(p, e, Symbol(v), v, e)
  BY SymbolIs, SMT DEF Digit

\* The first three characters of a group only collect bits.
LEMMA FirstThree ==
    ASSUME NEW o \in Seq(Byte), NEW v1 \in Value, NEW v2 \in Value, NEW c1, NEW c2,
           Digit(0, 0, c1, v1, 0), Digit(1, 0, c2, v2, 0)
    PROVE  DecodeChar(DecodeChar(Dec(0, 0, 0, o), c1), c2) = Dec(2, 0, v1 * 64 + v2, o) /\ v1 * 64 + v2 \in Nat
  <1>0. v1 \in Nat /\ v2 \in Nat
    BY SMT DEF Value
  <1>1. DecodeChar(Dec(0, 0, 0, o), c1) = Fed(0, 0, 0 * 64 + v1, o)
    BY DecodeCharIs, SMT
  <1>2. Fed(0, 0, 0 * 64 + v1, o) = Dec(1, 0, v1, o)
    BY <1>0, SMT DEF Fed
  <1>3. DecodeChar(Dec(1, 0, v1, o), c2) = Fed(1, 0, v1 * 64 + v2, o)
    BY <1>0, DecodeCharIs, SMT
  <1>4. Fed(1, 0, v1 * 64 + v2, o) = Dec(2, 0, v1 * 64 + v2, o)
    BY SMT DEF Fed
  <1>. QED
    BY <1>0, <1>1, <1>2, <1>3, <1>4, SMT

LEMMA LastTwo ==
    ASSUME NEW o \in Seq(Byte), NEW y \in Nat, NEW v3 \in Value, NEW v4 \in Value, NEW c3, NEW c4,
           NEW e3 \in 0 .. 2, NEW e4 \in 0 .. 2, Digit(2, 0, c3, v3, e3), Digit(3, e3, c4, v4, e4)
    PROVE  DecodeChar(DecodeChar(Dec(2, 0, y, o), c3), c4) = Dec(0, e4, 0, o \o Emitted(e4, (y * 64 + v3) * 64 + v4))
  <1>1. DecodeChar(Dec(2, 0, y, o), c3) = Fed(2, e3, y * 64 + v3, o) /\ y * 64 + v3 \in Nat
    BY DecodeCharIs, SMT
  <1>2. Fed(2, e3, y * 64 + v3, o) = Dec(3, e3, y * 64 + v3, o)
    BY SMT DEF Fed
  <1>. DEFINE z == y * 64 + v3
  <1>3. z \in Nat /\ DecodeChar(Dec(2, 0, y, o), c3) = Dec(3, e3, z, o)
    BY <1>1, <1>2, SMT
  <1>. HIDE DEF z
  <1>4. DecodeChar(Dec(3, e3, z, o), c4) = Fed(3, e4, z * 64 + v4, o)
    BY <1>3, DecodeCharIs, SMT
  <1>5. Fed(3, e4, z * 64 + v4, o) = Dec(0, e4, 0, o \o Emitted(e4, z * 64 + v4))
    BY SMT DEF Fed
  <1>. QED
    BY <1>3, <1>4, <1>5, Zenon DEF z

\* The decoder reads back the characters of one group.
LEMMA GroupRead ==
    ASSUME NEW o \in Seq(Byte), NEW grp \in Seq(Byte), Len(grp) \in 1 .. 3, NEW t, t = EncodeGroup(grp),
           NEW r1, NEW r2, NEW r3, NEW r4, r1 = DecodeChar(Dec(0, 0, 0, o), t[1]), r2 = DecodeChar(r1, t[2]),
           r3 = DecodeChar(r2, t[3]), r4 = DecodeChar(r3, t[4])
    PROVE  \E e \in 0 .. 2 : r4 = Dec(0, e, 0, o \o grp) /\ (Len(grp) = 3 => e = 0)
  <1>1. PICK x : GroupOf(grp, x)
    BY EncodeGroupIs
  <1>. DEFINE v1 == Six1(x)
              v2 == Six2(x)
              v3 == Six3(x)
              v4 == Six4(x)
  <1>2. /\ x \in Nat /\ v1 \in Value /\ v2 \in Value /\ v3 \in Value /\ v4 \in Value
        /\ x = ((v1 * 64 + v2) * 64 + v3) * 64 + v4
        /\ t = <<Symbol(v1), Symbol(v2), IF Len(grp) > 1 THEN Symbol(v3) ELSE Equals,
                 IF Len(grp) > 2 THEN Symbol(v4) ELSE Equals>>
        /\ grp[1] = Byte1(x)
        /\ Len(grp) > 1 => grp[2] = Byte2(x)
        /\ Len(grp) > 2 => grp[3] = Byte3(x)
        /\ ~(Len(grp) > 1) => v3 = 0
        /\ ~(Len(grp) > 2) => v4 = 0
    BY <1>1, SMT DEF GroupOf
  <1>. HIDE DEF v1, v2, v3, v4
  <1>3. /\ t[1] = Symbol(v1) /\ t[2] = Symbol(v2)
        /\ t[3] = (IF Len(grp) > 1 THEN Symbol(v3) ELSE Equals)
        /\ t[4] = (IF Len(grp) > 2 THEN Symbol(v4) ELSE Equals)
    BY <1>2, SMT
  <1>4. Digit(0, 0, t[1], v1, 0) /\ Digit(1, 0, t[2], v2, 0)
    BY <1>2, <1>3, SymbolDigit, SMT
  <1>5. r2 = Dec(2, 0, v1 * 64 + v2, o) /\ v1 * 64 + v2 \in Nat
    BY <1>2, <1>4, FirstThree, SMT
  <1>6. PICK e3 \in 0 .. 2, e4 \in 0 .. 2 :
          Digit(2, 0, t[3], v3, e3) /\ Digit(3, e3, t[4], v4, e4) /\ e4 = IF Len(grp) = 3 THEN 0 ELSE Len(grp)
    <2>1. CASE Len(grp) = 3
      <3>1. Digit(2, 0, t[3], v3, 0) /\ Digit(3, 0, t[4], v4, 0)
        BY <2>1, <1>2, <1>3, SymbolDigit, SMT
      <3>. QED
        BY <2>1, <3>1, SMT
    <2>2. CASE Len(grp) = 2
      <3>1. Digit(2, 0, t[3], v3, 0)
        BY <2>2, <1>2, <1>3, SymbolDigit, SMT
      <3>2. Digit(3, 0, t[4], v4, 2)
        BY <2>2, <1>2, <1>3, SMT DEF Digit
      <3>. QED
        BY <2>2, <3>1, <3>2, SMT
    <2>3. CASE Len(grp) = 1
      <3>1. Digit(2, 0, t[3], v3, 1)
        BY <2>3, <1>2, <1>3, SMT DEF Digit
      <3>2. Digit(3, 1, t[4], v4, 1)
        BY <2>3, <1>2, <1>3, SMT DEF Digit
      <3>. QED
        BY <2>3, <3>1, <3>2, SMT
    <2>. QED
      BY <2>1, <2>2, <2>3, SMT
  <1>. DEFINE y == v1 * 64 + v2
  <1>7. r4 = Dec(0, e4, 0, o \o Emitted(e4, (y * 64 + v3) * 64 + v4))
    <2>1. y \in Nat /\ r2 = Dec(2, 0, y, o)
      BY <1>5, SMT
    <2>. HIDE DEF y
    <2>. QED
      BY <1>2, <1>6, <2>1, LastTwo, SMT
  <1>8. r4 = Dec(0, e4, 0, o \o Emitted(e4, x))
    BY <1>2, <1>7, SMT
  <1>9. Emitted(e4, x) = grp
    <2>0. x \in Nat
      BY <1>2, SMT
    <2>1. Emitted(e4, x) \in Seq(Byte)
      BY <2>0, EmittedIs, Zenon
    <2>2. CASE Len(grp) = 3
      <3>1. Emitted(e4, x) = <<Byte1(x), Byte2(x), Byte3(x)>>
        BY <1>6, <2>2, SMT DEF Emitted
      <3>. QED
        BY <1>2, <2>1, <2>2, <3>1, SMT
    <2>3. CASE Len(grp) = 2
      <3>1. Emitted(e4, x) = <<Byte1(x), Byte2(x)>>
        BY <1>6, <2>3, SMT DEF Emitted
      <3>. QED
        BY <1>2, <2>1, <2>3, <3>1, SMT
    <2>4. CASE Len(grp) = 1
      <3>1. Emitted(e4, x) = <<Byte1(x)>>
        BY <1>6, <2>4, SMT DEF Emitted
      <3>. QED
        BY <1>2, <2>1, <2>4, <3>1, SMT
    <2>. QED
      BY <2>2, <2>3, <2>4, SMT
  <1>10. r4 = Dec(0, e4, 0, o \o grp) /\ (Len(grp) = 3 => e4 = 0) /\ e4 \in 0 .. 2
    BY <1>6, <1>8, <1>9, SMT
  <1>. QED
    BY <1>10, Zenon

\* A character that is accepted and is not '='.
LEMMA Accepted ==
    ASSUME NEW p \in 0 .. 3, NEW b \in Nat, NEW o \in Seq(Byte), NEW c \in Byte, c # Equals,
           NEW r, r = DecodeChar(Dec(p, 0, b, o), c)
    PROVE  \/ r = Bad(p, 0, b, o)
           \/ /\ ValueOf(c) \in Value /\ Symbol(ValueOf(c)) = c /\ b * 64 + ValueOf(c) \in Nat
              /\ r = Fed(p, 0, b * 64 + ValueOf(c), o)
  <1>1. Turn(p, 0, b, o, c, r)
    BY DecodeCharMay, SMT
  <1>. SUFFICES ASSUME r # Bad(p, 0, b, o)
                PROVE  /\ ValueOf(c) \in Value /\ Symbol(ValueOf(c)) = c /\ b * 64 + ValueOf(c) \in Nat
                       /\ r = Fed(p, 0, b * 64 + ValueOf(c), o)
    OBVIOUS
  <1>2. PICK v \in Value, f \in 0 .. 2 :
          r = Fed(p, f, b * 64 + v, o) /\ b * 64 + v \in Nat /\ ValueOf(c) = v /\ f = 0
    BY <1>1, Zenon DEF Turn
  <1>3. ~(v < 0)
    BY SMT DEF Value
  <1>. QED
    BY <1>2, <1>3, ValueOfIs, SMT

LEMMA BadStays ==
    ASSUME NEW p \in 0 .. 3, NEW e \in 0 .. 2, NEW b \in Nat, NEW o \in Seq(Byte), NEW c \in Byte
    PROVE  DecodeChar(Bad(p, e, b, o), c) = Bad(p, e, b, o) /\ ~Bad(p, e, b, o).ok
  BY DecodeCharMay, DecFields, SMT

\* Four characters that are accepted are those that their three bytes encode to.
LEMMA FourAccepted ==
    ASSUME NEW o \in Seq(Byte), NEW c1 \in Byte, NEW c2 \in Byte, NEW c3 \in Byte, NEW c4 \in Byte,
           c1 # Equals, c2 # Equals, c3 # Equals, c4 # Equals,
           NEW r1, NEW r2, NEW r3, NEW r4, r1 = DecodeChar(Dec(0, 0, 0, o), c1), r2 = DecodeChar(r1, c2),
           r3 = DecodeChar(r2, c3), r4 = DecodeChar(r3, c4), r4.ok
    PROVE  \E grp \in Seq(Byte) :
              Len(grp) = 3 /\ r4 = Dec(0, 0, 0, o \o grp) /\ EncodeGroup(grp) = <<c1, c2, c3, c4>>
  <1>. DEFINE v1 == ValueOf(c1)
              v2 == ValueOf(c2)
              v3 == ValueOf(c3)
              v4 == ValueOf(c4)
  <1>1. v1 \in Value /\ Symbol(v1) = c1 /\ r1 = Dec(1, 0, v1, o)
    <2>1. r1 # Bad(0, 0, 0, o)
      BY BadStays, SMT
    <2>2. v1 \in Value /\ Symbol(v1) = c1 /\ r1 = Fed(0, 0, 0 * 64 + v1, o)
      BY <2>1, Accepted, SMT
    <2>. HIDE DEF v1
    <2>3. 0 * 64 + v1 = v1
      BY <2>2, SMT DEF Value
    <2>4. Fed(0, 0, v1, o) = Dec(1, 0, v1, o)
      BY SMT DEF Fed
    <2>. QED
      BY <2>2, <2>3, <2>4, SMT
  <1>. HIDE DEF v1
  <1>. DEFINE x2 == v1 * 64 + v2
  <1>2. v2 \in Value /\ Symbol(v2) = c2 /\ x2 \in Nat /\ r2 = Dec(2, 0, x2, o)
    <2>0. v1 \in Nat
      BY <1>1, SMT DEF Value
    <2>1. r2 # Bad(1, 0, v1, o)
      BY <2>0, BadStays, SMT
    <2>2. v2 \in Value /\ Symbol(v2) = c2 /\ x2 \in Nat /\ r2 = Fed(1, 0, x2, o)
      BY <1>1, <2>0, <2>1, Accepted, SMT
    <2>. QED
      BY <2>2, SMT DEF Fed
  <1>. HIDE DEF v2, x2
  <1>. DEFINE x3 == x2 * 64 + v3
  <1>3. v3 \in Value /\ Symbol(v3) = c3 /\ x3 \in Nat /\ r3 = Dec(3, 0, x3, o)
    <2>1. r3 # Bad(2, 0, x2, o)
      BY <1>2, BadStays, SMT
    <2>2. v3 \in Value /\ Symbol(v3) = c3 /\ x3 \in Nat /\ r3 = Fed(2, 0, x3, o)
      BY <1>2, <2>1, Accepted, SMT
    <2>. QED
      BY <2>2, SMT DEF Fed
  <1>. HIDE DEF v3, x3
  <1>. DEFINE x4 == x3 * 64 + v4
  <1>4. v4 \in Value /\ Symbol(v4) = c4 /\ x4 \in Nat /\ r4 = Dec(0, 0, 0, o \o Emitted(0, x4))
    <2>1. r4 # Bad(3, 0, x3, o)
      BY <1>3, BadStays, SMT
    <2>2. v4 \in Value /\ Symbol(v4) = c4 /\ x4 \in Nat /\ r4 = Fed(3, 0, x4, o)
      BY <1>3, <2>1, Accepted, SMT
    <2>. QED
      BY <2>2, SMT DEF Fed
  <1>5. x4 = ((v1 * 64 + v2) * 64 + v3) * 64 + v4
    BY SMT DEF x2, x3
  <1>. HIDE DEF v4, x4
  <1>. DEFINE grp == Emitted(0, x4)
  <1>6. grp \in Seq(Byte)
    BY <1>4, EmittedIs, SMT
  <1>7. Len(grp) = 3 /\ grp[1] = Byte1(x4) /\ grp[2] = Byte2(x4) /\ grp[3] = Byte3(x4)
    BY SMT DEF Emitted
  <1>8. r4 = Dec(0, 0, 0, o \o grp)
    BY <1>4, SMT
  <1>. HIDE DEF grp
  <1>9. EncodeGroup(grp) = <<Symbol(v1), Symbol(v2), Symbol(v3), Symbol(v4)>>
    BY <1>1, <1>2, <1>3, <1>4, <1>5, <1>6, <1>7, SymbolsAgain, SMT
  <1>10. EncodeGroup(grp) = <<c1, c2, c3, c4>>
    BY <1>1, <1>2, <1>3, <1>4, <1>9, SMT
  <1>. QED
    BY <1>6, <1>7, <1>8, <1>10, Zenon

\* The bytes of a group.
LEMMA GroupIs ==
    ASSUME NEW bytes \in Seq(Byte), NEW g \in Nat, g # 0, 3 * g - 2 <= Len(bytes)
    PROVE  /\ Group(bytes, g) \in Seq(Byte) /\ Len(Group(bytes, g)) \in 1 .. 3
           /\ Len(Group(bytes, g)) = IF 3 * g > Len(bytes) THEN Len(bytes) - 3 * (g - 1) ELSE 3
           /\ \A i \in 1 .. Len(Group(bytes, g)) : Group(bytes, g)[i] = bytes[3 * (g - 1) + i]
  <1>. DEFINE len == Len(bytes)
  <1>1. len \in Nat /\ (\A i \in 1 .. len : bytes[i] \in Byte) /\ 3 * g - 2 <= len
    BY SMT
  <1>2. PICK lo \in Int, hi \in Int, sz \in 1 .. 3 :
          /\ lo = 3 * g - 2 /\ hi = (IF 3 * g > len THEN len ELSE 3 * g)
          /\ sz = (IF 3 * g > len THEN len - 3 * (g - 1) ELSE 3)
          /\ 1 <= lo /\ lo <= hi /\ hi <= len /\ lo = 3 * (g - 1) + 1 /\ hi = 3 * (g - 1) + sz
    <2>. HIDE DEF len
    <2>1. CASE 3 * g > len
      <3>. DEFINE u == 3 * g - 2
                  v == len - 3 * (g - 1)
      <3>1. /\ u \in Int /\ len \in Int /\ v \in 1 .. 3 /\ 1 <= u /\ u <= len /\ len <= len
            /\ u = 3 * (g - 1) + 1 /\ len = 3 * (g - 1) + v
        BY <1>1, <2>1, SMT
      <3>. QED
        BY <3>1, <2>1, Zenon
    <2>2. CASE ~(3 * g > len)
      <3>. DEFINE u == 3 * g - 2
                  v == 3 * g
      <3>1. /\ u \in Int /\ v \in Int /\ 3 \in 1 .. 3 /\ 1 <= u /\ u <= v /\ v <= len
            /\ u = 3 * (g - 1) + 1 /\ v = 3 * (g - 1) + 3
        BY <1>1, <2>2, SMT
      <3>. QED
        BY <3>1, <2>2, Zenon
    <2>. QED
      BY <2>1, <2>2
  <1>. DEFINE grp == SubSeq(bytes, lo, hi)
  <1>3. Group(bytes, g) = grp
    BY <1>2, Zenon DEF Group
  <1>. HIDE DEF len
  <1>4. \A i \in lo .. hi : bytes[i] \in Byte
    <2>1. \A i \in lo .. hi : i \in 1 .. len
      BY <1>1, <1>2, SMT
    <2>. QED
      BY <1>1, <2>1, Zenon
  <1>5. /\ grp \in Seq(Byte) /\ Len(grp) = (IF lo <= hi THEN hi - lo + 1 ELSE 0)
        /\ \A i \in 1 .. hi - lo + 1 : grp[i] = bytes[lo + i - 1]
    <2>. HIDE DEF grp
    <2>1. grp = SubSeq(bytes, lo, hi)
      BY DEF grp
    <2>. QED
      BY <2>1, <1>4, SubSeqProperties
  <1>. HIDE DEF grp
  <1>6. hi - lo + 1 = sz /\ lo <= hi
    BY <1>2, SMT
  <1>7. \A i \in 1 .. sz : lo + i - 1 = 3 * (g - 1) + i
    BY <1>2, SMT
  <1>8. Len(grp) = sz /\ \A i \in 1 .. sz : grp[i] = bytes[3 * (g - 1) + i]
    BY <1>5, <1>6, <1>7, Zenon
  <1>. QED
    BY <1>2, <1>3, <1>5, <1>8, Zenon DEF len

LEMMA EncodeGroupTyped ==
    ASSUME NEW grp \in Seq(Byte), Len(grp) \in 1 .. 3
    PROVE  EncodeGroup(grp) \in Seq(Byte) /\ Len(EncodeGroup(grp)) = 4
  <1>1. PICK x : GroupOf(grp, x)
    BY EncodeGroupIs
  <1>. DEFINE s1 == Symbol(Six1(x))
              s2 == Symbol(Six2(x))
              s3 == IF Len(grp) > 1 THEN Symbol(Six3(x)) ELSE Equals
              s4 == IF Len(grp) > 2 THEN Symbol(Six4(x)) ELSE Equals
  <1>2. EncodeGroup(grp) = <<s1, s2, s3, s4>>
    BY <1>1, SMT DEF GroupOf
  <1>3. Six1(x) \in Value /\ Six2(x) \in Value /\ Six3(x) \in Value /\ Six4(x) \in Value
    BY <1>1, SMT DEF GroupOf
  <1>4. Equals \in Byte
    BY SMT DEF Equals, Byte
  <1>5. s1 \in Byte /\ s2 \in Byte /\ s3 \in Byte /\ s4 \in Byte
    BY <1>3, <1>4, SymbolIs, SMT
  <1>. HIDE DEF s1, s2, s3, s4
  <1>. QED
    BY <1>2, <1>5, SMT

\* What stl_base64_encode writes, character by character.
EncodedAs(bytes, n, t) ==
    /\ t \in Seq(Byte) /\ Len(t) = 4 * n
    /\ \A g \in 1 .. n : \A i \in 1 .. 4 : t[4 * (g - 1) + i] = EncodeGroup(Group(bytes, g))[i]

LEMMA EncodeIs ==
    ASSUME NEW bytes \in Seq(Byte), NEW n, n = (Len(bytes) + 2) \div 3
    PROVE  n \in Nat /\ 3 * (n - 1) < Len(bytes) /\ Len(bytes) <= 3 * n /\ EncodedAs(bytes, n, Encode(bytes))
  <1>. DEFINE seqs == [g \in 1 .. n |-> EncodeGroup(Group(bytes, g))]
  <1>0. Len(bytes) \in Nat
    BY SMT
  <1>1. n \in Nat /\ (n # 0 => 3 * (n - 1) < Len(bytes)) /\ Len(bytes) <= 3 * n
    BY <1>0, SMT
  <1>9. n = 0 => 3 * (n - 1) < Len(bytes)
    BY <1>0, SMT
  <1>2. ASSUME NEW g \in 1 .. n
        PROVE  EncodeGroup(Group(bytes, g)) \in Seq(Byte) /\ Len(EncodeGroup(Group(bytes, g))) = 4
    <2>1. g \in Nat /\ g # 0 /\ 3 * g - 2 <= Len(bytes)
      BY <1>0, <1>1, SMT
    <2>2. Group(bytes, g) \in Seq(Byte) /\ Len(Group(bytes, g)) \in 1 .. 3
      BY <2>1, GroupIs, Zenon
    <2>. QED
      BY <2>2, EncodeGroupTyped, Zenon
  <1>3. seqs \in Seq(Seq(Byte)) /\ Len(seqs) = n /\ \A g \in 1 .. n : seqs[g] = EncodeGroup(Group(bytes, g))
    BY <1>1, <1>2, SMT
  <1>4. Encode(bytes) = FlattenSeq(seqs)
    BY Zenon DEF Encode
  <1>. HIDE DEF seqs
  <1>5. PICK F : Joined(Byte, seqs, n, F) /\ FlattenSeq(seqs) = F[n]
    BY <1>1, <1>3, FlattenIs
  <1>6. /\ F[0] = << >> /\ \A i \in 1 .. n : seqs[i] \in Seq(Byte) /\ F[i] = F[i - 1] \o seqs[i]
        /\ \A i \in 0 .. n : F[i] \in Seq(Byte)
    BY <1>5, Zenon DEF Joined
  <1>15. \A g \in 1 .. n : Len(seqs[g]) = 4
    BY <1>2, <1>3, Zenon
  <1>. DEFINE T == {i \in 0 .. n : Len(F[i]) # 4 * i}
  <1>7. T = {}
    <2>. SUFFICES ASSUME T # {} PROVE FALSE
      OBVIOUS
    <2>1. PICK m \in T : \A y \in T : m <= y
      <3>1. T \in SUBSET Nat
        BY <1>1, SMT
      <3>. HIDE DEF T
      <3>. QED
        BY <3>1, Least
    <2>2. m # 0 /\ m \in 0 .. n
      BY <2>1, <1>6, SMT
    <2>3. m \in 1 .. n /\ m - 1 \in 0 .. n /\ ~(m <= m - 1)
      BY <1>1, <2>2, SMT
    <2>4. Len(F[m - 1]) = 4 * (m - 1)
      BY <2>1, <2>3, SMT
    <2>5. F[m] = F[m - 1] \o seqs[m] /\ F[m - 1] \in Seq(Byte) /\ seqs[m] \in Seq(Byte) /\ Len(seqs[m]) = 4
      BY <1>6, <1>15, <2>3, Zenon
    <2>6. Len(F[m]) = Len(F[m - 1]) + Len(seqs[m])
      <3>. DEFINE u == F[m - 1]
                  v == seqs[m]
      <3>1. F[m] = u \o v /\ u \in Seq(Byte) /\ v \in Seq(Byte)
        BY <2>5, Zenon
      <3>. HIDE DEF u, v
      <3>2. Len(F[m]) = Len(u) + Len(v)
        BY <3>1, ConcatProperties
      <3>. QED
        BY <3>2, Zenon DEF u, v
    <2>7. Len(F[m]) = 4 * m
      BY <2>3, <2>4, <2>5, <2>6, SMT
    <2>. QED
      BY <2>1, <2>7
  <1>8. \A i \in 0 .. n : Len(F[i]) = 4 * i
    BY <1>7
  <1>. HIDE DEF T
  <1>10. ASSUME NEW g \in 1 .. n, NEW i \in 1 .. 4 PROVE F[n][4 * (g - 1) + i] = EncodeGroup(Group(bytes, g))[i]
    <2>. DEFINE k == 4 * (g - 1) + i
                u == F[g - 1]
                v == seqs[g]
    <2>1. g \in 0 .. n /\ g - 1 \in 0 .. n
      BY <1>1, SMT
    <2>2. Len(u) = 4 * (g - 1) /\ Len(F[g]) = 4 * g /\ u \in Seq(Byte) /\ v \in Seq(Byte) /\ Len(v) = 4 /\ F[g] = u \o v
      BY <1>6, <1>8, <1>15, <2>1, Zenon
    <2>. HIDE DEF u, v
    <2>3. k \in 1 .. Len(F[g]) /\ k \in 1 .. Len(u) + Len(v) /\ ~(k <= Len(u)) /\ k - Len(u) = i
      BY <1>1, <2>2, SMT
    <2>. HIDE DEF k
    <2>4. F[n][k] = F[g][k]
      BY <1>1, <1>5, <2>1, <2>3, JoinedStay, SMT
    <2>5. (u \o v)[k] = v[i]
      BY <2>2, <2>3, ConcatProperties
    <2>. QED
      BY <1>3, <2>2, <2>4, <2>5 DEF k, v
  <1>11. n \in 0 .. n
    BY <1>1, SMT
  <1>12. F[n] \in Seq(Byte) /\ Len(F[n]) = 4 * n
    BY <1>6, <1>8, <1>11, SMT
  <1>13. Encode(bytes) = F[n]
    BY <1>4, <1>5, Zenon
  <1>14. EncodedAs(bytes, n, F[n])
    BY <1>10, <1>12, Zenon DEF EncodedAs
  <1>. QED
    BY <1>1, <1>9, <1>13, <1>14, Zenon

\* What stl_base64_decode has after every character.
IsRun(chars, k, f) ==
    f = [i \in 0 .. k |-> IF i = 0 THEN Decoder ELSE DecodeChar(f[i - 1], chars[i])]

LEMMA RunsExist ==
    ASSUME NEW chars, NEW len \in Nat
    PROVE  \E f : IsRun(chars, len, f)
  <1>. DEFINE Good(k) == \E f : IsRun(chars, k, f)
              T == {k \in Nat : ~Good(k)}
  <1>1. T = {}
    <2>. SUFFICES ASSUME T # {} PROVE FALSE
      OBVIOUS
    <2>1. PICK m \in T : \A y \in T : m <= y
      <3>1. T \in SUBSET Nat
        OBVIOUS
      <3>. HIDE DEF T
      <3>. QED
        BY <3>1, Least
    <2>2. m \in Nat /\ ~Good(m) /\ \A y \in Nat : ~Good(y) => m <= y
      BY <2>1
    <2>3. CASE m = 0
      <3>. DEFINE f == [i \in 0 .. 0 |-> Decoder]
      <3>1. IsRun(chars, m, f)
        BY <2>3 DEF IsRun
      <3>. HIDE DEF f
      <3>. QED
        BY <3>1, <2>2
    <2>4. CASE m # 0
      <3>1. m - 1 \in Nat /\ ~(m <= m - 1)
        BY <2>2, <2>4
      <3>. HIDE DEF Good
      <3>2. Good(m - 1)
        BY <3>1, <2>2
      <3>3. PICK f : IsRun(chars, m - 1, f)
        BY <3>2 DEF Good
      <3>. DEFINE g == [i \in 0 .. m |-> IF i = 0 THEN Decoder ELSE DecodeChar(f[i - 1], chars[i])]
      <3>4. \A i \in 0 .. m - 1 : g[i] = f[i]
        <4>. TAKE i \in 0 .. m - 1
        <4>1. i \in 0 .. m
          BY <2>2
        <4>2. f[i] = IF i = 0 THEN Decoder ELSE DecodeChar(f[i - 1], chars[i])
          BY <3>3 DEF IsRun
        <4>. QED
          BY <4>1, <4>2
      <3>5. \A i \in 0 .. m : i # 0 => g[i - 1] = f[i - 1]
        <4>1. \A i \in 0 .. m : i # 0 => i - 1 \in 0 .. m - 1
          BY <2>2
        <4>. HIDE DEF g
        <4>. QED
          BY <3>4, <4>1
      <3>6. IsRun(chars, m, g)
        BY <3>5 DEF IsRun
      <3>. QED
        BY <3>6, <2>2 DEF Good
    <2>. QED
      BY <2>3, <2>4
  <1>2. Good(len)
    BY <1>1
  <1>. QED
    BY <1>2

Runs(chars, A) == A[0] = Dec(0, 0, 0, << >>) /\ \A i \in 1 .. Len(chars) : A[i] = DecodeChar(A[i - 1], chars[i])

LEMMA DecodeIs ==
    ASSUME NEW chars, Len(chars) \in Nat
    PROVE  \E A : Runs(chars, A) /\ Decode(chars) = [A[Len(chars)] EXCEPT !.ok = @ /\ A[Len(chars)].pos = 0]
  <1>. DEFINE len == Len(chars)
              W == CHOOSE f : IsRun(chars, len, f)
  <1>1. Decode(chars) = [W[len] EXCEPT !.ok = @ /\ W[len].pos = 0]
    BY DEF Decode, IsRun
  <1>2. IsRun(chars, len, W)
    <2>. HIDE DEF len
    <2>1. len \in Nat
      BY DEF len
    <2>. QED
      BY <2>1, RunsExist
  <1>. HIDE DEF len, W
  <1>3. len \in Nat
    BY DEF len
  <1>4. W[0] = Decoder /\ \A i \in 1 .. len : W[i] = DecodeChar(W[i - 1], chars[i])
    BY <1>2, <1>3 DEF IsRun
  <1>5. Decoder = Dec(0, 0, 0, << >>)
    BY Zenon DEF Decoder, Dec
  <1>6. Runs(chars, W)
    BY <1>4, <1>5, Zenon DEF Runs, len
  <1>. QED
    BY <1>1, <1>6, Zenon DEF len

\* The decoder over the characters of the g-th group.
LEMMA GroupRun ==
    ASSUME NEW bytes \in Seq(Byte), NEW n \in Nat, NEW t, EncodedAs(bytes, n, t), NEW A, Runs(t, A),
           NEW g \in 1 .. n, 3 * g - 2 <= Len(bytes), NEW o \in Seq(Byte), A[4 * (g - 1)] = Dec(0, 0, 0, o)
    PROVE  \E e \in 0 .. 2 : A[4 * g] = Dec(0, e, 0, o \o Group(bytes, g)) /\ (Len(Group(bytes, g)) = 3 => e = 0)
  <1>. DEFINE grp == Group(bytes, g)
              u == EncodeGroup(grp)
              k == 4 * (g - 1)
  <1>1. grp \in Seq(Byte) /\ Len(grp) \in 1 .. 3
    <2>1. g \in Nat /\ g # 0
      BY SMT
    <2>. QED
      BY <2>1, GroupIs, Zenon
  <1>2. k \in Nat /\ k + 4 <= 4 * n /\ k + 4 = 4 * g
    BY SMT
  <1>3. Len(t) = 4 * n
    BY Zenon DEF EncodedAs
  <1>4. t[k + 1] = u[1] /\ t[k + 2] = u[2] /\ t[k + 3] = u[3] /\ t[k + 4] = u[4]
    <2>1. 1 \in 1 .. 4 /\ 2 \in 1 .. 4 /\ 3 \in 1 .. 4 /\ 4 \in 1 .. 4
      BY SMT
    <2>. QED
      BY <2>1, Zenon DEF EncodedAs
  <1>5. A[k] = Dec(0, 0, 0, o)
    BY Zenon
  <1>. HIDE DEF k, u, grp
  <1>6. /\ A[k + 1] = DecodeChar(A[k], t[k + 1]) /\ A[k + 2] = DecodeChar(A[k + 1], t[k + 2])
        /\ A[k + 3] = DecodeChar(A[k + 2], t[k + 3]) /\ A[k + 4] = DecodeChar(A[k + 3], t[k + 4])
    <2>1. \A i \in 1 .. Len(t) : A[i] = DecodeChar(A[i - 1], t[i])
      BY Zenon DEF Runs
    <2>2. /\ k + 1 \in 1 .. Len(t) /\ k + 2 \in 1 .. Len(t) /\ k + 3 \in 1 .. Len(t) /\ k + 4 \in 1 .. Len(t)
          /\ (k + 1) - 1 = k /\ (k + 2) - 1 = k + 1 /\ (k + 3) - 1 = k + 2 /\ (k + 4) - 1 = k + 3
      BY <1>2, <1>3, SMT
    <2>. QED
      BY <2>1, <2>2, Zenon
  <1>7. u = EncodeGroup(grp)
    BY DEF u
  <1>8. \E e \in 0 .. 2 : A[k + 4] = Dec(0, e, 0, o \o grp) /\ (Len(grp) = 3 => e = 0)
    <2>. DEFINE r1 == A[k + 1]
                r2 == A[k + 2]
                r3 == A[k + 3]
                r4 == A[k + 4]
    <2>1. r1 = DecodeChar(Dec(0, 0, 0, o), u[1]) /\ r2 = DecodeChar(r1, u[2]) /\ r3 = DecodeChar(r2, u[3])
          /\ r4 = DecodeChar(r3, u[4])
      BY <1>4, <1>5, <1>6, Zenon
    <2>. HIDE DEF r1, r2, r3, r4
    <2>2. \E e \in 0 .. 2 : r4 = Dec(0, e, 0, o \o grp) /\ (Len(grp) = 3 => e = 0)
      BY <1>1, <1>7, <2>1, GroupRead
    <2>. QED
      BY <2>2, Zenon DEF r4
  <1>. QED
    BY <1>2, <1>8, Zenon DEF grp

\* o holds the first k of some bytes.
Begins(bytes, k, o) == o \in Seq(Byte) /\ Len(o) = k /\ \A i \in 1 .. k : o[i] = bytes[i]

\* What the decoder has read after g groups.
ReadGroups(bytes, A, g) ==
    \E e \in 0 .. 2, o \in Seq(Byte) : /\ A[4 * g] = Dec(0, e, 0, o) /\ (3 * g <= Len(bytes) => e = 0)
                                        /\ Begins(bytes, IF 3 * g <= Len(bytes) THEN 3 * g ELSE Len(bytes), o)

LEMMA ReadOneMore ==
    ASSUME NEW bytes \in Seq(Byte), NEW n \in Nat, NEW t, EncodedAs(bytes, n, t), NEW A, Runs(t, A),
           NEW g \in 1 .. n, 3 * (n - 1) < Len(bytes), ReadGroups(bytes, A, g - 1)
    PROVE  ReadGroups(bytes, A, g)
  <1>. DEFINE len == Len(bytes)
              k == 3 * (g - 1)
  <1>1. len \in Nat /\ k \in Nat /\ k < len /\ 3 * g - 2 <= len /\ 3 * g = k + 3 /\ g \in Nat /\ g # 0
    BY SMT
  <1>2. PICK e \in 0 .. 2, o \in Seq(Byte) :
          /\ A[4 * (g - 1)] = Dec(0, e, 0, o) /\ (3 * (g - 1) <= Len(bytes) => e = 0)
          /\ Begins(bytes, IF 3 * (g - 1) <= Len(bytes) THEN 3 * (g - 1) ELSE Len(bytes), o)
    BY Zenon DEF ReadGroups
  <1>3. 3 * (g - 1) <= Len(bytes)
    BY <1>1, SMT
  <1>4. A[4 * (g - 1)] = Dec(0, 0, 0, o) /\ Begins(bytes, k, o)
    BY <1>2, <1>3, Zenon
  <1>. DEFINE grp == Group(bytes, g)
  <1>5. /\ grp \in Seq(Byte) /\ Len(grp) = (IF 3 * g > len THEN len - k ELSE 3)
        /\ \A i \in 1 .. Len(grp) : grp[i] = bytes[k + i]
    BY <1>1, GroupIs, Zenon
  <1>6. o \in Seq(Byte) /\ Len(o) = k /\ \A i \in 1 .. k : o[i] = bytes[i]
    BY <1>4, Zenon DEF Begins
  <1>7. PICK e1 \in 0 .. 2 : A[4 * g] = Dec(0, e1, 0, o \o grp) /\ (Len(grp) = 3 => e1 = 0)
    BY <1>1, <1>4, <1>6, GroupRun, SMT
  <1>. HIDE DEF len, k, grp
  <1>. DEFINE w == o \o grp
  <1>8. /\ w \in Seq(Byte) /\ Len(w) = k + Len(grp)
        /\ \A i \in 1 .. k + Len(grp) : w[i] = IF i <= k THEN o[i] ELSE grp[i - k]
    BY <1>5, <1>6, ConcatProperties
  <1>. HIDE DEF w
  <1>9. ASSUME NEW i \in 1 .. Len(w) PROVE w[i] = bytes[i]
    <2>1. CASE i <= k
      <3>1. i \in 1 .. k
        BY <1>1, <2>1, SMT
      <3>. QED
        BY <1>6, <1>8, <2>1, <3>1
    <2>2. CASE ~(i <= k)
      <3>0. Len(grp) \in Nat
        BY <1>5
      <3>1. i - k \in 1 .. Len(grp) /\ k + (i - k) = i
        BY <1>1, <1>8, <2>2, <3>0, SMT
      <3>2. w[i] = grp[i - k]
        BY <1>8, <2>2
      <3>3. grp[i - k] = bytes[k + (i - k)]
        BY <1>5, <3>1
      <3>. QED
        BY <3>1, <3>2, <3>3
    <2>. QED
      BY <2>1, <2>2
  <1>10. Len(w) = (IF 3 * g <= len THEN 3 * g ELSE len) /\ (3 * g <= len => e1 = 0)
    BY <1>1, <1>5, <1>7, <1>8, SMT
  <1>11. Begins(bytes, IF 3 * g <= len THEN 3 * g ELSE len, w)
    BY <1>8, <1>9, <1>10, Zenon DEF Begins
  <1>. QED
    BY <1>7, <1>8, <1>10, <1>11, Zenon DEF ReadGroups, len, w

LEMMA AllRead ==
    ASSUME NEW bytes \in Seq(Byte), NEW n \in Nat, NEW t, EncodedAs(bytes, n, t), NEW A, Runs(t, A),
           3 * (n - 1) < Len(bytes), Len(bytes) <= 3 * n
    PROVE  \E e \in 0 .. 2 : A[4 * n] = Dec(0, e, 0, bytes)
  <1>. DEFINE T == {g \in 0 .. n : ~ReadGroups(bytes, A, g)}
  <1>1. ReadGroups(bytes, A, 0)
    <2>1. A[4 * 0] = Dec(0, 0, 0, << >>)
      <3>1. 4 * 0 = 0
        BY SMT
      <3>. QED
        BY <3>1, Zenon DEF Runs
    <2>2. Len(bytes) \in Nat /\ 3 * 0 <= Len(bytes) /\ 3 * 0 = 0 /\ 0 \in 0 .. 2
      BY SMT
    <2>3. Begins(bytes, 0, << >>)
      BY SMT DEF Begins
    <2>5. << >> \in Seq(Byte)
      BY SMT
    <2>4. Begins(bytes, IF 3 * 0 <= Len(bytes) THEN 3 * 0 ELSE Len(bytes), << >>)
      BY <2>2, <2>3, Zenon
    <2>. QED
      BY <2>1, <2>2, <2>4, <2>5, Zenon DEF ReadGroups
  <1>2. T = {}
    <2>. SUFFICES ASSUME T # {} PROVE FALSE
      OBVIOUS
    <2>1. PICK m \in T : \A y \in T : m <= y
      <3>1. T \in SUBSET Nat
        OBVIOUS
      <3>. HIDE DEF T
      <3>. QED
        BY <3>1, Least
    <2>2. m \in 0 .. n /\ ~ReadGroups(bytes, A, m) /\ m # 0
      BY <1>1, <2>1
    <2>3. m \in 1 .. n /\ m - 1 \in 0 .. n /\ ~(m <= m - 1)
      BY <2>2
    <2>4. ReadGroups(bytes, A, m - 1)
      BY <2>1, <2>3
    <2>5. ReadGroups(bytes, A, m)
      BY <2>3, <2>4, ReadOneMore, Zenon
    <2>. QED
      BY <2>2, <2>5
  <1>3. n \in 0 .. n
    OBVIOUS
  <1>4. ReadGroups(bytes, A, n)
    BY <1>2, <1>3
  <1>5. PICK e \in 0 .. 2, o \in Seq(Byte) :
          /\ A[4 * n] = Dec(0, e, 0, o)
          /\ Begins(bytes, IF 3 * n <= Len(bytes) THEN 3 * n ELSE Len(bytes), o)
    BY <1>4, Zenon DEF ReadGroups
  <1>6. (IF 3 * n <= Len(bytes) THEN 3 * n ELSE Len(bytes)) = Len(bytes) /\ Len(bytes) \in Nat
    BY SMT
  <1>7. o \in Seq(Byte) /\ Len(o) = Len(bytes) /\ \A i \in 1 .. Len(bytes) : o[i] = bytes[i]
    BY <1>5, <1>6, Zenon DEF Begins
  <1>8. o = bytes
    BY <1>7, SeqEqual
  <1>. QED
    BY <1>5, <1>8, Zenon

\* The result of stl_base64_decode from what its loop leaves.
Judged(d, r) == r = [d EXCEPT !.ok = @ /\ d.pos = 0]

LEMMA Judgement ==
    ASSUME NEW p, NEW e, NEW b, NEW o, NEW d, d = Dec(p, e, b, o) \/ d = Bad(p, e, b, o),
           NEW r, Judged(d, r)
    PROVE  r.out = o /\ (r.ok <=> d = Dec(p, e, b, o) /\ p = 0)
  <1>1. d.pos = p /\ d.out = o /\ (d.ok <=> d = Dec(p, e, b, o)) /\ d.ok \in BOOLEAN
    <2>1. CASE d = Dec(p, e, b, o)
      BY <2>1, SMT DEF Dec
    <2>2. CASE d = Bad(p, e, b, o)
      <3>1. ~(Bad(p, e, b, o) = Dec(p, e, b, o))
        <4>1. Dec(p, e, b, o).ok /\ ~Bad(p, e, b, o).ok
          BY DecFields
        <4>. QED
          BY <4>1, Zenon
      <3>. QED
        BY <2>2, <3>1, SMT DEF Bad
    <2>. QED
      BY <2>1, <2>2
  <1>2. "ok" \in DOMAIN d /\ "out" \in DOMAIN d
    BY SMT DEF Dec, Bad
  <1>3. r.out = d.out /\ r.ok = (d.ok /\ d.pos = 0)
    BY <1>2, Zenon DEF Judged
  <1>. QED
    BY <1>1, <1>3, Zenon

\* What is encoded is read back.
LEMMA EncodedIsRead ==
    ASSUME NEW bytes \in Seq(Byte)
    PROVE  /\ Decode(Encode(bytes)).ok /\ Decode(Encode(bytes)).out = bytes
           /\ Len(Encode(bytes)) <= EncLen(Len(bytes))
  <1>. DEFINE n == (Len(bytes) + 2) \div 3
              t == Encode(bytes)
  <1>1. n \in Nat /\ 3 * (n - 1) < Len(bytes) /\ Len(bytes) <= 3 * n /\ EncodedAs(bytes, n, t)
    BY EncodeIs
  <1>2. Len(bytes) \in Nat
    OBVIOUS
  <1>3. 4 * n <= EncLen(Len(bytes))
    BY <1>2 DEF EncLen
  <1>. HIDE DEF n, t
  <1>4. Len(t) = 4 * n /\ Len(t) \in Nat
    BY <1>1 DEF EncodedAs
  <1>5. PICK A : Runs(t, A) /\ Decode(t) = [A[Len(t)] EXCEPT !.ok = @ /\ A[Len(t)].pos = 0]
    BY <1>4, DecodeIs
  <1>6. PICK e \in 0 .. 2 : A[4 * n] = Dec(0, e, 0, bytes)
    BY <1>1, <1>5, AllRead, SMT
  <1>. DEFINE d == A[Len(t)]
              r == Decode(t)
  <1>7. d = Dec(0, e, 0, bytes) /\ Judged(d, r)
    BY <1>4, <1>5, <1>6, Zenon DEF Judged
  <1>. HIDE DEF d, r
  <1>8. r.out = bytes /\ r.ok
    BY <1>7, Judgement, SMT
  <1>. QED
    BY <1>3, <1>4, <1>8, Zenon DEF r, t

\* What stl_base64_decode may have after k characters.
State(k, d) ==
    \E p \in 0 .. 3, e \in 0 .. 2, b \in Nat, o \in Seq(Byte) :
       /\ d = Bad(p, e, b, o) \/ (d = Dec(p, e, b, o) /\ \E j \in Nat : k = 4 * j + p)
       /\ 4 * Len(o) + 3 * p <= 3 * k

Longer(o, w) == o \in Seq(Byte) /\ w \in Seq(Byte) /\ Len(o) <= Len(w) /\ \A i \in 1 .. Len(o) : w[i] = o[i]

LEMMA LongerConcat ==
    ASSUME NEW o \in Seq(Byte), NEW u \in Seq(Byte)
    PROVE  Longer(o, o \o u) /\ Len(o \o u) = Len(o) + Len(u)
  <1>. DEFINE w == o \o u
  <1>1. /\ w \in Seq(Byte) /\ Len(w) = Len(o) + Len(u) /\ Len(o) \in Nat /\ Len(u) \in Nat
        /\ \A i \in 1 .. Len(o) + Len(u) : w[i] = IF i <= Len(o) THEN o[i] ELSE u[i - Len(o)]
    BY ConcatProperties
  <1>. HIDE DEF w
  <1>2. ASSUME NEW i \in 1 .. Len(o) PROVE w[i] = o[i]
    <2>1. i \in 1 .. Len(o) + Len(u) /\ i <= Len(o)
      BY <1>1, SMT
    <2>. QED
      BY <1>1, <2>1
  <1>3. Len(o) <= Len(w)
    BY <1>1
  <1>. QED
    BY <1>1, <1>2, <1>3, Zenon DEF Longer, w

LEMMA LongerSelf ==
    ASSUME NEW o \in Seq(Byte)
    PROVE  Longer(o, o)
  BY SMT DEF Longer

LEMMA LongerTwice ==
    ASSUME NEW o, NEW u, NEW w, Longer(o, u), Longer(u, w)
    PROVE  Longer(o, w)
  <1>1. /\ o \in Seq(Byte) /\ u \in Seq(Byte) /\ w \in Seq(Byte) /\ Len(o) <= Len(u) /\ Len(u) <= Len(w)
        /\ \A i \in 1 .. Len(o) : u[i] = o[i]
        /\ \A i \in 1 .. Len(u) : w[i] = u[i]
    BY Zenon DEF Longer
  <1>2. Len(o) \in Nat /\ Len(u) \in Nat /\ Len(w) \in Nat
    BY <1>1, SMT
  <1>3. Len(o) <= Len(w) /\ \A i \in 1 .. Len(o) : i \in 1 .. Len(u)
    BY <1>1, <1>2, SMT
  <1>. QED
    BY <1>1, <1>3, Zenon DEF Longer

\* One turn keeps the state, gives no second chance and takes nothing back.
LEMMA StateStep ==
    ASSUME NEW k \in Nat, NEW d, State(k, d), NEW c \in Byte, NEW r, r = DecodeChar(d, c)
    PROVE  State(k + 1, r) /\ (r.ok => d.ok) /\ Longer(d.out, r.out)
  <1>1. PICK p \in 0 .. 3, e \in 0 .. 2, b \in Nat, o \in Seq(Byte) :
          /\ d = Bad(p, e, b, o) \/ (d = Dec(p, e, b, o) /\ \E j \in Nat : k = 4 * j + p)
          /\ 4 * Len(o) + 3 * p <= 3 * k
    BY Zenon DEF State
  <1>0. Longer(o, o) /\ Len(o) \in Nat
    BY LongerSelf
  <1>2. ASSUME r = Bad(p, e, b, o) PROVE State(k + 1, r) /\ (r.ok => d.ok) /\ Longer(d.out, r.out)
    <2>1. 4 * Len(o) + 3 * p <= 3 * (k + 1)
      BY <1>0, <1>1, SMT
    <2>2. State(k + 1, r)
      BY <1>2, <2>1, Zenon DEF State
    <2>3. d.out = o /\ r.out = o /\ ~r.ok
      BY <1>1, <1>2, DecFields, SMT
    <2>. QED
      BY <1>0, <2>2, <2>3, Zenon
  <1>3. CASE d = Bad(p, e, b, o)
    <2>1. r = Bad(p, e, b, o)
      BY <1>3, BadStays, SMT
    <2>. QED
      BY <2>1, <1>2
  <1>4. CASE d = Dec(p, e, b, o) /\ \E j \in Nat : k = 4 * j + p
    <2>1. Turn(p, e, b, o, c, r)
      BY <1>4, DecodeCharMay, SMT
    <2>2. CASE \E v \in Value, f \in 0 .. 2 :
                  r = Fed(p, f, b * 64 + v, o) /\ b * 64 + v \in Nat /\ (c # Equals => ValueOf(c) = v /\ f = e)
      <3>1. PICK x \in Nat, f \in 0 .. 2 : r = Fed(p, f, x, o)
        BY <2>2, Zenon
      <3>2. PICK j \in Nat : k = 4 * j + p
        BY <1>4, Zenon
      <3>3. d.ok /\ d.out = o
        BY <1>4, DecFields, SMT
      <3>4. CASE p = 3
        <4>. DEFINE u == Emitted(f, x)
                    w == o \o u
        <4>1. r = Dec(0, f, 0, w)
          BY <3>1, <3>4, Zenon DEF Fed
        <4>2. u \in Seq(Byte)
          BY EmittedIs, Zenon
        <4>3. Len(u) \in Nat /\ Len(u) <= 3
          BY SMT DEF Emitted
        <4>. HIDE DEF u
        <4>4. Longer(o, w) /\ Len(w) = Len(o) + Len(u) /\ w \in Seq(Byte)
          BY <4>2, LongerConcat DEF Longer
        <4>. HIDE DEF w
        <4>5. k + 1 = 4 * (j + 1) + 0 /\ j + 1 \in Nat
          BY <3>2, <3>4, SMT
        <4>6. 4 * Len(w) + 3 * 0 <= 3 * (k + 1) /\ 0 \in 0 .. 3 /\ 0 \in Nat
          <5>1. 4 * Len(o) + 9 <= 3 * k
            BY <1>1, <3>4, SMT
          <5>. QED
            BY <1>0, <4>3, <4>4, <5>1, SMT
        <4>7. State(k + 1, r)
          BY <4>1, <4>4, <4>5, <4>6, Zenon DEF State
        <4>8. r.out = w
          BY <4>1, DecFields, SMT
        <4>. QED
          BY <3>3, <4>4, <4>7, <4>8, Zenon
      <3>5. CASE p # 3
        <4>1. r = Dec(p + 1, f, x, o)
          BY <3>1, <3>5, Zenon DEF Fed
        <4>2. p + 1 \in 0 .. 3 /\ k + 1 = 4 * j + (p + 1) /\ 4 * Len(o) + 3 * (p + 1) <= 3 * (k + 1)
          BY <1>0, <1>1, <3>2, <3>5, SMT
        <4>3. State(k + 1, r)
          BY <4>1, <4>2, Zenon DEF State
        <4>4. r.out = o
          BY <4>1, DecFields, SMT
        <4>. QED
          BY <1>0, <3>3, <4>3, <4>4, Zenon
      <3>. QED
        BY <3>4, <3>5
    <2>. QED
      BY <1>2, <2>1, <2>2, Zenon DEF Turn
  <1>. QED
    BY <1>1, <1>3, <1>4, Zenon

LEMMA RunStates ==
    ASSUME NEW chars \in Seq(Byte), NEW A, Runs(chars, A)
    PROVE  \A k \in 0 .. Len(chars) : State(k, A[k])
  <1>. DEFINE n == Len(chars)
              T == {k \in 0 .. n : ~State(k, A[k])}
  <1>0. n \in Nat /\ \A i \in 1 .. n : chars[i] \in Byte
    OBVIOUS
  <1>1. State(0, A[0])
    <2>1. A[0] = Dec(0, 0, 0, << >>)
      BY Zenon DEF Runs
    <2>2. 0 = 4 * 0 + 0 /\ 4 * Len(<< >>) + 3 * 0 <= 3 * 0 /\ 0 \in Nat /\ 0 \in 0 .. 3 /\ 0 \in 0 .. 2
      BY SMT
    <2>3. << >> \in Seq(Byte)
      BY SMT
    <2>. QED
      BY <2>1, <2>2, <2>3, Zenon DEF State
  <1>2. \A i \in 1 .. n : A[i] = DecodeChar(A[i - 1], chars[i])
    BY Zenon DEF Runs
  <1>. HIDE DEF n
  <1>3. T = {}
    <2>. SUFFICES ASSUME T # {} PROVE FALSE
      OBVIOUS
    <2>1. PICK m \in T : \A y \in T : m <= y
      <3>1. T \in SUBSET Nat
        BY <1>0
      <3>. HIDE DEF T
      <3>. QED
        BY <3>1, Least
    <2>2. m \in 0 .. n /\ ~State(m, A[m]) /\ m # 0
      BY <1>1, <2>1
    <2>3. m \in 1 .. n /\ m - 1 \in 0 .. n /\ ~(m <= m - 1) /\ m - 1 \in Nat /\ (m - 1) + 1 = m
      BY <1>0, <2>2
    <2>4. State(m - 1, A[m - 1])
      BY <2>1, <2>3
    <2>5. State((m - 1) + 1, A[m])
      BY <1>0, <1>2, <2>3, <2>4, StateStep, Zenon
    <2>. QED
      BY <2>2, <2>3, <2>5
  <1>. QED
    BY <1>3 DEF n

\* What was accepted and written before.
LEMMA RunGrows ==
    ASSUME NEW chars \in Seq(Byte), NEW A, Runs(chars, A), NEW k \in 0 .. Len(chars)
    PROVE  (A[Len(chars)].ok => A[k].ok) /\ Longer(A[k].out, A[Len(chars)].out)
  <1>. DEFINE n == Len(chars)
              Good(i) == (A[n].ok => A[i].ok) /\ Longer(A[i].out, A[n].out)
              T == {i \in Nat : i <= n /\ ~Good(n - i)}
  <1>0. n \in Nat /\ (\A i \in 1 .. n : chars[i] \in Byte) /\ k \in 0 .. n
    OBVIOUS
  <1>1. \A i \in 0 .. n : State(i, A[i])
    BY RunStates
  <1>2. \A i \in 1 .. n : A[i] = DecodeChar(A[i - 1], chars[i])
    BY Zenon DEF Runs
  <1>. HIDE DEF n
  <1>3. ASSUME NEW i \in 1 .. n PROVE (A[i].ok => A[i - 1].ok) /\ Longer(A[i - 1].out, A[i].out)
    <2>1. i - 1 \in Nat /\ i - 1 \in 0 .. n
      BY <1>0
    <2>. QED
      BY <1>0, <1>1, <1>2, <2>1, StateStep, Zenon
  <1>4. Good(n - 0)
    <2>1. n - 0 = n /\ n \in 0 .. n
      BY <1>0
    <2>2. A[n].out \in Seq(Byte)
      <3>1. PICK p \in 0 .. 3, e \in 0 .. 2, b \in Nat, o \in Seq(Byte) : A[n] = Bad(p, e, b, o) \/ A[n] = Dec(p, e, b, o)
        BY <1>1, <2>1, Zenon DEF State
      <3>. QED
        BY <3>1, DecFields, SMT
    <2>. QED
      BY <2>1, <2>2, LongerSelf, Zenon
  <1>. HIDE DEF Good
  <1>5. T = {}
    <2>. SUFFICES ASSUME T # {} PROVE FALSE
      OBVIOUS
    <2>1. PICK m \in T : \A y \in T : m <= y
      <3>1. T \in SUBSET Nat
        BY <1>0
      <3>. HIDE DEF T
      <3>. QED
        BY <3>1, Least
    <2>2. m \in Nat /\ m <= n /\ ~Good(n - m) /\ m # 0
      BY <1>4, <2>1
    <2>3. /\ m - 1 \in Nat /\ m - 1 <= n /\ ~(m <= m - 1)
          /\ n - (m - 1) \in 1 .. n /\ (n - (m - 1)) - 1 = n - m
      BY <1>0, <2>2
    <2>. DEFINE i == n - (m - 1)
    <2>4. Good(i)
      BY <2>1, <2>3
    <2>5. i \in 1 .. n /\ i - 1 = n - m
      BY <2>3
    <2>. HIDE DEF i
    <2>6. Good(i - 1)
      BY <1>3, <2>4, <2>5, LongerTwice, Zenon DEF Good
    <2>. QED
      BY <2>2, <2>5, <2>6
  <1>6. n - k \in Nat /\ n - k <= n /\ n - (n - k) = k
    BY <1>0
  <1>7. Good(n - (n - k))
    BY <1>5, <1>6
  <1>8. Good(k)
    BY <1>6, <1>7
  <1>. QED
    BY <1>8 DEF Good, n

\* A whole group is the same in a longer sequence.
LEMMA GroupStays ==
    ASSUME NEW o, NEW w, Longer(o, w), NEW g \in Nat, g # 0, 3 * g <= Len(o)
    PROVE  Group(w, g) = Group(o, g)
  <1>1. /\ o \in Seq(Byte) /\ w \in Seq(Byte) /\ Len(o) <= Len(w) /\ \A i \in 1 .. Len(o) : w[i] = o[i]
    BY Zenon DEF Longer
  <1>2. Len(o) \in Nat /\ Len(w) \in Nat
    BY <1>1, SMT
  <1>3. /\ 3 * g - 2 <= Len(o) /\ 3 * g - 2 <= Len(w) /\ ~(3 * g > Len(o)) /\ ~(3 * g > Len(w))
        /\ \A i \in 1 .. 3 : 3 * (g - 1) + i \in 1 .. Len(o)
    BY <1>1, <1>2, SMT
  <1>. DEFINE a == Group(o, g)
              b == Group(w, g)
  <1>4. a \in Seq(Byte) /\ Len(a) = 3 /\ \A i \in 1 .. Len(a) : a[i] = o[3 * (g - 1) + i]
    BY <1>1, <1>3, GroupIs, Zenon
  <1>5. b \in Seq(Byte) /\ Len(b) = 3 /\ \A i \in 1 .. Len(b) : b[i] = w[3 * (g - 1) + i]
    BY <1>1, <1>3, GroupIs, Zenon
  <1>. HIDE DEF a, b
  <1>6. \A i \in 1 .. Len(b) : b[i] = a[i]
    BY <1>1, <1>3, <1>4, <1>5, Zenon
  <1>7. b = a
    BY <1>4, <1>5, <1>6, SeqEqual
  <1>. QED
    BY <1>7 DEF a, b

\* The group that is appended.
LEMMA GroupLast ==
    ASSUME NEW o \in Seq(Byte), NEW grp \in Seq(Byte), Len(grp) = 3, NEW j \in Nat, j # 0, Len(o) = 3 * (j - 1)
    PROVE  Group(o \o grp, j) = grp
  <1>. DEFINE w == o \o grp
              b == Group(w, j)
              k == 3 * (j - 1)
  <1>1. k \in Nat /\ Len(o) = k /\ 3 * j = k + 3 /\ 3 * j - 2 <= k + 3 /\ ~(3 * j > k + 3)
    BY SMT
  <1>2. /\ w \in Seq(Byte) /\ Len(w) = k + 3
        /\ \A i \in 1 .. k + 3 : w[i] = IF i <= k THEN o[i] ELSE grp[i - k]
    <2>1. /\ w \in Seq(Byte) /\ Len(w) = Len(o) + Len(grp)
          /\ \A i \in 1 .. Len(o) + Len(grp) : w[i] = IF i <= Len(o) THEN o[i] ELSE grp[i - Len(o)]
      BY ConcatProperties
    <2>. QED
      BY <1>1, <2>1, Zenon
  <1>. HIDE DEF w
  <1>3. b \in Seq(Byte) /\ Len(b) = 3 /\ \A i \in 1 .. Len(b) : b[i] = w[k + i]
    BY <1>1, <1>2, GroupIs, Zenon
  <1>. HIDE DEF b, k
  <1>4. ASSUME NEW i \in 1 .. 3 PROVE b[i] = grp[i]
    <2>1. k + i \in 1 .. k + 3 /\ ~(k + i <= k) /\ (k + i) - k = i
      BY <1>1, SMT
    <2>2. w[k + i] = grp[(k + i) - k]
      BY <1>2, <2>1, Zenon
    <2>. QED
      BY <1>3, <2>1, <2>2, Zenon
  <1>5. b = grp
    BY <1>3, <1>4, SeqEqual
  <1>. QED
    BY <1>5 DEF b, w

\* What was read of the first j groups encodes to them.
Copied(chars, j, o) ==
    /\ o \in Seq(Byte) /\ Len(o) = 3 * j
    /\ \A g \in 1 .. j : \A i \in 1 .. 4 : EncodeGroup(Group(o, g))[i] = chars[4 * (g - 1) + i]

Whole(chars, A, j) == \E o \in Seq(Byte) : A[4 * j] = Dec(0, 0, 0, o) /\ Copied(chars, j, o)

LEMMA WholeOneMore ==
    ASSUME NEW chars \in Seq(Byte), NEW A, Runs(chars, A), NEW j \in Nat, j # 0, 4 * j <= Len(chars),
           \A i \in 1 .. 4 * j : chars[i] # Equals, A[4 * j].ok, Whole(chars, A, j - 1)
    PROVE  Whole(chars, A, j)
  <1>. DEFINE k == 4 * (j - 1)
  <1>1. k \in Nat /\ k + 4 = 4 * j /\ k + 4 <= Len(chars) /\ Len(chars) \in Nat
    BY SMT
  <1>2. PICK o \in Seq(Byte) : A[k] = Dec(0, 0, 0, o) /\ Copied(chars, j - 1, o)
    BY Zenon DEF Whole
  <1>. HIDE DEF k
  <1>3. k + 1 \in 1 .. Len(chars) /\ k + 2 \in 1 .. Len(chars) /\ k + 3 \in 1 .. Len(chars) /\ k + 4 \in 1 .. Len(chars)
        /\ k + 1 \in 1 .. 4 * j /\ k + 2 \in 1 .. 4 * j /\ k + 3 \in 1 .. 4 * j /\ k + 4 \in 1 .. 4 * j
        /\ (k + 1) - 1 = k /\ (k + 2) - 1 = k + 1 /\ (k + 3) - 1 = k + 2 /\ (k + 4) - 1 = k + 3
    BY <1>1, SMT
  <1>. DEFINE c1 == chars[k + 1]
              c2 == chars[k + 2]
              c3 == chars[k + 3]
              c4 == chars[k + 4]
              r1 == A[k + 1]
              r2 == A[k + 2]
              r3 == A[k + 3]
              r4 == A[k + 4]
  <1>4. c1 \in Byte /\ c2 \in Byte /\ c3 \in Byte /\ c4 \in Byte
    <2>1. \A i \in 1 .. Len(chars) : chars[i] \in Byte
      BY SMT
    <2>. QED
      BY <1>3, <2>1, Zenon
  <1>5. c1 # Equals /\ c2 # Equals /\ c3 # Equals /\ c4 # Equals
    BY <1>3, Zenon
  <1>6. r1 = DecodeChar(Dec(0, 0, 0, o), c1) /\ r2 = DecodeChar(r1, c2) /\ r3 = DecodeChar(r2, c3) /\ r4 = DecodeChar(r3, c4)
    <2>1. \A i \in 1 .. Len(chars) : A[i] = DecodeChar(A[i - 1], chars[i])
      BY Zenon DEF Runs
    <2>. QED
      BY <1>2, <1>3, <2>1, Zenon
  <1>7. r4.ok
    BY <1>1, Zenon
  <1>8. PICK grp \in Seq(Byte) :
          Len(grp) = 3 /\ r4 = Dec(0, 0, 0, o \o grp) /\ EncodeGroup(grp) = <<c1, c2, c3, c4>>
    <2>. HIDE DEF c1, c2, c3, c4, r1, r2, r3, r4
    <2>. QED
      BY <1>4, <1>5, <1>6, <1>7, FourAccepted
  <1>9. /\ o \in Seq(Byte) /\ Len(o) = 3 * (j - 1)
        /\ \A g \in 1 .. j - 1 : \A i \in 1 .. 4 : EncodeGroup(Group(o, g))[i] = chars[4 * (g - 1) + i]
    BY <1>2, Zenon DEF Copied
  <1>. DEFINE w == o \o grp
  <1>10. Longer(o, w) /\ Len(w) = Len(o) + 3 /\ w \in Seq(Byte)
    <2>1. Longer(o, w) /\ Len(w) = Len(o) + Len(grp)
      BY <1>8, LongerConcat, Zenon
    <2>. QED
      BY <1>8, <2>1, Zenon DEF Longer
  <1>11. Group(w, j) = grp
    BY <1>8, <1>9, GroupLast, Zenon
  <1>. HIDE DEF w
  <1>12. ASSUME NEW g \in 1 .. j, NEW i \in 1 .. 4
         PROVE  EncodeGroup(Group(w, g))[i] = chars[4 * (g - 1) + i]
    <2>1. CASE g = j
      <3>. DEFINE u == <<c1, c2, c3, c4>>
      <3>1. EncodeGroup(Group(w, g)) = u
        BY <1>8, <1>11, <2>1, Zenon
      <3>2. 4 * (g - 1) = k
        BY <2>1 DEF k
      <3>3. u[1] = c1 /\ u[2] = c2 /\ u[3] = c3 /\ u[4] = c4
        <4>. HIDE DEF c1, c2, c3, c4
        <4>. QED
          BY SMT
      <3>4. i = 1 \/ i = 2 \/ i = 3 \/ i = 4
        BY SMT
      <3>. HIDE DEF u
      <3>5. u[i] = chars[k + i]
        BY <3>3, <3>4, Zenon
      <3>. QED
        BY <3>1, <3>2, <3>5, Zenon
    <2>2. CASE g # j
      <3>1. g \in 1 .. j - 1 /\ g \in Nat /\ g # 0 /\ 3 * g <= 3 * (j - 1)
        BY <2>2, SMT
      <3>2. Group(w, g) = Group(o, g)
        BY <1>9, <1>10, <3>1, GroupStays, Zenon
      <3>. QED
        BY <1>9, <3>1, <3>2, Zenon
    <2>. QED
      BY <2>1, <2>2
  <1>13. Len(w) = 3 * j
    BY <1>9, <1>10, SMT
  <1>14. Copied(chars, j, w)
    BY <1>10, <1>12, <1>13, Zenon DEF Copied
  <1>15. A[4 * j] = Dec(0, 0, 0, w)
    BY <1>1, <1>8, Zenon DEF w
  <1>. QED
    BY <1>10, <1>14, <1>15, Zenon DEF Whole

LEMMA WholeGroups ==
    ASSUME NEW chars \in Seq(Byte), NEW A, Runs(chars, A), A[Len(chars)].ok, NEW n \in Nat, 4 * n <= Len(chars),
           \A i \in 1 .. 4 * n : chars[i] # Equals
    PROVE  Whole(chars, A, n)
  <1>. DEFINE T == {j \in 0 .. n : ~Whole(chars, A, j)}
  <1>1. Whole(chars, A, 0)
    <2>1. 4 * 0 = 0 /\ 3 * 0 = 0
      BY SMT
    <2>2. A[4 * 0] = Dec(0, 0, 0, << >>)
      BY <2>1, Zenon DEF Runs
    <2>3. << >> \in Seq(Byte) /\ Len(<< >>) = 0
      BY SMT
    <2>5. \A g \in 1 .. 0 : FALSE
      BY SMT
    <2>4. Copied(chars, 0, << >>)
      BY <2>1, <2>3, <2>5, Zenon DEF Copied
    <2>. QED
      BY <2>2, <2>3, <2>4, Zenon DEF Whole
  <1>2. T = {}
    <2>. SUFFICES ASSUME T # {} PROVE FALSE
      OBVIOUS
    <2>1. PICK m \in T : \A y \in T : m <= y
      <3>1. T \in SUBSET Nat
        OBVIOUS
      <3>. HIDE DEF T
      <3>. QED
        BY <3>1, Least
    <2>2. m \in 0 .. n /\ ~Whole(chars, A, m) /\ m # 0
      BY <1>1, <2>1
    <2>3. m \in Nat /\ m - 1 \in 0 .. n /\ ~(m <= m - 1) /\ 4 * m <= Len(chars) /\ 4 * m \in 0 .. Len(chars)
      BY <2>2, SMT
    <2>4. Whole(chars, A, m - 1)
      BY <2>1, <2>3
    <2>5. \A i \in 1 .. 4 * m : chars[i] # Equals
      <3>1. \A i \in 1 .. 4 * m : i \in 1 .. 4 * n
        BY <2>2, SMT
      <3>. QED
        BY <3>1, Zenon
    <2>6. A[4 * m].ok
      BY <2>3, RunGrows, Zenon
    <2>7. Whole(chars, A, m)
      BY <2>2, <2>3, <2>4, <2>5, <2>6, WholeOneMore, SMT
    <2>. QED
      BY <2>2, <2>7
  <1>3. n \in 0 .. n
    OBVIOUS
  <1>. QED
    BY <1>2, <1>3

\* The whole groups encode to themselves, whatever follows them.
LEMMA PrefixAgain ==
    ASSUME NEW chars \in Seq(Byte), NEW n \in Nat, 4 * n <= Len(chars), NEW o, Copied(chars, n, o), NEW w, Longer(o, w)
    PROVE  IsPrefix(SubSeq(chars, 1, 4 * n), Encode(w))
  <1>. DEFINE t == Encode(w)
              s == SubSeq(chars, 1, 4 * n)
              q == (Len(w) + 2) \div 3
  <1>1. w \in Seq(Byte) /\ Len(o) <= Len(w) /\ Len(w) \in Nat
    BY SMT DEF Longer
  <1>2. /\ o \in Seq(Byte) /\ Len(o) = 3 * n
        /\ \A g \in 1 .. n : \A i \in 1 .. 4 : EncodeGroup(Group(o, g))[i] = chars[4 * (g - 1) + i]
    BY Zenon DEF Copied
  <1>3. q \in Nat /\ Len(w) <= 3 * q /\ EncodedAs(w, q, t)
    BY <1>1, EncodeIs, Zenon
  <1>. HIDE DEF q, t
  <1>4. /\ t \in Seq(Byte) /\ Len(t) = 4 * q
        /\ \A g \in 1 .. q : \A i \in 1 .. 4 : t[4 * (g - 1) + i] = EncodeGroup(Group(w, g))[i]
    BY <1>3, Zenon DEF EncodedAs
  <1>5. n <= q
    BY <1>1, <1>2, <1>3, SMT
  <1>6. ASSUME NEW i \in 1 .. 4 * n PROVE t[i] = chars[i]
    <2>1. PICK g \in 1 .. n, h \in 1 .. 4 : i = 4 * (g - 1) + h
      <3>. DEFINE g == (i - 1) \div 4 + 1
                  h == i - 4 * (g - 1)
      <3>1. g \in 1 .. n /\ h \in 1 .. 4 /\ i = 4 * (g - 1) + h
        BY SMT
      <3>. HIDE DEF g, h
      <3>. QED
        BY <3>1, Zenon
    <2>2. g \in 1 .. q /\ g \in Nat /\ g # 0 /\ 3 * g <= Len(o)
      BY <1>2, <1>3, <1>5, SMT
    <2>3. Group(w, g) = Group(o, g)
      BY <2>2, GroupStays, Zenon
    <2>4. t[4 * (g - 1) + h] = chars[4 * (g - 1) + h]
      BY <1>2, <1>4, <2>2, <2>3, Zenon
    <2>. QED
      BY <2>1, <2>4, Zenon
  <1>. DEFINE m == 4 * n
  <1>7. m \in Nat /\ m <= Len(t) /\ m <= Len(chars) /\ 1 \in Int /\ m \in Int
    BY <1>3, <1>4, <1>5, SMT
  <1>8. \A i \in 1 .. m : t[i] = chars[i]
    BY <1>6, Zenon
  <1>. HIDE DEF m
  <1>13. \A i \in 1 .. m : chars[i] \in Byte
    BY <1>7, SMT
  <1>9. s \in Seq(Byte) /\ Len(s) = m /\ \A i \in 1 .. m : s[i] = chars[i]
    <2>. HIDE DEF s
    <2>1. s = SubSeq(chars, 1, m)
      BY DEF s, m
    <2>2. /\ s \in Seq(Byte) /\ Len(s) = (IF 1 <= m THEN m - 1 + 1 ELSE 0)
          /\ \A i \in 1 .. m - 1 + 1 : s[i] = chars[1 + i - 1]
      BY <1>7, <1>13, <2>1, SubSeqProperties
    <2>3. m - 1 + 1 = m /\ (IF 1 <= m THEN m - 1 + 1 ELSE 0) = m /\ \A i \in 1 .. m : 1 + i - 1 = i
      BY <1>7, SMT
    <2>. QED
      BY <2>2, <2>3, Zenon
  <1>. HIDE DEF s
  <1>. DEFINE v == SubSeq(t, 1, m)
  <1>10. v \in Seq(Byte) /\ Len(v) = m /\ \A i \in 1 .. m : v[i] = t[i]
    <2>1. \A i \in 1 .. m : t[i] \in Byte
      BY <1>8, <1>13, Zenon
    <2>2. /\ v \in Seq(Byte) /\ Len(v) = (IF 1 <= m THEN m - 1 + 1 ELSE 0)
          /\ \A i \in 1 .. m - 1 + 1 : v[i] = t[1 + i - 1]
      BY <1>7, <2>1, SubSeqProperties
    <2>. HIDE DEF v
    <2>3. m - 1 + 1 = m /\ (IF 1 <= m THEN m - 1 + 1 ELSE 0) = m /\ \A i \in 1 .. m : 1 + i - 1 = i
      BY <1>7, SMT
    <2>. QED
      BY <2>2, <2>3, Zenon
  <1>. HIDE DEF v
  <1>11. s = v
    BY <1>8, <1>9, <1>10, SeqEqual
  <1>12. SubSeq(s, 1, Len(s)) = s
    BY <1>9, SubSeqFull
  <1>. QED
    BY <1>7, <1>9, <1>11, <1>12, Zenon DEF IsPrefix, v, s, t

\* The characters before the first '='.
LEMMA OpenIs ==
    ASSUME NEW chars \in Seq(Byte), NEW f, f = SelectInSeq(chars, LAMBDA c : c = Equals), Equals \in ToSet(chars)
    PROVE  f \in 1 .. Len(chars) /\ \A i \in 1 .. f - 1 : chars[i] # Equals
  <1>. DEFINE I == {i \in 1 .. Len(chars) : chars[i] = Equals}
  <1>1. f = IF I # {} THEN Min(I) ELSE 0
    BY Zenon DEF SelectInSeq
  <1>2. DOMAIN chars = 1 .. Len(chars) /\ Len(chars) \in Nat
    OBVIOUS
  <1>3. I # {} /\ I \in SUBSET Nat
    BY <1>2 DEF ToSet
  <1>4. PICK m \in I : \A y \in I : m <= y
    <2>. HIDE DEF I
    <2>. QED
      BY <1>3, Least
  <1>5. f = CHOOSE x \in I : \A y \in I : x <= y
    <2>. HIDE DEF I
    <2>. QED
      BY <1>1, <1>3, Zenon DEF Min
  <1>6. f \in I /\ \A y \in I : f <= y
    <2>. HIDE DEF I
    <2>. QED
      BY <1>4, <1>5, Zenon
  <1>7. f \in 1 .. Len(chars) /\ \A i \in 1 .. Len(chars) : chars[i] = Equals => f <= i
    BY <1>6
  <1>8. \A i \in 1 .. f - 1 : i \in 1 .. Len(chars) /\ ~(f <= i)
    BY <1>2, <1>7
  <1>. QED
    BY <1>7, <1>8, Zenon

\* What is accepted was not shortened, and what is written fits.
LEMMA TextFits ==
    ASSUME text \in Seq(Byte)
    PROVE  DecodedFits
  <1>. DEFINE len == Len(text)
              r == Decode(text)
              open == IF Equals \in ToSet(text) THEN 4 * ((SelectInSeq(text, LAMBDA c : c = Equals) - 1) \div 4)
                      ELSE Len(text)
  <1>1. len \in Nat
    OBVIOUS
  <1>2. PICK A : Runs(text, A) /\ r = [A[len] EXCEPT !.ok = @ /\ A[len].pos = 0]
    BY <1>1, DecodeIs, Zenon
  <1>. DEFINE d == A[len]
  <1>3. State(len, d)
    <2>1. len \in 0 .. len
      BY <1>1, SMT
    <2>. QED
      BY <1>2, <2>1, RunStates, Zenon
  <1>4. Judged(d, r)
    BY <1>2, Zenon DEF Judged
  <1>5. PICK p \in 0 .. 3, e \in 0 .. 2, b \in Nat, o \in Seq(Byte) :
          /\ d = Bad(p, e, b, o) \/ (d = Dec(p, e, b, o) /\ \E j \in Nat : len = 4 * j + p)
          /\ 4 * Len(o) + 3 * p <= 3 * len
    BY <1>3, Zenon DEF State
  <1>. HIDE DEF r
  <1>6. r.out = o /\ (r.ok <=> d = Dec(p, e, b, o) /\ p = 0)
    <2>. HIDE DEF d
    <2>1. d = Dec(p, e, b, o) \/ d = Bad(p, e, b, o)
      BY <1>5, Zenon
    <2>. QED
      BY <1>4, <2>1, Judgement, SMT
  <1>7. Len(r.out) <= DecLen(len)
    <2>1. Len(o) \in Nat /\ 4 * Len(o) + 3 * p <= 3 * len
      BY <1>5, SMT
    <2>. HIDE DEF len, d
    <2>2. Len(o) <= (len * 3) \div 4
      BY <1>1, <2>1, SMT
    <2>. QED
      BY <1>6, <2>2, Zenon DEF DecLen
  <1>8. ASSUME r.ok PROVE IsPrefix(SubSeq(text, 1, open), Encode(r.out))
    <2>1. d = Dec(p, e, b, o) /\ p = 0
      BY <1>6, <1>8, Zenon
    <2>2. d.ok /\ d.out = o
      <3>1. Dec(p, e, b, o).ok /\ Dec(p, e, b, o).out = o
        BY DecFields, SMT
      <3>. QED
        BY <2>1, <3>1, Zenon
    <2>4. d # Bad(p, e, b, o)
      <3>1. ~Bad(p, e, b, o).ok
        BY DecFields, SMT
      <3>. QED
        BY <2>2, <3>1, Zenon
    <2>3. PICK j \in Nat : len = 4 * j
      <3>1. PICK j \in Nat : len = 4 * j + p
        BY <1>5, <2>4, Zenon
      <3>. QED
        BY <2>1, <3>1, SMT
    <2>5. PICK n \in Nat : open = 4 * n /\ 4 * n <= len /\ \A i \in 1 .. 4 * n : text[i] # Equals
      <3>1. CASE Equals \in ToSet(text)
        <4>. DEFINE f == SelectInSeq(text, LAMBDA c : c = Equals)
        <4>1. f \in 1 .. len /\ \A i \in 1 .. f - 1 : text[i] # Equals
          BY <3>1, OpenIs
        <4>2. open = 4 * ((f - 1) \div 4)
          BY <3>1, Zenon
        <4>. HIDE DEF f, open
        <4>. DEFINE n == (f - 1) \div 4
        <4>3. n \in Nat /\ 4 * n <= f - 1 /\ 4 * n <= len /\ \A i \in 1 .. 4 * n : i \in 1 .. f - 1
          BY <1>1, <4>1, SMT
        <4>. HIDE DEF n
        <4>4. open = 4 * n
          BY <4>2, Zenon DEF n
        <4>. QED
          BY <4>1, <4>3, <4>4, Zenon
      <3>2. CASE Equals \notin ToSet(text)
        <4>1. open = 4 * j /\ 4 * j <= len
          BY <2>3, <3>2, SMT
        <4>2. \A i \in 1 .. 4 * j : text[i] # Equals
          BY <2>3, <3>2, SMT DEF ToSet
        <4>. HIDE DEF open
        <4>. QED
          BY <4>1, <4>2, Zenon
      <3>. QED
        BY <3>1, <3>2, Zenon
    <2>. HIDE DEF open
    <2>6. Whole(text, A, n)
      BY <1>2, <2>2, <2>5, WholeGroups, SMT
    <2>7. PICK o1 \in Seq(Byte) : A[4 * n] = Dec(0, 0, 0, o1) /\ Copied(text, n, o1)
      BY <2>6, Zenon DEF Whole
    <2>8. Longer(o1, o)
      <3>1. 4 * n \in 0 .. len
        BY <1>1, <2>5, SMT
      <3>2. Longer(A[4 * n].out, A[len].out)
        BY <1>2, <3>1, RunGrows, Zenon
      <3>3. A[4 * n].out = o1
        BY <2>7, DecFields, SMT
      <3>. QED
        BY <2>2, <3>2, <3>3, Zenon
    <2>9. IsPrefix(SubSeq(text, 1, 4 * n), Encode(o))
      BY <2>5, <2>7, <2>8, PrefixAgain, Zenon
    <2>. QED
      BY <1>6, <2>5, <2>9, Zenon
  <1>. QED
    BY <1>7, <1>8, Zenon DEF DecodedFits, r

\* Everything given to the encoder and the decoder is bytes.
B64Inv == plain \in Seq(Byte) /\ text \in Seq(Byte)

LEMMA B64Start == B64Init => B64Inv
  BY DEF B64Init, B64Inv

LEMMA B64Step == B64Inv /\ [B64Next]_b64Vars => B64Inv'
  <1>. SUFFICES ASSUME B64Inv, [B64Next]_b64Vars PROVE B64Inv'
    OBVIOUS
  <1>0. SourceByte \subseteq Byte /\ TextChar \subseteq Byte
    BY Base64Assumption DEF Byte
  <1>1. CASE GrowPlain
    <2>1. PICK b \in SourceByte : plain' = Append(plain, b)
      BY <1>1, Zenon DEF GrowPlain
    <2>2. text' = text /\ b \in Byte
      BY <1>0, <1>1 DEF GrowPlain
    <2>. QED
      BY <2>1, <2>2 DEF B64Inv
  <1>2. CASE GrowText
    <2>1. PICK c \in TextChar : text' = Append(text, c)
      BY <1>2, Zenon DEF GrowText
    <2>2. plain' = plain /\ c \in Byte
      BY <1>0, <1>2 DEF GrowText
    <2>. QED
      BY <2>1, <2>2 DEF B64Inv
  <1>3. CASE UNCHANGED b64Vars
    BY <1>3 DEF b64Vars, B64Inv
  <1>. QED
    BY <1>1, <1>2, <1>3 DEF B64Next

\* What stl_base64_encode writes for any bytes, of any length, stl_base64_decode accepts and reads
\* back, and a buffer of stl_base64_enc_len holds it.
THEOREM EncodesReadBack == B64Spec => []EncodedReadsBack
  <1>1. B64Inv => EncodedReadsBack
    BY EncodedIsRead, Zenon DEF B64Inv, EncodedReadsBack
  <1>. QED
    BY <1>1, B64Start, B64Step, PTL DEF B64Spec

\* Of any text stl_base64_decode writes no more than stl_base64_dec_len bytes, and of one that it
\* accepts the whole groups before the first '=' are what the bytes encode to.
THEOREM DecodesFit == B64Spec => []DecodedFits
  <1>1. B64Inv => DecodedFits
    BY TextFits, Zenon DEF B64Inv
  <1>. QED
    BY <1>1, B64Start, B64Step, PTL DEF B64Spec
==============================================================================
