--------------------------- MODULE Digest_proofs ----------------------------
(***************************************************************************)
(* The digests: whatever the parts in which a message is fed, the blocks   *)
(* that are compressed are those of the padded message, for every size of  *)
(* a block and of the length field.                                        *)
(***************************************************************************)
EXTENDS Digest, SequenceTheorems, TLAPS

(***************************************************************************)
(* Sequences given as functions, whatever their elements.                  *)
(***************************************************************************)
HasLength(f, k) == f = [i \in 1 .. k |-> f[i]]

LEMMA LengthIs ==
    ASSUME NEW k \in Nat, NEW f, HasLength(f, k)
    PROVE  f \in Seq({f[i] : i \in 1 .. k}) /\ Len(f) = k
  <1>1. f \in [1 .. k -> {f[i] : i \in 1 .. k}]
    BY DEF HasLength
  <1>. QED
    BY <1>1

LEMMA ConcatIs ==
    ASSUME NEW k \in Nat, NEW m \in Nat, NEW f, NEW g, HasLength(f, k), HasLength(g, m)
    PROVE  /\ f \o g = [i \in 1 .. k + m |-> IF i <= k THEN f[i] ELSE g[i - k]]
           /\ HasLength(f \o g, k + m)
  <1>. DEFINE S == {f[i] : i \in 1 .. k} \cup {g[i] : i \in 1 .. m}
  <1>1. f \in [1 .. k -> S] /\ g \in [1 .. m -> S]
    BY DEF HasLength
  <1>. HIDE DEF S
  <1>2. f \in Seq(S) /\ g \in Seq(S) /\ Len(f) = k /\ Len(g) = m
    BY <1>1
  <1>3. f \o g = [i \in 1 .. k + m |-> IF i <= k THEN f[i] ELSE g[i - k]]
    BY <1>2 DEF HasLength
  <1>. QED
    BY <1>3 DEF HasLength

LEMMA SubSeqIs ==
    ASSUME NEW k \in Nat, NEW f, HasLength(f, k),
           NEW a \in Nat \ {0}, NEW b \in Nat, b <= k, a <= b + 1
    PROVE  SubSeq(f, a, b) = [i \in 1 .. b - a + 1 |-> f[a + i - 1]]
  <1>1. PICK S : f \in Seq(S) /\ Len(f) = k
    BY LengthIs
  <1>2. QED
    BY <1>1, SubSeqProperties

(***************************************************************************)
(* Quotients and remainders.                                               *)
(***************************************************************************)
LEMMA DivMod ==
    ASSUME NEW n \in Nat, NEW d \in Nat \ {0}
    PROVE  /\ n \div d \in Nat /\ n % d \in 0 .. d - 1
           /\ n = (n \div d) * d + (n % d)
  OBVIOUS

LEMMA TimesStep ==
    ASSUME NEW p \in Int, NEW q \in Int, NEW d \in Nat, p < q
    PROVE  p * d + d <= q * d
  <1>1. PICK e \in Nat : q = p + 1 + e
    <2>1. q - p - 1 \in Nat
      OBVIOUS
    <2>. QED
      BY <2>1
  <1>2. q * d = p * d + d + e * d
    BY <1>1
  <1>3. e * d \in Nat
    OBVIOUS
  <1>4. p * d \in Int /\ q * d \in Int
    OBVIOUS
  <1>. QED
    BY <1>2, <1>3, <1>4

LEMMA DivModUnique ==
    ASSUME NEW d \in Nat \ {0}, NEW q \in Nat, NEW r \in 0 .. d - 1
    PROVE  q * d + r \in Nat /\ (q * d + r) \div d = q /\ (q * d + r) % d = r
  <1>. DEFINE n == q * d + r
              q2 == n \div d
              r2 == n % d
  <1>1. n \in Nat /\ n = q * d + r
    OBVIOUS
  <1>. HIDE DEF n
  <1>2. q2 \in Nat /\ r2 \in 0 .. d - 1 /\ n = q2 * d + r2
    BY <1>1, DivMod
  <1>. HIDE DEF q2, r2
  <1>3. q * d \in Nat /\ q2 * d \in Nat
    BY <1>2
  <1>4. ~(q < q2)
    <2>. SUFFICES ASSUME q < q2 PROVE FALSE
      OBVIOUS
    <2>1. q * d + d <= q2 * d
      BY <1>2, TimesStep
    <2>. QED
      BY <2>1, <1>1, <1>2, <1>3
  <1>5. ~(q2 < q)
    <2>. SUFFICES ASSUME q2 < q PROVE FALSE
      OBVIOUS
    <2>1. q2 * d + d <= q * d
      BY <1>2, TimesStep
    <2>. QED
      BY <2>1, <1>1, <1>2, <1>3
  <1>6. q = q2
    BY <1>2, <1>4, <1>5
  <1>7. r = r2
    BY <1>1, <1>2, <1>3, <1>6
  <1>. QED
    BY <1>1, <1>6, <1>7 DEF q2, r2

(***************************************************************************)
(* Messages, blocks and contexts.                                          *)
(***************************************************************************)
\* The blocks of a message that are whole among its first k * BlockSize bytes.
WholeBlocks(k) == [b \in 1 .. k |-> [i \in 1 .. BlockSize |-> <<"message", (b - 1) * BlockSize + i>>]]

\* A context, by its fields.
Context(started, blocks, bytes, buffer) ==
    [chain |-> [started |-> started, blocks |-> blocks], bytes |-> bytes, buffer |-> buffer]

LEMMA SizesOk == BlockSize \in Nat \ {0} /\ LengthBytes \in Nat \ {0} /\ LengthBytes < BlockSize
  BY DigestAssumption

\* n bytes of a message behind its first off ones.
Part(off, n) == Message(off + 1, off + n)

LEMMA PartIs ==
    ASSUME NEW off \in Nat, NEW n \in Nat
    PROVE  /\ HasLength(Part(off, n), n)
           /\ Len(Part(off, n)) = n
           /\ \A i \in 1 .. n : Part(off, n)[i] = <<"message", off + i>>
           /\ Part(off, n) = [i \in 1 .. n |-> <<"message", off + i>>]
  <1>1. (off + n) - (off + 1) + 1 = n /\ \A i \in Nat : (off + 1) + i - 1 = off + i
    OBVIOUS
  <1>2. Part(off, n) = [i \in 1 .. n |-> <<"message", off + i>>]
    BY <1>1 DEF Part, Message
  <1>3. HasLength(Part(off, n), n)
    BY <1>2 DEF HasLength
  <1>. QED
    BY <1>2, <1>3, LengthIs

Rest(off, n, a) == SubSeq(Part(off, n), a + 1, n)

LEMMA RestIs ==
    ASSUME NEW off \in Nat, NEW n \in Nat, NEW a \in Nat, a <= n
    PROVE  Rest(off, n, a) = Part(off + a, n - a)
  <1>. DEFINE a1 == a + 1
              off2 == off + a
              n2 == n - a
  <1>1. a1 \in Nat \ {0} /\ a1 <= n + 1 /\ n - a1 + 1 = n2 /\ n2 \in Nat /\ off2 \in Nat
    OBVIOUS
  <1>2. ASSUME NEW i \in 1 .. n2
        PROVE  a1 + i - 1 \in 1 .. n /\ off + (a1 + i - 1) = off2 + i
    OBVIOUS
  <1>. HIDE DEF a1, off2, n2
  <1>3. SubSeq(Part(off, n), a1, n) = [i \in 1 .. n - a1 + 1 |-> Part(off, n)[a1 + i - 1]]
    <2>1. n <= n
      OBVIOUS
    <2>. QED
      BY <2>1, <1>1, PartIs, SubSeqIs
  <1>4. \A i \in 1 .. n2 : Part(off, n)[a1 + i - 1] = <<"message", off2 + i>>
    <2>. TAKE i \in 1 .. n2
    <2>2. Part(off, n)[a1 + i - 1] = <<"message", off + (a1 + i - 1)>>
      BY <1>2, PartIs
    <2>. QED
      BY <1>2, <2>2
  <1>5. SubSeq(Part(off, n), a1, n) = [i \in 1 .. n2 |-> <<"message", off2 + i>>]
    BY <1>1, <1>3, <1>4
  <1>6. Part(off2, n2) = [i \in 1 .. n2 |-> <<"message", off2 + i>>]
    BY <1>1, PartIs
  <1>. QED
    BY <1>5, <1>6 DEF Rest, a1, off2, n2

LEMMA FirstPart ==
    ASSUME NEW off \in Nat, NEW n \in Nat, NEW b \in Nat, b <= n
    PROVE  SubSeq(Part(off, n), 1, b) = Part(off, b)
  <1>1. SubSeq(Part(off, n), 1, b) = [i \in 1 .. b - 1 + 1 |-> Part(off, n)[1 + i - 1]]
    <2>1. 1 \in Nat \ {0} /\ 1 <= b + 1
      OBVIOUS
    <2>. QED
      BY <2>1, PartIs, SubSeqIs
  <1>2. b - 1 + 1 = b /\ \A i \in 1 .. b : 1 + i - 1 = i /\ i \in 1 .. n
    OBVIOUS
  <1>3. SubSeq(Part(off, n), 1, b) = [i \in 1 .. b |-> <<"message", off + i>>]
    <2>1. \A i \in 1 .. b : Part(off, n)[1 + i - 1] = <<"message", off + i>>
      <3>. TAKE i \in 1 .. b
      <3>1. Part(off, n)[i] = <<"message", off + i>> /\ 1 + i - 1 = i
        BY <1>2, PartIs
      <3>. QED
        BY <3>1
    <2>. QED
      BY <1>1, <1>2, <2>1
  <1>. QED
    BY <1>3, PartIs

\* The blocks of data whose length is k blocks and a rest.
LEMMA BlocksAre ==
    ASSUME NEW k \in Nat, NEW r \in 0 .. BlockSize - 1, NEW n, n = k * BlockSize + r,
           NEW data, HasLength(data, n)
    PROVE  Blocks(data) = [b \in 1 .. k |-> [i \in 1 .. BlockSize |-> data[(b - 1) * BlockSize + i]]]
  <1>1. n \in Nat /\ n \div BlockSize = k
    <2>1. k * BlockSize + r \in Nat /\ (k * BlockSize + r) \div BlockSize = k
      BY SizesOk, DivModUnique
    <2>. QED
      BY <2>1
  <1>2. k * BlockSize \in Nat /\ k * BlockSize <= n
    BY SizesOk
  <1>3. Len(data) = n
    BY <1>1, LengthIs
  <1>4. ASSUME NEW b \in 1 .. k
        PROVE  SubSeq(data, (b - 1) * BlockSize + 1, b * BlockSize)
                 = [i \in 1 .. BlockSize |-> data[(b - 1) * BlockSize + i]]
    <2>. DEFINE lo == (b - 1) * BlockSize
    <2>1. lo \in Nat /\ b * BlockSize = lo + BlockSize
      BY SizesOk
    <2>2. b * BlockSize <= k * BlockSize
      <3>1. CASE b = k
        BY <3>1, SizesOk
      <3>2. CASE b < k
        <4>1. b * BlockSize + BlockSize <= k * BlockSize
          BY <3>2, SizesOk, TimesStep
        <4>. QED
          BY <4>1, <2>1, <1>2, SizesOk
      <3>. QED
        BY <3>1, <3>2
    <2>. HIDE DEF lo
    <2>3. lo + BlockSize <= n
      BY <2>1, <2>2, <1>1, <1>2, SizesOk
    <2>. DEFINE from == lo + 1
                to == lo + BlockSize
    <2>4. from \in Nat \ {0} /\ to \in Nat /\ from <= to + 1 /\ to <= n
      BY <2>1, <2>3, SizesOk
    <2>5. to - from + 1 = BlockSize /\ \A i \in Nat : from + i - 1 = lo + i
      BY <2>1, SizesOk
    <2>6. from = lo + 1 /\ to = b * BlockSize
      BY <2>1
    <2>. HIDE DEF from, to
    <2>7. SubSeq(data, from, to) = [i \in 1 .. to - from + 1 |-> data[from + i - 1]]
      BY <2>4, <1>1, SubSeqIs
    <2>8. SubSeq(data, from, to) = [i \in 1 .. BlockSize |-> data[lo + i]]
      BY <2>7, <2>5
    <2>. QED
      BY <2>8, <2>6 DEF lo
  <1>5. QED
    BY <1>1, <1>3, <1>4 DEF Blocks

\* The buffer of a context is one block.
LEMMA OneBlock ==
    ASSUME NEW c
    PROVE  Blocks(BufferBlock(c)) = [b \in 1 .. 1 |-> BufferBlock(c)]
  <1>. DEFINE d == BufferBlock(c)
  <1>1. HasLength(d, BlockSize) /\ d = [i \in 1 .. BlockSize |-> d[i]]
    BY DEF BufferBlock, HasLength
  <1>. HIDE DEF d
  <1>2. Len(d) = BlockSize /\ BlockSize \div BlockSize = 1
    BY <1>1, LengthIs, SizesOk
  <1>3. SubSeq(d, 1, BlockSize) = d
    <2>1. SubSeq(d, 1, BlockSize) = [i \in 1 .. BlockSize - 1 + 1 |-> d[1 + i - 1]]
      <3>1. 1 \in Nat \ {0} /\ 1 <= BlockSize + 1 /\ BlockSize <= BlockSize
        BY SizesOk
      <3>. QED
        BY <3>1, <1>1, SubSeqIs, SizesOk
    <2>2. BlockSize - 1 + 1 = BlockSize /\ \A i \in 1 .. BlockSize : 1 + i - 1 = i
      BY SizesOk
    <2>. QED
      BY <2>1, <2>2, <1>1
  <1>4. \A b \in 1 .. 1 : (b - 1) * BlockSize + 1 = 1 /\ b * BlockSize = BlockSize
    BY SizesOk
  <1>. QED
    BY <1>2, <1>3, <1>4 DEF d, Blocks

LEMMA BodyIs ==
    ASSUME NEW st, NEW bl, NEW by, NEW bu, NEW data
    PROVE  Body(Context(st, bl, by, bu), data) = Context(st, bl \o Blocks(data), by, bu)
  BY DEF Context, Body, Sha1Body, Md5Body

\* What memcpy leaves in the buffer.
Put(bu, at, n, data) ==
    [i \in Index |-> IF at <= i /\ i < at + n THEN data[i - at + 1] ELSE bu[i]]

LEMMA StoreIs ==
    ASSUME NEW st, NEW bl, NEW by, NEW bu, NEW at \in Nat, NEW n \in Nat, NEW data,
           HasLength(data, n)
    PROVE  Store(Context(st, bl, by, bu), at, data) = Context(st, bl, by, Put(bu, at, n, data))
  <1>1. Len(data) = n
    BY LengthIs
  <1>2. \A i \in Index : i \in at .. at + Len(data) - 1 <=> at <= i /\ i < at + n
    BY <1>1, SizesOk DEF Index
  <1>3. Store(Context(st, bl, by, bu), at, data)
         = Context(st, bl, by, [i \in Index |->
              IF i \in at .. at + Len(data) - 1 THEN data[i - at + 1] ELSE bu[i]])
    BY DEF Store, Context
  <1>4. [i \in Index |-> IF i \in at .. at + Len(data) - 1 THEN data[i - at + 1] ELSE bu[i]]
          = Put(bu, at, n, data)
    BY <1>2 DEF Put
  <1>. QED
    BY <1>3, <1>4

(***************************************************************************)
(* Feeding a part of the message.                                          *)
(***************************************************************************)
\* The blocks of a message continue where those before ended.
LEMMA MoreBlocks ==
    ASSUME NEW k \in Nat, NEW m \in Nat, NEW bl, HasLength(bl, m),
           \A b \in 1 .. m : bl[b] = [i \in 1 .. BlockSize |-> <<"message", (k + b - 1) * BlockSize + i>>]
    PROVE  WholeBlocks(k) \o bl = WholeBlocks(k + m)
  <1>1. HasLength(WholeBlocks(k), k)
    BY DEF HasLength, WholeBlocks
  <1>2. WholeBlocks(k) \o bl = [b \in 1 .. k + m |-> IF b <= k THEN WholeBlocks(k)[b] ELSE bl[b - k]]
    BY <1>1, ConcatIs
  <1>3. ASSUME NEW b \in 1 .. k + m
        PROVE  (IF b <= k THEN WholeBlocks(k)[b] ELSE bl[b - k])
                 = [i \in 1 .. BlockSize |-> <<"message", (b - 1) * BlockSize + i>>]
    <2>1. CASE b <= k
      BY <2>1 DEF WholeBlocks
    <2>2. CASE ~(b <= k)
      <3>1. b - k \in 1 .. m /\ k + (b - k) - 1 = b - 1
        BY <2>2
      <3>. QED
        BY <3>1, <2>2
    <2>. QED
      BY <2>1, <2>2
  <1>. QED
    BY <1>2, <1>3 DEF WholeBlocks

\* The context holds the first n bytes: the whole blocks are compressed, the rest is in the
\* buffer.
Absorbed(c, st, n) ==
    \E bu :
        /\ c = Context(st, WholeBlocks(n \div BlockSize), n, bu)
        /\ bu = [i \in Index |-> bu[i]]
        /\ \A i \in 0 .. (n % BlockSize) - 1 :
             bu[i] = <<"message", (n \div BlockSize) * BlockSize + i + 1>>

\* Data that begins with a block.
LEMMA AbsorbIs ==
    ASSUME NEW st, NEW by, NEW bu, NEW k \in Nat, NEW n \in Nat, by = k * BlockSize + n
    PROVE  Absorbed(Absorb(Context(st, WholeBlocks(k), by, bu), Part(k * BlockSize, n)), st, by)
  <1>. DEFINE off == k * BlockSize
              m == n \div BlockSize
              r == n % BlockSize
              w == m * BlockSize
              data == Part(off, n)
              head == Part(off, w)
              tail == Part(off + w, r)
              bu2 == Put(bu, 0, r, tail)
  <1>1. m \in Nat /\ r \in 0 .. BlockSize - 1 /\ n = w + r
    BY DivMod, SizesOk, Zenon
  <1>2. off \in Nat /\ (m \in Nat => w \in Nat)
    BY SizesOk
  <1>3. w = m * BlockSize /\ off = k * BlockSize
    OBVIOUS
  <1>. HIDE DEF m, r
  <1>4. (k + m) * BlockSize = off + w /\ k + m \in Nat
    BY <1>1, SizesOk
  <1>. HIDE DEF w, off
  <1>5. w \in Nat /\ off + w \in Nat /\ by = (k + m) * BlockSize + r /\ r = n - w /\ w <= n /\ r \in Nat
    BY <1>1, <1>2, <1>4, <1>3
  <1>6. by \div BlockSize = k + m /\ by % BlockSize = r
    <2>. DEFINE q == k + m
    <2>1. q \in Nat /\ by = q * BlockSize + r
      BY <1>4, <1>5
    <2>. HIDE DEF q
    <2>2. (q * BlockSize + r) \div BlockSize = q /\ (q * BlockSize + r) % BlockSize = r
      BY <2>1, <1>1, SizesOk, DivModUnique
    <2>. QED
      BY <2>1, <2>2 DEF q
  <1>7. Len(data) = n
    BY <1>2, PartIs
  <1>8. SubSeq(data, 1, w) = head
    BY <1>2, <1>5, FirstPart
  <1>9. SubSeq(data, w + 1, n) = tail
    <2>1. w \in Nat /\ w <= n
      BY <1>5
    <2>2. Rest(off, n, w) = Part(off + w, n - w)
      BY <2>1, <1>2, RestIs
    <2>. QED
      BY <2>2, <1>5 DEF Rest
  <1>10. HasLength(head, w) /\ \A i \in 1 .. w : head[i] = <<"message", off + i>>
    BY <1>2, <1>5, PartIs
  <1>11. HasLength(tail, r) /\ \A i \in 1 .. r : tail[i] = <<"message", off + w + i>>
    BY <1>5, PartIs
  <1>. HIDE DEF head, tail
  <1>12. WholeBlocks(k) \o Blocks(head) = WholeBlocks(k + m)
    <2>1. PICK z : z = 0
      OBVIOUS
    <2>2. Blocks(head) = [b \in 1 .. m |-> [i \in 1 .. BlockSize |-> head[(b - 1) * BlockSize + i]]]
      <3>1. z \in 0 .. BlockSize - 1 /\ w = m * BlockSize + z
        BY <1>5, <1>1, <1>3, <2>1, SizesOk
      <3>. QED
        BY <3>1, <1>1, <1>10, BlocksAre
    <2>3. ASSUME NEW b \in 1 .. m, NEW i \in 1 .. BlockSize
          PROVE  head[(b - 1) * BlockSize + i] = <<"message", (k + b - 1) * BlockSize + i>>
      <3>. DEFINE lo == (b - 1) * BlockSize
      <3>1. lo \in Nat
        BY SizesOk
      <3>2. lo + BlockSize <= w
        BY <1>1, <1>3, SizesOk, TimesStep
      <3>3. (k + b - 1) * BlockSize = off + lo
        BY SizesOk, <1>1, <1>3
      <3>. HIDE DEF lo
      <3>4. lo + i \in 1 .. w /\ off + (lo + i) = off + lo + i
        BY <3>1, <3>2, <1>2, <1>5, SizesOk
      <3>5. head[lo + i] = <<"message", off + lo + i>>
        BY <3>4, <1>10
      <3>. QED
        BY <3>3, <3>5 DEF lo
    <2>4. HasLength(Blocks(head), m)
      BY <2>2 DEF HasLength
    <2>5. \A b \in 1 .. m : Blocks(head)[b] = [i \in 1 .. BlockSize |-> <<"message", (k + b - 1) * BlockSize + i>>]
      BY <2>2, <2>3
    <2>. QED
      BY <2>4, <2>5, <1>1, MoreBlocks
  <1>13. Absorb(Context(st, WholeBlocks(k), by, bu), data) = Context(st, WholeBlocks(k + m), by, bu2)
    <2>1. Body(Context(st, WholeBlocks(k), by, bu), head) = Context(st, WholeBlocks(k) \o Blocks(head), by, bu)
      BY BodyIs
    <2>2. Store(Context(st, WholeBlocks(k + m), by, bu), 0, tail) = Context(st, WholeBlocks(k + m), by, bu2)
      <3>1. 0 \in Nat
        OBVIOUS
      <3>. QED
        BY <3>1, <1>5, <1>11, StoreIs
    <2>3. (Len(data) \div BlockSize) * BlockSize = w
      BY <1>7, <1>3 DEF m
    <2>. HIDE DEF data, bu2
    <2>. QED
      BY <2>1, <2>2, <2>3, <1>7, <1>8, <1>9, <1>12 DEF Absorb
  <1>14. bu2 = [i \in Index |-> bu2[i]]
         /\ \A i \in 0 .. r - 1 : bu2[i] = <<"message", (k + m) * BlockSize + i + 1>>
    <2>1. bu2 = [i \in Index |-> bu2[i]]
      BY DEF Put
    <2>2. ASSUME NEW i \in 0 .. r - 1
          PROVE  bu2[i] = <<"message", off + w + i + 1>>
      <3>1. i \in Index /\ 0 <= i /\ i < 0 + r /\ i - 0 + 1 \in 1 .. r
        BY <1>1, SizesOk DEF Index
      <3>2. off + w + (i - 0 + 1) = off + w + i + 1
        BY <1>5
      <3>3. bu2[i] = tail[i - 0 + 1]
        BY <3>1 DEF Put
      <3>4. tail[i - 0 + 1] = <<"message", off + w + (i - 0 + 1)>>
        BY <3>1, <1>11
      <3>. QED
        BY <3>2, <3>3, <3>4
    <2>. QED
      BY <2>1, <2>2, <1>4
  <1>. HIDE DEF bu2, data
  <1>15. Absorbed(Absorb(Context(st, WholeBlocks(k), by, bu), data), st, by)
    BY <1>6, <1>13, <1>14 DEF Absorbed
  <1>. QED
    BY <1>15 DEF data, off

\* The block that is filled first.
LEMMA FeedIs ==
    ASSUME NEW c, NEW st, NEW m \in Nat, NEW n \in Nat, Absorbed(c, st, m)
    PROVE  Absorbed(Feed(c, Part(m, n)), st, m + n)
  <1>. DEFINE q == m \div BlockSize
              r == m % BlockSize
              room == BlockSize - r
              off == q * BlockSize
              data == Part(m, n)
              by == m + n
  <1>1. q \in Nat /\ r \in 0 .. BlockSize - 1 /\ m = off + r
    BY DivMod, SizesOk, Zenon
  <1>2. PICK bu : /\ c = Context(st, WholeBlocks(q), m, bu)
                  /\ bu = [i \in Index |-> bu[i]]
                  /\ \A i \in 0 .. r - 1 : bu[i] = <<"message", off + i + 1>>
    BY DEF Absorbed
  <1>3. off = q * BlockSize
    OBVIOUS
  <1>4. c.bytes % BlockSize = r
    BY <1>2 DEF Context
  <1>. HIDE DEF q, r
  <1>5. off \in Nat
    BY <1>1, SizesOk
  <1>. HIDE DEF off
  <1>6. HasLength(data, n) /\ Len(data) = n /\ \A i \in 1 .. n : data[i] = <<"message", m + i>>
    BY PartIs
  <1>. DEFINE c1 == Context(st, WholeBlocks(q), by, bu)
              full == Store(c1, r, SubSeq(data, 1, room))
  <1>7. [c EXCEPT !.bytes = @ + Len(data)] = c1
    BY <1>2, <1>6 DEF Context
  <1>8. Feed(c, data) = IF r = 0 THEN Absorb(c1, data)
                        ELSE IF n < room THEN Store(c1, r, data)
                        ELSE Absorb(Body(full, BufferBlock(full)), SubSeq(data, room + 1, n))
    <2>. HIDE DEF data, c1
    <2>. QED
      BY <1>4, <1>6, <1>7 DEF Feed
  <1>9. CASE r = 0
    <2>1. m = off /\ by = q * BlockSize + n
      BY <1>1, <1>3, <1>5, <1>9
    <2>2. Absorbed(Absorb(c1, Part(q * BlockSize, n)), st, by)
      <3>. HIDE DEF by
      <3>. QED
        BY <2>1, <1>1, AbsorbIs
    <2>. QED
      BY <1>8, <1>9, <2>1, <2>2, <1>3
  <1>10. CASE r # 0 /\ n < room
    <2>. DEFINE bu2 == Put(bu, r, n, data)
    <2>1. Store(c1, r, data) = Context(st, WholeBlocks(q), by, bu2)
      <3>1. r \in Nat
        BY <1>1
      <3>. QED
        BY <3>1, <1>6, StoreIs
    <2>2. by = q * BlockSize + (r + n) /\ r + n \in 0 .. BlockSize - 1
      BY <1>1, <1>3, <1>5, <1>10, SizesOk
    <2>3. by \div BlockSize = q /\ by % BlockSize = r + n
      <3>. DEFINE x == r + n
      <3>1. x \in 0 .. BlockSize - 1 /\ by = q * BlockSize + x
        BY <2>2
      <3>. HIDE DEF x, by
      <3>2. (q * BlockSize + x) \div BlockSize = q /\ (q * BlockSize + x) % BlockSize = x
        BY <3>1, <1>1, SizesOk, DivModUnique
      <3>. QED
        BY <3>1, <3>2 DEF x
    <2>4. bu2 = [i \in Index |-> bu2[i]]
      BY DEF Put
    <2>5. ASSUME NEW i \in 0 .. (r + n) - 1
          PROVE  bu2[i] = <<"message", off + i + 1>>
      <3>1. i \in Index
        BY <2>2, SizesOk DEF Index
      <3>. HIDE DEF data
      <3>2. CASE r <= i
        <4>1. i < r + n /\ i - r + 1 \in 1 .. n /\ m + (i - r + 1) = off + i + 1
          BY <3>2, <1>1, <1>5
        <4>2. bu2[i] = data[i - r + 1]
          BY <3>1, <3>2, <4>1 DEF Put
        <4>3. data[i - r + 1] = <<"message", m + (i - r + 1)>>
          BY <4>1, <1>6
        <4>. QED
          BY <4>1, <4>2, <4>3
      <3>3. CASE ~(r <= i)
        <4>1. bu2[i] = bu[i]
          BY <3>1, <3>3 DEF Put
        <4>2. i \in 0 .. r - 1
          BY <3>3, <1>1
        <4>. QED
          BY <4>1, <4>2, <1>2
      <3>. QED
        BY <3>2, <3>3
    <2>. HIDE DEF bu2, by, data
    <2>6. Absorbed(Store(c1, r, data), st, by)
      BY <2>1, <2>3, <2>4, <2>5, <1>3 DEF Absorbed
    <2>. QED
      BY <2>6, <1>8, <1>10 DEF by, data
  <1>11. CASE r # 0 /\ ~(n < room)
    <2>. DEFINE front == Part(m, room)
                bu2 == Put(bu, r, room, front)
                k == q + 1
                n2 == n - room
    <2>1. room \in Nat /\ room <= n /\ r \in Nat /\ n <= n
      BY <1>1, <1>11, SizesOk
    <2>2. SubSeq(data, 1, room) = front
      BY <2>1, FirstPart
    <2>3. SubSeq(data, room + 1, n) = Part(m + room, n2)
      <3>1. Rest(m, n, room) = Part(m + room, n - room)
        <4>. HIDE DEF room
        <4>. QED
          BY <2>1, RestIs
      <3>. QED
        BY <3>1 DEF Rest
    <2>4. m + room = k * BlockSize /\ by = k * BlockSize + n2 /\ n2 \in Nat /\ k \in Nat
      BY <1>1, <1>3, <1>5, <2>1, SizesOk
    <2>5. HasLength(front, room) /\ \A i \in 1 .. room : front[i] = <<"message", m + i>>
      BY <2>1, PartIs
    <2>6. full = Context(st, WholeBlocks(q), by, bu2)
      <3>1. full = Store(c1, r, front)
        BY <2>2
      <3>. HIDE DEF room, front, by, full
      <3>2. Store(Context(st, WholeBlocks(q), by, bu), r, front) = Context(st, WholeBlocks(q), by, bu2)
        BY <2>1, <2>5, StoreIs
      <3>. QED
        BY <3>1, <3>2
    <2>7. ASSUME NEW i \in 1 .. BlockSize
          PROVE  bu2[i - 1] = <<"message", off + i>>
      <3>1. i - 1 \in Index
        BY <1>1, SizesOk DEF Index
      <3>. HIDE DEF front
      <3>2. CASE r <= i - 1
        <4>1. i - 1 < r + room /\ i - 1 - r + 1 \in 1 .. room /\ m + (i - 1 - r + 1) = off + i
          BY <3>2, <1>1, <1>5, SizesOk
        <4>2. bu2[i - 1] = front[i - 1 - r + 1]
          BY <3>1, <3>2, <4>1 DEF Put
        <4>3. front[i - 1 - r + 1] = <<"message", m + (i - 1 - r + 1)>>
          BY <4>1, <2>5
        <4>. QED
          BY <4>1, <4>2, <4>3
      <3>3. CASE ~(r <= i - 1)
        <4>1. bu2[i - 1] = bu[i - 1]
          BY <3>1, <3>3 DEF Put
        <4>2. i - 1 \in 0 .. r - 1 /\ off + (i - 1) + 1 = off + i
          BY <3>3, <1>1, <1>5, SizesOk
        <4>3. bu[i - 1] = <<"message", off + (i - 1) + 1>>
          BY <4>2, <1>2
        <4>. QED
          BY <4>1, <4>2, <4>3
      <3>. QED
        BY <3>2, <3>3
    <2>8. BufferBlock(full) = [i \in 1 .. BlockSize |-> <<"message", off + i>>]
      <3>1. full.buffer = bu2
        BY <2>6 DEF Context
      <3>. HIDE DEF full, bu2
      <3>. QED
        BY <3>1, <2>7 DEF BufferBlock
    <2>9. WholeBlocks(q) \o Blocks(BufferBlock(full)) = WholeBlocks(k)
      <3>1. Blocks(BufferBlock(full)) = [b \in 1 .. 1 |-> BufferBlock(full)]
        BY OneBlock
      <3>. DEFINE bl == Blocks(BufferBlock(full))
      <3>2. HasLength(bl, 1)
        BY <3>1 DEF HasLength
      <3>3. \A b \in 1 .. 1 : bl[b] = [i \in 1 .. BlockSize |-> <<"message", (q + b - 1) * BlockSize + i>>]
        <4>1. \A b \in 1 .. 1 : (q + b - 1) * BlockSize = off
          BY <1>1, <1>3, SizesOk
        <4>. HIDE DEF full
        <4>. QED
          BY <3>1, <2>8, <4>1
      <3>4. 1 \in Nat
        OBVIOUS
      <3>. HIDE DEF bl
      <3>5. WholeBlocks(q) \o bl = WholeBlocks(q + 1)
        BY <3>2, <3>3, <3>4, <1>1, MoreBlocks
      <3>. QED
        BY <3>5 DEF bl
    <2>10. Body(full, BufferBlock(full)) = Context(st, WholeBlocks(k), by, bu2)
      <3>. DEFINE d == BufferBlock(full)
      <3>. HIDE DEF d
      <3>1. Body(Context(st, WholeBlocks(q), by, bu2), d) = Context(st, WholeBlocks(q) \o Blocks(d), by, bu2)
        BY BodyIs
      <3>. HIDE DEF full, bu2, by
      <3>. QED
        BY <3>1, <2>6, <2>9 DEF d
    <2>11. Absorbed(Absorb(Context(st, WholeBlocks(k), by, bu2), Part(k * BlockSize, n2)), st, by)
      <3>. HIDE DEF k, n2, by, bu2
      <3>. QED
        BY <2>4, AbsorbIs
    <2>12. Feed(c, data) = Absorb(Body(full, BufferBlock(full)), SubSeq(data, room + 1, n))
      BY <1>8, <1>11
    <2>. HIDE DEF k, n2, by, bu2, full, data
    <2>. QED
      BY <2>3, <2>4, <2>10, <2>11, <2>12 DEF by, data
  <1>. QED
    BY <1>9, <1>10, <1>11

(***************************************************************************)
(* The padding.                                                            *)
(***************************************************************************)
LEMMA PaddingParts ==
    ASSUME NEW n \in Nat
    PROVE  /\ HasLength(Zeros(n), n) /\ \A i \in 1 .. n : Zeros(n)[i] = Value(0)
           /\ HasLength(Marker, 1) /\ Marker[1] = <<"marker", 0>>
           /\ HasLength(LengthField(n), LengthBytes)
  <1>1. HasLength(Zeros(n), n) /\ \A i \in 1 .. n : Zeros(n)[i] = Value(0)
    BY DEF HasLength, Zeros
  <1>2. HasLength(Marker, 1) /\ Marker[1] = <<"marker", 0>>
    BY DEF HasLength, Marker
  <1>3. ASSUME NEW bits
        PROVE  HasLength(BigEndian(bits), LengthBytes) /\ HasLength(LittleEndian(bits), LengthBytes)
    BY DEF HasLength, BigEndian, LittleEndian
  <1>4. HasLength(LengthField(n), LengthBytes)
    BY <1>3 DEF LengthField
  <1>. QED
    BY <1>1, <1>2, <1>4

\* Does the length fit behind the marker?
Fits(n) == (n % BlockSize) + 1 + LengthBytes <= BlockSize

\* The blocks of the padded message.
Count(n) == IF Fits(n) THEN (n \div BlockSize) + 1 ELSE (n \div BlockSize) + 2

\* The zeros that make whole blocks.
LEMMA FillIs ==
    ASSUME NEW n \in Nat
    PROVE  LET fill == CHOOSE k \in 0 .. BlockSize - 1 : (n + 1 + k + LengthBytes) % BlockSize = 0
           IN  fill \in Nat /\ n + 1 + fill + LengthBytes = Count(n) * BlockSize
  <1>. DEFINE q == n \div BlockSize
              r == n % BlockSize
              fill == CHOOSE k \in 0 .. BlockSize - 1 : (n + 1 + k + LengthBytes) % BlockSize = 0
              fit == r + 1 + LengthBytes <= BlockSize
              off == q * BlockSize
  <1>1. q \in Nat /\ r \in 0 .. BlockSize - 1 /\ n = off + r
    BY DivMod, SizesOk, Zenon
  <1>2. Count(n) = IF fit THEN q + 1 ELSE q + 2
    BY DEF Count, Fits
  <1>3. off = q * BlockSize
    OBVIOUS
  <1>. HIDE DEF q, r
  <1>4. off \in Nat
    BY <1>1, SizesOk
  <1>5. (q + 1) * BlockSize = off + BlockSize /\ (q + 2) * BlockSize = off + BlockSize + BlockSize
    BY <1>1, <1>3, SizesOk
  <1>. HIDE DEF off
  <1>6. \E k \in 0 .. BlockSize - 1 : (n + 1 + k + LengthBytes) % BlockSize = 0
    <2>1. PICK k \in 0 .. BlockSize - 1, d \in Nat : n + 1 + k + LengthBytes = d * BlockSize + 0
      <3>1. CASE fit
        <4>. DEFINE k == BlockSize - LengthBytes - r - 1
        <4>1. k \in 0 .. BlockSize - 1 /\ n + 1 + k + LengthBytes = off + BlockSize
          BY <3>1, <1>1, <1>4, SizesOk
        <4>2. q + 1 \in Nat /\ n + 1 + k + LengthBytes = (q + 1) * BlockSize + 0
          BY <4>1, <1>1, <1>4, <1>5, SizesOk
        <4>. QED
          BY <4>1, <4>2
      <3>2. CASE ~fit
        <4>. DEFINE k == BlockSize + BlockSize - LengthBytes - r - 1
        <4>1. k \in 0 .. BlockSize - 1 /\ n + 1 + k + LengthBytes = off + BlockSize + BlockSize
          BY <3>2, <1>1, <1>4, SizesOk
        <4>2. q + 2 \in Nat /\ n + 1 + k + LengthBytes = (q + 2) * BlockSize + 0
          BY <4>1, <1>1, <1>4, <1>5, SizesOk
        <4>. QED
          BY <4>1, <4>2
      <3>. QED
        BY <3>1, <3>2
    <2>2. (d * BlockSize + 0) % BlockSize = 0
      <3>1. 0 \in 0 .. BlockSize - 1
        BY SizesOk
      <3>. QED
        BY <2>1, <3>1, SizesOk, DivModUnique
    <2>3. (n + 1 + k + LengthBytes) % BlockSize = 0
      BY <2>1, <2>2
    <2>. QED
      BY <2>1, <2>3
  <1>7. fill \in 0 .. BlockSize - 1 /\ (n + 1 + fill + LengthBytes) % BlockSize = 0
    BY <1>6
  <1>. HIDE DEF fill
  <1>. DEFINE t == n + 1 + fill + LengthBytes
              Q == t \div BlockSize
              e == Q - q
  <1>8. t \in Nat
    BY <1>7, SizesOk
  <1>9. Q \in Nat /\ t = Q * BlockSize
    <2>1. t % BlockSize = 0
      BY <1>7
    <2>. HIDE DEF t
    <2>2. t \div BlockSize \in Nat /\ t = (t \div BlockSize) * BlockSize + (t % BlockSize)
      BY <1>8, DivMod, SizesOk, Zenon
    <2>3. Q * BlockSize \in Nat
      BY <2>2, SizesOk
    <2>. QED
      BY <2>1, <2>2, <2>3
  <1>10. t = off + (r + 1 + fill + LengthBytes)
    BY <1>1, <1>4, <1>7, SizesOk
  <1>. HIDE DEF Q, t
  <1>11. e \in Int /\ Q * BlockSize = off + e * BlockSize /\ e * BlockSize \in Int
    BY <1>1, <1>3, <1>9, SizesOk
  <1>. HIDE DEF e
  <1>12. e * BlockSize = r + 1 + fill + LengthBytes
    BY <1>1, <1>4, <1>7, <1>9, <1>10, <1>11, SizesOk
  <1>13. ~(e <= 0)
    <2>. SUFFICES ASSUME e <= 0 PROVE FALSE
      OBVIOUS
    <2>1. 0 < e * BlockSize
      BY <1>1, <1>7, <1>12, SizesOk
    <2>2. e < 1 /\ 1 * BlockSize = BlockSize
      BY <1>11, SizesOk
    <2>3. e * BlockSize + BlockSize <= 1 * BlockSize
      BY <2>2, <1>11, TimesStep, SizesOk
    <2>. QED
      BY <2>1, <2>2, <2>3, <1>11, SizesOk
  <1>14. ~(2 < e)
    <2>. SUFFICES ASSUME 2 < e PROVE FALSE
      OBVIOUS
    <2>1. e * BlockSize < BlockSize + BlockSize + BlockSize
      BY <1>1, <1>7, <1>12, SizesOk
    <2>2. 2 * BlockSize + BlockSize <= e * BlockSize
      BY <1>11, TimesStep, SizesOk
    <2>. QED
      BY <2>1, <2>2, <1>11, SizesOk
  <1>15. e = 1 \/ e = 2
    BY <1>11, <1>13, <1>14
  <1>16. e * BlockSize = IF fit THEN BlockSize ELSE BlockSize + BlockSize
    <2>1. e * BlockSize = BlockSize \/ e * BlockSize = BlockSize + BlockSize
      BY <1>15, SizesOk
    <2>. QED
      BY <2>1, <1>1, <1>7, <1>12, SizesOk
  <1>17. t = Count(n) * BlockSize
    BY <1>2, <1>4, <1>5, <1>9, <1>11, <1>16, SizesOk
  <1>. QED
    BY <1>7, <1>17, SizesOk DEF fill, t

\* The padded message, position by position.
PadByte(n, i) ==
    IF i <= n THEN <<"message", i>>
    ELSE IF i = n + 1 THEN <<"marker", 0>>
    ELSE IF i <= Count(n) * BlockSize - LengthBytes THEN Value(0)
    ELSE LengthField(n)[i - (Count(n) * BlockSize - LengthBytes)]

LEMMA PaddedIs ==
    ASSUME NEW n \in Nat
    PROVE  /\ Count(n) \in Nat /\ Count(n) * BlockSize \in Nat
           /\ Padded(n) = [i \in 1 .. Count(n) * BlockSize |-> PadByte(n, i)]
  <1>. DEFINE fill == CHOOSE k \in 0 .. BlockSize - 1 : (n + 1 + k + LengthBytes) % BlockSize = 0
              t == Count(n) * BlockSize
              m == Message(1, n)
              z == Zeros(fill)
              l == LengthField(n)
  <1>1. fill \in Nat /\ n + 1 + fill + LengthBytes = t
    BY FillIs
  <1>2. Padded(n) = ((m \o Marker) \o z) \o l
    BY DEF Padded
  <1>. HIDE DEF fill
  <1>3. Count(n) \in Nat
    <2>1. n \div BlockSize \in Nat
      BY DivMod, SizesOk, Zenon
    <2>. QED
      BY <2>1 DEF Count
  <1>4. t \in Nat
    BY <1>3, SizesOk
  <1>5. HasLength(m, n) /\ \A i \in 1 .. n : m[i] = <<"message", i>>
    BY DEF Message, HasLength
  <1>6. /\ HasLength(Marker, 1) /\ Marker[1] = <<"marker", 0>>
        /\ HasLength(z, fill) /\ \A i \in 1 .. fill : z[i] = Value(0)
        /\ HasLength(l, LengthBytes)
    BY <1>1, PaddingParts
  <1>. HIDE DEF t, m, z, l
  <1>. DEFINE s1 == m \o Marker
              s2 == s1 \o z
              s3 == s2 \o l
              n1 == n + 1
              n2 == n1 + fill
  <1>7. n1 \in Nat /\ n2 \in Nat /\ n2 + LengthBytes = t /\ n2 = t - LengthBytes
    BY <1>1, <1>4, SizesOk
  <1>8. HasLength(s1, n1) /\ s1 = [i \in 1 .. n1 |-> IF i <= n THEN m[i] ELSE Marker[i - n]]
    <2>1. 1 \in Nat
      OBVIOUS
    <2>. QED
      BY <2>1, <1>5, <1>6, ConcatIs
  <1>. HIDE DEF s1, n1
  <1>9. HasLength(s2, n2) /\ s2 = [i \in 1 .. n2 |-> IF i <= n1 THEN s1[i] ELSE z[i - n1]]
    <2>1. fill \in Nat /\ n1 \in Nat
      BY <1>1, <1>7
    <2>2. HasLength(s1, n1) /\ HasLength(z, fill)
      BY <1>6, <1>8
    <2>. QED
      BY <2>1, <2>2, ConcatIs
  <1>. HIDE DEF s2, n2
  <1>10. s3 = [i \in 1 .. t |-> IF i <= n2 THEN s2[i] ELSE l[i - n2]]
    <2>1. s3 = [i \in 1 .. n2 + LengthBytes |-> IF i <= n2 THEN s2[i] ELSE l[i - n2]]
      <3>1. n2 \in Nat /\ LengthBytes \in Nat
        BY <1>7, SizesOk
      <3>2. HasLength(s2, n2) /\ HasLength(l, LengthBytes)
        BY <1>6, <1>9
      <3>. QED
        BY <3>1, <3>2, ConcatIs
    <2>. QED
      BY <2>1, <1>7
  <1>. HIDE DEF s3
  <1>11. ASSUME NEW i \in 1 .. t
         PROVE  (IF i <= n2 THEN s2[i] ELSE l[i - n2]) = PadByte(n, i)
    <2>0. PadByte(n, i) = IF i <= n THEN <<"message", i>>
                          ELSE IF i = n1 THEN <<"marker", 0>>
                          ELSE IF i <= n2 THEN Value(0) ELSE l[i - n2]
      BY <1>7 DEF PadByte, t, l, n1
    <2>1. CASE i <= n
      <3>1. i \in 1 .. n2 /\ i \in 1 .. n1 /\ i \in 1 .. n /\ i <= n1 /\ i <= n2
        BY <2>1, <1>1, <1>7 DEF n1, n2
      <3>. QED
        BY <3>1, <2>0, <2>1, <1>5, <1>8, <1>9
    <2>2. CASE i = n + 1
      <3>1. i \in 1 .. n2 /\ i \in 1 .. n1 /\ ~(i <= n) /\ i <= n1 /\ i <= n2 /\ i - n = 1 /\ i = n1
        BY <2>2, <1>1, <1>7 DEF n1, n2
      <3>. QED
        BY <3>1, <2>0, <1>6, <1>8, <1>9
    <2>3. CASE n + 1 < i /\ i <= n2
      <3>1. i \in 1 .. n2 /\ ~(i <= n1) /\ ~(i <= n) /\ i # n1 /\ i - n1 \in 1 .. fill
        BY <2>3, <1>1, <1>7 DEF n1, n2
      <3>. QED
        BY <3>1, <2>3, <2>0, <1>6, <1>9
    <2>4. CASE n2 < i
      <3>1. ~(i <= n2) /\ ~(i <= n) /\ i # n1
        BY <2>4, <1>1, <1>7 DEF n1, n2
      <3>. QED
        BY <3>1, <2>0
    <2>. QED
      BY <2>1, <2>2, <2>3, <2>4, <1>7
  <1>12. s3 = [i \in 1 .. t |-> PadByte(n, i)]
    BY <1>10, <1>11
  <1>. QED
    BY <1>2, <1>3, <1>4, <1>12 DEF t, s3, s2, s1

\* Block b of the padded message.
PadFrom(n, at) == [i \in 1 .. BlockSize |-> PadByte(n, at + i)]
PadBlock(n, b) == PadFrom(n, (b - 1) * BlockSize)

LEMMA PadBlocks ==
    ASSUME NEW n \in Nat
    PROVE  Blocks(Padded(n)) = [b \in 1 .. Count(n) |-> PadBlock(n, b)]
  <1>. DEFINE d == Padded(n)
              k == Count(n)
  <1>1. k \in Nat /\ k * BlockSize \in Nat /\ d = [i \in 1 .. k * BlockSize |-> PadByte(n, i)]
    BY PaddedIs
  <1>. HIDE DEF d, k
  <1>2. HasLength(d, k * BlockSize)
    BY <1>1 DEF HasLength
  <1>3. PICK z, t : z = 0 /\ t = k * BlockSize
    OBVIOUS
  <1>4. z \in 0 .. BlockSize - 1 /\ t = k * BlockSize + z /\ HasLength(d, t)
    BY <1>1, <1>2, <1>3, SizesOk
  <1>5. Blocks(d) = [b \in 1 .. k |-> [i \in 1 .. BlockSize |-> d[(b - 1) * BlockSize + i]]]
    <2>1. k \in Nat
      BY <1>1
    <2>. QED
      BY <2>1, <1>4, BlocksAre
  <1>6. ASSUME NEW b \in 1 .. k, NEW i \in 1 .. BlockSize
        PROVE  d[(b - 1) * BlockSize + i] = PadByte(n, (b - 1) * BlockSize + i)
    <2>. DEFINE lo == (b - 1) * BlockSize
    <2>1. lo \in Nat
      BY SizesOk
    <2>2. lo + BlockSize <= k * BlockSize
      BY <1>1, SizesOk, TimesStep
    <2>. HIDE DEF lo
    <2>3. lo + i \in 1 .. k * BlockSize
      BY <2>1, <2>2, <1>1, SizesOk
    <2>4. d[lo + i] = PadByte(n, lo + i)
      BY <2>3, <1>1
    <2>. QED
      BY <2>4 DEF lo
  <1>7. Blocks(d) = [b \in 1 .. k |-> PadBlock(n, b)]
    BY <1>5, <1>6 DEF PadBlock, PadFrom
  <1>. QED
    BY <1>7 DEF d, k

(***************************************************************************)
(* The last blocks.                                                        *)
(***************************************************************************)
\* The positions of a block of the padded message.
LEMMA WholePadBlock ==
    ASSUME NEW n \in Nat, NEW b \in 1 .. n \div BlockSize
    PROVE  PadBlock(n, b) = [i \in 1 .. BlockSize |-> <<"message", (b - 1) * BlockSize + i>>]
  <1>. DEFINE q == n \div BlockSize
              r == n % BlockSize
              lo == (b - 1) * BlockSize
  <1>1. q \in Nat /\ r \in 0 .. BlockSize - 1 /\ n = q * BlockSize + r
    BY DivMod, SizesOk, Zenon
  <1>2. b \in 1 .. q
    OBVIOUS
  <1>. HIDE DEF q, r
  <1>3. lo \in Nat
    BY <1>1, <1>2, SizesOk
  <1>4. lo + BlockSize <= q * BlockSize
    BY <1>1, <1>2, SizesOk, TimesStep
  <1>5. q * BlockSize \in Nat
    BY <1>1, SizesOk
  <1>. HIDE DEF lo
  <1>6. \A i \in 1 .. BlockSize : lo + i <= n
    BY <1>1, <1>3, <1>4, <1>5, SizesOk
  <1>7. \A i \in 1 .. BlockSize : PadByte(n, lo + i) = <<"message", lo + i>>
    BY <1>6 DEF PadByte
  <1>. QED
    BY <1>7 DEF PadBlock, PadFrom, lo

\* The blocks of a finished message, from its last ones.
LEMMA FinishedBlocks ==
    ASSUME NEW n \in Nat, NEW k \in Nat, NEW bl, HasLength(bl, k),
           Count(n) = (n \div BlockSize) + k,
           \A b \in 1 .. k : bl[b] = PadBlock(n, (n \div BlockSize) + b)
    PROVE  WholeBlocks(n \div BlockSize) \o bl = Blocks(Padded(n))
  <1>. DEFINE q == n \div BlockSize
  <1>1. q \in Nat
    BY DivMod, SizesOk, Zenon
  <1>2. Count(n) = q + k /\ \A b \in 1 .. k : bl[b] = PadBlock(n, q + b)
    OBVIOUS
  <1>3. \A b \in 1 .. q : PadBlock(n, b) = [i \in 1 .. BlockSize |-> <<"message", (b - 1) * BlockSize + i>>]
    BY WholePadBlock
  <1>. HIDE DEF q
  <1>4. HasLength(WholeBlocks(q), q)
    BY DEF HasLength, WholeBlocks
  <1>5. WholeBlocks(q) \o bl = [b \in 1 .. q + k |-> IF b <= q THEN WholeBlocks(q)[b] ELSE bl[b - q]]
    BY <1>1, <1>4, ConcatIs
  <1>6. ASSUME NEW b \in 1 .. q + k
        PROVE  (IF b <= q THEN WholeBlocks(q)[b] ELSE bl[b - q]) = PadBlock(n, b)
    <2>1. CASE b <= q
      BY <2>1, <1>1, <1>3 DEF WholeBlocks
    <2>2. CASE ~(b <= q)
      <3>1. b - q \in 1 .. k /\ q + (b - q) = b
        BY <2>2, <1>1
      <3>2. bl[b - q] = PadBlock(n, q + (b - q))
        BY <3>1, <1>2
      <3>. QED
        BY <2>2, <3>1, <3>2
    <2>. QED
      BY <2>1, <2>2
  <1>7. WholeBlocks(q) \o bl = [b \in 1 .. q + k |-> PadBlock(n, b)]
    BY <1>5, <1>6
  <1>8. Blocks(Padded(n)) = [b \in 1 .. q + k |-> PadBlock(n, b)]
    BY <1>2, PadBlocks
  <1>. QED
    BY <1>7, <1>8 DEF q

\* What is stored for the last block: from is where its zeros begin.
LEMMA LastBuffer ==
    ASSUME NEW n \in Nat, NEW st, NEW bl, NEW bu, NEW from \in 0 .. BlockSize - LengthBytes
    PROVE  \E bu2 :
             /\ Store(Store(Context(st, bl, n, bu), from, Zeros(BlockSize - from - LengthBytes)),
                      BlockSize - LengthBytes, LengthField(n)) = Context(st, bl, n, bu2)
             /\ \A i \in Index :
                  bu2[i] = IF BlockSize - LengthBytes <= i
                           THEN LengthField(n)[i - (BlockSize - LengthBytes) + 1]
                           ELSE IF from <= i THEN Value(0) ELSE bu[i]
  <1>. DEFINE k == BlockSize - from - LengthBytes
              e == BlockSize - LengthBytes
              l == LengthField(n)
              z == Zeros(k)
              b1 == Put(bu, from, k, z)
              b2 == Put(b1, e, LengthBytes, l)
  <1>1. k \in Nat /\ e \in Nat /\ from \in Nat /\ LengthBytes \in Nat /\ from + k = e /\ e + LengthBytes = BlockSize
    BY SizesOk
  <1>. HIDE DEF k, e
  <1>2. HasLength(z, k) /\ (\A i \in 1 .. k : z[i] = Value(0)) /\ HasLength(l, LengthBytes)
    BY <1>1, PaddingParts
  <1>. HIDE DEF z, l
  <1>3. Store(Context(st, bl, n, bu), from, z) = Context(st, bl, n, b1)
    BY <1>1, <1>2, StoreIs
  <1>4. Store(Context(st, bl, n, b1), e, l) = Context(st, bl, n, b2)
    <2>. HIDE DEF b1
    <2>. QED
      BY <1>1, <1>2, StoreIs
  <1>5. ASSUME NEW i \in Index
        PROVE  b2[i] = IF e <= i THEN l[i - e + 1] ELSE IF from <= i THEN Value(0) ELSE bu[i]
    <2>1. i \in Nat /\ i < e + LengthBytes
      BY <1>1, SizesOk DEF Index
    <2>2. b2[i] = IF e <= i THEN l[i - e + 1] ELSE b1[i]
      <3>. HIDE DEF b1
      <3>. QED
        BY <2>1 DEF Put
    <2>3. b1[i] = IF from <= i /\ i < from + k THEN z[i - from + 1] ELSE bu[i]
      BY DEF Put
    <2>. HIDE DEF b1, b2
    <2>4. CASE e <= i
      BY <2>2, <2>4
    <2>5. CASE ~(e <= i) /\ from <= i
      <3>1. i < from + k /\ i - from + 1 \in 1 .. k
        BY <2>1, <2>5, <1>1
      <3>. QED
        BY <3>1, <2>2, <2>3, <2>5, <1>2
    <2>6. CASE ~(e <= i) /\ ~(from <= i)
      BY <2>2, <2>3, <2>6
    <2>. QED
      BY <2>4, <2>5, <2>6
  <1>. HIDE DEF b1, b2
  <1>. QED
    BY <1>3, <1>4, <1>5 DEF k, e, l, z

\* Where the parts of the padding lie in the last blocks.
LEMMA PadBytes ==
    ASSUME NEW n \in Nat, NEW i \in 1 .. BlockSize
    PROVE  LET q == n \div BlockSize
               r == n % BlockSize
               last == IF i <= BlockSize - LengthBytes THEN Value(0)
                       ELSE LengthField(n)[i - (BlockSize - LengthBytes)]
           IN  /\ i <= r => PadByte(n, q * BlockSize + i) = <<"message", q * BlockSize + i>>
               /\ i = r + 1 => PadByte(n, q * BlockSize + i) = <<"marker", 0>>
               /\ r + 1 < i /\ Fits(n) => PadByte(n, q * BlockSize + i) = last
               /\ r + 1 < i /\ ~Fits(n) => PadByte(n, q * BlockSize + i) = Value(0)
               /\ ~Fits(n) => PadByte(n, (q + 1) * BlockSize + i) = last
  <1>. DEFINE q == n \div BlockSize
              r == n % BlockSize
              off == q * BlockSize
              t == Count(n) * BlockSize
              l == LengthField(n)
              e == BlockSize - LengthBytes
  <1>1. q \in Nat /\ r \in 0 .. BlockSize - 1 /\ n = off + r
    BY DivMod, SizesOk, Zenon
  <1>2. /\ Fits(n) <=> r + 1 + LengthBytes <= BlockSize
        /\ Count(n) = IF Fits(n) THEN q + 1 ELSE q + 2
    BY DEF Count, Fits
  <1>3. off = q * BlockSize
    OBVIOUS
  <1>. HIDE DEF q, r
  <1>4. off \in Nat
    BY <1>1, SizesOk
  <1>5. (q + 1) * BlockSize = off + BlockSize /\ (q + 2) * BlockSize = off + BlockSize + BlockSize
    BY <1>1, <1>3, SizesOk
  <1>6. t = IF Fits(n) THEN off + BlockSize ELSE off + BlockSize + BlockSize
    BY <1>2, <1>5
  <1>7. e \in Nat /\ e + LengthBytes = BlockSize
    BY SizesOk
  <1>8. \A x : PadByte(n, x) = IF x <= n THEN <<"message", x>>
                               ELSE IF x = n + 1 THEN <<"marker", 0>>
                               ELSE IF x <= t - LengthBytes THEN Value(0)
                               ELSE l[x - (t - LengthBytes)]
    BY DEF PadByte
  <1>. HIDE DEF off, t, l, e
  <1>. DEFINE y == off + i
  <1>9. i <= r => PadByte(n, y) = <<"message", y>>
    <2>1. i <= r => y <= n
      BY <1>1, <1>4
    <2>. HIDE DEF y
    <2>. QED
      BY <2>1, <1>8
  <1>10. i = r + 1 => PadByte(n, y) = <<"marker", 0>>
    <2>1. i = r + 1 => ~(y <= n) /\ y = n + 1
      BY <1>1, <1>4
    <2>. HIDE DEF y
    <2>. QED
      BY <2>1, <1>8
  <1>11. ASSUME r + 1 < i, Fits(n)
         PROVE  PadByte(n, y) = IF i <= e THEN Value(0) ELSE l[i - e]
    <2>1. ~(y <= n) /\ y # n + 1 /\ (y <= t - LengthBytes <=> i <= e)
          /\ y - (t - LengthBytes) = i - e
      BY <1>1, <1>4, <1>6, <1>7, <1>11, SizesOk
    <2>. HIDE DEF y
    <2>. QED
      BY <2>1, <1>8
  <1>12. ASSUME r + 1 < i, ~Fits(n)
         PROVE  PadByte(n, off + i) = Value(0)
    <2>1. ~(off + i <= n) /\ off + i # n + 1 /\ off + i <= t - LengthBytes
      BY <1>1, <1>4, <1>6, <1>7, <1>12, SizesOk
    <2>. QED
      BY <2>1, <1>8
  <1>13. ASSUME ~Fits(n)
         PROVE  PadByte(n, off + BlockSize + i) = IF i <= e THEN Value(0) ELSE l[i - e]
    <2>. DEFINE x == off + BlockSize + i
    <2>1. ~(x <= n) /\ x # n + 1 /\ (x <= t - LengthBytes <=> i <= e)
          /\ x - (t - LengthBytes) = i - e
      BY <1>1, <1>4, <1>6, <1>7, <1>13, SizesOk
    <2>. HIDE DEF x
    <2>2. PadByte(n, x) = IF i <= e THEN Value(0) ELSE l[i - e]
      BY <2>1, <1>8
    <2>. QED
      BY <2>2 DEF x
  <1>. QED
    BY <1>5, <1>9, <1>10, <1>11, <1>12, <1>13 DEF q, r, off, l, e, y

LEMMA FinishIs ==
    ASSUME NEW c, NEW st, NEW n \in Nat, Absorbed(c, st, n)
    PROVE  Finish(c).chain = [started |-> st, blocks |-> Blocks(Padded(n))]
  <1>. DEFINE q == n \div BlockSize
              r == n % BlockSize
              used == r + 1
              room == BlockSize - used
              off == q * BlockSize
              e == BlockSize - LengthBytes
              l == LengthField(n)
              last == [i \in 1 .. BlockSize |-> IF i <= e THEN Value(0) ELSE l[i - e]]
  <1>1. q \in Nat /\ r \in 0 .. BlockSize - 1 /\ n = off + r
    BY DivMod, SizesOk, Zenon
  <1>2. PICK bu : /\ c = Context(st, WholeBlocks(q), n, bu)
                  /\ \A i \in 0 .. r - 1 : bu[i] = <<"message", off + i + 1>>
    BY DEF Absorbed
  <1>3. /\ Fits(n) <=> r + 1 + LengthBytes <= BlockSize
        /\ Count(n) = IF Fits(n) THEN q + 1 ELSE q + 2
    BY DEF Count, Fits
  <1>4. c.bytes = n
    BY <1>2 DEF Context
  <1>5. \A i \in 1 .. BlockSize :
          /\ i <= r => PadByte(n, off + i) = <<"message", off + i>>
          /\ i = r + 1 => PadByte(n, off + i) = <<"marker", 0>>
          /\ r + 1 < i /\ Fits(n) => PadByte(n, off + i) = last[i]
          /\ r + 1 < i /\ ~Fits(n) => PadByte(n, off + i) = Value(0)
          /\ ~Fits(n) => PadByte(n, (q + 1) * BlockSize + i) = last[i]
    BY PadBytes
  <1>6. used = (c.bytes % BlockSize) + 1 /\ off = q * BlockSize
    BY <1>4
  <1>. HIDE DEF q, r
  <1>7. off \in Nat
    BY <1>1, SizesOk
  <1>14. /\ PadBlock(n, q + 1) = [i \in 1 .. BlockSize |-> PadByte(n, off + i)]
         /\ PadBlock(n, q + 2) = [i \in 1 .. BlockSize |-> PadByte(n, (q + 1) * BlockSize + i)]
    <2>1. q + 1 - 1 = q /\ q + 2 - 1 = q + 1
      BY <1>1
    <2>2. /\ PadBlock(n, q + 1) = PadFrom(n, (q + 1 - 1) * BlockSize)
          /\ PadBlock(n, q + 2) = PadFrom(n, (q + 2 - 1) * BlockSize)
      BY <1>1, SizesOk DEF PadBlock
    <2>3. PadBlock(n, q + 1) = PadFrom(n, off) /\ PadBlock(n, q + 2) = PadFrom(n, (q + 1) * BlockSize)
      BY <2>1, <2>2
    <2>. QED
      BY <2>3 DEF PadFrom
  <1>8. room \in Nat /\ e \in Nat /\ used \in Nat /\ (room < LengthBytes <=> ~Fits(n)) /\ used + room = BlockSize
    BY <1>1, <1>3, SizesOk
  <1>. HIDE DEF off, l
  <1>. DEFINE bm == Put(bu, r, 1, Marker)
              marked == Context(st, WholeBlocks(q), n, bm)
  <1>9. Store(c, used - 1, Marker) = marked
    <2>1. used - 1 = r /\ r \in Nat /\ 1 \in Nat
      BY <1>1
    <2>. QED
      BY <2>1, <1>2, PaddingParts, StoreIs
  <1>10. \A i \in 1 .. BlockSize :
           /\ i <= r => bm[i - 1] = <<"message", off + i>>
           /\ i = r + 1 => bm[i - 1] = <<"marker", 0>>
    <2>. TAKE i \in 1 .. BlockSize
    <2>1. i - 1 \in Index
      BY SizesOk DEF Index
    <2>2. bm[i - 1] = IF r <= i - 1 /\ i - 1 < r + 1 THEN Marker[i - 1 - r + 1] ELSE bu[i - 1]
      BY <2>1 DEF Put
    <2>3. CASE i <= r
      <3>1. ~(r <= i - 1) /\ i - 1 \in 0 .. r - 1 /\ off + (i - 1) + 1 = off + i
        BY <2>3, <1>1, <1>7
      <3>2. bu[i - 1] = <<"message", off + (i - 1) + 1>>
        BY <3>1, <1>2
      <3>. QED
        BY <3>1, <3>2, <2>2, <2>3, <1>1
    <2>4. CASE i = r + 1
      <3>1. r <= i - 1 /\ i - 1 < r + 1 /\ i - 1 - r + 1 = 1
        BY <2>4, <1>1
      <3>2. Marker[1] = <<"marker", 0>>
        BY PaddingParts
      <3>. QED
        BY <3>1, <3>2, <2>2, <2>4, <1>1
    <2>. QED
      BY <2>3, <2>4
  <1>. HIDE DEF bm
  <1>11. CASE Fits(n)
    <2>1. used \in 0 .. e
      BY <1>1, <1>3, <1>11, SizesOk
    <2>2. PICK bu2 :
             /\ Store(Store(marked, used, Zeros(BlockSize - used - LengthBytes)), e, l)
                  = Context(st, WholeBlocks(q), n, bu2)
             /\ \A i \in Index : bu2[i] = IF e <= i THEN l[i - e + 1]
                                          ELSE IF used <= i THEN Value(0) ELSE bm[i]
      <3>. HIDE DEF used
      <3>. QED
        BY <2>1, LastBuffer DEF l
    <2>. DEFINE c2 == Context(st, WholeBlocks(q), n, bu2)
    <2>3. Finish(c) = Body(c2, BufferBlock(c2))
      <3>. HIDE DEF used, marked, e, c2
      <3>. QED
        BY <1>4, <1>6, <1>8, <1>9, <1>11, <2>2 DEF Finish, l, c2, e
    <2>4. ASSUME NEW i \in 1 .. BlockSize
          PROVE  bu2[i - 1] = PadByte(n, off + i)
      <3>1. i - 1 \in Index
        BY SizesOk DEF Index
      <3>2. bu2[i - 1] = IF e <= i - 1 THEN l[i - 1 - e + 1]
                         ELSE IF used <= i - 1 THEN Value(0) ELSE bm[i - 1]
        BY <3>1, <2>2
      <3>3. (e <= i - 1 <=> ~(i <= e)) /\ i - 1 - e + 1 = i - e /\ (used <= i - 1 <=> r + 1 < i)
        BY <1>1, <1>8
      <3>4. used <= e
        BY <2>1
      <3>5. CASE r + 1 < i
        <4>1. bu2[i - 1] = last[i]
          BY <3>2, <3>3, <3>5
        <4>. QED
          BY <4>1, <3>5, <1>5, <1>11
      <3>6. CASE ~(r + 1 < i)
        <4>1. bu2[i - 1] = bm[i - 1]
          BY <3>2, <3>3, <3>4, <3>6, <1>1, <1>8
        <4>2. i <= r \/ i = r + 1
          BY <3>6, <1>1
        <4>. QED
          BY <4>1, <4>2, <1>5, <1>10
      <3>. QED
        BY <3>5, <3>6
    <2>. DEFINE bl == Blocks(BufferBlock(c2))
    <2>5. BufferBlock(c2) = PadBlock(n, q + 1)
      <3>1. BufferBlock(c2) = [i \in 1 .. BlockSize |-> bu2[i - 1]]
        BY DEF BufferBlock, Context
      <3>. QED
        BY <3>1, <2>4, <1>14
    <2>6. bl = [b \in 1 .. 1 |-> BufferBlock(c2)]
      BY OneBlock
    <2>. HIDE DEF c2
    <2>7. HasLength(bl, 1) /\ \A b \in 1 .. 1 : bl[b] = PadBlock(n, q + b)
      BY <2>5, <2>6 DEF HasLength
    <2>8. Count(n) = q + 1 /\ 1 \in Nat
      BY <1>3, <1>11
    <2>. HIDE DEF bl
    <2>9. WholeBlocks(q) \o bl = Blocks(Padded(n))
      BY <2>7, <2>8, FinishedBlocks DEF q
    <2>10. Body(c2, BufferBlock(c2)) = Context(st, WholeBlocks(q) \o bl, n, bu2)
      <3>. DEFINE d == BufferBlock(c2)
      <3>. HIDE DEF d
      <3>1. Body(Context(st, WholeBlocks(q), n, bu2), d) = Context(st, WholeBlocks(q) \o Blocks(d), n, bu2)
        BY BodyIs
      <3>. QED
        BY <3>1 DEF c2, d, bl
    <2>. QED
      BY <2>3, <2>9, <2>10 DEF Context
  <1>12. CASE ~Fits(n)
    <2>. DEFINE z == Zeros(room)
                bo == Put(bm, used, room, z)
                over == Context(st, WholeBlocks(q), n, bo)
                bl1 == Blocks(BufferBlock(over))
    <2>1. Store(marked, used, z) = over
      <3>1. HasLength(z, room)
        BY <1>8, PaddingParts
      <3>. HIDE DEF z, used, room
      <3>. QED
        BY <3>1, <1>8, StoreIs
    <2>2. BufferBlock(over) = PadBlock(n, q + 1)
      <3>1. ASSUME NEW i \in 1 .. BlockSize
            PROVE  bo[i - 1] = PadByte(n, off + i)
        <4>1. i - 1 \in Index
          BY SizesOk DEF Index
        <4>. HIDE DEF z
        <4>2. bo[i - 1] = IF used <= i - 1 /\ i - 1 < used + room THEN z[i - 1 - used + 1] ELSE bm[i - 1]
          BY <4>1 DEF Put
        <4>. HIDE DEF bo
        <4>3. (used <= i - 1 <=> r + 1 < i) /\ i - 1 < used + room
          BY <1>1, <1>8
        <4>4. CASE r + 1 < i
          <5>1. i - 1 - used + 1 \in 1 .. room
            BY <4>4, <1>1, <1>8
          <5>2. z[i - 1 - used + 1] = Value(0)
            <6>. DEFINE x == i - 1 - used + 1
            <6>. HIDE DEF x, room
            <6>1. x \in 1 .. room
              BY <5>1 DEF x
            <6>2. z[x] = Value(0)
              BY <6>1, <1>8, PaddingParts DEF z
            <6>. QED
              BY <6>2 DEF x
          <5>. QED
            BY <5>2, <4>2, <4>3, <4>4, <1>5, <1>12
        <4>5. CASE ~(r + 1 < i)
          <5>1. bo[i - 1] = bm[i - 1]
            BY <4>2, <4>3, <4>5
          <5>2. i <= r \/ i = r + 1
            BY <4>5, <1>1
          <5>. QED
            BY <5>1, <5>2, <1>5, <1>10
        <4>. QED
          BY <4>4, <4>5
      <3>. HIDE DEF bo
      <3>2. BufferBlock(over) = [i \in 1 .. BlockSize |-> bo[i - 1]]
        BY DEF BufferBlock, Context
      <3>. QED
        BY <3>1, <3>2, <1>14
    <2>3. bl1 = [b \in 1 .. 1 |-> PadBlock(n, q + 1)]
      BY <2>2, OneBlock
    <2>. DEFINE c1 == Context(st, WholeBlocks(q) \o bl1, n, bo)
    <2>4. Body(over, BufferBlock(over)) = c1
      <3>. DEFINE d == BufferBlock(over)
      <3>. HIDE DEF d, bo
      <3>1. Body(Context(st, WholeBlocks(q), n, bo), d) = Context(st, WholeBlocks(q) \o Blocks(d), n, bo)
        BY BodyIs
      <3>. QED
        BY <3>1 DEF d
    <2>. HIDE DEF bl1, bo
    <2>5. PICK bu2 :
             /\ Store(Store(c1, 0, Zeros(BlockSize - 0 - LengthBytes)), e, l)
                  = Context(st, WholeBlocks(q) \o bl1, n, bu2)
             /\ \A i \in Index : bu2[i] = IF e <= i THEN l[i - e + 1]
                                          ELSE IF 0 <= i THEN Value(0) ELSE bo[i]
      <3>1. PICK from : from = 0
        OBVIOUS
      <3>2. from \in 0 .. e
        BY <3>1, <1>8
      <3>3. \E bu2 :
             /\ Store(Store(c1, from, Zeros(BlockSize - from - LengthBytes)), e, l)
                  = Context(st, WholeBlocks(q) \o bl1, n, bu2)
             /\ \A i \in Index : bu2[i] = IF e <= i THEN l[i - e + 1]
                                          ELSE IF from <= i THEN Value(0) ELSE bo[i]
        BY <3>2, LastBuffer DEF l
      <3>. HIDE DEF c1
      <3>. QED
        BY <3>1, <3>3
    <2>. DEFINE c2 == Context(st, WholeBlocks(q) \o bl1, n, bu2)
    <2>6. Finish(c) = Body(c2, BufferBlock(c2))
      <3>. HIDE DEF used, marked, e, c2, over, c1
      <3>. QED
        BY <1>4, <1>6, <1>8, <1>9, <1>12, <2>1, <2>4, <2>5 DEF Finish, l, c2, e
    <2>7. BufferBlock(c2) = PadBlock(n, q + 2)
      <3>1. ASSUME NEW i \in 1 .. BlockSize
            PROVE  bu2[i - 1] = last[i]
        <4>1. i - 1 \in Index /\ 0 <= i - 1
          BY SizesOk DEF Index
        <4>2. (e <= i - 1 <=> ~(i <= e)) /\ i - 1 - e + 1 = i - e
          BY <1>8
        <4>. QED
          BY <4>1, <4>2, <2>5
      <3>2. BufferBlock(c2) = [i \in 1 .. BlockSize |-> bu2[i - 1]]
        BY DEF BufferBlock, Context
      <3>3. \A i \in 1 .. BlockSize : bu2[i - 1] = PadByte(n, (q + 1) * BlockSize + i)
        BY <3>1, <1>5, <1>12
      <3>. QED
        BY <3>2, <3>3, <1>14
    <2>. DEFINE bl2 == Blocks(BufferBlock(c2))
                bl == bl1 \o bl2
    <2>8. bl2 = [b \in 1 .. 1 |-> PadBlock(n, q + 2)]
      BY <2>7, OneBlock
    <2>. HIDE DEF c2
    <2>9. HasLength(bl1, 1) /\ HasLength(bl2, 1) /\ HasLength(WholeBlocks(q), q)
      BY <2>3, <2>8 DEF HasLength, WholeBlocks
    <2>10. 1 \in Nat /\ 1 + 1 = 2
      OBVIOUS
    <2>. HIDE DEF bl2
    <2>11. HasLength(bl, 2) /\ bl = [b \in 1 .. 2 |-> IF b <= 1 THEN bl1[b] ELSE bl2[b - 1]]
      <3>1. HasLength(bl, 1 + 1) /\ bl = [b \in 1 .. 1 + 1 |-> IF b <= 1 THEN bl1[b] ELSE bl2[b - 1]]
        BY <2>9, <2>10, ConcatIs
      <3>. QED
        BY <3>1
    <2>12. \A b \in 1 .. 2 : bl[b] = PadBlock(n, q + b)
      <3>. TAKE b \in 1 .. 2
      <3>4. bl[b] = IF b <= 1 THEN bl1[b] ELSE bl2[b - 1]
        BY <2>11
      <3>3. bl1[1] = PadBlock(n, q + 1) /\ bl2[1] = PadBlock(n, q + 2)
        BY <2>3, <2>8
      <3>1. CASE b = 1
        <4>1. 1 <= 1
          OBVIOUS
        <4>. QED
          BY <4>1, <3>4, <3>3, <3>1
      <3>2. CASE b = 2
        <4>1. ~(2 <= 1) /\ 2 - 1 = 1
          OBVIOUS
        <4>. QED
          BY <4>1, <3>4, <3>3, <3>2
      <3>5. b = 1 \/ b = 2
        OBVIOUS
      <3>. QED
        BY <3>1, <3>2, <3>5
    <2>13. Count(n) = q + 2 /\ 2 \in Nat
      BY <1>3, <1>12
    <2>14. (WholeBlocks(q) \o bl1) \o bl2 = WholeBlocks(q) \o bl
      <3>. DEFINE w == WholeBlocks(q)
                  S == {w[i] : i \in 1 .. q} \cup {bl1[i] : i \in 1 .. 1} \cup {bl2[i] : i \in 1 .. 1}
      <3>. HIDE DEF w
      <3>1. w \in [1 .. q -> S] /\ bl1 \in [1 .. 1 -> S] /\ bl2 \in [1 .. 1 -> S]
        BY <2>9 DEF HasLength, w
      <3>. HIDE DEF S
      <3>2. w \in Seq(S) /\ bl1 \in Seq(S) /\ bl2 \in Seq(S)
        <4>1. \A k \in Nat : \A f \in [1 .. k -> S] : f \in Seq(S)
          OBVIOUS
        <4>. QED
          BY <3>1, <1>1, <4>1, <2>10
      <3>3. (w \o bl1) \o bl2 = w \o (bl1 \o bl2)
        <4>. HIDE DEF bl
        <4>. QED
          BY <3>2, ConcatAssociative
      <3>. QED
        BY <3>3, Zenon DEF w
    <2>. HIDE DEF bl
    <2>15. WholeBlocks(q) \o bl = Blocks(Padded(n))
      BY <2>11, <2>12, <2>13, FinishedBlocks DEF q
    <2>16. Body(c2, BufferBlock(c2)) = Context(st, (WholeBlocks(q) \o bl1) \o bl2, n, bu2)
      <3>. DEFINE d == BufferBlock(c2)
                  w == WholeBlocks(q) \o bl1
      <3>. HIDE DEF d, w
      <3>1. Body(Context(st, w, n, bu2), d) = Context(st, w \o Blocks(d), n, bu2)
        BY BodyIs
      <3>. QED
        BY <3>1 DEF c2, d, w, bl2
    <2>. QED
      BY <2>6, <2>14, <2>15, <2>16 DEF Context
  <1>. QED
    BY <1>11, <1>12

(***************************************************************************)
(* The invariant: the context always holds the message that was fed to it. *)
(***************************************************************************)
DigestInv ==
    /\ msg \in Nat
    /\ Absorbed(ctx, ctx.chain.started, msg)
    /\ DigestOfMessage

\* An empty message, whatever is in the buffer.
LEMMA AbsorbedNothing ==
    ASSUME NEW c, NEW st, NEW bu, c = Context(st, << >>, 0, bu), bu = [i \in Index |-> bu[i]]
    PROVE  c.chain.started = st /\ Absorbed(c, c.chain.started, 0)
  <1>1. 0 \div BlockSize = 0 /\ 0 % BlockSize = 0
    BY SizesOk
  <1>2. WholeBlocks(0) = << >>
    BY DEF WholeBlocks
  <1>3. c.chain.started = st
    BY DEF Context
  <1>4. \A i \in 0 .. 0 - 1 : FALSE
    OBVIOUS
  <1>5. c = Context(st, WholeBlocks(0 \div BlockSize), 0, bu)
    BY <1>1, <1>2
  <1>6. \A i \in 0 .. (0 % BlockSize) - 1 : bu[i] = <<"message", (0 \div BlockSize) * BlockSize + i + 1>>
    BY <1>1, <1>4
  <1>7. Absorbed(c, st, 0)
    BY <1>5, <1>6, Zenon DEF Absorbed
  <1>. QED
    BY <1>3, <1>7

LEMMA AbsorbedIs ==
    ASSUME NEW c, NEW st, NEW n, Absorbed(c, st, n)
    PROVE  /\ c.chain.started = st
           /\ \E bl, by, bu : c = Context(st, bl, by, bu) /\ bu = [i \in Index |-> bu[i]]
  <1>1. PICK bu : /\ c = Context(st, WholeBlocks(n \div BlockSize), n, bu)
                  /\ bu = [i \in Index |-> bu[i]]
    BY DEF Absorbed
  <1>2. c.chain.started = st
    BY <1>1 DEF Context
  <1>. QED
    BY <1>1, <1>2, Zenon

LEMMA InitializedIs ==
    ASSUME NEW st, NEW bl, NEW by, NEW bu, bu = [i \in Index |-> bu[i]]
    PROVE  Absorbed(Initialized(Context(st, bl, by, bu)), TRUE, 0)
           /\ Initialized(Context(st, bl, by, bu)).chain.started = TRUE
  <1>. DEFINE z == [i \in Index |-> Value(0)]
              c == Initialized(Context(st, bl, by, bu))
  <1>1. c = Context(TRUE, << >>, 0, bu) \/ c = Context(TRUE, << >>, 0, z)
    BY DEF Initialized, Sha1Init, Md5Init, Context, Chain
  <1>2. z = [i \in Index |-> z[i]]
    OBVIOUS
  <1>. HIDE DEF z, c
  <1>3. c.chain.started = TRUE /\ Absorbed(c, c.chain.started, 0)
    BY <1>1, <1>2, AbsorbedNothing
  <1>. QED
    BY <1>3 DEF c

LEMMA DigestStart == DigestInit => DigestInv
  <1>. SUFFICES ASSUME DigestInit PROVE DigestInv
    OBVIOUS
  <1>. DEFINE g == [i \in Index |-> Garbage]
  <1>1. ctx = Initialized(Context(FALSE, << >>, 0, g)) /\ msg = 0
    BY DEF DigestInit, Context, Chain
  <1>2. g = [i \in Index |-> g[i]]
    OBVIOUS
  <1>. HIDE DEF g
  <1>3. Absorbed(ctx, TRUE, 0) /\ ctx.chain.started = TRUE
    BY <1>1, <1>2, InitializedIs
  <1>4. DigestOfMessage
    BY DEF DigestInit, DigestOfMessage, Chain
  <1>. QED
    BY <1>1, <1>3, <1>4 DEF DigestInv

LEMMA DigestStep == DigestInv /\ [DigestNext]_digestVars => DigestInv'
  <1>. SUFFICES ASSUME DigestInv, [DigestNext]_digestVars
                PROVE  DigestInv'
    OBVIOUS
  <1>. USE DEF DigestInv
  <1>1. ASSUME NEW n \in 0 .. MaxPart, Update(n)
        PROVE  DigestInv'
    <2>1. n \in Nat
      BY DigestAssumption
    <2>. DEFINE c == Feed(ctx, Part(msg, n))
    <2>2. ctx' = c /\ msg' = msg + n
      BY <1>1 DEF Update, Part
    <2>3. Absorbed(c, ctx.chain.started, msg + n)
      BY <2>1, FeedIs
    <2>. HIDE DEF c
    <2>4. c.chain.started = ctx.chain.started
      BY <2>3, AbsorbedIs
    <2>5. Absorbed(ctx, ctx.chain.started, msg)'
      BY <2>2, <2>3, <2>4 DEF Absorbed
    <2>6. DigestOfMessage'
      BY <1>1 DEF Update, DigestOfMessage, Padded, LengthField
    <2>. QED
      BY <2>1, <2>2, <2>5, <2>6
  <1>2. ASSUME Final
        PROVE  DigestInv'
    <2>. DEFINE z == [i \in Index |-> Value(0)]
    <2>1. ctx' = Context(FALSE, << >>, 0, z) /\ msg' = 0
      BY <1>2 DEF Final, Zeroed, Context, Chain
    <2>2. z = [i \in Index |-> z[i]]
      OBVIOUS
    <2>. HIDE DEF z
    <2>3. Absorbed(ctx, ctx.chain.started, msg)'
      <3>. DEFINE c == Context(FALSE, << >>, 0, z)
      <3>1. Absorbed(c, c.chain.started, 0)
        BY <2>2, AbsorbedNothing
      <3>. HIDE DEF c
      <3>. QED
        BY <3>1, <2>1 DEF Absorbed, c
    <2>4. Finish(ctx).chain = [started |-> ctx.chain.started, blocks |-> Blocks(Padded(msg))]
      BY FinishIs
    <2>5. result'.chain.blocks = Blocks(Padded(msg)) /\ result'.length = msg /\ algorithm' = algorithm
      BY <1>2, <2>4 DEF Final
    <2>6. DigestOfMessage'
      BY <2>5 DEF DigestOfMessage, Padded, LengthField
    <2>. QED
      BY <2>1, <2>3, <2>6
  <1>3. ASSUME Restart
        PROVE  DigestInv'
    <2>1. PICK bl, by, bu : /\ ctx = Context(ctx.chain.started, bl, by, bu)
                            /\ bu = [i \in Index |-> bu[i]]
      BY AbsorbedIs
    <2>. DEFINE c == Initialized(ctx)
    <2>2. Absorbed(c, TRUE, 0) /\ c.chain.started = TRUE
      <3>. DEFINE st == ctx.chain.started
      <3>. HIDE DEF st
      <3>1. /\ Absorbed(Initialized(Context(st, bl, by, bu)), TRUE, 0)
            /\ Initialized(Context(st, bl, by, bu)).chain.started = TRUE
        BY <2>1, InitializedIs
      <3>2. ctx = Context(st, bl, by, bu)
        BY <2>1 DEF st
      <3>. QED
        BY <3>1, <3>2, Zenon
    <2>3. ctx' = c /\ msg' = 0
      BY <1>3 DEF Restart
    <2>. HIDE DEF c
    <2>4. Absorbed(ctx, ctx.chain.started, msg)'
      BY <2>2, <2>3 DEF Absorbed
    <2>5. DigestOfMessage'
      BY <1>3 DEF Restart, DigestOfMessage, Padded, LengthField
    <2>. QED
      BY <2>3, <2>4, <2>5
  <1>4. ASSUME UNCHANGED digestVars
        PROVE  DigestInv'
    BY <1>4 DEF digestVars, Absorbed, DigestOfMessage, Padded, LengthField
  <1>. QED
    BY <1>1, <1>2, <1>3, <1>4 DEF DigestNext, Sha1Update, Md5Compute, Sha1Final, Md5Checksum

\* The invariant holds in every state: however the message is cut into calls of
\* stl_sha1_update or stl_md5_compute, the context is what the message so far makes it.
THEOREM DigestInvariant == DigestSpec => []DigestInv
  BY DigestStart, DigestStep, PTL DEF DigestSpec

\* Whatever the parts in which a message came and whatever the buffer held before, the digest
\* is computed from the blocks of the padded message and from nothing else: for every size of
\* a block and of the length field, and every length of the message.
THEOREM DigestsOfMessages == DigestSpec => []DigestOfMessage
  <1>1. DigestInv => DigestOfMessage
    BY DEF DigestInv
  <1>. QED
    BY <1>1, DigestInvariant, PTL
=============================================================================
