------------------------ MODULE RaftLogMatching_proofs ------------------------
(***************************************************************************)
(* Log matching of Raft, for any cluster, any bounds and either kind of    *)
(* network.  The argument: for every term there is one sequence, the log   *)
(* of its leader as far as that leader has written it, and every log and   *)
(* every appendentries message is a piece of these.  The sequences are not *)
(* part of the state, so the invariant says that they exist.               *)
(***************************************************************************)
EXTENDS Raft_proofs

Histories == [Nat -> Seq(Entry)]

\* The entries of l up to any index are those that the leader of the term at that index had.
LogFits(h, l) ==
    \A i \in DOMAIN l :
        /\ i <= Len(h[l[i].term])
        /\ \A j \in 1 .. i : l[j] = h[l[i].term][j]

\* The same for the entries of an appendentries message, and for the term it gives for the
\* entry before them.
MessageFits(h, m) ==
    \A k \in DOMAIN m.entries :
        LET l == h[m.entries[k].term] IN
        /\ m.prev_log_idx + k <= Len(l)
        /\ \A j \in 1 .. k : m.entries[j] = l[m.prev_log_idx + j]
        /\ 0 < m.prev_log_idx => l[m.prev_log_idx].term = m.prev_log_term

IsElected(term, s) == [term |-> term, leader |-> s] \in elected

\* h[t] is what the leader of term t has written, its log while it has not seen a later term.
History(h) ==
    /\ \A t \in Nat : LogFits(h, h[t])
    /\ \A t \in Nat : h[t] # << >> => \E s \in Server : IsElected(t, s)
    /\ \A s \in Server : LogFits(h, log[s])
    /\ \A s \in Server : IsElected(current_term[s], s) => log[s] = h[current_term[s]]
    /\ \A p, q \in Server : \A m \in InFlight(net, p, q) :
          /\ p # q
          /\ m.type = "appendentries" => IsElected(m.term, p) /\ MessageFits(h, m)

\* Who leads has been elected.
LeadsElected == \A s \in Server : state[s] = "leader" => IsElected(current_term[s], s)

\* What makes LogMatching inductive.
LogInv == LeadsElected /\ \E h \in Histories : History(h)

-----------------------------------------------------------------------------
(* Pieces of histories. *)

\* g holds what h holds and perhaps more.
Grows(h, g) == \A t \in Nat : Len(h[t]) <= Len(g[t]) /\ \A j \in 1 .. Len(h[t]) : h[t][j] = g[t][j]

LEMMA EntryAt ==
    ASSUME NEW l \in Seq(Entry)
    PROVE  /\ Len(l) \in Nat /\ DOMAIN l = 1 .. Len(l)
           /\ \A i \in 1 .. Len(l) : l[i] \in Entry /\ l[i].term \in Nat
  <1>1. Len(l) \in Nat /\ DOMAIN l = 1 .. Len(l) /\ \A i \in 1 .. Len(l) : l[i] \in Entry
    BY LenProperties
  <1>. QED  BY <1>1 DEF Entry

LEMMA LogFitsGrown ==
    ASSUME NEW h \in Histories, NEW g \in Histories, Grows(h, g),
           NEW l \in Seq(Entry), LogFits(h, l)
    PROVE  LogFits(g, l)
  <1>. SUFFICES ASSUME NEW i \in DOMAIN l
                PROVE  i <= Len(g[l[i].term]) /\ \A j \in 1 .. i : l[j] = g[l[i].term][j]
    BY DEF LogFits
  <1>. DEFINE t == l[i].term
  <1>1. t \in Nat /\ i \in Nat
    BY EntryAt
  <1>2. h[t] \in Seq(Entry) /\ g[t] \in Seq(Entry)
    BY <1>1 DEF Histories
  <1>3. Len(h[t]) \in Nat /\ Len(g[t]) \in Nat
    BY <1>2, EntryAt
  <1>4. i <= Len(h[t]) /\ \A j \in 1 .. i : l[j] = h[t][j]
    BY DEF LogFits
  <1>5. Len(h[t]) <= Len(g[t]) /\ \A j \in 1 .. Len(h[t]) : h[t][j] = g[t][j]
    BY <1>1 DEF Grows
  <1>. HIDE DEF t
  <1>6. i <= Len(g[t]) /\ \A j \in 1 .. i : l[j] = g[t][j]
    BY <1>1, <1>3, <1>4, <1>5
  <1>. QED  BY <1>6 DEF t

LEMMA MessageFitsGrown ==
    ASSUME NEW h \in Histories, NEW g \in Histories, Grows(h, g),
           NEW m \in Message, m.type = "appendentries", MessageFits(h, m)
    PROVE  MessageFits(g, m)
  <1>. DEFINE p == m.prev_log_idx
  <1>. SUFFICES ASSUME NEW k \in DOMAIN m.entries
                PROVE  LET l == g[m.entries[k].term] IN
                       /\ p + k <= Len(l)
                       /\ \A j \in 1 .. k : m.entries[j] = l[p + j]
                       /\ 0 < p => l[p].term = m.prev_log_term
    BY DEF MessageFits
  <1>. DEFINE t == m.entries[k].term
  <1>0. m.entries \in Seq(Entry) /\ p \in Nat
    BY MessageFields
  <1>1. t \in Nat /\ k \in Nat /\ 1 <= k
    BY <1>0, EntryAt
  <1>2. h[t] \in Seq(Entry) /\ g[t] \in Seq(Entry)
    BY <1>1 DEF Histories
  <1>3. Len(h[t]) \in Nat /\ Len(g[t]) \in Nat
    BY <1>2, EntryAt
  <1>4. /\ p + k <= Len(h[t])
        /\ \A j \in 1 .. k : m.entries[j] = h[t][p + j]
        /\ 0 < p => h[t][p].term = m.prev_log_term
    BY DEF MessageFits
  <1>5. Len(h[t]) <= Len(g[t]) /\ \A j \in 1 .. Len(h[t]) : h[t][j] = g[t][j]
    BY <1>1 DEF Grows
  <1>. HIDE DEF t, p
  <1>6. /\ p + k <= Len(g[t])
        /\ 0 < p => g[t][p].term = m.prev_log_term
    <2>1. 0 < p => p \in 1 .. Len(h[t])
      BY <1>0, <1>1, <1>3, <1>4
    <2>2. 0 < p => h[t][p] = g[t][p]
      BY <1>5, <2>1
    <2>3. p + k <= Len(g[t])
      BY <1>0, <1>1, <1>3, <1>4, <1>5
    <2>. QED  BY <1>4, <2>2, <2>3
  <1>7. ASSUME NEW j \in 1 .. k PROVE m.entries[j] = g[t][p + j]
    <2>1. p + j \in 1 .. Len(h[t])
      BY <1>0, <1>1, <1>3, <1>4
    <2>. QED  BY <1>4, <1>5, <2>1
  <1>. QED  BY <1>6, <1>7 DEF t, p

\* The beginning of a log fits if the log does.
LEMMA PrefixFits ==
    ASSUME NEW h \in Histories, NEW l \in Seq(Entry), LogFits(h, l), NEW n \in 0 .. Len(l)
    PROVE  LogFits(h, SubSeq(l, 1, n))
  <1>. DEFINE r == SubSeq(l, 1, n)
  <1>1. Len(l) \in Nat /\ DOMAIN l = 1 .. Len(l)
    BY EntryAt
  <1>2. \A i \in 1 .. n : l[i] \in Entry
    BY <1>1, EntryAt
  <1>3. /\ r \in Seq(Entry) /\ Len(r) = n
        /\ \A i \in 1 .. n : r[i] = l[i]
    BY <1>1, <1>2, SubSeqProperties
  <1>4. DOMAIN r = 1 .. n
    BY <1>3, EntryAt
  <1>. HIDE DEF r
  <1>. SUFFICES ASSUME NEW i \in 1 .. n
                PROVE  i <= Len(h[r[i].term]) /\ \A j \in 1 .. i : r[j] = h[r[i].term][j]
    BY <1>4 DEF LogFits, r
  <1>5. i \in DOMAIN l
    BY <1>1
  <1>6. i <= Len(h[l[i].term]) /\ \A j \in 1 .. i : l[j] = h[l[i].term][j]
    BY <1>5 DEF LogFits
  <1>. QED  BY <1>3, <1>6

\* What a leader sends is a piece of the history if its log is.
LEMMA SentFits ==
    ASSUME NEW h \in Histories, NEW l \in Seq(Entry), LogFits(h, l),
           NEW term, NEW commit, NEW next \in Nat \ {0}
    PROVE  MessageFits(h, AppendEntries(term, l, commit, next))
  <1>. DEFINE m == AppendEntries(term, l, commit, next)
  <1>1. Len(l) \in Nat /\ DOMAIN l = 1 .. Len(l) /\ \A i \in next .. Len(l) : l[i] \in Entry
    BY EntryAt
  <1>2. /\ m.prev_log_idx = next - 1
        /\ m.entries = SubSeq(l, next, Len(l))
        /\ next - 1 \in DOMAIN l => m.prev_log_term = l[next - 1].term
    BY DEF AppendEntries
  <1>. HIDE DEF m
  <1>3. /\ m.entries \in Seq(Entry)
        /\ Len(m.entries) = IF next <= Len(l) THEN Len(l) - next + 1 ELSE 0
        /\ \A k \in 1 .. Len(l) - next + 1 : m.entries[k] = l[next + k - 1]
    BY <1>1, <1>2, SubSeqProperties
  <1>4. ASSUME NEW k \in DOMAIN m.entries
        PROVE  LET g == h[m.entries[k].term] IN
               /\ m.prev_log_idx + k <= Len(g)
               /\ \A j \in 1 .. k : m.entries[j] = g[m.prev_log_idx + j]
               /\ 0 < m.prev_log_idx => g[m.prev_log_idx].term = m.prev_log_term
    <2>1. k \in 1 .. Len(l) - next + 1 /\ next - 1 + k \in 1 .. Len(l)
      BY <1>1, <1>3, EntryAt
    <2>2. m.entries[k] = l[next - 1 + k]
      <3>1. next + k - 1 = next - 1 + k
        BY <2>1
      <3>. QED  BY <1>3, <2>1, <3>1
    <2>. DEFINE t == m.entries[k].term
    <2>3. next - 1 + k <= Len(h[t]) /\ \A j \in 1 .. next - 1 + k : l[j] = h[t][j]
      BY <1>1, <2>1, <2>2 DEF LogFits
    <2>. HIDE DEF t
    <2>4. ASSUME NEW j \in 1 .. k PROVE m.entries[j] = h[t][next - 1 + j]
      <3>1. j \in 1 .. Len(l) - next + 1 /\ next - 1 + j \in 1 .. next - 1 + k
        BY <1>1, <2>1
      <3>2. next + j - 1 = next - 1 + j
        BY <3>1
      <3>. QED  BY <1>3, <2>3, <3>1, <3>2
    <2>5. 0 < next - 1 => h[t][next - 1].term = m.prev_log_term
      <3>1. 0 < next - 1 => next - 1 \in 1 .. Len(l) /\ next - 1 \in 1 .. next - 1 + k
        BY <1>1, <2>1
      <3>. QED  BY <1>1, <1>2, <2>3, <3>1
    <2>. QED  BY <1>2, <2>3, <2>4, <2>5 DEF t
  <1>. QED  BY <1>4 DEF MessageFits, m

\* Two histories that hold an entry of the same term at n, one of them that term's own, are
\* equal up to n.
LEMMA SameUpTo ==
    ASSUME NEW h \in Histories, \A t \in Nat : LogFits(h, h[t]),
           NEW t \in Nat, NEW n \in 1 .. Len(h[t]), NEW l \in Seq(Entry), LogFits(h, l),
           n <= Len(l), l[n].term = h[t][n].term
    PROVE  \A j \in 1 .. n : l[j] = h[t][j]
  <1>1. h[t] \in Seq(Entry)
    BY DEF Histories
  <1>2. Len(h[t]) \in Nat /\ DOMAIN h[t] = 1 .. Len(h[t]) /\ Len(l) \in Nat /\ DOMAIN l = 1 .. Len(l)
    BY <1>1, EntryAt
  <1>3. n \in DOMAIN l /\ n \in DOMAIN h[t]
    BY <1>2
  <1>4. \A j \in 1 .. n : l[j] = h[l[n].term][j]
    BY <1>3 DEF LogFits
  <1>5. \A j \in 1 .. n : h[t][j] = h[h[t][n].term][j]
    <2>1. LogFits(h, h[t])
      OBVIOUS
    <2>. QED  BY <1>3, <2>1 DEF LogFits
  <1>. QED  BY <1>4, <1>5

\* The entries that raft_recv_appendentries keeps of a log are those the sender had there.
LEMMA KeptFits ==
    ASSUME NEW h \in Histories, \A t \in Nat : LogFits(h, h[t]),
           NEW l \in Seq(Entry), LogFits(h, l),
           NEW m \in Message, m.type = "appendentries", MessageFits(h, m),
           ~PrevMissing(l, m), ~PrevDiffers(l, m), Differs(l, m) # {},
           NEW k \in DOMAIN m.entries
    PROVE  \A j \in 1 .. KeptLen(l, m) :
              KeptLen(l, m) < m.prev_log_idx + k => l[j] = h[m.entries[k].term][j]
  <1>. DEFINE p == m.prev_log_idx
              kept == KeptLen(l, m)
              t == m.entries[k].term
              d == CHOOSE d \in Differs(l, m) : \A j \in Differs(l, m) : d <= j
  <1>0. /\ m.entries \in Seq(Entry) /\ p \in Nat /\ Len(m.entries) \in Nat
        /\ DOMAIN m.entries = 1 .. Len(m.entries) /\ t \in Nat
        /\ Len(l) \in Nat /\ DOMAIN l = 1 .. Len(l)
    BY MessageFields, EntryAt
  <1>1. kept \in p .. Len(l)
    BY KeptLenBounds
  <1>2. d \in Differs(l, m) /\ \A j \in Differs(l, m) : d <= j
    BY LeastDiffers, Zenon
  <1>3. d \in 1 .. Len(m.entries)
    BY <1>0, <1>2 DEF Differs
  <1>4. kept = p + d - 1
    BY DEF KeptLen
  <1>5. h[t] \in Seq(Entry) /\ Len(h[t]) \in Nat
    <2>1. h[t] \in Seq(Entry)
      BY <1>0 DEF Histories
    <2>. QED  BY <2>1, EntryAt
  <1>6. /\ p + k <= Len(h[t])
        /\ \A j \in 1 .. k : m.entries[j] = h[t][p + j]
        /\ 0 < p => h[t][p].term = m.prev_log_term
    BY DEF MessageFits
  <1>. SUFFICES ASSUME kept < p + k
                PROVE  \A j \in 1 .. kept : l[j] = h[t][j]
    OBVIOUS
  <1>. HIDE DEF p, kept, t, d
  <1>7. CASE kept = 0
    BY <1>7
  <1>8. CASE kept # 0 /\ kept = p
    <2>1. kept \in 1 .. Len(h[t]) /\ kept <= Len(l) /\ kept \in DOMAIN l
      BY <1>0, <1>1, <1>5, <1>6, <1>8
    <2>2. l[kept].term = m.prev_log_term
      BY <1>8, <2>1 DEF PrevDiffers, p
    <2>3. l[kept].term = h[t][kept].term
      BY <1>0, <1>1, <1>6, <1>8, <2>2
    <2>. QED  BY <1>0, <2>1, <2>3, SameUpTo
  <1>9. CASE kept # 0 /\ kept # p
    <2>. DEFINE e == d - 1
    <2>1. e \in 1 .. Len(m.entries) /\ e \in 1 .. k /\ kept = p + e
      BY <1>0, <1>1, <1>3, <1>4, <1>9
    <2>2. kept \in 1 .. Len(h[t]) /\ kept <= Len(l)
      BY <1>0, <1>1, <1>5, <1>6, <1>9
    <2>3. e \notin Differs(l, m)
      BY <1>2, <1>3, <2>1
    <2>4. l[kept].term = m.entries[e].term
      <3>1. ~(p + e > Len(l) \/ l[p + e].term # m.entries[e].term)
        BY <1>0, <2>1, <2>3 DEF Differs, p
      <3>. QED  BY <2>1, <3>1
    <2>5. m.entries[e] = h[t][kept]
      BY <1>6, <2>1
    <2>6. l[kept].term = h[t][kept].term
      BY <2>4, <2>5
    <2>. HIDE DEF e
    <2>. QED  BY <1>0, <2>2, <2>6, SameUpTo
  <1>. QED  BY <1>1, <1>7, <1>8, <1>9

\* The log that raft_recv_appendentries leaves: what it keeps, and the entries it appends.
LEMMA MergedEntries ==
    ASSUME NEW l \in Seq(Entry), NEW m \in Message, m.type = "appendentries", ~PrevMissing(l, m)
    PROVE  /\ Merged(l, m) \in Seq(Entry) /\ KeptLen(l, m) <= Len(Merged(l, m))
           /\ \A j \in 1 .. KeptLen(l, m) : Merged(l, m)[j] = l[j]
           /\ Differs(l, m) = {} => Len(Merged(l, m)) = KeptLen(l, m)
           /\ Differs(l, m) # {} =>
                 /\ Len(Merged(l, m)) = m.prev_log_idx + Len(m.entries)
                 /\ \A j \in KeptLen(l, m) + 1 .. m.prev_log_idx + Len(m.entries) :
                       Merged(l, m)[j] = m.entries[j - m.prev_log_idx]
  <1>. DEFINE p == m.prev_log_idx
              kept == KeptLen(l, m)
              from == kept - p + 1
              r == Merged(l, m)
              a == SubSeq(l, 1, kept)
              b == SubSeq(m.entries, from, Len(m.entries))
  <1>0. /\ m.entries \in Seq(Entry) /\ p \in Nat /\ Len(m.entries) \in Nat
        /\ DOMAIN m.entries = 1 .. Len(m.entries)
        /\ \A i \in 1 .. Len(m.entries) : m.entries[i] \in Entry
        /\ Len(l) \in Nat /\ DOMAIN l = 1 .. Len(l)
        /\ \A i \in 1 .. Len(l) : l[i] \in Entry
    BY MessageFields, EntryAt
  <1>1. /\ kept \in p .. Len(l)
        /\ Differs(l, m) # {} => from \in 1 .. Len(m.entries)
    BY <1>0, KeptLenBounds
  <1>2. a \in Seq(Entry) /\ Len(a) = kept /\ \A j \in 1 .. kept : a[j] = l[j]
    <2>1. kept \in 0 .. Len(l)
      BY <1>0, <1>1
    <2>2. \A i \in 1 .. kept : l[i] \in Entry
      BY <1>0, <1>1
    <2>. HIDE DEF kept
    <2>. QED  BY <2>1, <2>2, PrefixType, SubSeqProperties
  <1>3. CASE Differs(l, m) = {}
    <2>1. r = a
      BY <1>3 DEF Merged
    <2>. HIDE DEF a, r, kept
    <2>. QED  BY <1>0, <1>1, <1>2, <1>3, <2>1 DEF r, kept
  <1>4. CASE Differs(l, m) # {}
    <2>0. r = a \o b
      BY <1>4 DEF Merged
    <2>. HIDE DEF kept, p, r
    <2>1. \A i \in from .. Len(m.entries) : m.entries[i] \in Entry
      BY <1>0, <1>1, <1>4
    <2>2. /\ b \in Seq(Entry) /\ Len(b) = Len(m.entries) - from + 1
          /\ \A i \in 1 .. Len(m.entries) - from + 1 : b[i] = m.entries[from + i - 1]
      BY <1>0, <1>1, <1>4, <2>1, SubSeqProperties
    <2>3. /\ r \in Seq(Entry) /\ Len(r) = p + Len(m.entries) /\ DOMAIN r = 1 .. p + Len(m.entries)
          /\ \A j \in 1 .. kept : r[j] = l[j]
          /\ \A j \in kept + 1 .. p + Len(m.entries) : r[j] = m.entries[j - p]
      <3>. HIDE DEF a, b
      <3>1. /\ a \o b \in Seq(Entry) /\ Len(a \o b) = kept + Len(b)
            /\ \A i \in 1 .. kept + Len(b) :
                  (a \o b)[i] = IF i <= kept THEN a[i] ELSE b[i - kept]
        BY <1>2, <2>2, ConcatProperties
      <3>2. kept + Len(b) = p + Len(m.entries)
        BY <1>0, <1>1, <1>4, <2>2
      <3>3. \A j \in 1 .. kept : r[j] = l[j]
        BY <1>0, <1>1, <1>2, <1>4, <2>0, <3>1, <3>2
      <3>4. ASSUME NEW j \in kept + 1 .. p + Len(m.entries) PROVE r[j] = m.entries[j - p]
        <4>1. r[j] = b[j - kept]
          BY <1>0, <1>1, <1>4, <2>0, <3>1, <3>2
        <4>2. j - kept \in 1 .. Len(m.entries) - from + 1 /\ from + (j - kept) - 1 = j - p
          <5>1. kept \in Nat /\ j \in Nat /\ kept + 1 <= j /\ j <= p + Len(m.entries)
            BY <1>0, <1>1
          <5>. QED  BY <1>0, <5>1
        <4>. QED  BY <2>2, <4>1, <4>2
      <3>5. DOMAIN r = 1 .. p + Len(m.entries)
        BY <2>0, <3>1, <3>2, EntryAt
      <3>. QED  BY <2>0, <3>1, <3>2, <3>3, <3>4, <3>5
    <2>. QED  BY <1>0, <1>1, <1>4, <2>3 DEF r, kept, p
  <1>. QED  BY <1>3, <1>4

\* The log that raft_recv_appendentries leaves fits, and so does what a crash leaves of it.
LEMMA MergedFits ==
    ASSUME NEW h \in Histories, \A t \in Nat : LogFits(h, h[t]),
           NEW l \in Seq(Entry), LogFits(h, l),
           NEW m \in Message, m.type = "appendentries", MessageFits(h, m),
           ~PrevMissing(l, m), ~PrevDiffers(l, m)
    PROVE  LogFits(h, Merged(l, m))
  <1>. DEFINE p == m.prev_log_idx
              kept == KeptLen(l, m)
              r == Merged(l, m)
              a == SubSeq(l, 1, kept)
  <1>0. /\ m.entries \in Seq(Entry) /\ p \in Nat /\ Len(m.entries) \in Nat
        /\ DOMAIN m.entries = 1 .. Len(m.entries)
        /\ \A i \in 1 .. Len(m.entries) : m.entries[i] \in Entry
        /\ Len(l) \in Nat /\ DOMAIN l = 1 .. Len(l)
        /\ \A i \in 1 .. Len(l) : l[i] \in Entry
    BY MessageFields, EntryAt
  <1>1. kept \in p .. Len(l)
    BY <1>0, KeptLenBounds
  <1>2. LogFits(h, a) /\ a \in Seq(Entry) /\ Len(a) = kept /\ \A j \in 1 .. kept : a[j] = l[j]
    <2>1. kept \in 0 .. Len(l)
      BY <1>0, <1>1
    <2>2. \A i \in 1 .. kept : l[i] \in Entry
      BY <1>0, <1>1
    <2>. HIDE DEF kept
    <2>. QED  BY <2>1, <2>2, PrefixFits, PrefixType, SubSeqProperties
  <1>3. CASE Differs(l, m) = {}
    BY <1>2, <1>3 DEF Merged
  <1>4. CASE Differs(l, m) # {}
    <2>. HIDE DEF kept, p, r
    <2>3. /\ r \in Seq(Entry) /\ Len(r) = p + Len(m.entries) /\ DOMAIN r = 1 .. p + Len(m.entries)
          /\ \A j \in 1 .. kept : r[j] = l[j]
          /\ \A j \in kept + 1 .. p + Len(m.entries) : r[j] = m.entries[j - p]
      BY <1>4, MergedEntries, EntryAt DEF kept, p, r
    <2>. SUFFICES ASSUME NEW i \in DOMAIN r
                  PROVE  i <= Len(h[r[i].term]) /\ \A j \in 1 .. i : r[j] = h[r[i].term][j]
      BY DEF LogFits, r
    <2>4. CASE i <= kept
      <3>1. i \in DOMAIN a
        BY <1>0, <1>1, <1>2, <2>3, <2>4, EntryAt
      <3>2. i <= Len(h[a[i].term]) /\ \A j \in 1 .. i : a[j] = h[a[i].term][j]
        BY <1>2, <3>1 DEF LogFits
      <3>. HIDE DEF a
      <3>3. i \in 1 .. kept /\ \A j \in 1 .. i : j \in 1 .. kept
        BY <1>0, <1>1, <2>3, <2>4
      <3>. QED  BY <1>2, <2>3, <3>2, <3>3
    <2>5. CASE ~(i <= kept)
      <3>. DEFINE k == i - p
                  t == m.entries[k].term
      <3>1. k \in DOMAIN m.entries /\ i \in kept + 1 .. p + Len(m.entries) /\ kept < p + k /\ i = p + k
        BY <1>0, <1>1, <2>3, <2>5
      <3>2. r[i] = m.entries[k]
        BY <2>3, <3>1
      <3>3. /\ p + k <= Len(h[t])
            /\ \A j \in 1 .. k : m.entries[j] = h[t][p + j]
        BY <3>1 DEF MessageFits, p
      <3>4. \A j \in 1 .. kept : l[j] = h[t][j]
        BY <1>4, <3>1, KeptFits DEF kept, p
      <3>. HIDE DEF t
      <3>5. ASSUME NEW j \in 1 .. i PROVE r[j] = h[t][j]
        <4>1. CASE j <= kept
          BY <1>0, <1>1, <2>3, <3>4, <4>1
        <4>2. CASE ~(j <= kept)
          <5>1. j \in kept + 1 .. p + Len(m.entries) /\ j - p \in 1 .. k /\ p + (j - p) = j
            BY <1>0, <1>1, <2>3, <3>1, <4>2
          <5>. HIDE DEF k
          <5>. QED  BY <2>3, <3>3, <5>1
        <4>. QED  BY <4>1, <4>2
      <3>. QED  BY <3>1, <3>2, <3>3, <3>5 DEF t
    <2>. QED  BY <2>4, <2>5
  <1>. QED  BY <1>3, <1>4

-----------------------------------------------------------------------------
(* Steps. *)

\* What is under way after the step was before, or s has sent it and it fits.
SentOnly(h, s) ==
    \A x, y \in Server : \A m \in InFlight(net', x, y) :
        \/ m \in InFlight(net, x, y)
        \/ /\ x = s /\ y # s
           /\ m.type = "appendentries" =>
              [term |-> m.term, leader |-> s] \in elected' /\ MessageFits(h, m)

LEMMA SendFits ==
    ASSUME NEW h, NEW n \in Network, NEW s \in Server, NEW D \in SUBSET Peers(s),
           NEW out \in [D -> Message],
           \A q \in D : out[q].type = "appendentries" =>
              [term |-> out[q].term, leader |-> s] \in elected' /\ MessageFits(h, out[q]),
           \A x, y \in Server : InFlight(n, x, y) \subseteq InFlight(net, x, y),
           net' = Send(n, s, out)
    PROVE  SentOnly(h, s)
  <1>1. D \in SUBSET Server /\ s \notin D
    BY DEF Peers
  <1>2. \A x, y \in Server :
           InFlight(net', x, y) \subseteq
              InFlight(n, x, y) \cup {out[q] : q \in {q \in D : x = s /\ q = y}}
    BY <1>1, SendProperties
  <1>. SUFFICES ASSUME NEW x \in Server, NEW y \in Server, NEW m \in InFlight(net', x, y),
                       m \notin InFlight(net, x, y)
                PROVE  /\ x = s /\ y # s
                       /\ m.type = "appendentries" =>
                             [term |-> m.term, leader |-> s] \in elected' /\ MessageFits(h, m)
    BY DEF SentOnly
  <1>3. x = s /\ y \in D /\ m = out[y]
    BY <1>2
  <1>. QED  BY <1>1, <1>3

LEMMA SendOneFits ==
    ASSUME NEW h, NEW n \in Network, NEW s \in Server, NEW p \in Peers(s), NEW m \in Message,
           m.type = "appendentries" =>
              [term |-> m.term, leader |-> s] \in elected' /\ MessageFits(h, m),
           \A x, y \in Server : InFlight(n, x, y) \subseteq InFlight(net, x, y),
           net' = SendTo(n, s, p, m)
    PROVE  SentOnly(h, s)
  <1>1. p \in Server /\ p # s
    BY DEF Peers
  <1>2. \A x, y \in Server : InFlight(net', x, y)
                    \subseteq InFlight(n, x, y) \cup (IF x = s /\ y = p THEN {m} ELSE {})
    BY <1>1, SendOne
  <1>. QED  BY <1>1, <1>2 DEF SentOnly

\* A step of s after which g is the history, if it was h before.
LEMMA HistoryGrows ==
    ASSUME TypeOK, TypeOK', NEW h \in Histories, History(h), NEW g \in Histories, Grows(h, g),
           NEW s \in Server, elected \subseteq elected',
           \A t \in Nat : LogFits(g, g[t]),
           \A t \in Nat : g[t] # << >> => \E x \in Server : IsElected(t, x)',
           \A x \in Server \ {s} :
              /\ log'[x] = log[x] /\ current_term'[x] = current_term[x]
              /\ IsElected(current_term[x], x)' =>
                    IsElected(current_term[x], x) /\ g[current_term[x]] = h[current_term[x]],
           LogFits(g, log'[s]),
           IsElected(current_term[s], s)' => log'[s] = g[current_term'[s]],
           SentOnly(g, s)
    PROVE  History(g)'
  <1>1. \A x \in Server : LogFits(g, log'[x])
    <2>1. \A x \in Server : log[x] \in Seq(Entry) /\ LogFits(h, log[x])
      BY DEF TypeOK, History
    <2>2. \A x \in Server : LogFits(g, log[x])
      BY <2>1, LogFitsGrown
    <2>. QED  BY <2>2
  <1>2. \A x \in Server : IsElected(current_term[x], x)' => log'[x] = g[current_term'[x]]
    <2>. SUFFICES ASSUME NEW x \in Server \ {s}, IsElected(current_term[x], x)'
                  PROVE  log'[x] = g[current_term'[x]]
      OBVIOUS
    <2>1. /\ log'[x] = log[x] /\ current_term'[x] = current_term[x]
          /\ IsElected(current_term[x], x) /\ g[current_term[x]] = h[current_term[x]]
      OBVIOUS
    <2>2. log[x] = h[current_term[x]]
      BY <2>1 DEF History
    <2>. QED  BY <2>1, <2>2
  <1>3. ASSUME NEW p \in Server, NEW q \in Server, NEW m \in InFlight(net', p, q)
        PROVE  p # q /\ (m.type = "appendentries" => IsElected(m.term, p)' /\ MessageFits(g, m))
    <2>1. CASE m \in InFlight(net, p, q)
      <3>1. /\ p # q
            /\ m.type = "appendentries" => IsElected(m.term, p) /\ MessageFits(h, m)
        BY <2>1 DEF History
      <3>2. m \in Message
        <4>1. net[p][q] \in Seq(Message)
          BY DEF TypeOK
        <4>. QED  BY <2>1, <4>1 DEF InFlight
      <3>3. m.type = "appendentries" => MessageFits(g, m)
        BY <3>1, <3>2, MessageFitsGrown
      <3>. QED  BY <3>1, <3>3 DEF IsElected
    <2>2. CASE m \notin InFlight(net, p, q)
      BY <2>2 DEF SentOnly, IsElected
    <2>. QED  BY <2>1, <2>2
  <1>. QED  BY <1>1, <1>2, <1>3 DEF History

\* The history goes on from h: it stays, or it grows by what a leader has written.
GoesOn(h) ==
    /\ LeadsElected'
    /\ \E g \in Histories :
          /\ History(g)'
          /\ \A t \in Nat :
                \/ g[t] = h[t]
                \/ \E x \in Server : IsElected(t, x)' /\ current_term'[x] = t /\ g[t] = log'[x]

\* A step that writes no entry of its own: the log of s may have changed, but then s is not
\* the leader of its new term.
Quiet(s) ==
    /\ UNCHANGED elected
    /\ \A x \in Server \ {s} :
          log'[x] = log[x] /\ current_term'[x] = current_term[x] /\ state'[x] = state[x]
    /\ \/ /\ current_term'[s] = current_term[s]
          /\ state'[s] = "leader" => state[s] = "leader"
       \/ current_term[s] < current_term'[s] /\ state'[s] # "leader"

LEMMA QuietStep ==
    ASSUME TypeOK, TypeOK', ElectionInv, LeadsElected, NEW h \in Histories, History(h),
           NEW s \in Server, Quiet(s), LogFits(h, log'[s]),
           log'[s] = log[s] \/ ~IsElected(current_term'[s], s), SentOnly(h, s)
    PROVE  GoesOn(h)
  <1>1. current_term[s] < current_term'[s] => ~IsElected(current_term'[s], s)
    <2>. SUFFICES ASSUME current_term[s] < current_term'[s], IsElected(current_term'[s], s)
                  PROVE  FALSE
      OBVIOUS
    <2>1. current_term'[s] <= current_term[s]
      BY DEF ElectionInv, LeadersElected, IsElected
    <2>2. current_term[s] \in Nat /\ current_term'[s] \in Nat
      BY DEF TypeOK
    <2>. QED  BY <2>1, <2>2
  <1>2. IsElected(current_term[s], s)' => log'[s] = h[current_term'[s]]
    <2>. SUFFICES ASSUME IsElected(current_term'[s], s) PROVE log'[s] = h[current_term'[s]]
      BY DEF IsElected, Quiet
    <2>. QED  BY <1>1 DEF Quiet, History
  <1>3. Grows(h, h)
    <2>1. \A t \in Nat : Len(h[t]) \in Nat
      BY EntryAt DEF Histories
    <2>. QED  BY <2>1 DEF Grows
  <1>4. History(h)'
    <2>1. /\ elected \subseteq elected'
          /\ \A t \in Nat : LogFits(h, h[t])
          /\ \A t \in Nat : h[t] # << >> => \E x \in Server : IsElected(t, x)'
      BY DEF Quiet, History, IsElected
    <2>2. \A x \in Server \ {s} :
              /\ log'[x] = log[x] /\ current_term'[x] = current_term[x]
              /\ IsElected(current_term[x], x)' =>
                    IsElected(current_term[x], x) /\ h[current_term[x]] = h[current_term[x]]
      BY DEF Quiet, IsElected
    <2>. QED  BY <1>2, <1>3, <2>1, <2>2, HistoryGrows
  <1>5. LeadsElected'
    BY DEF LeadsElected, Quiet, IsElected
  <1>. QED  BY <1>4, <1>5 DEF GoesOn

\* A step in which s, the only server elected in its term, goes on writing: it has won the
\* election, or appended an entry.
LEMMA WritingStep ==
    ASSUME TypeOK, TypeOK', ElectionSafety', NEW h \in Histories, History(h), LeadsElected,
           NEW s \in Server, UNCHANGED current_term, elected \subseteq elected',
           elected' \subseteq elected \cup {[term |-> current_term[s], leader |-> s]},
           IsElected(current_term[s], s)',
           \A x \in Server \ {s} : log'[x] = log[x] /\ state'[x] = state[x],
           NEW g \in Histories, g = [h EXCEPT ![current_term[s]] = log'[s]],
           LogFits(g, log'[s]), Grows(h, g), SentOnly(g, s)
    PROVE  GoesOn(h)
  <1>. DEFINE T == current_term[s]
  <1>1. T \in Nat /\ T' = T
    BY DEF TypeOK
  <1>2. g[T] = log'[s] /\ \A t \in Nat : t # T => g[t] = h[t]
    BY <1>1 DEF Histories
  <1>4. \A t \in Nat : LogFits(g, g[t])
    <2>1. \A t \in Nat : h[t] \in Seq(Entry) /\ LogFits(h, h[t])
      BY DEF Histories, History
    <2>2. \A t \in Nat : LogFits(g, h[t])
      BY <2>1, LogFitsGrown
    <2>3. LogFits(g, g[T])
      BY <1>2
    <2>. QED  BY <1>2, <2>2, <2>3
  <1>5. \A t \in Nat : g[t] # << >> => \E x \in Server : IsElected(t, x)'
    <2>1. \A t \in Nat : h[t] # << >> => \E x \in Server : IsElected(t, x)'
      BY DEF History, IsElected
    <2>. QED  BY <1>1, <1>2, <2>1
  <1>6. ASSUME NEW x \in Server \ {s}
        PROVE  /\ log'[x] = log[x] /\ current_term'[x] = current_term[x]
               /\ IsElected(current_term[x], x)' =>
                    IsElected(current_term[x], x) /\ g[current_term[x]] = h[current_term[x]]
    <2>. SUFFICES ASSUME IsElected(current_term[x], x)'
                  PROVE  IsElected(current_term[x], x) /\ g[current_term[x]] = h[current_term[x]]
      OBVIOUS
    <2>1. current_term[x] # T
      BY DEF ElectionSafety, IsElected
    <2>2. current_term[x] \in Nat
      BY DEF TypeOK
    <2>. QED  BY <1>2, <2>1, <2>2 DEF IsElected
  <1>7. log'[s] = g[current_term'[s]]
    BY <1>2
  <1>8. History(g)'
    BY <1>4, <1>5, <1>6, <1>7, HistoryGrows
  <1>9. LeadsElected'
    BY DEF LeadsElected, IsElected
  <1>10. \A t \in Nat : \/ g[t] = h[t]
                        \/ \E x \in Server : IsElected(t, x)' /\ current_term'[x] = t /\ g[t] = log'[x]
    BY <1>1, <1>2
  <1>. QED  BY <1>8, <1>9, <1>10 DEF GoesOn

\* raft_become_leader
LEMMA LogWon ==
    ASSUME TypeOK, TypeOK', ElectionInv, ElectionSafety', LeadsElected,
           NEW h \in Histories, History(h),
           NEW s \in Server, NEW p \in Server, NEW i \in DOMAIN net[p][s], RecvVote(s, p, i),
           IsMajority(NVotesForMe(s, votes_for_me[s] \cup {p}))
    PROVE  GoesOn(h)
  <1>. DEFINE n == Take(net, p, s, i)
              T == current_term[s]
              D == Peers(s) \cap Voters
              ae == AppendEntries(current_term[s], log[s], commit_idx[s], Len(log[s]) + 1)
              out == [q \in D |-> ae]
  <1>1. History(h)
    OBVIOUS
  <1>2. /\ UNCHANGED <<current_term, log>>
        /\ state[s] = "candidate"
        /\ state' = [state EXCEPT ![s] = "leader"]
        /\ elected' = elected \cup {[term |-> T, leader |-> s]}
        /\ net' = Send(n, s, out)
    BY DEF RecvVote, BecomeLeader
  <1>3. T \in Nat /\ log[s] \in Seq(Entry) /\ Len(log[s]) \in Nat /\ commit_idx[s] \in Nat
    BY EntryAt DEF TypeOK
  <1>4. h[T] = << >>
    <2>. SUFFICES ASSUME h[T] # << >> PROVE FALSE
      OBVIOUS
    <2>1. PICK x \in Server : IsElected(T, x)
      BY <1>1, <1>3 DEF History
    <2>2. [term |-> T, leader |-> x] \in elected' /\ [term |-> T, leader |-> s] \in elected'
      BY <1>2, <2>1 DEF IsElected
    <2>3. x = s
      BY <2>2 DEF ElectionSafety
    <2>. QED  BY <1>2, <2>1, <2>3 DEF ElectionInv, LeadersElected, IsElected
  <1>0. PICK g \in Histories : g = [h EXCEPT ![T] = log[s]]
    BY <1>3 DEF Histories
  <1>5. g[T] = log[s] /\ \A t \in Nat : t # T => g[t] = h[t]
    BY <1>0, <1>3 DEF Histories
  <1>6. Len(h[T]) = 0
    BY <1>4, EmptySeq
  <1>7. Grows(h, g)
    <2>1. \A t \in Nat : Len(h[t]) \in Nat
      BY EntryAt DEF Histories
    <2>. HIDE DEF T
    <2>. QED  BY <1>3, <1>5, <1>6, <2>1 DEF Grows
  <1>8. LogFits(g, log[s])
    <2>1. LogFits(h, log[s])
      BY <1>1 DEF History
    <2>. QED  BY <1>3, <1>7, <2>1, LogFitsGrown
  <1>9. ae \in Message /\ ae.term = T /\ MessageFits(g, ae)
    <2>1. Len(log[s]) + 1 \in Nat \ {0}
      BY <1>3
    <2>2. ae \in Message
      BY <1>3, <2>1, AppendEntriesType
    <2>3. MessageFits(g, ae)
      BY <1>3, <1>8, <2>1, SentFits
    <2>. QED  BY <2>2, <2>3 DEF AppendEntries
  <1>10. /\ out \in [D -> Message] /\ D \in SUBSET Peers(s)
         /\ \A q \in D : out[q] = ae
    BY <1>9
  <1>11. IsElected(T, s)'
    BY <1>2 DEF IsElected
  <1>12. SentOnly(g, s)
    <2>1. net \in Network /\ n \in Network
          /\ \A x, y \in Server : InFlight(n, x, y) \subseteq InFlight(net, x, y)
      <3>1. net \in Network
        BY DEF TypeOK, Network
      <3>. QED  BY <3>1, TakeProperties
    <2>2. \A q \in D : out[q].term = T /\ MessageFits(g, out[q])
      BY <1>9, <1>10
    <2>3. \A q \in D : [term |-> out[q].term, leader |-> s] \in elected'
      BY <1>2, <2>2
    <2>. HIDE DEF out, D, n
    <2>. QED  BY <1>2, <1>10, <2>1, <2>2, <2>3, SendFits
  <1>13. \A x \in Server \ {s} : log'[x] = log[x] /\ state'[x] = state[x]
    BY <1>2 DEF TypeOK
  <1>14. g = [h EXCEPT ![current_term[s]] = log'[s]] /\ LogFits(g, log'[s])
    BY <1>0, <1>2, <1>8
  <1>. QED  BY <1>1, <1>2, <1>7, <1>11, <1>12, <1>13, <1>14, WritingStep

\* The steps of s that send nothing but appendentries built from its log, if anything, and in
\* which it neither takes up a later term nor changes its log.
LEMMA LogSends ==
    ASSUME TypeOK, TypeOK', ElectionInv, LeadsElected,
           NEW h \in Histories, History(h), NEW s \in Server,
           UNCHANGED <<current_term, state, log, elected>>, state[s] = "leader",
           NEW n \in Network,
           \A x, y \in Server : InFlight(n, x, y) \subseteq InFlight(net, x, y),
           NEW D \in SUBSET Peers(s), NEW out \in [D -> Message],
           \A q \in D : \E commit \in Nat, next \in Nat \ {0} :
              out[q] = AppendEntries(current_term[s], log[s], commit, next),
           net' = Send(n, s, out)
    PROVE  GoesOn(h)
  <1>1. History(h)
    OBVIOUS
  <1>2. LogFits(h, log[s]) /\ log[s] \in Seq(Entry) /\ current_term[s] \in Nat
    BY <1>1 DEF History, TypeOK
  <1>3. ASSUME NEW q \in D
        PROVE  out[q].term = current_term[s] /\ MessageFits(h, out[q])
    <2>1. PICK commit \in Nat, next \in Nat \ {0} :
             out[q] = AppendEntries(current_term[s], log[s], commit, next)
      OBVIOUS
    <2>2. MessageFits(h, out[q])
      BY <1>2, <2>1, SentFits
    <2>. QED  BY <2>1, <2>2 DEF AppendEntries
  <1>5. \A q \in D : [term |-> out[q].term, leader |-> s] \in elected'
    BY <1>3 DEF LeadsElected, IsElected
  <1>7. SentOnly(h, s)
    BY <1>3, <1>5, SendFits
  <1>8. Quiet(s)
    BY DEF Quiet
  <1>. QED  BY <1>1, <1>2, <1>7, <1>8, QuietStep

\* Steps of s that send no appendentries and leave its log.
LEMMA LogQuiet ==
    ASSUME TypeOK, TypeOK', ElectionInv, LeadsElected,
           NEW h \in Histories, History(h), NEW s \in Server, Quiet(s), log' = log,
           \A k \in Histories : SentOnly(k, s)
    PROVE  GoesOn(h)
  <1>1. History(h)
    OBVIOUS
  <1>2. LogFits(h, log'[s])
    BY <1>1 DEF History
  <1>. QED  BY <1>1, <1>2, QuietStep

LEMMA LogOwnSteps ==
    ASSUME TypeOK, TypeOK', ElectionInv, ElectionSafety', LeadsElected,
           NEW h \in Histories, History(h), NEW s \in Server,
           \/ PeriodicIdle(s) \/ PeriodicHeartbeat(s) \/ PeriodicElection(s)
           \/ Restart(s) \/ CrashInElection(s)
           \/ \E id \in Ids : RecvEntry(s, id)
    PROVE  GoesOn(h)
  <1>. USE ConstantsAssumption
  <1>1. /\ net \in Network /\ log[s] \in Seq(Entry) /\ Len(log[s]) \in Nat
        /\ DOMAIN log[s] = 1 .. Len(log[s])
        /\ current_term[s] \in Nat /\ commit_idx[s] \in Nat
        /\ \A q \in Server : next_idx[s][q] \in Nat \ {0}
    BY EntryAt DEF TypeOK, Network
  <1>2. CASE PeriodicIdle(s)
    BY <1>2, LogQuiet DEF PeriodicIdle, Quiet, SentOnly
  <1>3. CASE PeriodicHeartbeat(s)
    <2>. DEFINE D == Peers(s)
                out == [q \in D |->
                   AppendEntries(current_term[s], log[s], commit_idx[s], next_idx[s][q])]
    <2>1. /\ UNCHANGED <<current_term, state, log, elected>> /\ state[s] = "leader"
          /\ net' = Send(net, s, out)
      BY <1>3 DEF PeriodicHeartbeat
    <2>2. \A q \in D : /\ next_idx[s][q] \in Nat \ {0}
                      /\ out[q] = AppendEntries(current_term[s], log[s], commit_idx[s], next_idx[s][q])
      BY <1>1 DEF Peers
    <2>3. out \in [D -> Message]
      <3>1. \A q \in D :
               AppendEntries(current_term[s], log[s], commit_idx[s], next_idx[s][q]) \in Message
        BY <1>1, <2>2, AppendEntriesType
      <3>. QED  BY <3>1
    <2>. HIDE DEF out
    <2>4. \A q \in D : \E commit \in Nat, next \in Nat \ {0} :
              out[q] = AppendEntries(current_term[s], log[s], commit, next)
      BY <1>1, <2>2
    <2>5. D \in SUBSET Peers(s)
      OBVIOUS
    <2>. HIDE DEF D
    <2>. QED  BY <1>1, <2>1, <2>3, <2>4, <2>5, LogSends
  <1>4. CASE PeriodicElection(s)
    <2>. DEFINE D == Peers(s) \cap Voters
                rv == RequestVote(current_term[s] + 1, log[s])
                out == [q \in D |-> rv]
    <2>1. /\ current_term' = [current_term EXCEPT ![s] = @ + 1]
          /\ state' = [state EXCEPT ![s] = "candidate"]
          /\ UNCHANGED <<log, elected>>
          /\ net' = Send(net, s, out)
      BY <1>4 DEF PeriodicElection
    <2>2. rv \in Message /\ rv.type # "appendentries"
      BY <1>1, RequestVoteType DEF RequestVote
    <2>3. Quiet(s)
      BY <1>1, <2>1 DEF Quiet, TypeOK
    <2>4. /\ out \in [D -> Message] /\ D \in SUBSET Peers(s)
          /\ \A q \in D : out[q].type # "appendentries"
      BY <2>2
    <2>. HIDE DEF out, D
    <2>5. ASSUME NEW k \in Histories PROVE SentOnly(k, s)
      <3>1. \A x, y \in Server : InFlight(net, x, y) \subseteq InFlight(net, x, y)
        OBVIOUS
      <3>2. \A q \in D : out[q].type = "appendentries" =>
               [term |-> out[q].term, leader |-> s] \in elected' /\ MessageFits(k, out[q])
        BY <2>4
      <3>3. out \in [D -> Message] /\ D \in SUBSET Peers(s) /\ net' = Send(net, s, out)
        BY <2>1, <2>4
      <3>. QED  BY <1>1, <3>1, <3>2, <3>3, SendFits
    <2>. QED  BY <2>1, <2>3, <2>5, LogQuiet
  <1>5. CASE Restart(s)
    <2>1. Quiet(s) /\ UNCHANGED <<log, net>>
      BY <1>5 DEF Restart, Reload, Quiet, TypeOK
    <2>. QED  BY <2>1, LogQuiet DEF SentOnly
  <1>6. CASE CrashInElection(s)
    <2>1. /\ UNCHANGED <<log, net, elected>>
          /\ current_term' = [current_term EXCEPT ![s] = @ + 1]
          /\ state' = [state EXCEPT ![s] = "follower"]
      BY <1>6 DEF CrashInElection, Reload
    <2>2. Quiet(s)
      BY <1>1, <2>1 DEF Quiet, TypeOK
    <2>. QED  BY <2>1, <2>2, LogQuiet DEF SentOnly
  <1>7. ASSUME NEW id \in Ids, RecvEntry(s, id) PROVE GoesOn(h)
    <2>. DEFINE T == current_term[s]
                e == [term |-> T, id |-> id]
                l == IF id = 0 THEN log[s] ELSE Append(log[s], e)
                D == {q \in Peers(s) \cap Voters : next_idx[s][q] = Len(l)}
                out == [q \in D |-> AppendEntries(T, l, commit_idx[s], next_idx[s][q])]
    <2>1. /\ state[s] = "leader"
          /\ log' = [log EXCEPT ![s] = l]
          /\ net' = Send(net, s, out)
          /\ UNCHANGED <<current_term, state, elected>>
      BY <1>7, Zenon DEF RecvEntry
    <2>2. IsElected(T, s)
      BY <2>1 DEF LeadsElected
    <2>3. History(h)
      OBVIOUS
    <2>4. log[s] = h[T] /\ LogFits(h, log[s])
      BY <2>2, <2>3 DEF History
    <2>5. /\ l \in Seq(Entry) /\ Len(log[s]) <= Len(l)
          /\ \A j \in 1 .. Len(log[s]) : l[j] = log[s][j]
          /\ id = 0 => l = log[s]
          /\ id # 0 => Len(l) = Len(log[s]) + 1 /\ l[Len(l)].term = T
      <3>1. CASE id = 0
        BY <1>1, <3>1
      <3>2. CASE id # 0
        <4>1. e \in Entry /\ e.term = T
          BY <1>1, <3>2 DEF Entry
        <4>. HIDE DEF e
        <4>2. /\ Append(log[s], e) \in Seq(Entry)
              /\ Len(Append(log[s], e)) = Len(log[s]) + 1
              /\ \A j \in 1 .. Len(log[s]) : Append(log[s], e)[j] = log[s][j]
              /\ Append(log[s], e)[Len(log[s]) + 1] = e
          BY <1>1, <4>1, AppendProperties
        <4>. QED  BY <1>1, <3>2, <4>1, <4>2
      <3>. QED  BY <3>1, <3>2
    <2>6. log'[s] = l /\ \A x \in Server \ {s} : log'[x] = log[x] /\ state'[x] = state[x]
      BY <2>1 DEF TypeOK
    <2>. HIDE DEF l
    <2>7. PICK g \in Histories : g = [h EXCEPT ![T] = l]
      BY <1>1, <2>5 DEF Histories
    <2>8. g[T] = l /\ \A t \in Nat : t # T => g[t] = h[t]
      BY <1>1, <2>7 DEF Histories
    <2>9. Grows(h, g)
      <3>1. \A t \in Nat : Len(h[t]) \in Nat
        BY EntryAt DEF Histories
      <3>2. ASSUME NEW t \in Nat
            PROVE  Len(h[t]) <= Len(g[t]) /\ \A j \in 1 .. Len(h[t]) : h[t][j] = g[t][j]
        <4>1. CASE t = T
          BY <2>4, <2>5, <2>8, <4>1
        <4>2. CASE t # T
          BY <2>8, <3>1, <4>2
        <4>. QED  BY <4>1, <4>2
      <3>. QED  BY <3>2 DEF Grows
    <2>10. LogFits(g, l)
      <3>. SUFFICES ASSUME NEW j \in DOMAIN l
                    PROVE  j <= Len(g[l[j].term]) /\ \A k \in 1 .. j : l[k] = g[l[j].term][k]
        BY DEF LogFits
      <3>1. LogFits(g, log[s])
        BY <1>1, <2>4, <2>9, LogFitsGrown
      <3>2. j \in 1 .. Len(l) /\ Len(l) \in Nat
        BY <2>5, EntryAt
      <3>3. CASE j \in DOMAIN log[s]
        <4>1. j <= Len(g[log[s][j].term]) /\ \A k \in 1 .. j : log[s][k] = g[log[s][j].term][k]
          BY <3>1, <3>3 DEF LogFits
        <4>2. \A k \in 1 .. j : k \in 1 .. Len(log[s])
          BY <1>1, <3>3
        <4>3. l[j] = log[s][j]
          BY <1>1, <2>5, <3>3
        <4>. QED  BY <2>5, <4>1, <4>2, <4>3
      <3>4. CASE j \notin DOMAIN log[s]
        <4>1. j = Len(l) /\ l[j].term = T
          BY <1>1, <2>5, <3>2, <3>4
        <4>. QED  BY <2>8, <3>2, <4>1
      <3>. QED  BY <3>3, <3>4
    <2>11. ASSUME NEW q \in D
           PROVE  out[q] \in Message /\ out[q].term = T /\ MessageFits(g, out[q])
      <3>1. out[q] = AppendEntries(T, l, commit_idx[s], next_idx[s][q])
        OBVIOUS
      <3>2. next_idx[s][q] \in Nat \ {0}
        BY <1>1 DEF Peers
      <3>. HIDE DEF out
      <3>3. out[q] \in Message /\ MessageFits(g, out[q])
        BY <1>1, <2>5, <2>10, <3>1, <3>2, AppendEntriesType, SentFits
      <3>. QED  BY <3>1, <3>3 DEF AppendEntries
    <2>12. out \in [D -> Message] /\ D \in SUBSET Peers(s)
      BY <2>11
    <2>13. \A q \in D : [term |-> out[q].term, leader |-> s] \in elected'
      BY <2>1, <2>2, <2>11 DEF IsElected
    <2>. HIDE DEF out, D
    <2>14. SentOnly(g, s)
      BY <1>1, <2>1, <2>11, <2>12, <2>13, SendFits
    <2>15. IsElected(current_term[s], s)' /\ elected' = elected /\ UNCHANGED current_term
      BY <2>1, <2>2 DEF IsElected
    <2>16. g = [h EXCEPT ![current_term[s]] = log'[s]] /\ LogFits(g, log'[s])
      BY <2>6, <2>7, <2>10
    <2>. QED  BY <2>3, <2>6, <2>9, <2>14, <2>15, <2>16, WritingStep
  <1>. QED  BY <1>2, <1>3, <1>4, <1>5, <1>6, <1>7

\* The actions of a server that takes the i-th message from p.
LEMMA LogReceive ==
    ASSUME TypeOK, TypeOK', ElectionInv, ElectionSafety, ElectionSafety', LeadsElected,
           NEW h \in Histories, History(h),
           NEW s \in Server, NEW p \in Server, NEW i \in DOMAIN net[p][s], Receive(s, p, i)
    PROVE  GoesOn(h)
  <1>. DEFINE m == net[p][s][i]
              n == Take(net, p, s, i)
  <1>. USE ConstantsAssumption
  <1>1. /\ m \in Message /\ m \in InFlight(net, p, s)
        /\ net \in Network /\ n \in Network
        /\ \A x, y \in Server : InFlight(n, x, y) \subseteq InFlight(net, x, y)
    <2>1. net \in Network
      BY DEF TypeOK, Network
    <2>. QED  BY <2>1, Delivered, TakeProperties
  <1>2. /\ log[s] \in Seq(Entry) /\ Len(log[s]) \in Nat /\ DOMAIN log[s] = 1 .. Len(log[s])
        /\ current_term[s] \in Nat /\ commit_idx[s] \in Nat /\ next_idx[s][p] \in Nat \ {0}
    BY EntryAt DEF TypeOK
  <1>3. m.term \in Nat /\ SeenTerm(s, m.term) \in Nat
    BY <1>1, <1>2, MessageFields DEF SeenTerm, MaxOf
  <1>4. History(h)
    OBVIOUS
  <1>5. /\ p # s
        /\ m.type = "appendentries" => IsElected(m.term, p) /\ MessageFits(h, m)
    BY <1>1, <1>4 DEF History
  <1>6. LogFits(h, log[s]) /\ \A t \in Nat : LogFits(h, h[t])
    BY <1>4 DEF History
  <1>. HIDE DEF m, n
  \* Whoever gets an appendentries that is not of an old term is not the leader of its term.
  <1>7. m.type = "appendentries" /\ m.term >= current_term[s] =>
          ~IsElected(SeenTerm(s, m.term), s) /\ SeenTerm(s, m.term) = m.term
    <2>. SUFFICES ASSUME m.type = "appendentries", m.term >= current_term[s]
                  PROVE  ~IsElected(m.term, s) /\ SeenTerm(s, m.term) = m.term
      OBVIOUS
    <2>1. SeenTerm(s, m.term) = m.term
      BY <1>2, <1>3 DEF SeenTerm, MaxOf
    <2>2. ~IsElected(m.term, s)
      BY <1>5 DEF ElectionSafety, IsElected
    <2>. QED  BY <2>1, <2>2
  <1>8. net' = n => \A g \in Histories : SentOnly(g, s)
    BY <1>1 DEF SentOnly
  <1>9. ASSUME NEW r \in Message, r.type # "appendentries", net' = SendTo(n, s, p, r)
        PROVE  \A g \in Histories : SentOnly(g, s)
    BY <1>1, <1>5, <1>9, SendOneFits DEF Peers
  \* The sender's term is taken up, and the state with it.
  <1>10. ASSUME FollowSender(s, m.term), m.term >= current_term[s], UNCHANGED elected,
                \A x \in Server \ {s} : log'[x] = log[x]
         PROVE  Quiet(s) /\ current_term'[s] = SeenTerm(s, m.term)
    <2>1. /\ current_term'[s] = SeenTerm(s, m.term)
          /\ \A x \in Server \ {s} : current_term'[x] = current_term[x] /\ state'[x] = state[x]
          /\ state'[s] = IF Follows(s, m.term) THEN "follower" ELSE state[s]
      BY <1>10 DEF FollowSender, TypeOK
    <2>2. CASE current_term[s] < m.term
      <3>1. Follows(s, m.term) /\ SeenTerm(s, m.term) = m.term
        BY <1>2, <1>3, <2>2 DEF Follows, SeenTerm, MaxOf
      <3>. QED  BY <1>10, <2>1, <2>2, <3>1 DEF Quiet
    <2>3. CASE current_term[s] = m.term
      <3>1. SeenTerm(s, m.term) = current_term[s]
        BY <1>2, <1>3, <2>3 DEF SeenTerm, MaxOf
      <3>. QED  BY <1>10, <2>1, <3>1 DEF Quiet
    <2>. QED  BY <1>2, <1>3, <1>10, <2>2, <2>3
  \* s comes back from a crash.
  <1>11. ASSUME NEW term \in Nat, current_term' = [current_term EXCEPT ![s] = term],
                current_term[s] <= term, Reload(s), \A x \in Server \ {s} : log'[x] = log[x]
         PROVE  Quiet(s) /\ current_term'[s] = term
    <2>1. /\ current_term'[s] = term /\ state'[s] = "follower" /\ UNCHANGED elected
          /\ \A x \in Server \ {s} : current_term'[x] = current_term[x] /\ state'[x] = state[x]
      BY <1>11 DEF Reload, TypeOK
    <2>2. term = current_term[s] \/ current_term[s] < term
      BY <1>2, <1>11
    <2>. QED  BY <1>11, <2>1, <2>2 DEF Quiet
  <1>12. CASE RecvRequestVote(s, p, i)
    <2>. DEFINE granted == ShouldGrantVote(s, m)
                reply == [type |-> "requestvote_response", term |-> SeenTerm(s, m.term),
                          vote_granted |-> granted]
    <2>1. reply \in Message /\ reply.type # "appendentries"
      BY <1>3, VoteResponseType DEF ShouldGrantVote
    <2>2. /\ net' = SendTo(n, s, p, reply)
          /\ current_term' = [current_term EXCEPT ![s] = SeenTerm(s, m.term)]
          /\ state' = [state EXCEPT ![s] = IF current_term[s] < m.term THEN "follower" ELSE @]
          /\ UNCHANGED <<log, elected>>
      BY <1>12 DEF RecvRequestVote, n, m
    <2>3. Quiet(s)
      <3>1. /\ current_term'[s] = SeenTerm(s, m.term)
            /\ state'[s] = IF current_term[s] < m.term THEN "follower" ELSE state[s]
            /\ \A x \in Server \ {s} : current_term'[x] = current_term[x] /\ state'[x] = state[x]
        BY <2>2 DEF TypeOK
      <3>2. SeenTerm(s, m.term) = IF current_term[s] < m.term THEN m.term ELSE current_term[s]
        BY DEF SeenTerm, MaxOf
      <3>. QED  BY <2>2, <3>1, <3>2 DEF Quiet
    <2>. HIDE DEF reply
    <2>4. \A g \in Histories : SentOnly(g, s)
      BY <1>9, <2>1, <2>2
    <2>. QED  BY <2>2, <2>3, <2>4, LogQuiet
  <1>13. CASE IgnoreRequestVoteResponse(s, p, i) \/ IgnoreAppendEntriesResponse(s, p, i) \/ Lose(p, s, i)
    <2>1. net' = n /\ UNCHANGED <<current_term, state, log, elected>>
      BY <1>13 DEF IgnoreRequestVoteResponse, IgnoreAppendEntriesResponse, Lose, Unsent, n
    <2>2. Quiet(s)
      BY <2>1 DEF Quiet
    <2>. QED  BY <1>8, <2>1, <2>2, LogQuiet
  <1>14. CASE LoseElection(s, p, i) \/ StepDown(s, p, i)
    <2>1. /\ net' = n /\ current_term[s] < m.term
          /\ current_term' = [current_term EXCEPT ![s] = m.term]
          /\ state' = [state EXCEPT ![s] = "follower"]
          /\ UNCHANGED <<log, elected>>
      BY <1>14 DEF LoseElection, StepDown, n, m
    <2>2. /\ current_term'[s] = m.term /\ state'[s] = "follower"
          /\ \A x \in Server \ {s} : current_term'[x] = current_term[x] /\ state'[x] = state[x]
      BY <2>1 DEF TypeOK
    <2>3. Quiet(s)
      BY <2>1, <2>2 DEF Quiet
    <2>. QED  BY <1>8, <2>1, <2>3, LogQuiet
  <1>15. CASE RecvVote(s, p, i)
    <2>1. CASE IsMajority(NVotesForMe(s, votes_for_me[s] \cup {p}))
      BY <1>15, <2>1, LogWon
    <2>2. CASE ~IsMajority(NVotesForMe(s, votes_for_me[s] \cup {p}))
      <3>1. net' = n /\ UNCHANGED <<current_term, state, log, elected>>
        BY <1>15, <2>2 DEF RecvVote, n
      <3>2. Quiet(s)
        BY <3>1 DEF Quiet
      <3>. QED  BY <1>8, <3>1, <3>2, LogQuiet
    <2>. QED  BY <2>1, <2>2
  <1>16. CASE RefuseAppendEntries(s, p, i)
    <2>. DEFINE reply == Response(SeenTerm(s, m.term), FALSE, Len(log[s]))
    <2>1. /\ net' = SendTo(n, s, p, reply)
          /\ \/ UNCHANGED <<current_term, state>>
             \/ m.term >= current_term[s] /\ FollowSender(s, m.term)
          /\ UNCHANGED <<log, elected>>
      BY <1>16 DEF RefuseAppendEntries, n, m
    <2>2. reply \in Message /\ reply.type # "appendentries"
      BY <1>2, <1>3, ResponseType DEF Response
    <2>3. Quiet(s)
      <3>1. CASE UNCHANGED <<current_term, state>>
        BY <2>1, <3>1 DEF Quiet
      <3>2. CASE m.term >= current_term[s] /\ FollowSender(s, m.term)
        BY <1>10, <2>1, <3>2
      <3>. QED  BY <2>1, <3>1, <3>2
    <2>. HIDE DEF reply
    <2>. QED  BY <1>9, <2>1, <2>2, <2>3, LogQuiet
  <1>17. CASE TruncateConflict(s, p, i)
    <2>. DEFINE reply == Response(SeenTerm(s, m.term), FALSE, m.prev_log_idx - 1)
                r == SubSeq(log[s], 1, m.prev_log_idx - 1)
    <2>1. /\ net' = SendTo(n, s, p, reply) /\ m.type = "appendentries"
          /\ m.term >= current_term[s] /\ FollowSender(s, m.term)
          /\ m.prev_log_idx \in DOMAIN log[s]
          /\ log' = [log EXCEPT ![s] = r]
          /\ UNCHANGED elected
      BY <1>17 DEF TruncateConflict, PrevDiffers, n, m
    <2>2. m.prev_log_idx - 1 \in 0 .. Len(log[s]) /\ m.prev_log_idx - 1 \in Nat
      BY <1>2, <2>1
    <2>3. reply \in Message /\ reply.type # "appendentries"
      BY <1>3, <2>2, ResponseType DEF Response
    <2>4. LogFits(h, r)
      BY <1>2, <1>6, <2>2, PrefixFits
    <2>. HIDE DEF reply, r
    <2>5. log'[s] = r /\ \A x \in Server \ {s} : log'[x] = log[x]
      BY <2>1 DEF TypeOK
    <2>6. Quiet(s) /\ ~IsElected(current_term'[s], s)
      BY <1>7, <1>10, <2>1, <2>5
    <2>7. SentOnly(h, s)
      BY <1>9, <2>1, <2>3
    <2>. QED  BY <1>4, <2>4, <2>5, <2>6, <2>7, QuietStep
  <1>18. Accepts(s, m) =>
           /\ m.type = "appendentries" /\ m.term >= current_term[s]
           /\ LogFits(h, Merged(log[s], m)) /\ Merged(log[s], m) \in Seq(Entry)
           /\ KeptLen(log[s], m) \in 0 .. Len(log[s])
    <2>. SUFFICES ASSUME Accepts(s, m)
                  PROVE  /\ m.type = "appendentries" /\ m.term >= current_term[s]
                         /\ LogFits(h, Merged(log[s], m)) /\ Merged(log[s], m) \in Seq(Entry)
                         /\ KeptLen(log[s], m) \in 0 .. Len(log[s])
      OBVIOUS
    <2>1. /\ m.type = "appendentries" /\ m.term >= current_term[s]
          /\ ~PrevMissing(log[s], m) /\ ~PrevDiffers(log[s], m)
      BY DEF Accepts
    <2>2. MessageFits(h, m) /\ m.prev_log_idx \in Nat
      BY <1>1, <1>5, <2>1, MessageFields
    <2>3. LogFits(h, Merged(log[s], m)) /\ Merged(log[s], m) \in Seq(Entry)
      BY <1>1, <1>2, <1>6, <2>1, <2>2, MergedFits, MergedType
    <2>4. KeptLen(log[s], m) \in m.prev_log_idx .. Len(log[s])
      BY <1>1, <1>2, <2>1, KeptLenBounds
    <2>. QED  BY <1>2, <2>1, <2>2, <2>3, <2>4
  <1>19. CASE AcceptAppendEntries(s, p, i)
    <2>. DEFINE reply == Response(SeenTerm(s, m.term), TRUE, m.prev_log_idx + Len(m.entries))
                r == Merged(log[s], m)
    <2>1. /\ net' = SendTo(n, s, p, reply) /\ Accepts(s, m) /\ FollowSender(s, m.term)
          /\ log' = [log EXCEPT ![s] = r]
          /\ UNCHANGED elected
      BY <1>19 DEF AcceptAppendEntries, n, m
    <2>2. /\ m.type = "appendentries" /\ m.term >= current_term[s] /\ LogFits(h, r)
      BY <1>18, <2>1
    <2>3. reply \in Message /\ reply.type # "appendentries"
      <3>1. m.prev_log_idx \in Nat /\ m.entries \in Seq(Entry)
        BY <1>1, <2>2, MessageFields
      <3>2. m.prev_log_idx + Len(m.entries) \in Nat
        BY <3>1, EntryAt
      <3>. QED  BY <1>3, <3>2, ResponseType DEF Response
    <2>. HIDE DEF reply, r
    <2>4. log'[s] = r /\ \A x \in Server \ {s} : log'[x] = log[x]
      BY <2>1 DEF TypeOK
    <2>5. Quiet(s) /\ ~IsElected(current_term'[s], s)
      BY <1>7, <1>10, <2>1, <2>2, <2>4
    <2>6. SentOnly(h, s)
      BY <1>9, <2>1, <2>3
    <2>. QED  BY <1>4, <2>2, <2>4, <2>5, <2>6, QuietStep
  <1>20. ASSUME NEW commit \in Nat, NEW next \in Nat \ {0}, state[s] = "leader",
                UNCHANGED <<current_term, state, log, elected>>,
                net' = SendTo(n, s, p, AppendEntries(current_term[s], log[s], commit, next))
         PROVE  GoesOn(h)
    <2>. DEFINE ae == AppendEntries(current_term[s], log[s], commit, next)
                out == [q \in {p} |-> ae]
    <2>1. ae \in Message
      BY <1>2, AppendEntriesType
    <2>2. out \in [{p} -> Message] /\ {p} \in SUBSET Peers(s) /\ \A q \in {p} : out[q] = ae
      BY <1>5, <2>1 DEF Peers
    <2>3. net' = Send(n, s, out)
      BY <1>20 DEF SendTo
    <2>4. \A q \in {p} : \E c \in Nat, x \in Nat \ {0} :
              out[q] = AppendEntries(current_term[s], log[s], c, x)
      BY <2>2
    <2>. HIDE DEF out
    <2>. QED  BY <1>1, <1>20, <2>2, <2>3, <2>4, LogSends
  <1>21. CASE RetryAppendEntries(s, p, i)
    <2>. DEFINE back == IF m.current_idx < next_idx[s][p] - 1
                        THEN MinOf(m.current_idx + 1, Len(log[s])) ELSE next_idx[s][p] - 1
    <2>1. /\ m.type = "appendentries_response" /\ state[s] = "leader"
          /\ UNCHANGED <<current_term, state, log, elected>>
          /\ net' = SendTo(n, s, p, AppendEntries(current_term[s], log[s], commit_idx[s],
                                                  MaxOf(back, 1)))
      BY <1>21 DEF RetryAppendEntries, Answers, n, m
    <2>2. m.current_idx \in Nat
      BY <1>1, <2>1, MessageFields
    <2>3. back \in Int
      BY <1>2, <2>2 DEF MinOf
    <2>. HIDE DEF back
    <2>4. MaxOf(back, 1) \in Nat \ {0}
      BY <2>3 DEF MaxOf
    <2>. QED  BY <1>2, <1>20, <2>1, <2>4
  <1>22. CASE RecvAppended(s, p, i)
    <2>. DEFINE point == m.current_idx
                match == [match_idx[s] EXCEPT ![p] = point]
                commit == IF /\ Cardinality(Server) \div 2
                                 < Cardinality(Replicas(s, match, point)) + 1
                             /\ commit_idx[s] < point
                          THEN point ELSE commit_idx[s]
    <2>1. /\ m.type = "appendentries_response" /\ state[s] = "leader"
          /\ UNCHANGED <<current_term, state, log, elected>>
          /\ \/ net' = SendTo(n, s, p, AppendEntries(current_term[s], log[s], commit, point + 1))
             \/ net' = n
      BY <1>22 DEF RecvAppended, Answers, n, m
    <2>2. m.current_idx \in Nat
      BY <1>1, <2>1, MessageFields
    <2>3. commit \in Nat /\ point + 1 \in Nat \ {0}
      BY <1>2, <2>2
    <2>. HIDE DEF commit, point
    <2>4. CASE net' = n
      <3>1. Quiet(s)
        BY <2>1 DEF Quiet
      <3>. QED  BY <1>8, <2>1, <2>4, <3>1, LogQuiet
    <2>. QED  BY <1>20, <2>1, <2>3, <2>4
  <1>23. CASE CrashInRequestVote(s, p, i)
    <2>1. /\ current_term' = [current_term EXCEPT ![s] = m.term] /\ current_term[s] < m.term
          /\ Reload(s) /\ net' = n /\ UNCHANGED log
      BY <1>23 DEF CrashInRequestVote, n, m
    <2>2. current_term[s] <= m.term
      BY <1>2, <1>3, <2>1
    <2>3. Quiet(s)
      BY <1>3, <1>11, <2>1, <2>2
    <2>. QED  BY <1>8, <2>1, <2>3, LogQuiet
  <1>24. CASE CrashInAppendEntries(s, p, i)
    <2>. DEFINE l == log[s]
                kept == KeptLen(l, m)
                after == Merged(l, m)
    <2>1. /\ Accepts(s, m) /\ Reload(s) /\ net' = n
          /\ current_term' = [current_term EXCEPT ![s] = SeenTerm(s, m.term)]
          /\ \/ \E k \in kept .. Len(l) : log' = [log EXCEPT ![s] = SubSeq(l, 1, k)]
             \/ \E k \in kept .. Len(after) : log' = [log EXCEPT ![s] = SubSeq(after, 1, k)]
      BY <1>24 DEF CrashInAppendEntries, n, m
    <2>2. /\ m.type = "appendentries" /\ m.term >= current_term[s]
          /\ LogFits(h, after) /\ after \in Seq(Entry) /\ kept \in 0 .. Len(l)
      BY <1>18, <2>1
    <2>3. PICK r : log' = [log EXCEPT ![s] = r] /\ LogFits(h, r)
      <3>. HIDE DEF after, kept
      <3>1. CASE \E k \in kept .. Len(l) : log' = [log EXCEPT ![s] = SubSeq(l, 1, k)]
        <4>1. PICK k \in kept .. Len(l) : log' = [log EXCEPT ![s] = SubSeq(l, 1, k)]
          BY <3>1
        <4>2. k \in 0 .. Len(l)
          BY <1>2, <2>2
        <4>. QED  BY <1>2, <1>6, <4>1, <4>2, PrefixFits
      <3>2. CASE \E k \in kept .. Len(after) : log' = [log EXCEPT ![s] = SubSeq(after, 1, k)]
        <4>1. PICK k \in kept .. Len(after) : log' = [log EXCEPT ![s] = SubSeq(after, 1, k)]
          BY <3>2
        <4>2. k \in 0 .. Len(after)
          BY <1>2, <2>2, EntryAt
        <4>. QED  BY <2>2, <4>1, <4>2, PrefixFits
      <3>. QED  BY <2>1, <3>1, <3>2
    <2>4. log'[s] = r /\ \A x \in Server \ {s} : log'[x] = log[x]
      BY <2>3 DEF TypeOK
    <2>5. current_term[s] <= SeenTerm(s, m.term)
      BY <1>2, <1>3 DEF SeenTerm, MaxOf
    <2>6. Quiet(s) /\ ~IsElected(current_term'[s], s)
      BY <1>3, <1>7, <1>11, <2>1, <2>2, <2>4, <2>5
    <2>7. SentOnly(h, s)
      BY <1>8, <2>1
    <2>. QED  BY <1>4, <2>3, <2>4, <2>6, <2>7, QuietStep
  <1>25. CASE Duplicate(p, s, i)
    <2>1. net' = SendTo(net, p, s, m) /\ UNCHANGED <<current_term, state, log, elected>>
      BY <1>25 DEF Duplicate, Unsent, m
    <2>2. \A x, y \in Server : InFlight(net', x, y) \subseteq InFlight(net, x, y)
      <3>1. \A x, y \in Server : InFlight(net', x, y)
                 \subseteq InFlight(net, x, y) \cup (IF x = p /\ y = s THEN {m} ELSE {})
        BY <1>1, <2>1, SendOne
      <3>. QED  BY <1>1, <3>1
    <2>3. Quiet(s) /\ \A g \in Histories : SentOnly(g, s)
      BY <2>1, <2>2 DEF Quiet, SentOnly
    <2>. QED  BY <2>1, <2>3, LogQuiet
  <1>. QED  BY <1>12, <1>13, <1>14, <1>15, <1>16, <1>17, <1>19, <1>21, <1>22, <1>23, <1>24, <1>25
            DEF Receive

-----------------------------------------------------------------------------
(* The theorems. *)

LEMMA LogInit == Init => LogInv
  <1>. SUFFICES ASSUME Init PROVE LogInv
    OBVIOUS
  <1>. DEFINE h == [t \in Nat |-> << >>]
  <1>1. h \in Histories
    BY EmptySeq DEF Histories
  <1>2. \A t \in Nat : h[t] = << >>
    OBVIOUS
  <1>. HIDE DEF h
  <1>3. LogFits(h, << >>)
    BY DEF LogFits
  <1>4. \A p, q \in Server : InFlight(net, p, q) = {}
    BY DEF Init, InFlight
  <1>5. \A s \in Server : log[s] = << >> /\ state[s] = "follower"
    BY DEF Init
  <1>6. \A s \in Server : ~IsElected(current_term[s], s)
    BY DEF Init, IsElected
  <1>7. History(h)
    BY <1>2, <1>3, <1>4, <1>5, <1>6 DEF History
  <1>. QED  BY <1>1, <1>5, <1>7 DEF LogInv, LeadsElected

\* Every log and every appendentries under way is a piece of what the leaders have written,
\* and who leads was elected: the invariant behind log matching.
THEOREM LogInvariant == Spec => []LogInv
  <1>1. /\ TypeOK /\ TypeOK' /\ ElectionInv /\ ElectionSafety /\ ElectionSafety'
        /\ LogInv /\ [Next]_vars
        => LogInv'
    <2>. SUFFICES ASSUME TypeOK, TypeOK', ElectionInv, ElectionSafety, ElectionSafety', LogInv,
                         [Next]_vars
                  PROVE  LogInv'
      OBVIOUS
    <2>1. CASE UNCHANGED vars
      BY <2>1 DEF vars, LogInv, LeadsElected, History, IsElected
    <2>2. CASE Next
      <3>1. PICK h \in Histories : History(h)
        BY DEF LogInv
      <3>2. GoesOn(h)
        BY <2>2, <3>1, LogOwnSteps, LogReceive DEF Next, LogInv
      <3>. QED  BY <3>2 DEF GoesOn, LogInv
    <2>. QED  BY <2>1, <2>2
  <1>. QED  BY <1>1, LogInit, TypeCorrect, ElectionInvariant, ElectionSafe, PTL DEF Spec

\* Two logs with an entry of the same term at the same index are equal up to it, on either
\* kind of network and across crashes in the middle of raft_recv_appendentries.
THEOREM LogsMatch == Spec => []LogMatching
  <1>1. TypeOK /\ LogInv => LogMatching
    <2>. SUFFICES ASSUME TypeOK, LogInv, NEW s \in Server, NEW t \in Server,
                         NEW i \in DOMAIN log[s] \cap DOMAIN log[t],
                         log[s][i].term = log[t][i].term, NEW j \in 1 .. i
                  PROVE  log[s][j] = log[t][j]
      BY DEF LogMatching
    <2>1. PICK h \in Histories : History(h)
      BY DEF LogInv
    <2>2. LogFits(h, log[s]) /\ LogFits(h, log[t])
      BY <2>1 DEF History
    <2>. QED  BY <2>2 DEF LogFits
  <1>. QED  BY <1>1, TypeCorrect, LogInvariant, PTL
=============================================================================
