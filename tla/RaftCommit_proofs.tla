-------------------------- MODULE RaftCommit_proofs --------------------------
(***************************************************************************)
(* What Raft commits is committed for good, for any cluster and any bounds,*)
(* if the connections deliver in order.  The argument follows the votes    *)
(* and the acknowledgements: an entry that a majority may still come to    *)
(* acknowledge is in the log of every later leader and in all its          *)
(* messages, so that no server that acknowledged it ever deletes it.       *)
(***************************************************************************)
EXTENDS RaftLogMatching_proofs

\* a[t][v]: how much of the log of the leader of term t the server v has acknowledged; all
\* of it if v is that leader.
Acks == [Nat -> [Server -> Nat]]

\* The first n entries of l and x are the same.
Agree(l, x, n) ==
    /\ n <= Len(l) /\ n <= Len(x)
    /\ \A j \in 1 .. n : l[j] = x[j]

\* A message to a non-voting node whose next_idx is that of an earlier leadership may begin
\* behind the end of the leader's log.
Beyond(m) == m.prev_log_term = 0 /\ 0 < m.prev_log_idx

\* Up to where the receiver may rely on m: the leader's log at the time of sending.
Reach(m) == IF Beyond(m) THEN m.prev_log_idx - 1 ELSE m.prev_log_idx + Len(m.entries)

\* m is cut out of the log x.
Piece(x, m) ==
    IF Beyond(m)
    THEN m.entries = << >>
    ELSE /\ Reach(m) <= Len(x)
         /\ \A k \in DOMAIN m.entries : m.entries[k] = x[m.prev_log_idx + k]
         /\ 0 < m.prev_log_idx => x[m.prev_log_idx].term = m.prev_log_term

\* The leader of term t wrote its i-th entry itself.
Own(h, t, i) == i \in 1 .. Len(h[t]) /\ h[t][i].term = t

\* ct: the terms of the servers.  A majority has acknowledged the entry or may still do so.
Choosable(h, a, ct, t, i) ==
    /\ Own(h, t, i)
    /\ \E Q \in SUBSET Server :
          IsMajority(Cardinality(Q)) /\ \A v \in Q : i <= a[t][v] \/ ct[v] <= t

\* A majority has acknowledged an entry that the leader of term t wrote at c or behind it.
Committed(h, a, t, c) ==
    \E i \in Nat :
        /\ c <= i /\ Own(h, t, i)
        /\ \E Q \in SUBSET Server :
              IsMajority(Cardinality(Q)) /\ \A v \in Q : i <= a[t][v]

\* The terms along a leader's log rise, up to its own.
TermsRise(h) ==
    \A t \in Nat : \A i, j \in DOMAIN h[t] :
        /\ 0 < h[t][i].term /\ h[t][i].term <= t
        /\ i <= j => h[t][i].term <= h[t][j].term

Acknowledged(h, a) ==
    \A t \in Nat : \A v \in Server :
        /\ a[t][v] <= Len(h[t])
        /\ 0 < a[t][v] => t <= current_term[v]
        /\ IsElected(t, v) => a[t][v] = Len(h[t])
        /\ current_term[v] = t => Agree(log[v], h[t], a[t][v])

\* Who has acknowledged the entry, who leads a later term, who may come to lead one and has
\* the vote of a server that has acknowledged it: they all have the entry.
Held(h, a, t, i) ==
    /\ \A v \in Server : i <= a[t][v] => Agree(log[v], h[t], i)
    /\ \A e \in elected : t < e.term => Agree(h[e.term], h[t], i)
    /\ \A b \in ballots :
          /\ t < b.term /\ b.term = current_term[b.candidate]
          /\ state[b.candidate] = "candidate" /\ i <= a[t][b.voter]
          => Agree(log[b.candidate], h[t], i)
    /\ \A p, q \in Server : \A m \in InFlight(net, p, q) :
          m.type = "appendentries" /\ t < m.term => i <= Reach(m)

Kept(h, a) == \A t, i \in Nat : Choosable(h, a, current_term, t, i) => Held(h, a, t, i)

\* What is under way from p to q: acknowledgements that were made, and pieces of the
\* leader's log, each reaching as far as those before it and as what q has acknowledged.
Sound(h, a, p, q, m) ==
    /\ m.type = "appendentries_response" /\ m.success => m.current_idx <= a[m.term][p]
    /\ m.type = "appendentries" =>
          /\ Piece(h[m.term], m)
          /\ a[m.term][q] <= Reach(m)
          /\ m.leader_commit <= Reach(m)
          /\ 0 < m.leader_commit => \E t \in 0 .. m.term : Committed(h, a, t, m.leader_commit)

Ahead(m, n) ==
    /\ m.type = "appendentries" /\ n.type = "appendentries" /\ m.term = n.term /\ ~Beyond(m)
    => Reach(m) <= Reach(n)

MessagesSound(h, a) ==
    \A p, q \in Server :
        /\ \A m \in InFlight(net, p, q) : Sound(h, a, p, q, m)
        /\ \A j, k \in DOMAIN net[p][q] : j < k => Ahead(net[p][q][j], net[p][q][k])

MatchesAcknowledged(a) ==
    \A s \in Server : state[s] = "leader" =>
        \A p \in Peers(s) \cap Voters : match_idx[s][p] <= a[current_term[s]][p]

CommitsSound(h, a) ==
    \A s \in Server : 0 < commit_idx[s] =>
        \E t \in 0 .. current_term[s] :
            /\ Committed(h, a, t, commit_idx[s])
            /\ Agree(log[s], h[t], commit_idx[s])
            /\ t = current_term[s] => commit_idx[s] <= a[t][s]

\* No log is ahead of its server's term.
LogsTimely == \A s \in Server : \A j \in DOMAIN log[s] : log[s][j].term <= current_term[s]

Commit(h, a) ==
    /\ TermsRise(h) /\ LogsTimely /\ Acknowledged(h, a) /\ Kept(h, a)
    /\ MessagesSound(h, a) /\ MatchesAcknowledged(a) /\ CommitsSound(h, a)

\* A candidate's requests describe its log, and votes are given to candidacies that took place.
CandidacyInv ==
    /\ \A s \in Server : state[s] # "follower" => 0 < current_term[s] /\ 1 < Cardinality(Server)
    /\ \A b \in ballots : b.term <= current_term[b.candidate]
    /\ \A p, q \in Server : \A m \in InFlight(net, p, q) : m.type = "requestvote" =>
          /\ m.term <= current_term[p]
          /\ m.term = current_term[p] /\ state[p] = "candidate" =>
                m.last_log_idx = Len(log[p]) /\ m.last_log_term = LastTerm(log[p])

\* What makes the commit properties inductive.
CommitInv ==
    /\ CandidacyInv
    /\ \E h \in Histories : \E a \in Acks : History(h) /\ Commit(h, a)

-----------------------------------------------------------------------------
(* Beginnings of logs. *)

LEMMA AgreeLess ==
    ASSUME NEW l, NEW x, NEW n \in Nat, NEW k \in Nat, k <= n, Agree(l, x, n),
           Len(l) \in Nat, Len(x) \in Nat
    PROVE  Agree(l, x, k) /\ Agree(x, l, k)
  BY DEF Agree

LEMMA AgreeThrough ==
    ASSUME NEW l, NEW x, NEW y, NEW n \in Nat, NEW k \in Nat, n <= k,
           Agree(l, x, n), Agree(x, y, k),
           Len(l) \in Nat, Len(x) \in Nat, Len(y) \in Nat
    PROVE  Agree(l, y, n)
  BY DEF Agree

LEMMA AgreeGrown ==
    ASSUME NEW h \in Histories, NEW g \in Histories, Grows(h, g), NEW t \in Nat, NEW l,
           NEW n \in Nat, Agree(l, h[t], n), Len(l) \in Nat
    PROVE  Agree(l, g[t], n)
  <1>1. Len(h[t]) \in Nat /\ Len(g[t]) \in Nat
    BY EntryAt DEF Histories
  <1>2. Len(h[t]) <= Len(g[t]) /\ \A j \in 1 .. Len(h[t]) : h[t][j] = g[t][j]
    BY DEF Grows
  <1>. QED  BY <1>1, <1>2 DEF Agree

\* The beginning of a log agrees with the log.
LEMMA AgreePrefix ==
    ASSUME NEW l \in Seq(Entry), NEW k \in 0 .. Len(l), NEW n \in Nat, n <= k
    PROVE  Agree(SubSeq(l, 1, k), l, n)
  <1>1. Len(l) \in Nat /\ k \in Nat
    BY EntryAt
  <1>2. \A i \in 1 .. k : l[i] \in Entry
    BY <1>1, EntryAt
  <1>3. Len(SubSeq(l, 1, k)) = k /\ \A i \in 1 .. k : SubSeq(l, 1, k)[i] = l[i]
    BY <1>1, <1>2, SubSeqProperties
  <1>. QED  BY <1>1, <1>3 DEF Agree

\* The terms of a log that fits are those of the histories.
LEMMA LogTermsRise ==
    ASSUME NEW h \in Histories, TermsRise(h), NEW l \in Seq(Entry), LogFits(h, l)
    PROVE  \A i, j \in DOMAIN l : 0 < l[i].term /\ (i <= j => l[i].term <= l[j].term)
  <1>. SUFFICES ASSUME NEW i \in DOMAIN l, NEW j \in DOMAIN l
                PROVE  0 < l[i].term /\ (i <= j => l[i].term <= l[j].term)
    OBVIOUS
  <1>1. i \in 1 .. Len(l) /\ j \in 1 .. Len(l) /\ Len(l) \in Nat
    BY EntryAt
  <1>. DEFINE S(k) == h[l[k].term]
  <1>2. ASSUME NEW k \in DOMAIN l
        PROVE  /\ l[k].term \in Nat /\ DOMAIN S(k) = 1 .. Len(S(k)) /\ Len(S(k)) \in Nat
               /\ k <= Len(S(k)) /\ \A n \in 1 .. k : l[n] = S(k)[n]
    <2>1. l[k].term \in Nat
      BY EntryAt
    <2>2. S(k) \in Seq(Entry)
      BY <2>1 DEF Histories
    <2>. QED  BY <2>1, <2>2, EntryAt DEF LogFits
  <1>3. \A t \in Nat : \A m, n \in DOMAIN h[t] : 0 < h[t][m].term /\ (m <= n => h[t][m].term <= h[t][n].term)
    BY DEF TermsRise
  <1>. HIDE DEF S
  <1>4. \A k \in DOMAIN l : \A m, n \in DOMAIN S(k) : 0 < S(k)[m].term /\ (m <= n => S(k)[m].term <= S(k)[n].term)
    BY <1>2, <1>3 DEF S
  <1>5. 0 < l[i].term
    <2>1. i \in DOMAIN S(i) /\ l[i] = S(i)[i]
      BY <1>1, <1>2
    <2>. QED  BY <1>4, <2>1
  <1>6. ASSUME i <= j PROVE l[i].term <= l[j].term
    <2>1. i \in DOMAIN S(j) /\ j \in DOMAIN S(j) /\ l[i] = S(j)[i] /\ l[j] = S(j)[j]
      BY <1>1, <1>2, <1>6
    <2>. QED  BY <1>4, <1>6, <2>1
  <1>. QED  BY <1>5, <1>6

-----------------------------------------------------------------------------
(* Messages that are pieces of a leader's log. *)

LEMMA ReachType ==
    ASSUME NEW m \in Message, m.type = "appendentries"
    PROVE  /\ m.prev_log_idx \in Nat /\ m.entries \in Seq(Entry) /\ Len(m.entries) \in Nat
           /\ DOMAIN m.entries = 1 .. Len(m.entries) /\ m.term \in Nat
           /\ m.prev_log_term \in Nat /\ m.leader_commit \in Nat /\ Reach(m) \in Nat
  <1>1. /\ m.prev_log_idx \in Nat /\ m.entries \in Seq(Entry) /\ m.term \in Nat
        /\ m.prev_log_term \in Nat /\ m.leader_commit \in Nat
    BY MessageFields
  <1>2. Len(m.entries) \in Nat /\ DOMAIN m.entries = 1 .. Len(m.entries)
    BY <1>1, EntryAt
  <1>. QED  BY <1>1, <1>2 DEF Reach, Beyond

\* What a leader sends reaches to the end of its log.
LEMMA SentPiece ==
    ASSUME NEW l \in Seq(Entry), \A j \in DOMAIN l : 0 < l[j].term,
           NEW term \in Nat, NEW commit \in Nat, NEW next \in Nat \ {0}
    PROVE  LET m == AppendEntries(term, l, commit, next) IN
           /\ Piece(l, m) /\ Len(l) <= Reach(m)
           /\ m.type = "appendentries" /\ m.term = term /\ m.leader_commit = commit
  <1>. DEFINE m == AppendEntries(term, l, commit, next)
              n == next - 1
  <1>1. Len(l) \in Nat /\ DOMAIN l = 1 .. Len(l) /\ \A i \in next .. Len(l) : l[i] \in Entry
    BY EntryAt
  <1>2. /\ m.type = "appendentries" /\ m.term = term /\ m.leader_commit = commit
        /\ m.prev_log_idx = n
        /\ m.entries = SubSeq(l, next, Len(l))
        /\ m.prev_log_term = IF n \in DOMAIN l THEN l[n].term ELSE 0
    BY DEF AppendEntries
  <1>. HIDE DEF m
  <1>3. /\ m.entries \in Seq(Entry)
        /\ Len(m.entries) = IF next <= Len(l) THEN Len(l) - next + 1 ELSE 0
        /\ \A k \in 1 .. Len(l) - next + 1 : m.entries[k] = l[next + k - 1]
    BY <1>1, <1>2, SubSeqProperties
  <1>4. DOMAIN m.entries = 1 .. Len(m.entries) /\ Len(m.entries) \in Nat
    BY <1>3, EntryAt
  <1>5. Beyond(m) <=> Len(l) < n
    <2>1. n \in DOMAIN l => 0 < l[n].term
      OBVIOUS
    <2>. QED  BY <1>1, <1>2, <2>1 DEF Beyond
  <1>6. CASE Beyond(m)
    <2>1. Len(m.entries) = 0
      BY <1>1, <1>3, <1>5, <1>6
    <2>2. m.entries = << >>
      BY <1>3, <2>1, EmptySeq
    <2>3. Len(l) <= n - 1
      BY <1>1, <1>5, <1>6
    <2>. QED  BY <1>2, <1>6, <2>2, <2>3 DEF Piece, Reach, m
  <1>7. CASE ~Beyond(m)
    <2>1. n + Len(m.entries) = Len(l)
      BY <1>1, <1>3, <1>5, <1>7
    <2>2. Reach(m) = Len(l)
      BY <1>2, <1>7, <2>1 DEF Reach
    <2>3. ASSUME NEW k \in DOMAIN m.entries PROVE m.entries[k] = l[n + k]
      <3>1. k \in 1 .. Len(l) - next + 1 /\ next + k - 1 = n + k
        BY <1>1, <1>3, <1>4
      <3>. QED  BY <1>3, <3>1
    <2>4. 0 < n => l[n].term = m.prev_log_term
      BY <1>1, <1>2, <1>5, <1>7
    <2>. QED  BY <1>1, <1>2, <1>7, <2>2, <2>3, <2>4 DEF Piece, m
  <1>. QED  BY <1>6, <1>7

LEMMA PieceGrown ==
    ASSUME NEW x \in Seq(Entry), NEW y \in Seq(Entry), Len(x) <= Len(y),
           \A j \in 1 .. Len(x) : x[j] = y[j],
           NEW m \in Message, m.type = "appendentries", Piece(x, m)
    PROVE  Piece(y, m)
  <1>1. /\ m.prev_log_idx \in Nat /\ Len(m.entries) \in Nat
        /\ DOMAIN m.entries = 1 .. Len(m.entries) /\ Len(x) \in Nat /\ Len(y) \in Nat
    BY ReachType, EntryAt
  <1>2. CASE Beyond(m)
    BY <1>2 DEF Piece
  <1>3. CASE ~Beyond(m)
    <2>1. /\ Reach(m) = m.prev_log_idx + Len(m.entries) /\ Reach(m) <= Len(x)
          /\ \A k \in DOMAIN m.entries : m.entries[k] = x[m.prev_log_idx + k]
          /\ 0 < m.prev_log_idx => x[m.prev_log_idx].term = m.prev_log_term
      BY <1>3 DEF Piece, Reach
    <2>2. \A k \in DOMAIN m.entries : m.prev_log_idx + k \in 1 .. Len(x)
      BY <1>1, <2>1
    <2>3. 0 < m.prev_log_idx => m.prev_log_idx \in 1 .. Len(x)
      BY <1>1, <2>1
    <2>4. Reach(m) <= Len(y)
      BY <1>1, <2>1
    <2>5. \A k \in DOMAIN m.entries : m.entries[k] = y[m.prev_log_idx + k]
      BY <2>1, <2>2
    <2>6. 0 < m.prev_log_idx => y[m.prev_log_idx].term = m.prev_log_term
      BY <2>1, <2>3
    <2>. QED  BY <1>3, <2>4, <2>5, <2>6 DEF Piece
  <1>. QED  BY <1>2, <1>3

\* What a log has in common with the leader's, as far as m reaches, is not deleted.
LEMMA Retained ==
    ASSUME NEW l \in Seq(Entry), \A j \in DOMAIN l : 0 < l[j].term, NEW x \in Seq(Entry),
           NEW m \in Message, m.type = "appendentries", Piece(x, m),
           NEW n \in Nat, Agree(l, x, n), n <= Reach(m)
    PROVE  /\ PrevDiffers(l, m) => n < m.prev_log_idx
           /\ ~PrevMissing(l, m) /\ ~PrevDiffers(l, m) => n <= KeptLen(l, m)
  <1>. DEFINE p == m.prev_log_idx
  <1>1. /\ p \in Nat /\ m.entries \in Seq(Entry) /\ Len(m.entries) \in Nat
        /\ DOMAIN m.entries = 1 .. Len(m.entries) /\ Len(l) \in Nat /\ DOMAIN l = 1 .. Len(l)
    BY ReachType, EntryAt
  <1>2. n <= Len(l) /\ \A j \in 1 .. n : l[j] = x[j]
    BY DEF Agree
  <1>3. ASSUME PrevDiffers(l, m) PROVE n < p
    <2>1. p \in DOMAIN l /\ l[p].term # m.prev_log_term
      BY <1>3 DEF PrevDiffers
    <2>2. CASE Beyond(m)
      BY <1>1, <2>2 DEF Reach
    <2>3. CASE ~Beyond(m)
      <3>1. x[p].term = m.prev_log_term
        BY <1>1, <2>1, <2>3 DEF Piece
      <3>2. p \notin 1 .. n
        BY <1>2, <2>1, <3>1
      <3>. QED  BY <1>1, <2>1, <3>2
    <2>. QED  BY <2>2, <2>3
  <1>4. ASSUME ~PrevMissing(l, m), ~PrevDiffers(l, m) PROVE n <= KeptLen(l, m)
    <2>1. ~Beyond(m)
      <3>. SUFFICES ASSUME Beyond(m) PROVE FALSE
        OBVIOUS
      <3>1. p \in DOMAIN l
        BY <1>1, <1>4 DEF PrevMissing, Beyond
      <3>. QED  BY <1>4, <3>1 DEF PrevDiffers, Beyond
    <2>2. /\ Reach(m) = p + Len(m.entries)
          /\ \A k \in DOMAIN m.entries : m.entries[k] = x[p + k]
      BY <2>1 DEF Piece, Reach
    <2>3. CASE Differs(l, m) # {}
      <3>. DEFINE d == CHOOSE d \in Differs(l, m) : \A j \in Differs(l, m) : d <= j
      <3>1. d \in Differs(l, m)
        BY <2>3, LeastDiffers, Zenon
      <3>2. KeptLen(l, m) = p + d - 1
        BY <2>3 DEF KeptLen
      <3>. HIDE DEF d
      <3>3. d \in DOMAIN m.entries /\ (p + d > Len(l) \/ l[p + d].term # m.entries[d].term)
        BY <3>1 DEF Differs
      <3>4. p + d \notin 1 .. n
        <4>. SUFFICES ASSUME p + d \in 1 .. n PROVE FALSE
          OBVIOUS
        <4>1. l[p + d] = m.entries[d]
          BY <1>2, <2>2, <3>3
        <4>2. p + d > Len(l)
          BY <3>3, <4>1
        <4>. QED  BY <1>1, <1>2, <3>3, <4>2
      <3>. QED  BY <1>1, <3>2, <3>3, <3>4
    <2>4. CASE Differs(l, m) = {} /\ KeptLen(l, m) # Len(l)
      <3>1. m.entries = << >> /\ KeptLen(l, m) = p
        BY <2>4 DEF KeptLen
      <3>2. Len(m.entries) = 0
        BY <3>1, EmptySeq
      <3>. QED  BY <1>1, <2>2, <3>1, <3>2
    <2>5. CASE KeptLen(l, m) = Len(l)
      BY <1>2, <2>5
    <2>. QED  BY <2>3, <2>4, <2>5
  <1>. QED  BY <1>3, <1>4

\* After raft_recv_appendentries has accepted m the log is the leader's, as far as m reaches.
LEMMA MergedAgrees ==
    ASSUME NEW h \in Histories, \A t \in Nat : LogFits(h, h[t]), NEW l \in Seq(Entry), LogFits(h, l),
           \A j \in DOMAIN l : 0 < l[j].term,
           NEW m \in Message, m.type = "appendentries", Piece(h[m.term], m),
           ~PrevMissing(l, m), ~PrevDiffers(l, m)
    PROVE  /\ ~Beyond(m) /\ Reach(m) = m.prev_log_idx + Len(m.entries)
           /\ Agree(Merged(l, m), h[m.term], Reach(m))
  <1>. DEFINE p == m.prev_log_idx
              c == p + Len(m.entries)
              r == Merged(l, m)
              kept == KeptLen(l, m)
              x == h[m.term]
  <1>1. /\ p \in Nat /\ m.entries \in Seq(Entry) /\ Len(m.entries) \in Nat /\ m.term \in Nat
        /\ DOMAIN m.entries = 1 .. Len(m.entries) /\ Len(l) \in Nat /\ DOMAIN l = 1 .. Len(l)
    BY ReachType, EntryAt
  <1>2. x \in Seq(Entry) /\ Len(x) \in Nat
    BY <1>1, EntryAt DEF Histories
  <1>3. ~Beyond(m)
    <2>. SUFFICES ASSUME Beyond(m) PROVE FALSE
      OBVIOUS
    <2>1. p \in DOMAIN l
      BY <1>1 DEF PrevMissing, Beyond
    <2>. QED  BY <2>1 DEF PrevDiffers, Beyond
  <1>4. /\ Reach(m) = c /\ c <= Len(x)
        /\ \A k \in DOMAIN m.entries : m.entries[k] = x[p + k]
        /\ 0 < p => x[p].term = m.prev_log_term
    BY <1>3 DEF Piece, Reach
  \* Where the terms are the same the logs are the same up to there.
  <1>5. ASSUME NEW n \in 1 .. c, n <= Len(l), l[n].term = x[n].term
        PROVE  \A j \in 1 .. n : l[j] = x[j]
    <2>1. n \in 1 .. Len(h[m.term])
      BY <1>1, <1>2, <1>4
    <2>. QED  BY <1>1, <1>5, <2>1, SameUpTo
  <1>6. /\ r \in Seq(Entry) /\ kept <= Len(r) /\ kept \in p .. Len(l)
        /\ \A j \in 1 .. kept : r[j] = l[j]
        /\ Differs(l, m) = {} => Len(r) = kept
        /\ Differs(l, m) # {} =>
              Len(r) = c /\ \A j \in kept + 1 .. c : r[j] = m.entries[j - p]
    BY MergedEntries, KeptLenBounds
  <1>. HIDE DEF r, x
  <1>7. p <= Len(l) /\ \A j \in 1 .. p : l[j] = x[j]
    <2>1. p <= Len(l)
      BY <1>1 DEF PrevMissing
    <2>2. CASE p = 0
      BY <2>1, <2>2
    <2>3. CASE 0 < p
      <3>1. p \in DOMAIN l /\ p \in 1 .. c
        BY <1>1, <2>1, <2>3
      <3>2. l[p].term = x[p].term
        BY <1>4, <2>3, <3>1 DEF PrevDiffers
      <3>. QED  BY <1>5, <2>1, <3>1, <3>2
    <2>. QED  BY <1>1, <2>2, <2>3
  \* An entry of m that does not differ vouches for the log up to it.
  <1>8. ASSUME NEW k \in DOMAIN m.entries, k \notin Differs(l, m)
        PROVE  p + k <= Len(l) /\ \A j \in 1 .. p + k : l[j] = x[j]
    <2>1. ~(p + k > Len(l)) /\ l[p + k].term = m.entries[k].term
      BY <1>8 DEF Differs
    <2>2. p + k <= Len(l) /\ p + k \in 1 .. c /\ l[p + k].term = x[p + k].term
      BY <1>1, <1>4, <2>1
    <2>. QED  BY <1>5, <2>2
  <1>9. CASE Differs(l, m) = {}
    <2>1. c <= kept
      <3>1. CASE kept = Len(l) /\ Len(m.entries) = 0
        BY <1>1, <1>7, <3>1
      <3>2. CASE kept = Len(l) /\ Len(m.entries) # 0
        <4>1. Len(m.entries) \in DOMAIN m.entries
          BY <1>1, <3>2
        <4>. QED  BY <1>8, <1>9, <3>2, <4>1
      <3>3. CASE kept # Len(l)
        <4>1. m.entries = << >> /\ kept = p
          BY <1>9, <3>3 DEF KeptLen
        <4>2. Len(m.entries) = 0
          BY <4>1, EmptySeq
        <4>. QED  BY <1>1, <4>1, <4>2
      <3>. QED  BY <3>1, <3>2, <3>3
    <2>2. \A j \in 1 .. c : l[j] = x[j]
      <3>1. CASE Len(m.entries) = 0
        BY <1>1, <1>7, <3>1
      <3>2. CASE Len(m.entries) # 0
        <4>1. Len(m.entries) \in DOMAIN m.entries
          BY <1>1, <3>2
        <4>. QED  BY <1>8, <1>9, <4>1
      <3>. QED  BY <3>1, <3>2
    <2>3. c \in Nat /\ kept \in Nat /\ Len(r) = kept
      BY <1>1, <1>6, <1>9
    <2>. HIDE DEF c, kept
    <2>4. Agree(r, x, c)
      BY <1>4, <1>6, <2>1, <2>2, <2>3 DEF Agree
    <2>. QED  BY <1>3, <1>4, <2>4 DEF c, r, x
  <1>10. CASE Differs(l, m) # {}
    <2>. DEFINE d == CHOOSE d \in Differs(l, m) : \A j \in Differs(l, m) : d <= j
    <2>1. d \in Differs(l, m) /\ \A j \in Differs(l, m) : d <= j
      BY <1>10, LeastDiffers, Zenon
    <2>2. kept = p + d - 1
      BY <1>10 DEF KeptLen
    <2>. HIDE DEF d
    <2>3. d \in DOMAIN m.entries
      BY <2>1 DEF Differs
    <2>4. \A j \in 1 .. kept : l[j] = x[j]
      <3>1. CASE d = 1
        BY <1>1, <1>7, <2>2, <3>1
      <3>2. CASE d # 1
        <4>1. d - 1 \in DOMAIN m.entries /\ p + (d - 1) = kept
          BY <1>1, <2>2, <2>3, <3>2
        <4>2. d - 1 \notin Differs(l, m)
          BY <1>1, <2>1, <2>3
        <4>. QED  BY <1>8, <4>1, <4>2
      <3>. QED  BY <3>1, <3>2
    <2>5. \A j \in kept + 1 .. c : j - p \in DOMAIN m.entries /\ p + (j - p) = j
      BY <1>1, <1>6
    <2>6. \A j \in kept + 1 .. c : r[j] = x[j]
      BY <1>4, <1>6, <1>10, <2>5
    <2>7. c \in Nat /\ kept \in Nat /\ Len(r) = c /\ Len(x) \in Nat
      BY <1>1, <1>2, <1>6, <1>10
    <2>. HIDE DEF c, kept
    <2>8. \A j \in 1 .. c : j \in 1 .. kept \/ j \in kept + 1 .. c
      BY <2>7
    <2>9. Agree(r, x, c)
      BY <1>4, <1>6, <2>4, <2>6, <2>7, <2>8 DEF Agree
    <2>. QED  BY <1>3, <1>4, <2>9 DEF c, r, x
  <1>. QED  BY <1>9, <1>10

-----------------------------------------------------------------------------
(* Entries that a majority may acknowledge, and those it has acknowledged. *)

LEMMA OwnGrown ==
    ASSUME NEW h \in Histories, NEW g \in Histories, Grows(h, g), NEW t \in Nat, NEW i
    PROVE  /\ Own(h, t, i) => Own(g, t, i)
           /\ Own(g, t, i) /\ i <= Len(h[t]) => Own(h, t, i)
           /\ Own(g, t, i) => i \in Nat /\ 0 < i /\ i <= Len(g[t])
  <1>1. Len(h[t]) \in Nat /\ Len(g[t]) \in Nat
    BY EntryAt DEF Histories
  <1>2. Len(h[t]) <= Len(g[t]) /\ \A j \in 1 .. Len(h[t]) : h[t][j] = g[t][j]
    BY DEF Grows
  <1>. QED  BY <1>1, <1>2 DEF Own

\* Steps that raise terms, and acknowledgements of servers whose term was not above.
LEMMA ChoosableBefore ==
    ASSUME NEW h \in Histories, NEW g \in Histories, Grows(h, g),
           NEW a \in Acks, NEW b \in Acks, NEW ct \in [Server -> Nat], NEW dt \in [Server -> Nat],
           \A v \in Server : ct[v] <= dt[v],
           NEW t \in Nat, \A v \in Server : a[t][v] < b[t][v] => ct[v] <= t,
           NEW i, i <= Len(h[t]), Choosable(g, b, dt, t, i)
    PROVE  Choosable(h, a, ct, t, i)
  <1>1. Own(h, t, i) /\ i \in Nat
    BY OwnGrown DEF Choosable
  <1>2. PICK Q \in SUBSET Server :
           IsMajority(Cardinality(Q)) /\ \A v \in Q : i <= b[t][v] \/ dt[v] <= t
    BY DEF Choosable
  <1>3. ASSUME NEW v \in Q PROVE i <= a[t][v] \/ ct[v] <= t
    <2>1. v \in Server
      BY <1>2
    <2>2. a[t][v] \in Nat /\ b[t][v] \in Nat /\ ct[v] \in Nat /\ dt[v] \in Nat
      BY <2>1 DEF Acks
    <2>3. ct[v] <= dt[v] /\ (a[t][v] < b[t][v] => ct[v] <= t) /\ (i <= b[t][v] \/ dt[v] <= t)
      BY <1>2, <2>1
    <2>. QED  BY <1>1, <2>2, <2>3
  <1>. QED  BY <1>1, <1>2, <1>3 DEF Choosable

LEMMA CommittedGrown ==
    ASSUME NEW h \in Histories, NEW g \in Histories, Grows(h, g), NEW a \in Acks, NEW b \in Acks,
           NEW t \in Nat, \A v \in Server : a[t][v] <= b[t][v],
           NEW c, Committed(h, a, t, c)
    PROVE  Committed(g, b, t, c)
  <1>1. PICK i \in Nat : /\ c <= i /\ Own(h, t, i)
                         /\ \E Q \in SUBSET Server :
                               IsMajority(Cardinality(Q)) /\ \A v \in Q : i <= a[t][v]
    BY DEF Committed
  <1>2. PICK Q \in SUBSET Server : IsMajority(Cardinality(Q)) /\ \A v \in Q : i <= a[t][v]
    BY <1>1
  <1>3. ASSUME NEW v \in Q PROVE i <= b[t][v]
    <2>1. a[t][v] \in Nat /\ b[t][v] \in Nat /\ a[t][v] <= b[t][v] /\ i <= a[t][v]
      BY <1>2 DEF Acks
    <2>. QED  BY <2>1
  <1>. QED  BY <1>1, <1>2, <1>3, OwnGrown DEF Committed

\* What is committed may be committed.
LEMMA CommittedChoosable ==
    ASSUME NEW h, NEW a, NEW ct, NEW t, NEW c, Committed(h, a, t, c)
    PROVE  \E i \in Nat :
              /\ c <= i /\ Choosable(h, a, ct, t, i)
              /\ \E Q \in SUBSET Server : IsMajority(Cardinality(Q)) /\ \A v \in Q : i <= a[t][v]
  BY DEF Committed, Choosable

-----------------------------------------------------------------------------
(* The network, connection by connection. *)

\* From n to N, s has sent at most what is in out, behind all else; the rest is in its order.
Orderly(n, N, s, out) ==
    \A x, y \in Server : \A k \in DOMAIN N[x][y] :
        \/ \E j \in DOMAIN n[x][y] :
              /\ N[x][y][k] = n[x][y][j]
              /\ \A d \in 1 .. k - 1 : \E e \in 1 .. j - 1 : N[x][y][d] = n[x][y][e]
        \/ /\ x = s /\ y # s /\ [to |-> y, msg |-> N[x][y][k]] \in out
           /\ \A d \in 1 .. k - 1 : N[x][y][d] \in InFlight(n, x, y)

LEMMA DropOrder ==
    ASSUME NEW c \in Seq(Message), NEW i \in DOMAIN c, NEW k \in DOMAIN Drop(c, i)
    PROVE  \E j \in DOMAIN c : /\ Drop(c, i)[k] = c[j] /\ (i = 1 => 1 < j)
                               /\ \A d \in 1 .. k - 1 : \E e \in 1 .. j - 1 : Drop(c, i)[d] = c[e]
  <1>1. Len(c) \in Nat /\ DOMAIN c = 1 .. Len(c)
    BY LenProperties
  <1>2. DOMAIN Drop(c, i) = 1 .. Len(c) - 1
    BY DEF Drop
  <1>3. \A d \in 1 .. Len(c) - 1 : Drop(c, i)[d] = IF d < i THEN c[d] ELSE c[d + 1]
    BY DEF Drop
  <1>4. k \in 1 .. Len(c) - 1 /\ i \in 1 .. Len(c)
    BY <1>1, <1>2
  <1>. DEFINE j == IF k < i THEN k ELSE k + 1
  <1>5. j \in DOMAIN c /\ Drop(c, i)[k] = c[j] /\ (i = 1 => 1 < j)
    BY <1>1, <1>3, <1>4
  <1>6. ASSUME NEW d \in 1 .. k - 1 PROVE \E e \in 1 .. j - 1 : Drop(c, i)[d] = c[e]
    <2>. DEFINE e == IF d < i THEN d ELSE d + 1
    <2>1. d \in 1 .. Len(c) - 1 /\ e \in 1 .. j - 1
      BY <1>1, <1>4
    <2>2. Drop(c, i)[d] = c[e]
      BY <1>3, <2>1
    <2>. QED  BY <2>1, <2>2
  <1>. QED  BY <1>5, <1>6

LEMMA TakeOrderly ==
    ASSUME NEW n \in Network, NEW p \in Server, NEW s \in Server, NEW i \in DOMAIN n[p][s],
           NEW z, NEW out
    PROVE  /\ Orderly(n, Take(n, p, s, i), z, out)
           /\ i = 1 => \A k \in DOMAIN Take(n, p, s, i)[p][s] :
                          \E j \in DOMAIN n[p][s] : 1 < j /\ Take(n, p, s, i)[p][s][k] = n[p][s][j]
  <1>. DEFINE N == Take(n, p, s, i)
  <1>1. \A x, y \in Server : n[x][y] \in Seq(Message)
    BY DEF Network
  <1>2. \A x, y \in Server : N[x][y] = IF x = p /\ y = s THEN Drop(n[p][s], i) ELSE n[x][y]
    BY DEF Take, Network
  <1>. HIDE DEF N
  <1>3. ASSUME NEW k \in DOMAIN N[p][s]
        PROVE  \E j \in DOMAIN n[p][s] :
                  /\ N[p][s][k] = n[p][s][j] /\ (i = 1 => 1 < j)
                  /\ \A d \in 1 .. k - 1 : \E e \in 1 .. j - 1 : N[p][s][d] = n[p][s][e]
    <2>1. PICK c : c = n[p][s]
      OBVIOUS
    <2>2. N[p][s] = Drop(c, i) /\ c \in Seq(Message) /\ i \in DOMAIN c
      BY <1>1, <1>2, <2>1
    <2>3. k \in DOMAIN Drop(c, i)
      BY <2>2
    <2>4. \E j \in DOMAIN c : /\ Drop(c, i)[k] = c[j] /\ (i = 1 => 1 < j)
                              /\ \A d \in 1 .. k - 1 : \E e \in 1 .. j - 1 : Drop(c, i)[d] = c[e]
      BY <2>2, <2>3, DropOrder
    <2>. QED  BY <2>1, <2>2, <2>4
  <1>4. ASSUME NEW x \in Server, NEW y \in Server, NEW k \in DOMAIN N[x][y]
        PROVE  \E j \in DOMAIN n[x][y] :
                  /\ N[x][y][k] = n[x][y][j]
                  /\ \A d \in 1 .. k - 1 : \E e \in 1 .. j - 1 : N[x][y][d] = n[x][y][e]
    <2>1. CASE x = p /\ y = s
      BY <1>3, <2>1
    <2>2. CASE ~(x = p /\ y = s)
      BY <1>2, <2>2
    <2>. QED  BY <2>1, <2>2
  <1>. QED  BY <1>3, <1>4 DEF Orderly, N

\* What s sends when it sends out[q] to every q of D.
Packets(D, out) == {[to |-> q, msg |-> out[q]] : q \in D}

LEMMA SendOrderly ==
    ASSUME NEW n \in Network, NEW s \in Server, NEW D \in SUBSET Peers(s),
           NEW out \in [D -> Message]
    PROVE  Orderly(n, Send(n, s, out), s, Packets(D, out))
  <1>. DEFINE N == Send(n, s, out)
  <1>1. \A x, y \in Server : n[x][y] \in Seq(Message)
    BY DEF Network
  <1>2. DOMAIN out = D /\ D \subseteq Server /\ s \notin D
    BY DEF Peers
  <1>3. N = [n EXCEPT ![s] = [q \in Server |-> IF q \in D THEN Put(n[s][q], out[q]) ELSE n[s][q]]]
    BY <1>2 DEF Send
  <1>4. \A x, y \in Server : N[x][y] = IF x = s /\ y \in D THEN Put(n[s][y], out[y]) ELSE n[x][y]
    BY <1>3 DEF Network
  <1>. HIDE DEF N
  <1>. SUFFICES ASSUME NEW x \in Server, NEW y \in Server, NEW k \in DOMAIN N[x][y]
                PROVE  \/ \E j \in DOMAIN n[x][y] :
                             /\ N[x][y][k] = n[x][y][j]
                             /\ \A d \in 1 .. k - 1 : \E e \in 1 .. j - 1 : N[x][y][d] = n[x][y][e]
                       \/ /\ x = s /\ y # s /\ [to |-> y, msg |-> N[x][y][k]] \in Packets(D, out)
                          /\ \A d \in 1 .. k - 1 : N[x][y][d] \in InFlight(n, x, y)
    BY DEF Orderly, N
  <1>5. CASE N[x][y] = n[x][y]
    BY <1>5
  <1>6. CASE N[x][y] # n[x][y]
    <2>1. x = s /\ y \in D /\ N[x][y] = Append(n[x][y], out[y]) /\ out[y] \in Message
      BY <1>4, <1>6 DEF Put
    <2>. DEFINE c == n[x][y]
    <2>2. c \in Seq(Message) /\ Len(c) \in Nat /\ DOMAIN c = 1 .. Len(c)
      BY <1>1, LenProperties
    <2>3. /\ DOMAIN N[x][y] = 1 .. Len(c) + 1
          /\ \A j \in 1 .. Len(c) : N[x][y][j] = c[j]
          /\ N[x][y][Len(c) + 1] = out[y]
      BY <2>1, <2>2, AppendProperties, LenProperties
    <2>. HIDE DEF c
    <2>4. CASE k <= Len(c)
      <3>1. k \in DOMAIN c /\ N[x][y][k] = c[k]
        BY <2>2, <2>3, <2>4
      <3>2. \A d \in 1 .. k - 1 : N[x][y][d] = c[d]
        BY <2>2, <2>3, <2>4
      <3>. QED  BY <3>1, <3>2 DEF c
    <2>5. CASE ~(k <= Len(c))
      <3>1. k = Len(c) + 1
        BY <2>2, <2>3, <2>5
      <3>2. [to |-> y, msg |-> N[x][y][k]] \in Packets(D, out)
        BY <2>1, <2>3, <3>1 DEF Packets
      <3>3. ASSUME NEW d \in 1 .. k - 1 PROVE N[x][y][d] \in InFlight(n, x, y)
        <4>1. d \in DOMAIN c /\ N[x][y][d] = c[d]
          BY <2>2, <2>3, <3>1
        <4>. QED  BY <4>1 DEF c, InFlight
      <3>. QED  BY <1>2, <2>1, <3>2, <3>3
    <2>. QED  BY <2>4, <2>5
  <1>. QED  BY <1>5, <1>6

LEMMA OrderlyBoth ==
    ASSUME NEW n, NEW k, NEW N, NEW s, NEW out, Orderly(n, k, s, {}), Orderly(k, N, s, out)
    PROVE  Orderly(n, N, s, out)
  <1>1. ASSUME NEW x \in Server, NEW y \in Server, NEW j \in DOMAIN k[x][y]
        PROVE  \E i \in DOMAIN n[x][y] :
                  /\ k[x][y][j] = n[x][y][i]
                  /\ \A d \in 1 .. j - 1 : \E e \in 1 .. i - 1 : k[x][y][d] = n[x][y][e]
    BY DEF Orderly
  <1>2. ASSUME NEW x \in Server, NEW y \in Server
        PROVE  InFlight(k, x, y) \subseteq InFlight(n, x, y)
    BY <1>1 DEF InFlight
  <1>. SUFFICES ASSUME NEW x \in Server, NEW y \in Server, NEW i \in DOMAIN N[x][y]
                PROVE  \/ \E j \in DOMAIN n[x][y] :
                             /\ N[x][y][i] = n[x][y][j]
                             /\ \A d \in 1 .. i - 1 : \E e \in 1 .. j - 1 : N[x][y][d] = n[x][y][e]
                       \/ /\ x = s /\ y # s /\ [to |-> y, msg |-> N[x][y][i]] \in out
                          /\ \A d \in 1 .. i - 1 : N[x][y][d] \in InFlight(n, x, y)
    BY DEF Orderly
  <1>3. CASE \E j \in DOMAIN k[x][y] :
                /\ N[x][y][i] = k[x][y][j]
                /\ \A d \in 1 .. i - 1 : \E e \in 1 .. j - 1 : N[x][y][d] = k[x][y][e]
    <2>1. PICK j \in DOMAIN k[x][y] :
                /\ N[x][y][i] = k[x][y][j]
                /\ \A d \in 1 .. i - 1 : \E e \in 1 .. j - 1 : N[x][y][d] = k[x][y][e]
      BY <1>3
    <2>2. PICK z \in DOMAIN n[x][y] :
                /\ k[x][y][j] = n[x][y][z]
                /\ \A d \in 1 .. j - 1 : \E e \in 1 .. z - 1 : k[x][y][d] = n[x][y][e]
      BY <1>1
    <2>3. ASSUME NEW d \in 1 .. i - 1 PROVE \E e \in 1 .. z - 1 : N[x][y][d] = n[x][y][e]
      <3>1. PICK e \in 1 .. j - 1 : N[x][y][d] = k[x][y][e]
        BY <2>1
      <3>. QED  BY <2>2, <3>1
    <2>. QED  BY <2>1, <2>2, <2>3
  <1>4. CASE /\ x = s /\ y # s /\ [to |-> y, msg |-> N[x][y][i]] \in out
             /\ \A d \in 1 .. i - 1 : N[x][y][d] \in InFlight(k, x, y)
    BY <1>2, <1>4
  <1>. QED  BY <1>3, <1>4 DEF Orderly

-----------------------------------------------------------------------------
(* Votes. *)

\* Who gets the vote of a server that has the i-th entry of term t has it too, if all leaders
\* of later terms had it (__should_grant_vote).
LEMMA VoteKeeps ==
    ASSUME NEW h \in Histories, TermsRise(h), NEW l \in Seq(Entry), LogFits(h, l),
           NEW c \in Seq(Entry), LogFits(h, c), NEW t \in Nat, NEW i \in Nat, Own(h, t, i),
           \A u \in Nat : t < u /\ h[u] # << >> => Agree(h[u], h[t], i),
           Agree(l, h[t], i), UpToDate(l, Len(c), LastTerm(c))
    PROVE  Agree(c, h[t], i)
  <1>. DEFINE n == Len(c)
              u == LastTerm(c)
  <1>1. /\ Len(l) \in Nat /\ DOMAIN l = 1 .. Len(l) /\ n \in Nat /\ DOMAIN c = 1 .. n
        /\ h[t] \in Seq(Entry) /\ Len(h[t]) \in Nat
        /\ \A j \in 1 .. n : c[j].term \in Nat
        /\ \A j \in 1 .. Len(l) : l[j].term \in Nat
    BY EntryAt DEF Histories
  <1>2. /\ i \in 1 .. Len(l) /\ i \in 1 .. Len(h[t]) /\ l[i].term = t
        /\ \A j \in 1 .. i : l[j] = h[t][j]
    <2>1. i \in 1 .. Len(h[t]) /\ h[t][i].term = t
      BY DEF Own
    <2>2. i <= Len(l) /\ \A j \in 1 .. i : l[j] = h[t][j]
      BY DEF Agree
    <2>3. i \in 1 .. i /\ i \in 1 .. Len(l)
      BY <1>1, <2>1, <2>2
    <2>4. l[i] = h[t][i]
      BY <2>2, <2>3
    <2>. QED  BY <2>1, <2>2, <2>3, <2>4
  <1>3. LastTerm(l) = l[Len(l)].term /\ t <= LastTerm(l) /\ LastTerm(l) \in Nat
    <2>1. l # << >> /\ Len(l) \in DOMAIN l /\ i \in DOMAIN l /\ i <= Len(l)
      BY <1>1, <1>2, EmptySeq
    <2>2. l[i].term <= l[Len(l)].term
      BY <2>1, LogTermsRise
    <2>. QED  BY <1>1, <1>2, <2>1, <2>2 DEF LastTerm
  <1>4. LastTerm(l) < u \/ (LastTerm(l) = u /\ Len(l) <= n)
    <2>1. l # << >>
      BY <1>1, <1>2, EmptySeq
    <2>. QED  BY <2>1 DEF UpToDate
  <1>5. c # << >> /\ n \in 1 .. n /\ u = c[n].term /\ u \in Nat
    <2>1. c # << >>
      <3>. SUFFICES ASSUME c = << >> PROVE FALSE
        OBVIOUS
      <3>1. u = 0 /\ n = 0
        BY EmptySeq DEF LastTerm
      <3>. QED  BY <1>1, <1>2, <1>3, <1>4, <3>1
    <2>2. n # 0
      BY <2>1, EmptySeq
    <2>3. n \in 1 .. n /\ u = c[n].term
      BY <1>1, <2>1, <2>2 DEF LastTerm
    <2>. HIDE DEF n, u
    <2>. QED  BY <1>1, <2>1, <2>3
  <1>6. n <= Len(h[u]) /\ \A j \in 1 .. n : c[j] = h[u][j]
    <2>1. n \in DOMAIN c
      BY <1>1, <1>5
    <2>. QED  BY <1>5, <2>1 DEF LogFits
  <1>7. h[u] \in Seq(Entry) /\ Len(h[u]) \in Nat /\ DOMAIN h[u] = 1 .. Len(h[u])
    <2>1. h[u] \in Seq(Entry)
      BY <1>5 DEF Histories
    <2>. QED  BY <2>1, EntryAt
  <1>. HIDE DEF u, n
  <1>8. CASE u = t
    <2>1. Len(l) <= n
      BY <1>3, <1>4, <1>5, <1>8
    <2>2. i <= n
      BY <1>1, <1>2, <2>1
    <2>. QED  BY <1>1, <1>2, <1>6, <1>8, <2>2 DEF Agree, n
  <1>9. CASE t < u
    <2>1. h[u] # << >>
      <3>1. Len(h[u]) # 0
        BY <1>1, <1>5, <1>6, <1>7
      <3>. QED  BY <1>7, <3>1, EmptySeq
    <2>2. Agree(h[u], h[t], i)
      BY <1>5, <1>9, <2>1
    <2>3. i <= Len(h[u]) /\ \A j \in 1 .. i : h[u][j] = h[t][j]
      BY <2>2 DEF Agree
    <2>4. h[u][i].term = t /\ h[u][n].term = u /\ i \in DOMAIN h[u] /\ n \in DOMAIN h[u]
      <3>1. i \in 1 .. i /\ i \in DOMAIN h[u] /\ n \in DOMAIN h[u]
        BY <1>1, <1>2, <1>5, <1>6, <1>7, <2>3
      <3>2. h[u][i] = h[t][i] /\ h[u][n] = c[n] /\ h[t][i].term = t
        BY <1>2, <1>5, <1>6, <2>3, <3>1
      <3>. QED  BY <1>5, <3>1, <3>2
    <2>5. n <= i => u <= t
      BY <1>5, <2>4 DEF TermsRise
    <2>6. i <= n
      BY <1>1, <1>2, <1>5, <1>9, <2>5
    <2>. QED  BY <1>1, <1>2, <1>6, <2>3, <2>6 DEF Agree, n
  <1>. QED  BY <1>3, <1>4, <1>5, <1>8, <1>9

-----------------------------------------------------------------------------
(* Steps. *)

\* The vote b that s gives: to itself in a new term, or to a log that is up to date.
Votes(s, b) ==
    /\ b.voter = s /\ b.term = current_term'[s] /\ log'[s] = log[s]
    /\ \/ b.candidate = s /\ current_term[s] < current_term'[s]
       \/ /\ b.candidate # s
          /\ \E m \in InFlight(net, b.candidate, s) :
                /\ m.type = "requestvote" /\ m.term = b.term
                /\ UpToDate(log[s], m.last_log_idx, m.last_log_term)

\* What s sends describes its state after the step.
Proper(s, m) ==
    /\ m.type = "requestvote" => m = RequestVote(current_term'[s], log'[s])
    /\ m.type = "appendentries" =>
          /\ state'[s] = "leader"
          /\ \E next \in Nat \ {0} :
                m = AppendEntries(current_term'[s], log'[s], commit_idx'[s], next)

\* A step of s in which it sends out.
Moves(s, out) ==
    /\ Orderly(net, net', s, out)
    /\ \A k \in out : Proper(s, k.msg)
    /\ \A x \in Server \ {s} :
          /\ log'[x] = log[x] /\ current_term'[x] = current_term[x] /\ state'[x] = state[x]
          /\ commit_idx'[x] = commit_idx[x] /\ match_idx'[x] = match_idx[x]
    /\ current_term[s] <= current_term'[s]
    /\ elected \subseteq elected'
    /\ \A e \in elected' \ elected : e = [term |-> current_term'[s], leader |-> s]
    /\ ballots \subseteq ballots'
    /\ \A b \in ballots' \ ballots : Votes(s, b)
    /\ state'[s] # "follower" =>
          \/ current_term'[s] = current_term[s] /\ state[s] # "follower"
          \/ current_term[s] < current_term'[s] /\ 1 < Cardinality(Server)
    /\ state'[s] = "candidate" =>
          log'[s] = log[s] /\ (state[s] = "candidate" \/ current_term[s] < current_term'[s])

\* With the step of s the histories go from h to g and the acknowledgements from a to b.
Grown(s, h, g, a, b) ==
    /\ Grows(h, g)
    /\ \A t \in Nat : \/ g[t] = h[t]
                      \/ t = current_term[s] /\ t = current_term'[s] /\ IsElected(t, s)'
    /\ \A t \in Nat : \A v \in Server :
          \/ b[t][v] = a[t][v]
          \/ v = s /\ t = current_term'[s] /\ a[t][v] < b[t][v]

LEMMA Arrived ==
    ASSUME NEW s, NEW out, Orderly(net, net', s, out), NEW x \in Server, NEW y \in Server,
           NEW m \in InFlight(net', x, y)
    PROVE  m \in InFlight(net, x, y) \/ (x = s /\ y # s /\ [to |-> y, msg |-> m] \in out)
  <1>1. PICK k \in DOMAIN net'[x][y] : m = net'[x][y][k]
    BY DEF InFlight
  <1>. QED  BY <1>1 DEF Orderly, InFlight

LEMMA CandidacyStep ==
    ASSUME TypeOK, TypeOK', CandidacyInv, NEW s \in Server, NEW out, Moves(s, out)
    PROVE  CandidacyInv'
  <1>1. /\ current_term[s] \in Nat /\ current_term'[s] \in Nat /\ current_term[s] <= current_term'[s]
        /\ \A x \in Server : current_term[x] \in Nat
        /\ \A x \in Server \ {s} :
              current_term'[x] = current_term[x] /\ state'[x] = state[x] /\ log'[x] = log[x]
    BY DEF TypeOK, Moves
  <1>2. ASSUME NEW x \in Server, state'[x] # "follower"
        PROVE  0 < current_term'[x] /\ 1 < Cardinality(Server)
    <2>1. CASE x # s
      BY <1>1, <1>2, <2>1 DEF CandidacyInv
    <2>2. CASE x = s
      <3>1. \/ current_term'[s] = current_term[s] /\ state[s] # "follower"
            \/ current_term[s] < current_term'[s] /\ 1 < Cardinality(Server)
        BY <1>2, <2>2 DEF Moves
      <3>. QED  BY <1>1, <2>2, <3>1 DEF CandidacyInv
    <2>. QED  BY <2>1, <2>2
  <1>3. \A x \in Server : current_term[x] <= current_term'[x]
    BY <1>1
  <1>4. ASSUME NEW b \in ballots' PROVE b.term <= current_term'[b.candidate]
    <2>1. b.term \in Nat /\ b.candidate \in Server
      BY DEF TypeOK
    <2>2. CASE b \in ballots
      <3>1. b.term <= current_term[b.candidate]
        BY <2>2 DEF CandidacyInv
      <3>. QED  BY <1>1, <1>3, <2>1, <3>1
    <2>3. CASE b \notin ballots
      <3>1. Votes(s, b)
        BY <2>3 DEF Moves
      <3>2. CASE b.candidate = s
        BY <1>1, <3>1, <3>2 DEF Votes
      <3>3. CASE b.candidate # s
        <4>1. PICK m \in InFlight(net, b.candidate, s) : m.type = "requestvote" /\ m.term = b.term
          BY <3>1, <3>3 DEF Votes
        <4>2. m.term <= current_term[b.candidate]
          BY <2>1, <4>1 DEF CandidacyInv
        <4>. QED  BY <1>1, <2>1, <3>3, <4>1, <4>2
      <3>. QED  BY <3>2, <3>3
    <2>. QED  BY <2>2, <2>3
  <1>5. ASSUME NEW p \in Server, NEW q \in Server, NEW m \in InFlight(net', p, q),
               m.type = "requestvote"
        PROVE  /\ m.term <= current_term'[p]
               /\ m.term = current_term'[p] /\ state'[p] = "candidate" =>
                     m.last_log_idx = Len(log'[p]) /\ m.last_log_term = LastTerm(log'[p])
    <2>1. m.term \in Nat
      <3>1. net'[p][q] \in Seq(Message)
        BY DEF TypeOK
      <3>2. m \in Message
        BY <3>1 DEF InFlight
      <3>. QED  BY <3>2, MessageFields
    <2>2. CASE m \in InFlight(net, p, q)
      <3>1. /\ m.term <= current_term[p]
            /\ m.term = current_term[p] /\ state[p] = "candidate" =>
                  m.last_log_idx = Len(log[p]) /\ m.last_log_term = LastTerm(log[p])
        BY <1>5, <2>2 DEF CandidacyInv
      <3>2. CASE p # s
        BY <1>1, <3>1, <3>2
      <3>3. CASE p = s
        <4>1. m.term <= current_term'[s]
          BY <1>1, <2>1, <3>1, <3>3
        <4>2. ASSUME m.term = current_term'[s], state'[s] = "candidate"
              PROVE  m.last_log_idx = Len(log'[s]) /\ m.last_log_term = LastTerm(log'[s])
          <5>1. current_term'[s] = current_term[s]
            BY <1>1, <2>1, <3>1, <3>3, <4>2
          <5>2. log'[s] = log[s] /\ (state[s] = "candidate" \/ current_term[s] < current_term'[s])
            BY <4>2 DEF Moves
          <5>. QED  BY <1>1, <3>1, <3>3, <4>2, <5>1, <5>2
        <4>. QED  BY <3>3, <4>1, <4>2
      <3>. QED  BY <3>2, <3>3
    <2>3. CASE m \notin InFlight(net, p, q)
      <3>1. p = s /\ [to |-> q, msg |-> m] \in out
        BY <2>3, Arrived DEF Moves
      <3>2. [to |-> q, msg |-> m].msg = m
        OBVIOUS
      <3>3. Proper(s, m)
        BY <3>1, <3>2 DEF Moves
      <3>4. m = RequestVote(current_term'[s], log'[s])
        BY <1>5, <3>3 DEF Proper
      <3>. QED  BY <1>1, <3>1, <3>4 DEF RequestVote
    <2>. QED  BY <2>2, <2>3
  <1>. QED  BY <1>2, <1>4, <1>5 DEF CandidacyInv

LEMMA AcknowledgedStep ==
    ASSUME TypeOK, TypeOK', ElectionSafety', NEW s \in Server, NEW out, Moves(s, out),
           NEW h \in Histories, NEW g \in Histories, NEW a \in Acks, NEW b \in Acks,
           Grown(s, h, g, a, b), Acknowledged(h, a),
           b[current_term'[s]][s] <= Len(g[current_term'[s]]),
           IsElected(current_term[s], s)' => b[current_term'[s]][s] = Len(g[current_term'[s]]),
           Agree(log'[s], g[current_term'[s]], b[current_term'[s]][s])
    PROVE  Acknowledged(g, b)'
  <1>. DEFINE T == current_term'[s]
  <1>1. /\ current_term[s] \in Nat /\ T \in Nat /\ current_term[s] <= T
        /\ \A x \in Server : Len(log[x]) \in Nat
        /\ \A x \in Server \ {s} : current_term'[x] = current_term[x] /\ log'[x] = log[x]
    BY EntryAt DEF TypeOK, Moves
  <1>2. \A t \in Nat : Len(h[t]) \in Nat /\ Len(g[t]) \in Nat /\ Len(h[t]) <= Len(g[t])
    BY EntryAt DEF Histories, Grown, Grows
  <1>. SUFFICES ASSUME NEW t \in Nat, NEW v \in Server
                PROVE  /\ b[t][v] <= Len(g[t])
                       /\ 0 < b[t][v] => t <= current_term'[v]
                       /\ IsElected(t, v)' => b[t][v] = Len(g[t])
                       /\ current_term'[v] = t => Agree(log'[v], g[t], b[t][v])
    BY DEF Acknowledged
  <1>3. a[t][v] \in Nat /\ b[t][v] \in Nat
    BY DEF Acks
  <1>4. CASE v = s /\ t = T
    BY <1>1, <1>4 DEF IsElected
  <1>5. CASE ~(v = s /\ t = T)
    <2>1. b[t][v] = a[t][v]
      BY <1>5 DEF Grown
    <2>2. /\ a[t][v] <= Len(h[t]) /\ (0 < a[t][v] => t <= current_term[v])
          /\ IsElected(t, v) => a[t][v] = Len(h[t])
          /\ current_term[v] = t => Agree(log[v], h[t], a[t][v])
      BY DEF Acknowledged
    <2>3. b[t][v] <= Len(g[t])
      BY <1>2, <1>3, <2>1, <2>2
    <2>4. 0 < b[t][v] => t <= current_term'[v]
      <3>1. current_term[v] \in Nat /\ current_term'[v] \in Nat /\ current_term[v] <= current_term'[v]
        <4>1. current_term[v] \in Nat /\ current_term'[v] \in Nat
          BY DEF TypeOK
        <4>2. v = s \/ v \in Server \ {s}
          OBVIOUS
        <4>. QED  BY <1>1, <4>1, <4>2
      <3>. QED  BY <2>1, <2>2, <3>1
    <2>5. ASSUME IsElected(t, v)' PROVE b[t][v] = Len(g[t])
      <3>1. IsElected(t, v)
        BY <1>5, <2>5 DEF Moves, IsElected
      <3>2. g[t] = h[t]
        <4>. SUFFICES ASSUME g[t] # h[t] PROVE FALSE
          OBVIOUS
        <4>1. t = T /\ [term |-> t, leader |-> s] \in elected'
          BY DEF Grown, IsElected
        <4>2. v = s
          BY <2>5, <4>1 DEF ElectionSafety, IsElected
        <4>. QED  BY <1>5, <4>1, <4>2
      <3>. QED  BY <2>1, <2>2, <3>1, <3>2
    <2>6. ASSUME current_term'[v] = t PROVE Agree(log'[v], g[t], b[t][v])
      <3>1. v # s
        BY <1>5, <2>6
      <3>2. Agree(log[v], h[t], a[t][v])
        BY <1>1, <2>2, <2>6, <3>1
      <3>3. Agree(log[v], g[t], a[t][v])
        BY <1>1, <1>3, <3>2, AgreeGrown DEF Grown
      <3>. QED  BY <1>1, <2>1, <3>1, <3>3
    <2>. QED  BY <2>3, <2>4, <2>5, <2>6
  <1>. QED  BY <1>4, <1>5

\* What a leader has just sent reaches to the end of what it has written.
LEMMA NewMessage ==
    ASSUME TypeOK', LeadsElected', NEW s \in Server, NEW g \in Histories, History(g)', TermsRise(g),
           NEW m, Proper(s, m), m.type = "appendentries"
    PROVE  /\ m.term = current_term'[s] /\ m.leader_commit = commit_idx'[s]
           /\ log'[s] = g[m.term] /\ Piece(g[m.term], m) /\ Len(g[m.term]) <= Reach(m)
  <1>1. /\ current_term'[s] \in Nat /\ log'[s] \in Seq(Entry) /\ commit_idx'[s] \in Nat
    BY DEF TypeOK
  <1>2. PICK next \in Nat \ {0} : m = AppendEntries(current_term'[s], log'[s], commit_idx'[s], next)
    BY DEF Proper
  <1>3. IsElected(current_term[s], s)'
    BY DEF Proper, LeadsElected
  <1>4. log'[s] = g[current_term'[s]]
    BY <1>3 DEF History
  <1>5. \A j \in DOMAIN log'[s] : 0 < log'[s][j].term
    BY <1>1, <1>4 DEF TermsRise
  <1>6. /\ Piece(log'[s], m) /\ Len(log'[s]) <= Reach(m)
        /\ m.term = current_term'[s] /\ m.leader_commit = commit_idx'[s]
    BY <1>1, <1>2, <1>5, SentPiece
  <1>. QED  BY <1>4, <1>6

LEMMA UnderWay ==
    ASSUME TypeOK, NEW p \in Server, NEW q \in Server, NEW m \in InFlight(net, p, q)
    PROVE  m \in Message /\ m.term \in Nat
  <1>1. net[p][q] \in Seq(Message)
    BY DEF TypeOK
  <1>2. m \in Message
    BY <1>1 DEF InFlight
  <1>. QED  BY <1>2, MessageFields

LEMMA AcksGrow ==
    ASSUME NEW s, NEW h, NEW g, NEW a \in Acks, NEW b \in Acks, Grown(s, h, g, a, b),
           NEW t \in Nat, NEW v \in Server
    PROVE  a[t][v] \in Nat /\ b[t][v] \in Nat /\ a[t][v] <= b[t][v]
  <1>1. a[t][v] \in Nat /\ b[t][v] \in Nat
    BY DEF Acks
  <1>2. b[t][v] = a[t][v] \/ a[t][v] < b[t][v]
    BY DEF Grown
  <1>. QED  BY <1>1, <1>2

LEMMA MessagesStep ==
    ASSUME TypeOK, TypeOK', LeadsElected', ElectionSafety', NEW s \in Server, NEW out, Moves(s, out),
           NEW h \in Histories, NEW g \in Histories, NEW a \in Acks, NEW b \in Acks,
           Grown(s, h, g, a, b), History(h), History(g)', TermsRise(g),
           MessagesSound(h, a), Acknowledged(g, b)', CommitsSound(g, b)',
           \A x \in Server : \A m \in InFlight(net', x, s) \cap InFlight(net, x, s) :
              m.type = "appendentries" /\ m.term = current_term'[s]
                 /\ a[current_term'[s]][s] < b[current_term'[s]][s]
                 => b[current_term'[s]][s] <= Reach(m),
           \A k \in out : k.msg.type = "appendentries_response" /\ k.msg.success
                             => k.msg.current_idx <= b[k.msg.term][s]
    PROVE  MessagesSound(g, b)'
  <1>1. \A t \in Nat : \A v \in Server : a[t][v] \in Nat /\ b[t][v] \in Nat /\ a[t][v] <= b[t][v]
    BY AcksGrow
  <1>2. ASSUME NEW p \in Server, NEW q \in Server, NEW m \in InFlight(net', p, q),
               m \in InFlight(net, p, q)
        PROVE  Sound(g, b, p, q, m)
    <2>1. Sound(h, a, p, q, m)
      BY <1>2 DEF MessagesSound
    <2>2. m \in Message /\ m.term \in Nat
      BY <1>2, UnderWay
    <2>3. ASSUME m.type = "appendentries_response", m.success PROVE m.current_idx <= b[m.term][p]
      <3>1. m.current_idx \in Nat /\ m.current_idx <= a[m.term][p]
        BY <2>1, <2>2, <2>3, MessageFields DEF Sound
      <3>. QED  BY <1>1, <2>2, <3>1
    <2>4. ASSUME m.type = "appendentries"
          PROVE  /\ Piece(g[m.term], m)
                 /\ b[m.term][q] <= Reach(m)
                 /\ m.leader_commit <= Reach(m)
                 /\ 0 < m.leader_commit => \E t \in 0 .. m.term : Committed(g, b, t, m.leader_commit)
      <3>1. /\ Piece(h[m.term], m) /\ a[m.term][q] <= Reach(m) /\ m.leader_commit <= Reach(m)
            /\ 0 < m.leader_commit => \E t \in 0 .. m.term : Committed(h, a, t, m.leader_commit)
        BY <2>1, <2>4 DEF Sound
      <3>2. Piece(g[m.term], m)
        <4>1. h[m.term] \in Seq(Entry) /\ g[m.term] \in Seq(Entry)
          BY <2>2 DEF Histories
        <4>2. Len(h[m.term]) <= Len(g[m.term]) /\ \A j \in 1 .. Len(h[m.term]) : h[m.term][j] = g[m.term][j]
          BY <2>2 DEF Grown, Grows
        <4>. QED  BY <2>2, <2>4, <3>1, <4>1, <4>2, PieceGrown
      <3>3. b[m.term][q] <= Reach(m)
        <4>1. CASE b[m.term][q] = a[m.term][q]
          BY <3>1, <4>1
        <4>2. CASE b[m.term][q] # a[m.term][q]
          <5>1. q = s /\ m.term = current_term'[s] /\ a[m.term][q] < b[m.term][q]
            BY <2>2, <4>2 DEF Grown
          <5>. QED  BY <1>2, <2>4, <5>1
        <4>. QED  BY <4>1, <4>2
      <3>4. ASSUME 0 < m.leader_commit PROVE \E t \in 0 .. m.term : Committed(g, b, t, m.leader_commit)
        <4>1. PICK t \in 0 .. m.term : Committed(h, a, t, m.leader_commit)
          BY <3>1, <3>4
        <4>2. t \in Nat
          BY <2>2
        <4>3. \A v \in Server : a[t][v] <= b[t][v]
          BY <1>1, <4>2
        <4>. QED  BY <4>1, <4>2, <4>3, CommittedGrown DEF Grown
      <3>. QED  BY <3>1, <3>2, <3>3, <3>4
    <2>. QED  BY <2>3, <2>4 DEF Sound
  <1>3. ASSUME NEW q \in Server, NEW m \in InFlight(net', s, q), [to |-> q, msg |-> m] \in out
        PROVE  Sound(g, b, s, q, m) /\ (m.type = "appendentries" => Len(g[m.term]) <= Reach(m))
    <2>1. m \in Message /\ m.term \in Nat
      <3>1. net'[s][q] \in Seq(Message)
        BY DEF TypeOK
      <3>2. m \in Message
        BY <3>1 DEF InFlight
      <3>. QED  BY <3>2, MessageFields
    <2>2. [to |-> q, msg |-> m].msg = m
      OBVIOUS
    <2>3. Proper(s, m) /\ (m.type = "appendentries_response" /\ m.success => m.current_idx <= b[m.term][s])
      BY <1>3, <2>2 DEF Moves
    <2>4. ASSUME m.type = "appendentries"
          PROVE  /\ Piece(g[m.term], m) /\ Len(g[m.term]) <= Reach(m)
                 /\ b[m.term][q] <= Reach(m)
                 /\ m.leader_commit <= Reach(m)
                 /\ 0 < m.leader_commit => \E t \in 0 .. m.term : Committed(g, b, t, m.leader_commit)
      <3>1. /\ m.term = current_term'[s] /\ m.leader_commit = commit_idx'[s]
            /\ log'[s] = g[m.term] /\ Piece(g[m.term], m) /\ Len(g[m.term]) <= Reach(m)
        BY <2>3, <2>4, NewMessage
      <3>2. Reach(m) \in Nat /\ Len(g[m.term]) \in Nat
        BY <2>1, <2>4, ReachType, EntryAt DEF Histories
      <3>3. b[m.term][q] <= Reach(m)
        <4>1. b[m.term][q] <= Len(g[m.term])
          BY <2>1 DEF Acknowledged
        <4>. QED  BY <1>1, <2>1, <3>1, <3>2, <4>1
      <3>4. m.leader_commit \in Nat
        BY <2>1, <2>4, MessageFields
      <3>5. ASSUME 0 < m.leader_commit
            PROVE  /\ m.leader_commit <= Len(g[m.term])
                   /\ \E t \in 0 .. m.term : Committed(g, b, t, m.leader_commit)
        <4>1. PICK t \in 0 .. m.term :
                 Committed(g, b, t, m.leader_commit) /\ Agree(log'[s], g[t], m.leader_commit)
          BY <3>1, <3>5 DEF CommitsSound
        <4>. QED  BY <3>1, <4>1 DEF Agree
      <3>. QED  BY <3>1, <3>2, <3>3, <3>4, <3>5
    <2>. QED  BY <2>3, <2>4 DEF Sound
  <1>4. ASSUME NEW p \in Server, NEW q \in Server, NEW m \in InFlight(net', p, q)
        PROVE  Sound(g, b, p, q, m)
    <2>1. m \in InFlight(net, p, q) \/ (p = s /\ [to |-> q, msg |-> m] \in out)
      BY Arrived DEF Moves
    <2>. QED  BY <1>2, <1>3, <2>1
  <1>5. ASSUME NEW p \in Server, NEW q \in Server, NEW j \in DOMAIN net'[p][q], NEW k \in DOMAIN net'[p][q],
               j < k
        PROVE  Ahead(net'[p][q][j], net'[p][q][k])
    <2>. DEFINE m == net'[p][q][j]
                n == net'[p][q][k]
    <2>1. j \in 1 .. k - 1
      <3>1. net'[p][q] \in Seq(Message)
        BY DEF TypeOK
      <3>2. DOMAIN net'[p][q] = 1 .. Len(net'[p][q]) /\ Len(net'[p][q]) \in Nat
        BY <3>1, LenProperties
      <3>. QED  BY <1>5, <3>2
    <2>2. CASE \E i \in DOMAIN net[p][q] :
                  /\ n = net[p][q][i]
                  /\ \A d \in 1 .. k - 1 : \E e \in 1 .. i - 1 : net'[p][q][d] = net[p][q][e]
      <3>1. PICK i \in DOMAIN net[p][q] :
                  /\ n = net[p][q][i]
                  /\ \A d \in 1 .. k - 1 : \E e \in 1 .. i - 1 : net'[p][q][d] = net[p][q][e]
        BY <2>2
      <3>2. PICK e \in 1 .. i - 1 : m = net[p][q][e]
        BY <2>1, <3>1
      <3>3. e \in DOMAIN net[p][q] /\ e < i
        <4>1. net[p][q] \in Seq(Message)
          BY DEF TypeOK
        <4>2. DOMAIN net[p][q] = 1 .. Len(net[p][q]) /\ Len(net[p][q]) \in Nat
          BY <4>1, LenProperties
        <4>. QED  BY <4>2
      <3>4. Ahead(net[p][q][e], net[p][q][i])
        BY <3>3 DEF MessagesSound
      <3>. QED  BY <3>1, <3>2, <3>4
    <2>3. CASE /\ p = s /\ q # s /\ [to |-> q, msg |-> n] \in out
               /\ \A d \in 1 .. k - 1 : net'[p][q][d] \in InFlight(net, p, q)
      <3>1. m \in InFlight(net, p, q)
        BY <2>1, <2>3
      <3>2. n \in InFlight(net', p, q)
        BY DEF InFlight
      <3>3. m \in Message /\ m.term \in Nat
        BY <3>1, UnderWay
      <3>. HIDE DEF m, n
      <3>. SUFFICES ASSUME m.type = "appendentries", n.type = "appendentries", m.term = n.term,
                           ~Beyond(m)
                    PROVE  Reach(m) <= Reach(n)
        BY DEF Ahead, m, n
      <3>4. Len(g[n.term]) <= Reach(n) /\ n \in Message
        <4>1. net'[p][q] \in Seq(Message)
          BY DEF TypeOK
        <4>2. n \in Message
          BY <4>1 DEF n
        <4>. QED  BY <1>3, <2>3, <3>2, <4>2
      <3>5. Piece(h[m.term], m)
        BY <3>1 DEF MessagesSound, Sound
      <3>6. Reach(m) <= Len(h[m.term])
        BY <3>5 DEF Piece
      <3>7. Len(h[m.term]) <= Len(g[m.term])
        BY <3>3 DEF Grown, Grows
      <3>8. Reach(m) \in Nat /\ Reach(n) \in Nat /\ Len(h[m.term]) \in Nat /\ Len(g[m.term]) \in Nat
        BY <3>3, <3>4, ReachType, EntryAt DEF Histories
      <3>. QED  BY <3>4, <3>6, <3>7, <3>8
    <2>4. Orderly(net, net', s, out)
      BY DEF Moves
    <2>5. \/ \E i \in DOMAIN net[p][q] :
                /\ n = net[p][q][i]
                /\ \A d \in 1 .. k - 1 : \E e \in 1 .. i - 1 : net'[p][q][d] = net[p][q][e]
          \/ /\ p = s /\ q # s /\ [to |-> q, msg |-> n] \in out
             /\ \A d \in 1 .. k - 1 : net'[p][q][d] \in InFlight(net, p, q)
      BY <2>4, Zenon DEF Orderly
    <2>. QED  BY <2>2, <2>3, <2>5, Zenon
  <1>. QED  BY <1>4, <1>5 DEF MessagesSound

\* An entry of the leader's that a majority could already acknowledge before the step.
LEMMA HeldOn ==
    ASSUME TypeOK, TypeOK', ElectionInv', LeadsElected', CandidacyInv, NEW s \in Server, NEW out, Moves(s, out),
           NEW h \in Histories, NEW g \in Histories, NEW a \in Acks, NEW b \in Acks,
           Grown(s, h, g, a, b), History(h), History(g)', TermsRise(h), TermsRise(g),
           Acknowledged(g, b)',
           NEW t \in Nat, NEW i \in Nat, Own(h, t, i), Held(h, a, t, i),
           i <= a[t][s] => Agree(log'[s], h[t], i),
           [term |-> current_term'[s], leader |-> s] \in elected' \ elected /\ t < current_term'[s]
              => Agree(log'[s], h[t], i)
    PROVE  Held(g, b, t, i)'
  <1>. DEFINE T == current_term'[s]
  <1>1. /\ current_term[s] \in Nat /\ T \in Nat /\ current_term[s] <= T
        /\ \A x \in Server : log[x] \in Seq(Entry) /\ Len(log[x]) \in Nat
        /\ \A x \in Server : log'[x] \in Seq(Entry) /\ Len(log'[x]) \in Nat
        /\ \A x \in Server : current_term[x] \in Nat /\ current_term'[x] \in Nat
        /\ \A x \in Server \ {s} :
              current_term'[x] = current_term[x] /\ log'[x] = log[x] /\ state'[x] = state[x]
    BY EntryAt DEF TypeOK, Moves
  <1>2. \A u \in Nat : /\ h[u] \in Seq(Entry) /\ g[u] \in Seq(Entry)
                       /\ Len(h[u]) \in Nat /\ Len(g[u]) \in Nat
    BY EntryAt DEF Histories
  <1>3. \A l : Len(l) \in Nat /\ Agree(l, h[t], i) => Agree(l, g[t], i)
    BY AgreeGrown DEF Grown
  <1>4. ASSUME NEW v \in Server, i <= b[t][v] PROVE Agree(log'[v], g[t], i)
    <2>1. CASE b[t][v] = a[t][v] /\ v # s
      <3>1. Agree(log[v], h[t], i)
        BY <1>4, <2>1 DEF Held
      <3>. QED  BY <1>1, <1>3, <2>1, <3>1
    <2>2. CASE b[t][v] = a[t][v] /\ v = s
      BY <1>1, <1>3, <1>4, <2>2
    <2>3. CASE b[t][v] # a[t][v]
      <3>1. v = s /\ t = T
        BY <2>3 DEF Grown
      <3>2. Agree(log'[v], g[t], b[t][v]) /\ b[t][v] \in Nat
        BY <3>1 DEF Acknowledged, Acks
      <3>. QED  BY <1>1, <1>2, <1>4, <3>2, AgreeLess
    <2>. QED  BY <2>1, <2>2, <2>3
  <1>5. ASSUME NEW e \in elected', t < e.term PROVE Agree(g[e.term], g[t], i)
    <2>0. e.term \in Nat
      BY DEF TypeOK
    <2>1. CASE e \in elected
      <3>1. Agree(h[e.term], h[t], i)
        BY <1>5, <2>1 DEF Held
      <3>2. Agree(h[t], h[e.term], i)
        BY <1>2, <2>0, <3>1, AgreeLess
      <3>3. Agree(h[t], g[e.term], i)
        BY <1>2, <2>0, <3>2, AgreeGrown DEF Grown
      <3>4. Agree(g[e.term], h[t], i)
        BY <1>2, <2>0, <3>3, AgreeLess
      <3>. QED  BY <1>2, <1>3, <2>0, <3>4
    <2>2. CASE e \notin elected
      <3>1. e = [term |-> T, leader |-> s] /\ e.term = T
        BY <2>2 DEF Moves
      <3>2. Agree(log'[s], h[t], i)
        BY <1>5, <2>2, <3>1
      <3>3. IsElected(current_term[s], s)'
        BY <3>1 DEF IsElected
      <3>4. log'[s] = g[T]
        BY <3>3 DEF History
      <3>. QED  BY <1>1, <1>3, <3>1, <3>2, <3>4
    <2>. QED  BY <2>1, <2>2
  <1>6. ASSUME NEW bl \in ballots', t < bl.term, bl.term = current_term'[bl.candidate],
               state'[bl.candidate] = "candidate", i <= b[t][bl.voter]
        PROVE  Agree(log'[bl.candidate], g[t], i)
    <2>. DEFINE v == bl.voter
                c == bl.candidate
    <2>1. v \in Server /\ c \in Server /\ bl.term \in Nat
      BY DEF TypeOK
    <2>2. bl.term <= current_term'[v]
      BY DEF ElectionInv, CurrentVotes
    <2>3. b[t][v] = a[t][v]
      <3>. SUFFICES ASSUME b[t][v] # a[t][v] PROVE FALSE
        OBVIOUS
      <3>1. v = s /\ t = T
        BY <2>1 DEF Grown
      <3>. QED  BY <1>1, <1>6, <2>1, <2>2, <3>1
    <2>. HIDE DEF v, c
    <2>4. CASE bl \in ballots
      <3>1. c # s =>
              bl.term = current_term[c] /\ state[c] = "candidate" /\ log'[c] = log[c]
        BY <1>1, <1>6, <2>1 DEF c
      <3>2. c = s =>
              bl.term = current_term[c] /\ state[c] = "candidate" /\ log'[c] = log[c]
        <4>. SUFFICES ASSUME c = s
                      PROVE  bl.term = current_term[s] /\ state[s] = "candidate" /\ log'[s] = log[s]
          OBVIOUS
        <4>1. bl.term <= current_term[s]
          BY <2>4 DEF CandidacyInv, c
        <4>2. bl.term = T /\ T = current_term[s]
          BY <1>1, <1>6, <2>1, <4>1 DEF c
        <4>3. log'[s] = log[s] /\ (state[s] = "candidate" \/ current_term[s] < T)
          BY <1>6 DEF Moves, c
        <4>. QED  BY <1>1, <4>2, <4>3
      <3>3. i <= a[t][v]
        BY <1>6, <2>3 DEF v
      <3>4. Agree(log[c], h[t], i)
        BY <1>6, <2>4, <3>1, <3>2, <3>3 DEF Held, v, c
      <3>. QED  BY <1>1, <1>3, <2>1, <3>1, <3>2, <3>4 DEF c
    <2>5. CASE bl \notin ballots
      <3>1. Votes(s, bl)
        BY <2>5 DEF Moves
      <3>2. v = s /\ bl.term = T /\ log'[s] = log[s]
        BY <3>1 DEF Votes, v
      <3>3. CASE c = s
        BY <1>4, <1>6, <3>2, <3>3 DEF v, c
      <3>4. CASE c # s
        <4>1. PICK m \in InFlight(net, c, s) :
                 /\ m.type = "requestvote" /\ m.term = bl.term
                 /\ UpToDate(log[s], m.last_log_idx, m.last_log_term)
          BY <3>1, <3>4 DEF Votes, c
        <4>2. m.term = current_term[c] /\ state[c] = "candidate" /\ log'[c] = log[c]
          BY <1>1, <1>6, <2>1, <3>4, <4>1 DEF c
        <4>3. m.last_log_idx = Len(log[c]) /\ m.last_log_term = LastTerm(log[c])
          BY <2>1, <4>1, <4>2 DEF CandidacyInv
        <4>4. i <= a[t][s]
          BY <1>6, <2>3, <3>2 DEF v
        <4>5. Agree(log[s], h[t], i)
          BY <4>4 DEF Held
        <4>6. ASSUME NEW u \in Nat, t < u, h[u] # << >> PROVE Agree(h[u], h[t], i)
          <5>1. PICK x \in Server : [term |-> u, leader |-> x] \in elected
            BY <4>6 DEF History, IsElected
          <5>2. [term |-> u, leader |-> x].term = u
            OBVIOUS
          <5>. QED  BY <4>6, <5>1, <5>2 DEF Held
        <4>7. LogFits(h, log[s]) /\ LogFits(h, log[c])
          BY <2>1 DEF History
        <4>8. UpToDate(log[s], Len(log[c]), LastTerm(log[c]))
          BY <4>1, <4>3
        <4>9. Agree(log[c], h[t], i)
          BY <1>1, <2>1, <4>5, <4>6, <4>7, <4>8, VoteKeeps
        <4>. QED  BY <1>1, <1>3, <2>1, <4>2, <4>9 DEF c
      <3>. QED  BY <3>3, <3>4
    <2>. QED  BY <2>4, <2>5
  <1>7. ASSUME NEW p \in Server, NEW q \in Server, NEW m \in InFlight(net', p, q),
               m.type = "appendentries", t < m.term
        PROVE  i <= Reach(m)
    <2>1. CASE m \in InFlight(net, p, q)
      BY <1>7, <2>1 DEF Held
    <2>2. CASE m \notin InFlight(net, p, q)
      <3>1. p = s /\ [to |-> q, msg |-> m] \in out
        BY <2>2, Arrived DEF Moves
      <3>2. [to |-> q, msg |-> m].msg = m
        OBVIOUS
      <3>3. Proper(s, m)
        BY <3>1, <3>2 DEF Moves
      <3>4. m.term = T /\ Len(g[m.term]) <= Reach(m)
        BY <1>7, <3>3, NewMessage
      <3>5. [term |-> T, leader |-> s] \in elected'
        <4>1. state'[s] = "leader"
          BY <1>7, <3>3 DEF Proper
        <4>. QED  BY <4>1 DEF LeadsElected, IsElected
      <3>6. Agree(g[T], g[t], i)
        <4>1. [term |-> T, leader |-> s].term = T
          OBVIOUS
        <4>. QED  BY <1>5, <1>7, <3>4, <3>5, <4>1
      <3>7. m \in Message
        <4>1. net'[p][q] \in Seq(Message)
          BY DEF TypeOK
        <4>. QED  BY <4>1 DEF InFlight
      <3>8. Reach(m) \in Nat
        BY <1>7, <3>7, ReachType
      <3>9. i <= Len(g[T])
        BY <3>6 DEF Agree
      <3>. QED  BY <1>1, <1>2, <3>4, <3>8, <3>9
    <2>. QED  BY <2>1, <2>2
  <1>. QED  BY <1>4, <1>5, <1>6, <1>7 DEF Held

\* An entry that the leader s writes in the step: no later term has voted yet.
LEMMA HeldFresh ==
    ASSUME TypeOK, TypeOK', ElectionInv', NEW s \in Server, NEW out, Moves(s, out),
           NEW h \in Histories, NEW g \in Histories, NEW a \in Acks, NEW b \in Acks,
           Grown(s, h, g, a, b), History(g)', Acknowledged(h, a), Acknowledged(g, b)',
           NEW t \in Nat, NEW i \in Nat, Choosable(g, b, current_term', t, i), ~(i <= Len(h[t]))
    PROVE  Held(g, b, t, i)'
  <1>1. \A x \in Server : /\ current_term'[x] \in Nat /\ log'[x] \in Seq(Entry) /\ Len(log'[x]) \in Nat
                          /\ a[t][x] \in Nat /\ b[t][x] \in Nat
    BY EntryAt DEF TypeOK, Acks
  <1>2. Len(h[t]) \in Nat /\ g[t] \in Seq(Entry) /\ Len(g[t]) \in Nat
    BY EntryAt DEF Histories
  <1>3. t = current_term'[s]
    <2>1. g[t] # h[t]
      <3>1. i <= Len(g[t])
        BY DEF Choosable, Own
      <3>. QED  BY <3>1
    <2>. QED  BY <2>1 DEF Grown
  <1>4. ASSUME NEW v \in Server, i <= b[t][v] PROVE v = s
    <2>. SUFFICES ASSUME v # s PROVE FALSE
      OBVIOUS
    <2>1. b[t][v] = a[t][v]
      BY DEF Grown
    <2>2. a[t][v] <= Len(h[t])
      BY DEF Acknowledged
    <2>. QED  BY <1>1, <1>2, <1>4, <2>1, <2>2
  <1>5. PICK Q \in SUBSET Server : IsMajority(Cardinality(Q)) /\ \A v \in Q : current_term'[v] <= t
    <2>1. PICK Q \in SUBSET Server :
             IsMajority(Cardinality(Q)) /\ \A v \in Q : i <= b[t][v] \/ current_term'[v] <= t
      BY DEF Choosable
    <2>2. \A v \in Q : current_term'[v] <= t
      BY <1>1, <1>3, <1>4, <2>1
    <2>. QED  BY <2>1, <2>2
  <1>6. ASSUME NEW e \in elected', t < e.term PROVE FALSE
    <2>1. PICK R \in SUBSET Server :
             IsMajority(Cardinality(R)) /\ \A v \in R : BallotOf(e.term, v, e.leader) \in ballots'
      BY DEF ElectionInv, LeadersElected, IsMajority
    <2>2. PICK v \in Server : v \in Q /\ v \in R
      BY <1>5, <2>1, MajoritiesMeet
    <2>3. e.term <= current_term'[v]
      <3>1. BallotOf(e.term, v, e.leader) \in ballots'
        BY <2>1, <2>2
      <3>2. BallotOf(e.term, v, e.leader).term = e.term /\ BallotOf(e.term, v, e.leader).voter = v
        BY DEF BallotOf
      <3>. QED  BY <3>1, <3>2 DEF ElectionInv, CurrentVotes
    <2>4. current_term'[v] <= t /\ e.term \in Nat
      BY <1>5, <2>2 DEF TypeOK
    <2>. QED  BY <1>1, <1>6, <2>3, <2>4
  <1>7. ASSUME NEW v \in Server, i <= b[t][v] PROVE Agree(log'[v], g[t], i)
    <2>1. v = s
      BY <1>4, <1>7
    <2>2. Agree(log'[v], g[t], b[t][v])
      BY <1>3, <2>1 DEF Acknowledged
    <2>. QED  BY <1>1, <1>2, <1>7, <2>2, AgreeLess
  <1>8. ASSUME NEW bl \in ballots', t < bl.term, i <= b[t][bl.voter] PROVE FALSE
    <2>1. bl.voter \in Server /\ bl.term \in Nat
      BY DEF TypeOK
    <2>2. bl.voter = s
      BY <1>4, <1>8, <2>1
    <2>3. bl.term <= current_term'[s]
      BY <2>2 DEF ElectionInv, CurrentVotes
    <2>. QED  BY <1>1, <1>3, <1>8, <2>1, <2>3
  <1>9. ASSUME NEW p \in Server, NEW q \in Server, NEW m \in InFlight(net', p, q),
               m.type = "appendentries", t < m.term
        PROVE  FALSE
    <2>1. [term |-> m.term, leader |-> p] \in elected'
      BY <1>9 DEF History, IsElected
    <2>2. [term |-> m.term, leader |-> p].term = m.term
      OBVIOUS
    <2>. QED  BY <1>6, <1>9, <2>1, <2>2
  <1>. QED  BY <1>6, <1>7, <1>8, <1>9 DEF Held

LEMMA KeptStep ==
    ASSUME TypeOK, TypeOK', ElectionInv', LeadsElected', CandidacyInv, NEW s \in Server, NEW out,
           Moves(s, out),
           NEW h \in Histories, NEW g \in Histories, NEW a \in Acks, NEW b \in Acks,
           Grown(s, h, g, a, b), History(h), History(g)', TermsRise(h), TermsRise(g),
           Acknowledged(h, a), Acknowledged(g, b)', Kept(h, a),
           \A t, i \in Nat : Choosable(h, a, current_term, t, i) /\ i <= a[t][s]
              => Agree(log'[s], h[t], i),
           [term |-> current_term'[s], leader |-> s] \in elected' \ elected =>
              \A t, i \in Nat : Choosable(h, a, current_term, t, i) /\ t < current_term'[s]
                 => Agree(log'[s], h[t], i)
    PROVE  Kept(g, b)'
  <1>. SUFFICES ASSUME NEW t \in Nat, NEW i \in Nat, Choosable(g, b, current_term', t, i)
                PROVE  Held(g, b, t, i)'
    BY DEF Kept
  <1>1. CASE i <= Len(h[t])
    <2>1. /\ current_term \in [Server -> Nat] /\ current_term' \in [Server -> Nat]
          /\ \A v \in Server : current_term[v] <= current_term'[v]
      <3>1. current_term \in [Server -> Nat] /\ current_term' \in [Server -> Nat]
        BY DEF TypeOK
      <3>2. current_term[s] <= current_term'[s] /\ \A v \in Server \ {s} : current_term'[v] = current_term[v]
        BY DEF Moves
      <3>3. \A v \in Server : current_term[v] \in Nat
        BY <3>1
      <3>4. ASSUME NEW v \in Server PROVE current_term[v] <= current_term'[v]
        BY <3>2, <3>3
      <3>. QED  BY <3>1, <3>4
    <2>2. ASSUME NEW v \in Server, a[t][v] < b[t][v] PROVE current_term[v] <= t
      <3>1. a[t][v] \in Nat
        BY DEF Acks
      <3>2. b[t][v] # a[t][v]
        BY <2>2, <3>1
      <3>3. v = s /\ t = current_term'[s]
        BY <3>2 DEF Grown
      <3>. QED  BY <2>1, <3>3
    <2>3. Choosable(h, a, current_term, t, i)
      BY <1>1, <2>1, <2>2, ChoosableBefore DEF Grown
    <2>4. Held(h, a, t, i) /\ Own(h, t, i)
      BY <2>3 DEF Kept, Choosable
    <2>. QED  BY <2>3, <2>4, HeldOn
  <1>2. CASE ~(i <= Len(h[t]))
    BY <1>2, HeldFresh
  <1>. QED  BY <1>1, <1>2

\* What commit_idx[s] = c promises about s, whose term is T and whose log is l.
CommitFits(h, a, T, l, c, s) ==
    0 < c => \E t \in 0 .. T :
                Committed(h, a, t, c) /\ Agree(l, h[t], c) /\ (t = T => c <= a[t][s])

\* The commit index stays, or is forgotten in a crash, and so does the log up to it.
LEMMA CommitStays ==
    ASSUME TypeOK, TypeOK', NEW s \in Server, NEW out, Moves(s, out),
           NEW h \in Histories, NEW g \in Histories, NEW a \in Acks, NEW b \in Acks,
           Grown(s, h, g, a, b), CommitsSound(h, a),
           Agree(log'[s], log[s], commit_idx[s]), commit_idx'[s] \in {0, commit_idx[s]}
    PROVE  CommitFits(g, b, current_term'[s], log'[s], commit_idx'[s], s)
  <1>. DEFINE T == current_term'[s]
              c == commit_idx[s]
  <1>1. /\ T \in Nat /\ current_term[s] \in Nat /\ current_term[s] <= T /\ c \in Nat
        /\ Len(log[s]) \in Nat /\ Len(log'[s]) \in Nat
    BY EntryAt DEF TypeOK, Moves
  <1>. SUFFICES ASSUME 0 < commit_idx'[s]
                PROVE  \E t \in 0 .. T : /\ Committed(g, b, t, c) /\ Agree(log'[s], g[t], c)
                                         /\ t = T => c <= b[t][s]
    <2>1. 0 < commit_idx'[s] => commit_idx'[s] = c
      OBVIOUS
    <2>. QED  BY <2>1 DEF CommitFits
  <1>2. commit_idx'[s] = c /\ 0 < c
    OBVIOUS
  <1>3. PICK t \in 0 .. current_term[s] : /\ Committed(h, a, t, c) /\ Agree(log[s], h[t], c)
                                          /\ t = current_term[s] => c <= a[t][s]
    BY <1>2 DEF CommitsSound
  <1>4. t \in Nat /\ t \in 0 .. T /\ (t = T => t = current_term[s])
    BY <1>1
  <1>5. \A v \in Server : a[t][v] \in Nat /\ b[t][v] \in Nat /\ a[t][v] <= b[t][v]
    BY <1>4, AcksGrow
  <1>6. Committed(g, b, t, c)
    BY <1>3, <1>4, <1>5, CommittedGrown DEF Grown
  <1>7. Agree(log'[s], g[t], c)
    <2>1. Len(h[t]) \in Nat
      BY <1>4, EntryAt DEF Histories
    <2>2. Agree(log'[s], h[t], c)
      BY <1>1, <1>3, <2>1, AgreeThrough
    <2>. QED  BY <1>1, <1>4, <2>2, AgreeGrown DEF Grown
  <1>8. t = T => c <= b[t][s]
    BY <1>1, <1>3, <1>4, <1>5
  <1>. QED  BY <1>4, <1>6, <1>7, <1>8

LEMMA CommitsStep ==
    ASSUME TypeOK, TypeOK', NEW s \in Server, NEW out, Moves(s, out),
           NEW h \in Histories, NEW g \in Histories, NEW a \in Acks, NEW b \in Acks,
           Grown(s, h, g, a, b), CommitsSound(h, a),
           CommitFits(g, b, current_term'[s], log'[s], commit_idx'[s], s)
    PROVE  CommitsSound(g, b)'
  <1>. SUFFICES ASSUME NEW x \in Server, 0 < commit_idx'[x]
                PROVE  \E t \in 0 .. current_term'[x] :
                          /\ Committed(g, b, t, commit_idx'[x])
                          /\ Agree(log'[x], g[t], commit_idx'[x])
                          /\ t = current_term'[x] => commit_idx'[x] <= b[t][x]
    BY DEF CommitsSound
  <1>1. CASE x = s
    BY <1>1 DEF CommitFits
  <1>2. CASE x # s
    <2>. DEFINE c == commit_idx[x]
    <2>1. /\ log'[x] = log[x] /\ current_term'[x] = current_term[x] /\ commit_idx'[x] = c
          /\ c \in Nat /\ current_term[x] \in Nat /\ Len(log[x]) \in Nat
      BY <1>2, EntryAt DEF TypeOK, Moves
    <2>2. PICK t \in 0 .. current_term[x] : /\ Committed(h, a, t, c) /\ Agree(log[x], h[t], c)
                                            /\ t = current_term[x] => c <= a[t][x]
      BY <2>1 DEF CommitsSound
    <2>3. t \in Nat
      BY <2>1
    <2>4. \A v \in Server : a[t][v] \in Nat /\ b[t][v] \in Nat /\ a[t][v] <= b[t][v]
      BY <2>3, AcksGrow
    <2>5. Committed(g, b, t, c)
      BY <2>2, <2>3, <2>4, CommittedGrown DEF Grown
    <2>6. Agree(log[x], g[t], c)
      BY <2>1, <2>2, <2>3, AgreeGrown DEF Grown
    <2>7. t = current_term[x] => c <= b[t][x]
      BY <2>1, <2>2, <2>4
    <2>. QED  BY <2>1, <2>2, <2>5, <2>6, <2>7
  <1>. QED  BY <1>1, <1>2

\* A step keeps Commit if it treats the one server that takes it well.
LEMMA CommitStep ==
    ASSUME TypeOK, TypeOK', ElectionInv', ElectionSafety', LeadsElected', CandidacyInv,
           NEW s \in Server, NEW out, Moves(s, out),
           NEW h \in Histories, NEW g \in Histories, NEW a \in Acks, NEW b \in Acks,
           Grown(s, h, g, a, b), History(h), History(g)', Commit(h, a),
           TermsRise(g),
           \A j \in DOMAIN log'[s] : log'[s][j].term <= current_term'[s],
           IsElected(current_term[s], s)' => b[current_term'[s]][s] = Len(g[current_term'[s]]),
           Agree(log'[s], g[current_term'[s]], b[current_term'[s]][s]),
           \A x \in Server : \A m \in InFlight(net', x, s) \cap InFlight(net, x, s) :
              m.type = "appendentries" /\ m.term = current_term'[s]
                 /\ a[current_term'[s]][s] < b[current_term'[s]][s]
                 => b[current_term'[s]][s] <= Reach(m),
           \A k \in out : k.msg.type = "appendentries_response" /\ k.msg.success
                             => k.msg.current_idx <= b[k.msg.term][s],
           state'[s] = "leader" =>
              \A q \in Peers(s) \cap Voters : match_idx'[s][q] <= b[current_term'[s]][q],
           CommitFits(g, b, current_term'[s], log'[s], commit_idx'[s], s),
           \A t, i \in Nat : Choosable(h, a, current_term, t, i) /\ i <= a[t][s]
              => Agree(log'[s], h[t], i),
           [term |-> current_term'[s], leader |-> s] \in elected' \ elected =>
              \A t, i \in Nat : Choosable(h, a, current_term, t, i) /\ t < current_term'[s]
                 => Agree(log'[s], h[t], i)
    PROVE  Commit(g, b)' /\ CandidacyInv'
  <1>1. /\ TermsRise(h) /\ LogsTimely /\ Acknowledged(h, a) /\ Kept(h, a)
        /\ MessagesSound(h, a) /\ MatchesAcknowledged(a) /\ CommitsSound(h, a)
    BY DEF Commit
  <1>2. CandidacyInv'
    BY CandidacyStep
  <1>3. Acknowledged(g, b)'
    <2>1. b[current_term'[s]][s] <= Len(g[current_term'[s]])
      BY DEF Agree
    <2>. QED  BY <1>1, <2>1, AcknowledgedStep
  <1>4. CommitsSound(g, b)'
    BY <1>1, CommitsStep
  <1>5. MessagesSound(g, b)'
    BY <1>1, <1>3, <1>4, MessagesStep
  <1>6. Kept(g, b)'
    BY <1>1, <1>3, KeptStep
  <1>7. LogsTimely'
    <2>. SUFFICES ASSUME NEW x \in Server, NEW j \in DOMAIN log'[x]
                  PROVE  log'[x][j].term <= current_term'[x]
      BY DEF LogsTimely
    <2>1. CASE x # s
      BY <1>1, <2>1 DEF LogsTimely, Moves
    <2>. QED  BY <2>1
  <1>8. MatchesAcknowledged(b)'
    <2>. SUFFICES ASSUME NEW x \in Server, state'[x] = "leader", NEW q \in Peers(x) \cap Voters
                  PROVE  match_idx'[x][q] <= b[current_term'[x]][q]
      BY DEF MatchesAcknowledged
    <2>1. CASE x # s
      <3>1. /\ match_idx'[x] = match_idx[x] /\ current_term'[x] = current_term[x] /\ state[x] = "leader"
        BY <2>1 DEF Moves
      <3>2. match_idx[x][q] <= a[current_term[x]][q]
        BY <1>1, <3>1 DEF MatchesAcknowledged
      <3>3. current_term[x] \in Nat /\ q \in Server /\ match_idx[x][q] \in Nat
        BY DEF TypeOK, Peers
      <3>4. /\ a[current_term[x]][q] \in Nat /\ b[current_term[x]][q] \in Nat
            /\ a[current_term[x]][q] <= b[current_term[x]][q]
        BY <3>3, AcksGrow
      <3>. QED  BY <3>1, <3>2, <3>3, <3>4
    <2>. QED  BY <2>1
  <1>9. Commit(g, b)'
    BY <1>3, <1>4, <1>5, <1>6, <1>7, <1>8 DEF Commit, TermsRise
  <1>. QED  BY <1>2, <1>9

-----------------------------------------------------------------------------
(* The actions. *)

\* The history goes on by what s has written, if anything.
LEMMA HistoryNext ==
    ASSUME TypeOK, TypeOK', NEW s \in Server, NEW out, Moves(s, out),
           NEW h \in Histories, History(h), GoesOn(h),
           [term |-> current_term'[s], leader |-> s] \in elected' =>
              /\ current_term'[s] = current_term[s]
              /\ Len(h[current_term[s]]) <= Len(log'[s])
              /\ \A j \in 1 .. Len(h[current_term[s]]) : h[current_term[s]][j] = log'[s][j]
    PROVE  \E g \in Histories :
              /\ History(g)' /\ Grows(h, g)
              /\ \A t \in Nat :
                    \/ g[t] = h[t]
                    \/ /\ t = current_term[s] /\ t = current_term'[s] /\ IsElected(t, s)'
                       /\ g[t] = log'[s]
  <1>1. PICK g \in Histories :
           /\ History(g)'
           /\ \A t \in Nat :
                 \/ g[t] = h[t]
                 \/ \E x \in Server : IsElected(t, x)' /\ current_term'[x] = t /\ g[t] = log'[x]
    BY DEF GoesOn
  <1>2. ASSUME NEW t \in Nat
        PROVE  \/ g[t] = h[t]
               \/ /\ t = current_term[s] /\ t = current_term'[s] /\ IsElected(t, s)'
                  /\ g[t] = log'[s]
    <2>. SUFFICES ASSUME g[t] # h[t]
                  PROVE  /\ t = current_term[s] /\ t = current_term'[s] /\ IsElected(t, s)'
                         /\ g[t] = log'[s]
      OBVIOUS
    <2>1. PICK x \in Server : [term |-> t, leader |-> x] \in elected' /\ current_term'[x] = t /\ g[t] = log'[x]
      BY <1>1 DEF IsElected
    <2>2. x = s
      <3>. SUFFICES ASSUME x # s PROVE FALSE
        OBVIOUS
      <3>1. [term |-> t, leader |-> x] \in elected /\ current_term[x] = t /\ log'[x] = log[x]
        BY <2>1 DEF Moves
      <3>2. IsElected(current_term[x], x)
        BY <3>1 DEF IsElected
      <3>3. log[x] = h[t]
        BY <3>1, <3>2 DEF History
      <3>. QED  BY <2>1, <3>1, <3>3
    <2>. QED  BY <2>1, <2>2 DEF IsElected
  <1>3. Grows(h, g)
    <2>. SUFFICES ASSUME NEW t \in Nat
                  PROVE  Len(h[t]) <= Len(g[t]) /\ \A j \in 1 .. Len(h[t]) : h[t][j] = g[t][j]
      BY DEF Grows
    <2>1. CASE g[t] = h[t]
      <3>1. Len(h[t]) \in Nat
        BY EntryAt DEF Histories
      <3>. QED  BY <2>1, <3>1
    <2>2. CASE /\ t = current_term[s] /\ t = current_term'[s] /\ IsElected(t, s)'
               /\ g[t] = log'[s]
      BY <2>2 DEF IsElected
    <2>. QED  BY <1>2, <2>1, <2>2
  <1>. QED  BY <1>1, <1>2, <1>3

\* Who has been elected in its new term has been there before.
LEMMA ElectedBefore ==
    ASSUME TypeOK, TypeOK', ElectionInv, NEW s \in Server, NEW out, Moves(s, out),
           IsElected(current_term'[s], s)
    PROVE  current_term'[s] = current_term[s]
  <1>1. current_term'[s] <= current_term[s]
    BY DEF ElectionInv, LeadersElected, IsElected
  <1>. QED  BY <1>1 DEF TypeOK, Moves

\* What s has acknowledged of the leader's log is in its log, in the term after the step too.
LEMMA AcknowledgedAgrees ==
    ASSUME TypeOK, TypeOK', NEW s \in Server, NEW h \in Histories, NEW a \in Acks, Acknowledged(h, a),
           current_term[s] <= current_term'[s]
    PROVE  LET n == a[current_term'[s]][s] IN
           Agree(log[s], h[current_term'[s]], n) /\ (0 < n => current_term'[s] = current_term[s])
  <1>. DEFINE T == current_term'[s]
              n == a[T][s]
  <1>1. T \in Nat /\ current_term[s] \in Nat /\ Len(log[s]) \in Nat
    BY EntryAt DEF TypeOK
  <1>2. n \in Nat /\ Len(h[T]) \in Nat
    BY <1>1, EntryAt DEF Acks, Histories
  <1>3. /\ 0 < n => T <= current_term[s]
        /\ current_term[s] = T => Agree(log[s], h[T], n)
    BY <1>1 DEF Acknowledged
  <1>. HIDE DEF T, n
  <1>4. CASE n = 0
    BY <1>1, <1>2, <1>4 DEF Agree, T, n
  <1>5. CASE n # 0
    BY <1>1, <1>2, <1>3, <1>5 DEF T, n
  <1>. QED  BY <1>4, <1>5

\* Steps in which s neither changes its log nor wins, and acknowledges nothing.
LEMMA CommitQuiet ==
    ASSUME TypeOK, TypeOK', ElectionInv, ElectionInv', ElectionSafety', CandidacyInv,
           NEW s \in Server, NEW out, Moves(s, out),
           NEW h \in Histories, NEW a \in Acks, History(h), GoesOn(h), Commit(h, a),
           log'[s] = log[s], UNCHANGED elected,
           \A k \in out : k.msg.type = "appendentries_response" => k.msg.success = FALSE,
           state'[s] = "leader" =>
              /\ current_term'[s] = current_term[s] /\ state[s] = "leader"
              /\ \A q \in Peers(s) \cap Voters :
                    match_idx'[s][q] = match_idx[s][q] \/ match_idx'[s][q] <= a[current_term[s]][q],
           \/ commit_idx'[s] \in {0, commit_idx[s]}
           \/ /\ IsElected(current_term[s], s) /\ current_term'[s] = current_term[s]
              /\ Committed(h, a, current_term[s], commit_idx'[s]) /\ commit_idx'[s] <= Len(log[s])
    PROVE  CommitInv'
  <1>. DEFINE T == current_term'[s]
  <1>1. /\ TermsRise(h) /\ LogsTimely /\ Acknowledged(h, a) /\ Kept(h, a)
        /\ MessagesSound(h, a) /\ MatchesAcknowledged(a) /\ CommitsSound(h, a) /\ LeadsElected'
    BY DEF Commit, GoesOn
  <1>2. /\ T \in Nat /\ current_term[s] \in Nat /\ current_term[s] <= T
        /\ log[s] \in Seq(Entry) /\ Len(log[s]) \in Nat /\ commit_idx[s] \in Nat /\ commit_idx'[s] \in Nat
        /\ \A j \in DOMAIN log[s] : log[s][j].term \in Nat
    BY EntryAt DEF TypeOK, Moves
  <1>3. [term |-> T, leader |-> s] \in elected' =>
           /\ T = current_term[s] /\ IsElected(T, s) /\ log[s] = h[T]
    <2>. SUFFICES ASSUME [term |-> T, leader |-> s] \in elected
                  PROVE  /\ T = current_term[s] /\ IsElected(T, s) /\ log[s] = h[T]
      OBVIOUS
    <2>1. IsElected(current_term'[s], s)
      BY DEF IsElected
    <2>2. T = current_term[s]
      BY <2>1, ElectedBefore
    <2>. QED  BY <2>1, <2>2 DEF History
  <1>4. PICK g \in Histories :
           /\ History(g)'
           /\ \A t \in Nat : \/ g[t] = h[t]
                             \/ /\ t = current_term[s] /\ t = current_term'[s] /\ IsElected(t, s)'
                                /\ g[t] = log'[s]
    BY <1>2, <1>3, HistoryNext
  <1>5. g = h
    <2>1. \A t \in Nat : g[t] = h[t]
      BY <1>3, <1>4 DEF IsElected
    <2>2. g = [t \in Nat |-> g[t]] /\ h = [t \in Nat |-> h[t]]
      BY DEF Histories
    <2>. QED  BY <2>1, <2>2, Zenon
  <1>6. History(h)'
    BY <1>4, <1>5
  <1>7. Grown(s, h, h, a, a)
    <2>1. \A t \in Nat : Len(h[t]) \in Nat
      BY EntryAt DEF Histories
    <2>. QED  BY <2>1 DEF Grown, Grows
  <1>8. ASSUME NEW j \in DOMAIN log'[s] PROVE log'[s][j].term <= current_term'[s]
    <2>1. log[s][j].term <= current_term[s] /\ log[s][j].term \in Nat
      BY <1>1, <1>2 DEF LogsTimely
    <2>2. log'[s][j].term = log[s][j].term
      OBVIOUS
    <2>3. current_term'[s] \in Nat /\ current_term[s] \in Nat /\ current_term[s] <= current_term'[s]
      BY <1>2
    <2>. QED  BY <2>1, <2>2, <2>3
  <1>9. IsElected(current_term[s], s)' => a[T][s] = Len(h[T])
    <2>. SUFFICES ASSUME [term |-> T, leader |-> s] \in elected' PROVE a[T][s] = Len(h[T])
      BY DEF IsElected
    <2>. QED  BY <1>1, <1>2, <1>3 DEF Acknowledged
  <1>10. Agree(log'[s], h[T], a[T][s])
    BY <1>1, <1>2, AcknowledgedAgrees
  <1>11. \A t, i \in Nat : Choosable(h, a, current_term, t, i) /\ i <= a[t][s] => Agree(log'[s], h[t], i)
    BY <1>1 DEF Kept, Held
  <1>12. state'[s] = "leader" => \A q \in Peers(s) \cap Voters : match_idx'[s][q] <= a[T][q]
    BY <1>1 DEF MatchesAcknowledged
  <1>13. CommitFits(h, a, T, log'[s], commit_idx'[s], s)
    <2>1. CASE commit_idx'[s] \in {0, commit_idx[s]}
      <3>1. Agree(log'[s], log[s], commit_idx[s])
        <4>1. commit_idx[s] <= Len(log[s])
          <5>1. CASE commit_idx[s] = 0
            BY <1>2, <5>1
          <5>2. CASE 0 < commit_idx[s]
            BY <1>1, <5>2 DEF CommitsSound, Agree
          <5>. QED  BY <1>2, <5>1, <5>2
        <4>. QED  BY <4>1 DEF Agree
      <3>. QED  BY <1>1, <1>7, <2>1, <3>1, CommitStays
    <2>2. CASE /\ IsElected(current_term[s], s) /\ T = current_term[s]
               /\ Committed(h, a, current_term[s], commit_idx'[s]) /\ commit_idx'[s] <= Len(log[s])
      <3>1. log[s] = h[T] /\ a[T][s] = Len(h[T])
        BY <1>1, <1>2, <2>2 DEF History, Acknowledged
      <3>2. Agree(log'[s], h[T], commit_idx'[s]) /\ commit_idx'[s] <= a[T][s] /\ T \in 0 .. T
        BY <1>2, <2>2, <3>1 DEF Agree
      <3>. QED  BY <2>2, <3>2 DEF CommitFits
    <2>. QED  BY <2>1, <2>2
  <1>14. \A t \in Nat : \A v \in Server : a[t][v] \in Nat
    BY DEF Acks
  <1>15. \A x \in Server : \A m \in InFlight(net', x, s) \cap InFlight(net, x, s) :
              m.type = "appendentries" /\ m.term = current_term'[s]
                 /\ a[current_term'[s]][s] < a[current_term'[s]][s]
                 => a[current_term'[s]][s] <= Reach(m)
    BY <1>2, <1>14
  <1>16. \A k \in out : k.msg.type = "appendentries_response" /\ k.msg.success
                             => k.msg.current_idx <= a[k.msg.term][s]
    OBVIOUS
  <1>17. [term |-> current_term'[s], leader |-> s] \in elected' \ elected =>
              \A t, i \in Nat : Choosable(h, a, current_term, t, i) /\ t < current_term'[s]
                 => Agree(log'[s], h[t], i)
    OBVIOUS
  <1>18. Commit(h, a)' /\ CandidacyInv'
    BY <1>1, <1>6, <1>7, <1>8, <1>9, <1>10, <1>11, <1>12, <1>13, <1>15, <1>16, <1>17, CommitStep
  <1>. QED  BY <1>6, <1>18 DEF CommitInv

\* raft_periodic and the crashes outside message handlers.
LEMMA CommitPeriodic ==
    ASSUME TypeOK, TypeOK', ElectionInv, ElectionInv', ElectionSafety', LeadsElected, CandidacyInv,
           NEW h \in Histories, NEW a \in Acks, History(h), Commit(h, a), NEW s \in Server,
           \/ PeriodicIdle(s) \/ PeriodicHeartbeat(s) \/ PeriodicElection(s)
           \/ Restart(s) \/ CrashInElection(s)
    PROVE  CommitInv'
  <1>1. GoesOn(h)
    BY LogOwnSteps
  <1>2. /\ net \in Network /\ log[s] \in Seq(Entry)
        /\ current_term[s] \in Nat /\ commit_idx[s] \in Nat
        /\ \A q \in Server : next_idx[s][q] \in Nat \ {0}
    BY DEF TypeOK, Network
  <1>. DEFINE none == {}
  <1>3. /\ \A n : Orderly(n, n, s, none)
        /\ \A k \in none : k.msg.type = "appendentries_response" => k.msg.success = FALSE
        /\ \A k \in none : Proper(s, k.msg)
    BY DEF Orderly
  <1>. HIDE DEF none
  <1>4. CASE PeriodicIdle(s)
    <2>1. UNCHANGED <<current_term, state, log, commit_idx, match_idx, net, ballots, elected>>
      BY <1>4 DEF PeriodicIdle
    <2>2. Moves(s, none)
      BY <1>2, <1>3, <2>1 DEF Moves
    <2>. QED  BY <1>1, <1>3, <2>1, <2>2, CommitQuiet
  <1>5. CASE PeriodicHeartbeat(s)
    <2>. DEFINE D == Peers(s)
                out == [q \in D |->
                   AppendEntries(current_term[s], log[s], commit_idx[s], next_idx[s][q])]
    <2>1. /\ UNCHANGED <<current_term, state, log, commit_idx, match_idx, ballots, elected>>
          /\ state[s] = "leader" /\ net' = Send(net, s, out)
      BY <1>5 DEF PeriodicHeartbeat
    <2>2. \A q \in D : /\ next_idx[s][q] \in Nat \ {0}
                      /\ out[q] = AppendEntries(current_term[s], log[s], commit_idx[s], next_idx[s][q])
      BY <1>2 DEF Peers
    <2>3. out \in [D -> Message]
      <3>1. \A q \in D :
               AppendEntries(current_term[s], log[s], commit_idx[s], next_idx[s][q]) \in Message
        BY <1>2, <2>2, AppendEntriesType
      <3>. QED  BY <3>1
    <2>. HIDE DEF out
    <2>4. Orderly(net, net', s, Packets(D, out))
      BY <1>2, <2>1, <2>3, SendOrderly
    <2>5. ASSUME NEW k \in Packets(D, out)
          PROVE  Proper(s, k.msg) /\ k.msg.type = "appendentries"
      <3>1. PICK q \in D : k = [to |-> q, msg |-> out[q]]
        BY DEF Packets
      <3>2. k.msg = AppendEntries(current_term'[s], log'[s], commit_idx'[s], next_idx[s][q])
        BY <2>1, <2>2, <3>1
      <3>3. k.msg.type = "appendentries"
        BY <3>2 DEF AppendEntries
      <3>. QED  BY <2>1, <2>2, <3>2, <3>3 DEF Proper
    <2>6. Moves(s, Packets(D, out))
      BY <1>2, <2>1, <2>4, <2>5 DEF Moves
    <2>. HIDE DEF D
    <2>. QED  BY <1>1, <2>1, <2>5, <2>6, CommitQuiet
  <1>6. CASE PeriodicElection(s)
    <2>. DEFINE D == Peers(s) \cap Voters
                rv == RequestVote(current_term[s] + 1, log[s])
                out == [q \in D |-> rv]
                own == [term |-> current_term[s] + 1, voter |-> s, candidate |-> s]
    <2>1. /\ current_term' = [current_term EXCEPT ![s] = @ + 1]
          /\ state' = [state EXCEPT ![s] = "candidate"]
          /\ UNCHANGED <<log, commit_idx, match_idx, elected>>
          /\ ballots' = ballots \cup {own}
          /\ net' = Send(net, s, out) /\ 1 < Cardinality(Server)
      <3>1. Cardinality(Server) > 1
        BY <1>6 DEF PeriodicElection
      <3>2. Cardinality(Server) \in Nat
        BY ConstantsAssumption, FS_CardinalityType
      <3>. QED  BY <1>6, <3>1, <3>2 DEF PeriodicElection
    <2>2. rv \in Message /\ rv.type = "requestvote"
      BY <1>2, RequestVoteType DEF RequestVote
    <2>3. current_term'[s] = current_term[s] + 1 /\ state'[s] = "candidate" /\ log'[s] = log[s]
      BY <1>2, <2>1 DEF TypeOK
    <2>4. out \in [D -> Message] /\ D \in SUBSET Peers(s) /\ \A q \in D : out[q] = rv
      BY <2>2
    <2>. HIDE DEF out
    <2>5. Orderly(net, net', s, Packets(D, out))
      BY <1>2, <2>1, <2>4, SendOrderly
    <2>6. ASSUME NEW k \in Packets(D, out)
          PROVE  Proper(s, k.msg) /\ k.msg.type = "requestvote"
      <3>1. PICK q \in D : k = [to |-> q, msg |-> out[q]]
        BY DEF Packets
      <3>2. k.msg = RequestVote(current_term'[s], log'[s]) /\ k.msg.type = "requestvote"
        BY <2>2, <2>3, <2>4, <3>1
      <3>. QED  BY <3>2 DEF Proper
    <2>7. \A x \in Server \ {s} :
            /\ log'[x] = log[x] /\ current_term'[x] = current_term[x] /\ state'[x] = state[x]
            /\ commit_idx'[x] = commit_idx[x] /\ match_idx'[x] = match_idx[x]
      BY <2>1 DEF TypeOK
    <2>8. ASSUME NEW b \in ballots' \ ballots PROVE Votes(s, b)
      <3>1. b = own
        BY <2>1
      <3>2. b.voter = s /\ b.candidate = s /\ b.term = current_term'[s]
        BY <2>3, <3>1
      <3>3. current_term[s] < current_term'[s]
        BY <1>2, <2>3
      <3>. QED  BY <2>3, <3>2, <3>3 DEF Votes
    <2>9. current_term[s] < current_term'[s] /\ current_term[s] <= current_term'[s]
      BY <1>2, <2>3
    <2>. HIDE DEF D, rv, own
    <2>10. Moves(s, Packets(D, out))
      BY <2>1, <2>3, <2>5, <2>6, <2>7, <2>8, <2>9 DEF Moves
    <2>. QED  BY <1>1, <2>1, <2>3, <2>6, <2>10, CommitQuiet
  <1>7. CASE Restart(s)
    <2>1. /\ UNCHANGED <<current_term, log, net, ballots, elected>>
          /\ state' = [state EXCEPT ![s] = "follower"]
          /\ commit_idx' = [commit_idx EXCEPT ![s] = 0]
          /\ match_idx' = [match_idx EXCEPT ![s] = [q \in Server |-> 0]]
      BY <1>7 DEF Restart, Reload
    <2>2. /\ state'[s] = "follower" /\ commit_idx'[s] = 0
          /\ \A x \in Server \ {s} :
                state'[x] = state[x] /\ commit_idx'[x] = commit_idx[x] /\ match_idx'[x] = match_idx[x]
      BY <2>1 DEF TypeOK
    <2>3. Moves(s, none)
      BY <1>2, <1>3, <2>1, <2>2 DEF Moves
    <2>. QED  BY <1>1, <1>3, <2>1, <2>2, <2>3, CommitQuiet
  <1>8. CASE CrashInElection(s)
    <2>1. /\ UNCHANGED <<log, net, ballots, elected>>
          /\ current_term' = [current_term EXCEPT ![s] = @ + 1]
          /\ state' = [state EXCEPT ![s] = "follower"]
          /\ commit_idx' = [commit_idx EXCEPT ![s] = 0]
          /\ match_idx' = [match_idx EXCEPT ![s] = [q \in Server |-> 0]]
      BY <1>8 DEF CrashInElection, Reload
    <2>2. /\ state'[s] = "follower" /\ commit_idx'[s] = 0 /\ current_term[s] <= current_term'[s]
          /\ \A x \in Server \ {s} :
                /\ state'[x] = state[x] /\ commit_idx'[x] = commit_idx[x] /\ match_idx'[x] = match_idx[x]
                /\ current_term'[x] = current_term[x]
      BY <1>2, <2>1 DEF TypeOK
    <2>3. Moves(s, none)
      BY <1>2, <1>3, <2>1, <2>2 DEF Moves
    <2>. QED  BY <1>1, <1>3, <2>1, <2>2, <2>3, CommitQuiet
  <1>. QED  BY <1>4, <1>5, <1>6, <1>7, <1>8

\* Taking a message, and answering it with r.
LEMMA TakenOrderly ==
    ASSUME TypeOK, NEW s \in Server, NEW p \in Server, NEW i \in DOMAIN net[p][s],
           net' = Take(net, p, s, i)
    PROVE  Orderly(net, net', s, {})
  <1>1. net \in Network
    BY DEF TypeOK, Network
  <1>. QED  BY <1>1, TakeOrderly

LEMMA AnswerOrderly ==
    ASSUME TypeOK, NEW s \in Server, NEW p \in Server, p # s, NEW i \in DOMAIN net[p][s],
           NEW r \in Message, net' = SendTo(Take(net, p, s, i), s, p, r)
    PROVE  \E out : Orderly(net, net', s, out) /\ \A k \in out : k.msg = r
  <1>. DEFINE n == Take(net, p, s, i)
              D == {p}
              out == [q \in D |-> r]
  <1>1. net \in Network /\ n \in Network
    BY TakeProperties DEF TypeOK, Network
  <1>2. Orderly(net, n, s, {})
    BY <1>1, TakeOrderly
  <1>3. net' = Send(n, s, out)
    BY DEF SendTo
  <1>4. D \in SUBSET Peers(s) /\ out \in [D -> Message] /\ \A q \in D : out[q] = r
    BY DEF Peers
  <1>. HIDE DEF n, D, out
  <1>5. Orderly(n, net', s, Packets(D, out))
    BY <1>1, <1>3, <1>4, SendOrderly DEF n
  <1>6. Orderly(net, net', s, Packets(D, out))
    BY <1>2, <1>5, OrderlyBoth
  <1>7. \A k \in Packets(D, out) : k.msg = r
    BY <1>4 DEF Packets
  <1>. QED  BY <1>6, <1>7

\* The commit rule of raft_recv_appendentries_response: the least match_idx that is counted is
\* that of an entry of the leader's own term, which a majority has acknowledged.
LEMMA CountedCommitted ==
    ASSUME TypeOK, NEW s \in Server, NEW h \in Histories, NEW a \in Acks, History(h),
           Acknowledged(h, a), IsElected(current_term[s], s), 1 < Cardinality(Server),
           NEW match \in [Server -> Nat],
           \A q \in Peers(s) \cap Voters : match[q] <= a[current_term[s]][q],
           NEW point \in Nat,
           Cardinality(Server) \div 2 < Cardinality(Replicas(s, match, point)) + 1
    PROVE  Committed(h, a, current_term[s], point) /\ point <= Len(log[s])
  <1>. DEFINE T == current_term[s]
              R == Replicas(s, match, point)
              M == {match[q] : q \in R}
              N == Cardinality(Server)
  <1>1. T \in Nat /\ log[s] = h[T] /\ log[s] \in Seq(Entry) /\ Len(log[s]) \in Nat
        /\ DOMAIN log[s] = 1 .. Len(log[s])
    BY EntryAt DEF TypeOK, History
  <1>2. \A v \in Server : a[T][v] \in Nat /\ a[T][v] <= Len(h[T])
    BY <1>1 DEF Acks, Acknowledged
  <1>3. a[T][s] = Len(h[T])
    BY <1>1 DEF Acknowledged
  <1>4. /\ R \subseteq Server /\ s \notin R
        /\ \A q \in R : /\ 0 < match[q] /\ log[s][match[q]].term = T /\ point <= match[q]
                        /\ match[q] <= a[T][q] /\ match[q] \in Nat
    BY DEF Replicas, Peers
  <1>. HIDE DEF R
  <1>5. IsFiniteSet(Server) /\ IsFiniteSet(R) /\ Cardinality(R) \in Nat /\ N \in Nat
    BY <1>4, ConstantsAssumption, FS_Subset, FS_CardinalityType
  <1>6. Cardinality(R \cup {s}) = Cardinality(R) + 1 /\ Cardinality(R \cup {s}) <= N
    <2>1. Cardinality(R \cup {s}) = Cardinality(R) + 1
      BY <1>4, <1>5, FS_AddElement
    <2>2. R \cup {s} \in SUBSET Server
      BY <1>4
    <2>. QED  BY <1>5, <2>1, <2>2, FS_Subset
  <1>7. IsMajority(Cardinality(R \cup {s}))
    <2>1. N \div 2 < Cardinality(R) + 1
      BY DEF R
    <2>2. N \div 2 \in Nat
      BY <1>5
    <2>3. N \div 2 + 1 <= Cardinality(R) + 1
      BY <1>5, <2>1, <2>2
    <2>. QED  BY <1>6, <2>3 DEF IsMajority
  <1>8. R # {}
    <2>1. N \div 2 < Cardinality(R) + 1
      BY DEF R
    <2>2. 1 <= N \div 2
      BY <1>5
    <2>3. Cardinality(R) # 0
      BY <1>5, <2>1, <2>2
    <2>. QED  BY <2>3, FS_EmptySet
  <1>9. PICK i \in M : \A j \in M : i <= j
    <2>1. M \subseteq Nat /\ M # {}
      BY <1>4, <1>8
    <2>. HIDE DEF M
    <2>. DEFINE W == OpToRel(<, Nat)
    <2>2. \E i \in M : \A j \in M : ~(<<j, i>> \in W)
      BY <2>1, NatLessThanWellFounded, WFMin, Zenon
    <2>3. \A j, i \in Nat : j < i => <<j, i>> \in W
      BY DEF OpToRel
    <2>. HIDE DEF W
    <2>4. PICK i \in M : \A j \in M : ~(<<j, i>> \in W)
      BY <2>2
    <2>5. \A j \in M : j \in Nat /\ i \in Nat /\ ~(j < i)
      BY <2>1, <2>3, <2>4
    <2>6. \A j \in M : i <= j
      BY <2>5
    <2>. QED  BY <2>6
  <1>10. PICK q \in R : i = match[q]
    OBVIOUS
  <1>11. /\ i \in Nat /\ point <= i /\ i \in 1 .. Len(h[T]) /\ h[T][i].term = T
         /\ \A v \in R : i <= a[T][v]
    <2>1. \A v \in R : i <= match[v]
      BY <1>9
    <2>2. \A v \in R : i <= a[T][v]
      BY <1>2, <1>4, <1>10, <2>1
    <2>3. i \in Nat /\ 0 < i /\ point <= i /\ i <= Len(h[T]) /\ h[T][i].term = T
      BY <1>1, <1>2, <1>4, <1>10
    <2>4. i \in 1 .. Len(h[T])
      BY <1>1, <2>3
    <2>. QED  BY <2>2, <2>3, <2>4
  <1>12. \A v \in R \cup {s} : i <= a[T][v]
    BY <1>1, <1>3, <1>11
  <1>13. Own(h, T, i) /\ R \cup {s} \in SUBSET Server
    BY <1>4, <1>11 DEF Own
  <1>14. point <= Len(log[s])
    BY <1>1, <1>11
  <1>. QED  BY <1>7, <1>11, <1>12, <1>13, <1>14 DEF Committed

\* Messages that are ignored, or only make s take up a later term.
LEMMA CommitIgnored ==
    ASSUME TypeOK, TypeOK', ElectionInv, ElectionInv', ElectionSafety, ElectionSafety', LeadsElected,
           CandidacyInv, NEW h \in Histories, NEW a \in Acks, History(h), Commit(h, a),
           NEW s \in Server, NEW p \in Server, NEW i \in DOMAIN net[p][s],
           \/ IgnoreRequestVoteResponse(s, p, i) \/ LoseElection(s, p, i)
           \/ IgnoreAppendEntriesResponse(s, p, i) \/ StepDown(s, p, i)
           \/ CrashInRequestVote(s, p, i) \/ Lose(p, s, i)
    PROVE  CommitInv'
  <1>. DEFINE none == {}
  <1>1. GoesOn(h)
    BY LogReceive DEF Receive
  <1>2. /\ UNCHANGED <<log, ballots, elected>> /\ net' = Take(net, p, s, i)
        /\ \/ UNCHANGED <<current_term, state, commit_idx, match_idx>>
           \/ /\ current_term[s] < net[p][s][i].term
              /\ current_term' = [current_term EXCEPT ![s] = net[p][s][i].term]
              /\ state' = [state EXCEPT ![s] = "follower"]
              /\ commit_idx' = commit_idx \/ commit_idx' = [commit_idx EXCEPT ![s] = 0]
              /\ match_idx' = match_idx \/ match_idx' = [match_idx EXCEPT ![s] = [q \in Server |-> 0]]
    BY DEF IgnoreRequestVoteResponse, LoseElection, IgnoreAppendEntriesResponse, StepDown,
           CrashInRequestVote, Reload, Lose, Unsent
  <1>3. /\ current_term[s] \in Nat /\ net[p][s][i].term \in Nat /\ current_term[s] <= current_term'[s]
        /\ commit_idx'[s] \in {0, commit_idx[s]}
        /\ \A x \in Server \ {s} :
                /\ state'[x] = state[x] /\ commit_idx'[x] = commit_idx[x] /\ match_idx'[x] = match_idx[x]
                /\ current_term'[x] = current_term[x]
    <2>1. current_term[s] \in Nat /\ net[p][s][i].term \in Nat
      BY Delivered, MessageFields DEF TypeOK
    <2>2. current_term[s] <= current_term'[s] /\ \A x \in Server \ {s} : current_term'[x] = current_term[x]
      <3>1. current_term \in [Server -> Nat]
        BY DEF TypeOK
      <3>. QED  BY <1>2, <2>1, <3>1
    <2>3. commit_idx'[s] \in {0, commit_idx[s]} /\ \A x \in Server \ {s} : commit_idx'[x] = commit_idx[x]
      <3>1. commit_idx \in [Server -> Nat]
        BY DEF TypeOK
      <3>. QED  BY <1>2, <3>1
    <2>4. \A x \in Server \ {s} : state'[x] = state[x]
      BY <1>2 DEF TypeOK
    <2>5. \A x \in Server \ {s} : match_idx'[x] = match_idx[x]
      <3>1. match_idx \in [Server -> [Server -> Nat]]
        BY DEF TypeOK
      <3>2. CASE match_idx' = match_idx
        BY <3>2
      <3>3. CASE match_idx' = [match_idx EXCEPT ![s] = [q \in Server |-> 0]]
        BY <3>1, <3>3
      <3>. QED  BY <1>2, <3>2, <3>3
    <2>. QED  BY <2>1, <2>2, <2>3, <2>4, <2>5
  <1>4. \/ current_term'[s] = current_term[s] /\ state'[s] = state[s] /\ match_idx'[s] = match_idx[s]
        \/ state'[s] = "follower"
    BY <1>2 DEF TypeOK
  <1>5. Orderly(net, net', s, none)
    BY <1>2, TakenOrderly
  <1>6. /\ \A k \in none : k.msg.type = "appendentries_response" => k.msg.success = FALSE
        /\ \A k \in none : Proper(s, k.msg)
    OBVIOUS
  <1>. HIDE DEF none
  <1>7. Moves(s, none)
    BY <1>2, <1>3, <1>4, <1>5, <1>6 DEF Moves
  <1>8. /\ log'[s] = log[s] /\ commit_idx'[s] \in {0, commit_idx[s]}
        /\ state'[s] = "leader" =>
              /\ current_term'[s] = current_term[s] /\ state[s] = "leader"
              /\ \A q \in Peers(s) \cap Voters : match_idx'[s][q] = match_idx[s][q]
    BY <1>2, <1>3, <1>4
  <1>9. UNCHANGED elected
    BY <1>2
  <1>. QED  BY <1>1, <1>6, <1>7, <1>8, <1>9, CommitQuiet

\* raft_recv_requestvote
LEMMA CommitRequestVote ==
    ASSUME TypeOK, TypeOK', ElectionInv, ElectionInv', ElectionSafety, ElectionSafety', LeadsElected,
           CandidacyInv, NEW h \in Histories, NEW a \in Acks, History(h), Commit(h, a),
           NEW s \in Server, NEW p \in Server, NEW i \in DOMAIN net[p][s], RecvRequestVote(s, p, i)
    PROVE  CommitInv'
  <1>. DEFINE m == net[p][s][i]
              granted == ShouldGrantVote(s, m)
              term == SeenTerm(s, m.term)
              r == [type |-> "requestvote_response", term |-> term, vote_granted |-> granted]
              vote == [term |-> term, voter |-> s, candidate |-> p]
  <1>1. GoesOn(h)
    BY LogReceive DEF Receive
  <1>2. m \in Message /\ m \in InFlight(net, p, s) /\ m.term \in Nat /\ current_term[s] \in Nat
    BY Delivered, MessageFields DEF TypeOK
  <1>3. p # s
    BY <1>2 DEF History
  <1>4. /\ m.type = "requestvote"
        /\ current_term' = [current_term EXCEPT ![s] = term]
        /\ state' = [state EXCEPT ![s] = IF current_term[s] < m.term THEN "follower" ELSE @]
        /\ ballots' = IF granted THEN ballots \cup {vote} ELSE ballots
        /\ net' = SendTo(Take(net, p, s, i), s, p, r)
        /\ UNCHANGED <<log, commit_idx, match_idx, elected>>
    BY DEF RecvRequestVote
  <1>5. term \in Nat /\ current_term[s] <= term /\ (current_term[s] < m.term \/ term = current_term[s])
    BY <1>2 DEF SeenTerm, MaxOf
  <1>6. r \in Message /\ r.type = "requestvote_response"
    <2>1. granted \in BOOLEAN
      BY DEF ShouldGrantVote
    <2>. QED  BY <1>5, <2>1, VoteResponseType
  <1>7. granted => m.term = term /\ UpToDate(log[s], m.last_log_idx, m.last_log_term)
    BY <1>2, <1>5 DEF ShouldGrantVote, SeenTerm, MaxOf
  <1>. HIDE DEF granted, term, r, m
  <1>8. PICK out : Orderly(net, net', s, out) /\ \A k \in out : k.msg = r
    BY <1>3, <1>4, <1>6, AnswerOrderly
  <1>9. /\ current_term'[s] = term
        /\ state'[s] = IF current_term[s] < m.term THEN "follower" ELSE state[s]
        /\ \A x \in Server \ {s} : current_term'[x] = current_term[x] /\ state'[x] = state[x]
    BY <1>4 DEF TypeOK
  <1>10. \A k \in out : Proper(s, k.msg) /\ k.msg.type # "appendentries_response"
    BY <1>6, <1>8 DEF Proper
  <1>11. ASSUME NEW b \in ballots' \ ballots PROVE Votes(s, b)
    <2>1. granted /\ b = vote
      BY <1>4
    <2>2. b.voter = s /\ b.candidate = p /\ b.term = current_term'[s]
      BY <1>9, <2>1
    <2>3. m \in InFlight(net, b.candidate, s)
      BY <1>2, <2>2 DEF m
    <2>4. m.type = "requestvote" /\ m.term = b.term /\ UpToDate(log[s], m.last_log_idx, m.last_log_term)
      BY <1>4, <1>7, <1>9, <2>1, <2>2
    <2>. QED  BY <1>3, <1>4, <2>2, <2>3, <2>4 DEF Votes
  <1>12. ballots \subseteq ballots'
    BY <1>4
  <1>. HIDE DEF vote
  <1>13. Moves(s, out)
    BY <1>4, <1>5, <1>8, <1>9, <1>10, <1>11, <1>12 DEF Moves
  <1>14. /\ log'[s] = log[s] /\ commit_idx'[s] \in {0, commit_idx[s]}
        /\ state'[s] = "leader" =>
              /\ current_term'[s] = current_term[s] /\ state[s] = "leader"
              /\ \A q \in Peers(s) \cap Voters : match_idx'[s][q] = match_idx[s][q]
    BY <1>4, <1>5, <1>9
  <1>. QED  BY <1>1, <1>4, <1>10, <1>13, <1>14, CommitQuiet

\* A vote that does not make a majority, and an appendentries that is refused outright.
LEMMA CommitRefused ==
    ASSUME TypeOK, TypeOK', ElectionInv, ElectionInv', ElectionSafety, ElectionSafety', LeadsElected,
           CandidacyInv, NEW h \in Histories, NEW a \in Acks, History(h), Commit(h, a),
           NEW s \in Server, NEW p \in Server, NEW i \in DOMAIN net[p][s],
           \/ RecvVote(s, p, i) /\ ~IsMajority(NVotesForMe(s, votes_for_me[s] \cup {p}))
           \/ RefuseAppendEntries(s, p, i)
    PROVE  CommitInv'
  <1>. DEFINE m == net[p][s][i]
              term == SeenTerm(s, m.term)
  <1>1. GoesOn(h)
    BY LogReceive DEF Receive
  <1>2. /\ m \in Message /\ m \in InFlight(net, p, s) /\ m.term \in Nat /\ current_term[s] \in Nat
        /\ Len(log[s]) \in Nat
    BY Delivered, MessageFields, EntryAt DEF TypeOK
  <1>3. p # s
    BY <1>2 DEF History
  <1>4. CASE RecvVote(s, p, i) /\ ~IsMajority(NVotesForMe(s, votes_for_me[s] \cup {p}))
    <2>. DEFINE none == {}
    <2>1. /\ net' = Take(net, p, s, i)
          /\ UNCHANGED <<current_term, state, log, commit_idx, match_idx, ballots, elected>>
      BY <1>4 DEF RecvVote
    <2>2. Orderly(net, net', s, none)
      BY <2>1, TakenOrderly
    <2>3. /\ \A k \in none : k.msg.type = "appendentries_response" => k.msg.success = FALSE
          /\ \A k \in none : Proper(s, k.msg)
      OBVIOUS
    <2>. HIDE DEF none
    <2>4. Moves(s, none)
      BY <1>2, <2>1, <2>2, <2>3 DEF Moves
    <2>. QED  BY <1>1, <2>1, <2>3, <2>4, CommitQuiet
  <1>5. CASE RefuseAppendEntries(s, p, i)
    <2>. DEFINE r == Response(term, FALSE, Len(log[s]))
    <2>1. /\ net' = SendTo(Take(net, p, s, i), s, p, r)
          /\ UNCHANGED <<log, commit_idx, match_idx, ballots, elected>>
          /\ \/ UNCHANGED <<current_term, state>>
             \/ /\ current_term' = [current_term EXCEPT ![s] = term]
                /\ state' = [state EXCEPT ![s] = IF Follows(s, m.term) THEN "follower" ELSE @]
      BY <1>5 DEF RefuseAppendEntries, FollowSender
    <2>2. /\ term \in Nat /\ current_term[s] <= term
          /\ term = current_term[s] \/ Follows(s, m.term)
      BY <1>2 DEF SeenTerm, MaxOf, Follows
    <2>3. r \in Message /\ r.type = "appendentries_response" /\ r.success = FALSE
      BY <1>2, <2>2, ResponseType DEF Response
    <2>. HIDE DEF r, term
    <2>4. PICK out : Orderly(net, net', s, out) /\ \A k \in out : k.msg = r
      BY <1>3, <2>1, <2>3, AnswerOrderly
    <2>5. /\ current_term[s] <= current_term'[s]
          /\ \A x \in Server \ {s} : current_term'[x] = current_term[x] /\ state'[x] = state[x]
          /\ state'[s] = "follower" \/ (state'[s] = state[s] /\ current_term'[s] = current_term[s])
      <3>1. current_term \in [Server -> Nat]
        BY DEF TypeOK
      <3>2. CASE UNCHANGED <<current_term, state>>
        BY <1>2, <3>2
      <3>3. CASE /\ current_term' = [current_term EXCEPT ![s] = term]
                 /\ state' = [state EXCEPT ![s] = IF Follows(s, m.term) THEN "follower" ELSE @]
        <4>1. current_term'[s] = term /\ \A x \in Server \ {s} : current_term'[x] = current_term[x]
          BY <3>1, <3>3
        <4>2. /\ state'[s] = IF Follows(s, m.term) THEN "follower" ELSE state[s]
              /\ \A x \in Server \ {s} : state'[x] = state[x]
          BY <3>3 DEF TypeOK
        <4>. QED  BY <2>2, <4>1, <4>2
      <3>. QED  BY <2>1, <3>2, <3>3
    <2>6. \A k \in out : Proper(s, k.msg) /\ k.msg.success = FALSE
      BY <2>3, <2>4 DEF Proper
    <2>7. Moves(s, out)
      BY <2>1, <2>4, <2>5, <2>6 DEF Moves
    <2>8. /\ log'[s] = log[s] /\ commit_idx'[s] \in {0, commit_idx[s]} /\ UNCHANGED elected
          /\ state'[s] = "leader" =>
                /\ current_term'[s] = current_term[s] /\ state[s] = "leader"
                /\ \A q \in Peers(s) \cap Voters : match_idx'[s][q] = match_idx[s][q]
      BY <2>1, <2>5
    <2>. QED  BY <1>1, <2>6, <2>7, <2>8, CommitQuiet
  <1>. QED  BY <1>4, <1>5

\* raft_recv_appendentries_response
LEMMA CommitAnswered ==
    ASSUME TypeOK, TypeOK', ElectionInv, ElectionInv', ElectionSafety, ElectionSafety', LeadsElected,
           CandidacyInv, NEW h \in Histories, NEW a \in Acks, History(h), Commit(h, a),
           NEW s \in Server, NEW p \in Server, NEW i \in DOMAIN net[p][s],
           RetryAppendEntries(s, p, i) \/ RecvAppended(s, p, i)
    PROVE  CommitInv'
  <1>. DEFINE m == net[p][s][i]
              T == current_term[s]
  <1>1. GoesOn(h)
    BY LogReceive DEF Receive
  <1>2. /\ m \in Message /\ m \in InFlight(net, p, s) /\ m.term \in Nat /\ T \in Nat
        /\ log[s] \in Seq(Entry) /\ Len(log[s]) \in Nat /\ commit_idx[s] \in Nat
        /\ next_idx[s][p] \in Nat \ {0} /\ match_idx[s] \in [Server -> Nat]
    <2>1. m \in Message /\ m \in InFlight(net, p, s) /\ m.term \in Nat
      BY Delivered, MessageFields
    <2>2. log[s] \in Seq(Entry) /\ Len(log[s]) \in Nat
      BY EntryAt DEF TypeOK
    <2>. QED  BY <2>1, <2>2 DEF TypeOK
  <1>3. p # s
    BY <1>2 DEF History
  <1>4. /\ m.type = "appendentries_response" /\ state[s] = "leader" /\ m.term = T
        /\ UNCHANGED <<current_term, state, log, ballots, elected>>
    BY DEF RetryAppendEntries, RecvAppended, Answers
  <1>5. m.current_idx \in Nat
    BY <1>2, <1>4, MessageFields
  <1>6. IsElected(T, s) /\ 1 < Cardinality(Server)
    BY <1>4 DEF LeadsElected, CandidacyInv
  \* What s sends is built from its state after the step.
  <1>7. ASSUME NEW commit \in Nat, commit_idx'[s] = commit, NEW next \in Nat \ {0},
               \/ net' = Take(net, p, s, i)
               \/ net' = SendTo(Take(net, p, s, i), s, p, AppendEntries(T, log[s], commit, next))
        PROVE  \E out : /\ Orderly(net, net', s, out)
                        /\ \A k \in out : Proper(s, k.msg) /\ k.msg.type = "appendentries"
    <2>. DEFINE r == AppendEntries(T, log[s], commit, next)
    <2>1. CASE net' = Take(net, p, s, i)
      BY <2>1, TakenOrderly
    <2>2. CASE net' = SendTo(Take(net, p, s, i), s, p, r)
      <3>1. r \in Message
        BY <1>2, AppendEntriesType
      <3>2. r.type = "appendentries"
        BY DEF AppendEntries
      <3>3. r = AppendEntries(current_term'[s], log'[s], commit_idx'[s], next)
        BY <1>4, <1>7
      <3>. HIDE DEF r
      <3>4. Proper(s, r)
        BY <1>4, <3>2, <3>3 DEF Proper
      <3>5. PICK out : Orderly(net, net', s, out) /\ \A k \in out : k.msg = r
        BY <1>3, <2>2, <3>1, AnswerOrderly
      <3>. QED  BY <3>2, <3>4, <3>5
    <2>. QED  BY <1>7, <2>1, <2>2
  <1>8. CASE RetryAppendEntries(s, p, i)
    <2>. DEFINE back == IF m.current_idx < next_idx[s][p] - 1
                        THEN MinOf(m.current_idx + 1, Len(log[s]))
                        ELSE next_idx[s][p] - 1
                next == MaxOf(back, 1)
    <2>1. /\ UNCHANGED <<commit_idx, match_idx>>
          /\ net' = SendTo(Take(net, p, s, i), s, p, AppendEntries(T, log[s], commit_idx[s], next))
      BY <1>8 DEF RetryAppendEntries
    <2>2. next \in Nat \ {0}
      <3>. HIDE DEF m
      <3>1. next_idx[s][p] - 1 \in Nat
        BY <1>2
      <3>2. back \in Nat
        BY <1>2, <1>5, <3>1 DEF MinOf
      <3>. HIDE DEF back
      <3>. QED  BY <3>2 DEF MaxOf
    <2>. HIDE DEF next
    <2>3. PICK out : /\ Orderly(net, net', s, out)
                     /\ \A k \in out : Proper(s, k.msg) /\ k.msg.type = "appendentries"
      BY <1>2, <1>7, <2>1, <2>2
    <2>4. Moves(s, out)
      BY <1>2, <1>4, <2>1, <2>3 DEF Moves
    <2>. QED  BY <1>1, <1>4, <2>1, <2>3, <2>4, CommitQuiet
  <1>9. CASE RecvAppended(s, p, i)
    <2>. DEFINE point == m.current_idx
                match == [match_idx[s] EXCEPT ![p] = point]
                enough == /\ Cardinality(Server) \div 2 < Cardinality(Replicas(s, match, point)) + 1
                          /\ commit_idx[s] < point
                commit == IF enough THEN point ELSE commit_idx[s]
    <2>1. /\ m.success
          /\ match_idx' = [match_idx EXCEPT ![s] = match]
          /\ commit_idx' = [commit_idx EXCEPT ![s] = commit]
          /\ net' = IF point + 1 \in DOMAIN log[s]
                    THEN SendTo(Take(net, p, s, i), s, p,
                       AppendEntries(current_term[s], log[s], commit, point + 1))
                    ELSE Take(net, p, s, i)
      BY <1>9 DEF RecvAppended
    <2>2. point <= a[T][p]
      BY <1>2, <1>4, <2>1 DEF Commit, MessagesSound, Sound
    <2>3. /\ match \in [Server -> Nat] /\ match[p] = point
          /\ \A q \in Server \ {p} : match[q] = match_idx[s][q]
      <3>1. point \in Nat /\ match_idx[s] \in [Server -> Nat]
        BY <1>2, <1>5
      <3>. HIDE DEF point
      <3>. QED  BY <3>1
    <2>4. commit \in Nat /\ point + 1 \in Nat \ {0}
      <3>1. point \in Nat /\ commit_idx[s] \in Nat
        BY <1>2, <1>5
      <3>2. commit = point \/ commit = commit_idx[s]
        OBVIOUS
      <3>. HIDE DEF point, commit
      <3>. QED  BY <3>1, <3>2
    <2>5. /\ match_idx'[s] = match /\ commit_idx'[s] = commit
          /\ \A x \in Server \ {s} : match_idx'[x] = match_idx[x] /\ commit_idx'[x] = commit_idx[x]
      BY <2>1 DEF TypeOK
    <2>6. \A q \in Peers(s) \cap Voters : match[q] = match_idx[s][q] \/ match[q] <= a[T][q]
      BY <2>2, <2>3 DEF Peers
    <2>7. \A q \in Peers(s) \cap Voters : match[q] <= a[T][q]
      <3>1. \A q \in Peers(s) \cap Voters : match_idx[s][q] <= a[T][q]
        BY <1>4 DEF Commit, MatchesAcknowledged
      <3>. QED  BY <2>6, <3>1
    <2>8. enough => Committed(h, a, T, point) /\ point <= Len(log[s])
      <3>1. Acknowledged(h, a)
        BY DEF Commit
      <3>. HIDE DEF match, point
      <3>. QED  BY <1>5, <1>6, <2>3, <2>7, <3>1, CountedCommitted DEF point
    <2>9. commit = commit_idx[s] \/ (Committed(h, a, T, commit) /\ commit <= Len(log[s]))
      BY <2>8
    <2>. HIDE DEF commit, match, point
    <2>10. PICK out : /\ Orderly(net, net', s, out)
                      /\ \A k \in out : Proper(s, k.msg) /\ k.msg.type = "appendentries"
      BY <1>7, <2>1, <2>4, <2>5
    <2>11. Moves(s, out)
      BY <1>2, <1>4, <2>5, <2>10 DEF Moves
    <2>12. \/ commit_idx'[s] \in {0, commit_idx[s]}
           \/ /\ IsElected(current_term[s], s) /\ current_term'[s] = current_term[s]
              /\ Committed(h, a, current_term[s], commit_idx'[s]) /\ commit_idx'[s] <= Len(log[s])
      BY <1>4, <1>6, <2>5, <2>9
    <2>13. \A q \in Peers(s) \cap Voters :
              match_idx'[s][q] = match_idx[s][q] \/ match_idx'[s][q] <= a[current_term[s]][q]
      BY <2>5, <2>6
    <2>. QED  BY <1>1, <1>4, <2>10, <2>11, <2>12, <2>13, CommitQuiet
  <1>. QED  BY <1>8, <1>9

\* Steps of s, the leader of its term from now on, which goes on writing.
LEMMA CommitWriting ==
    ASSUME TypeOK, TypeOK', ElectionInv', ElectionSafety', CandidacyInv,
           NEW s \in Server, NEW out, Moves(s, out),
           NEW h \in Histories, NEW a \in Acks, History(h), GoesOn(h), Commit(h, a),
           current_term'[s] = current_term[s], IsElected(current_term[s], s)',
           Agree(log'[s], log[s], Len(log[s])),
           Agree(log'[s], h[current_term[s]], Len(h[current_term[s]])),
           \A i, j \in DOMAIN log'[s] :
              /\ 0 < log'[s][i].term /\ log'[s][i].term <= current_term[s]
              /\ i <= j => log'[s][i].term <= log'[s][j].term,
           commit_idx'[s] = commit_idx[s],
           \A k \in out : k.msg.type # "appendentries_response",
           \A q \in Peers(s) \cap Voters :
              match_idx'[s][q] = 0 \/ (match_idx'[s][q] = match_idx[s][q] /\ state[s] = "leader"),
           [term |-> current_term[s], leader |-> s] \in elected' \ elected =>
              \A t, i \in Nat : Choosable(h, a, current_term, t, i) /\ t < current_term[s]
                 => Agree(log'[s], h[t], i)
    PROVE  CommitInv'
  <1>. DEFINE T == current_term[s]
  <1>1. /\ TermsRise(h) /\ LogsTimely /\ Acknowledged(h, a) /\ Kept(h, a)
        /\ MessagesSound(h, a) /\ MatchesAcknowledged(a) /\ CommitsSound(h, a) /\ LeadsElected'
    BY DEF Commit, GoesOn
  <1>2. /\ T \in Nat /\ log[s] \in Seq(Entry) /\ Len(log[s]) \in Nat /\ DOMAIN log'[s] = 1 .. Len(log'[s])
        /\ log'[s] \in Seq(Entry) /\ Len(log'[s]) \in Nat /\ commit_idx[s] \in Nat
    BY EntryAt DEF TypeOK
  <1>3. Len(h[T]) \in Nat
    BY <1>2, EntryAt DEF Histories
  <1>4. Len(h[T]) <= Len(log'[s]) /\ \A j \in 1 .. Len(h[T]) : h[T][j] = log'[s][j]
    BY DEF Agree
  <1>5. PICK g \in Histories :
           /\ History(g)' /\ Grows(h, g)
           /\ \A t \in Nat : \/ g[t] = h[t]
                             \/ /\ t = current_term[s] /\ t = current_term'[s] /\ IsElected(t, s)'
                                /\ g[t] = log'[s]
    BY <1>4, HistoryNext
  <1>6. g[T] = log'[s]
    BY <1>5 DEF History
  <1>. DEFINE n == Len(log'[s])
              row == [a[T] EXCEPT ![s] = n]
  <1>7. PICK b \in Acks : b = [a EXCEPT ![T] = row]
    <2>1. row \in [Server -> Nat]
      BY <1>2 DEF Acks
    <2>. QED  BY <1>2, <2>1 DEF Acks
  <1>8. b[T][s] = n /\ \A t \in Nat : \A v \in Server : b[t][v] = a[t][v] \/ (v = s /\ t = T)
    BY <1>2, <1>7 DEF Acks
  <1>9. a[T][s] \in Nat /\ a[T][s] <= n
    <2>1. a[T][s] \in Nat /\ a[T][s] <= Len(h[T])
      BY <1>1, <1>2 DEF Acks, Acknowledged
    <2>. QED  BY <1>2, <1>3, <1>4, <2>1
  <1>. HIDE DEF n, row
  <1>10. Grown(s, h, g, a, b)
    <2>1. ASSUME NEW t \in Nat, NEW v \in Server
          PROVE  b[t][v] = a[t][v] \/ (v = s /\ t = current_term'[s] /\ a[t][v] < b[t][v])
      <3>1. CASE v = s /\ t = T
        <4>1. n \in Nat
          BY <1>2 DEF n
        <4>. QED  BY <1>8, <1>9, <3>1, <4>1
      <3>2. CASE ~(v = s /\ t = T)
        BY <1>8, <3>2
      <3>. QED  BY <3>1, <3>2
    <2>. QED  BY <1>5, <2>1 DEF Grown
  <1>11. TermsRise(g)
    <2>. SUFFICES ASSUME NEW t \in Nat, NEW i \in DOMAIN g[t], NEW j \in DOMAIN g[t]
                  PROVE  /\ 0 < g[t][i].term /\ g[t][i].term <= t
                         /\ i <= j => g[t][i].term <= g[t][j].term
      BY DEF TermsRise
    <2>1. CASE g[t] = h[t]
      BY <1>1, <2>1 DEF TermsRise
    <2>2. CASE t = T /\ g[t] = log'[s]
      BY <2>2
    <2>. QED  BY <1>5, <2>1, <2>2
  <1>12. \A j \in DOMAIN log'[s] : log'[s][j].term <= current_term'[s]
    OBVIOUS
  <1>13. b[current_term'[s]][s] = Len(g[current_term'[s]])
    BY <1>6, <1>8 DEF n
  <1>14. Agree(log'[s], g[current_term'[s]], b[current_term'[s]][s])
    BY <1>2, <1>6, <1>8 DEF n, Agree
  <1>15. ASSUME NEW x \in Server, NEW m \in InFlight(net, x, s), m.type = "appendentries", m.term = T
         PROVE  FALSE
    <2>1. x # s /\ IsElected(T, x)
      BY <1>15 DEF History
    <2>2. [term |-> T, leader |-> x] \in elected' /\ [term |-> T, leader |-> s] \in elected'
      BY <2>1 DEF Moves, IsElected
    <2>. QED  BY <2>1, <2>2 DEF ElectionSafety
  <1>16. state'[s] = "leader" =>
            \A q \in Peers(s) \cap Voters : match_idx'[s][q] <= b[current_term'[s]][q]
    <2>. SUFFICES ASSUME NEW q \in Peers(s) \cap Voters PROVE match_idx'[s][q] <= b[T][q]
      OBVIOUS
    <2>1. a[T][q] \in Nat /\ b[T][q] \in Nat /\ a[T][q] <= b[T][q] /\ match_idx[s][q] \in Nat
      <3>1. q \in Server
        BY DEF Peers
      <3>2. a[T][q] \in Nat /\ b[T][q] \in Nat /\ a[T][q] <= b[T][q]
        BY <1>2, <1>10, <3>1, AcksGrow
      <3>. QED  BY <3>1, <3>2 DEF TypeOK
    <2>2. CASE match_idx'[s][q] = 0
      BY <2>1, <2>2
    <2>3. CASE match_idx'[s][q] = match_idx[s][q] /\ state[s] = "leader"
      <3>1. match_idx[s][q] <= a[T][q]
        BY <1>1, <2>3 DEF MatchesAcknowledged
      <3>. QED  BY <2>1, <2>3, <3>1
    <2>. QED  BY <2>2, <2>3
  <1>17. CommitFits(g, b, current_term'[s], log'[s], commit_idx'[s], s)
    <2>1. commit_idx[s] <= Len(log[s])
      <3>1. CASE 0 < commit_idx[s]
        BY <1>1, <3>1 DEF CommitsSound, Agree
      <3>. QED  BY <1>2, <3>1
    <2>2. Agree(log'[s], log[s], commit_idx[s])
      BY <1>2, <2>1, AgreeLess
    <2>. QED  BY <1>1, <1>10, <2>2, CommitStays
  <1>18. ASSUME NEW t \in Nat, NEW i \in Nat, Choosable(h, a, current_term, t, i), i <= a[t][s]
         PROVE  Agree(log'[s], h[t], i)
    <2>1. Agree(log[s], h[t], i) /\ Len(h[t]) \in Nat
      BY <1>1, <1>18, EntryAt DEF Kept, Held, Histories
    <2>2. i <= Len(log[s])
      BY <2>1 DEF Agree
    <2>3. Agree(log'[s], log[s], i)
      BY <1>2, <2>2, AgreeLess
    <2>. QED  BY <1>2, <2>1, <2>3, AgreeThrough
  <1>19. \A x \in Server : \A m \in InFlight(net', x, s) \cap InFlight(net, x, s) :
              m.type = "appendentries" /\ m.term = current_term'[s]
                 /\ a[current_term'[s]][s] < b[current_term'[s]][s]
                 => b[current_term'[s]][s] <= Reach(m)
    BY <1>15
  <1>20. \A k \in out : k.msg.type = "appendentries_response" /\ k.msg.success
                             => k.msg.current_idx <= b[k.msg.term][s]
    OBVIOUS
  <1>21. Commit(g, b)' /\ CandidacyInv'
    BY <1>1, <1>5, <1>10, <1>11, <1>12, <1>13, <1>14, <1>16, <1>17, <1>18, <1>19, <1>20, CommitStep
  <1>. QED  BY <1>5, <1>21 DEF CommitInv

\* raft_become_leader: a majority has voted for s, so one of those who could have acknowledged
\* an entry of an earlier term, and has acknowledged it as it is in a later term now.
LEMMA CommitWon ==
    ASSUME TypeOK, TypeOK', ElectionInv, ElectionInv', ElectionSafety, ElectionSafety', LeadsElected,
           CandidacyInv, NEW h \in Histories, NEW a \in Acks, History(h), Commit(h, a),
           NEW s \in Server, NEW p \in Server, NEW i \in DOMAIN net[p][s], RecvVote(s, p, i),
           IsMajority(NVotesForMe(s, votes_for_me[s] \cup {p}))
    PROVE  CommitInv'
  <1>. DEFINE n == Take(net, p, s, i)
              T == current_term[s]
              D == Peers(s) \cap Voters
              ae == AppendEntries(T, log[s], commit_idx[s], Len(log[s]) + 1)
              out == [q \in D |-> ae]
  <1>1. GoesOn(h)
    BY LogWon
  <1>2. /\ UNCHANGED <<current_term, log, commit_idx, ballots>>
        /\ state[s] = "candidate"
        /\ state' = [state EXCEPT ![s] = "leader"]
        /\ elected' = elected \cup {[term |-> T, leader |-> s]}
        /\ match_idx' = [match_idx EXCEPT ![s] = [q \in Server |->
              IF q \in Peers(s) \cap Voters THEN 0 ELSE match_idx[s][q]]]
        /\ net' = Send(n, s, out)
    BY DEF RecvVote, BecomeLeader
  <1>3. /\ T \in Nat /\ log[s] \in Seq(Entry) /\ Len(log[s]) \in Nat /\ commit_idx[s] \in Nat
        /\ \A j \in DOMAIN log[s] : log[s][j].term \in Nat
    BY EntryAt DEF TypeOK
  <1>4. /\ TermsRise(h) /\ LogsTimely /\ Acknowledged(h, a) /\ Kept(h, a)
        /\ MessagesSound(h, a) /\ MatchesAcknowledged(a) /\ CommitsSound(h, a)
    BY DEF Commit
  <1>5. h[T] = << >>
    <2>. SUFFICES ASSUME h[T] # << >> PROVE FALSE
      OBVIOUS
    <2>1. PICK x \in Server : IsElected(T, x)
      BY <1>3 DEF History
    <2>2. [term |-> T, leader |-> x] \in elected' /\ [term |-> T, leader |-> s] \in elected'
      BY <1>2, <2>1 DEF IsElected
    <2>3. x = s
      BY <2>2 DEF ElectionSafety
    <2>. QED  BY <1>2, <2>1, <2>3 DEF ElectionInv, LeadersElected, IsElected
  <1>6. net \in Network /\ n \in Network
    BY TakeProperties DEF TypeOK, Network
  <1>7. ae \in Message /\ ae.type = "appendentries" /\ Len(log[s]) + 1 \in Nat \ {0}
    <2>1. Len(log[s]) + 1 \in Nat \ {0}
      BY <1>3
    <2>. QED  BY <1>3, <2>1, AppendEntriesType DEF AppendEntries
  <1>8. out \in [D -> Message] /\ D \in SUBSET Peers(s) /\ \A q \in D : out[q] = ae
    BY <1>7
  <1>. HIDE DEF n, out
  <1>9. Orderly(net, net', s, Packets(D, out))
    <2>1. Orderly(net, n, s, {})
      BY <1>6, TakeOrderly DEF n
    <2>2. Orderly(n, net', s, Packets(D, out))
      BY <1>2, <1>6, <1>8, SendOrderly
    <2>. QED  BY <2>1, <2>2, OrderlyBoth
  <1>10. /\ state'[s] = "leader"
         /\ \A x \in Server \ {s} : state'[x] = state[x] /\ match_idx'[x] = match_idx[x]
         /\ \A q \in Peers(s) \cap Voters : match_idx'[s][q] = 0
    BY <1>2 DEF TypeOK, Peers
  <1>11. ASSUME NEW k \in Packets(D, out) PROVE Proper(s, k.msg) /\ k.msg.type = "appendentries"
    <2>1. PICK q \in D : k = [to |-> q, msg |-> out[q]]
      BY DEF Packets
    <2>2. k.msg = AppendEntries(current_term'[s], log'[s], commit_idx'[s], Len(log[s]) + 1)
      BY <1>2, <1>8, <2>1
    <2>3. k.msg.type = "appendentries"
      BY <1>7, <1>8, <2>1
    <2>. QED  BY <1>7, <1>10, <2>2, <2>3 DEF Proper
  <1>. HIDE DEF D, ae
  <1>12. Moves(s, Packets(D, out))
    BY <1>2, <1>3, <1>9, <1>10, <1>11 DEF Moves
  <1>13. [term |-> T, leader |-> s] \in elected' /\ IsElected(current_term[s], s)'
    BY <1>2 DEF IsElected
  <1>14. \A x, y \in DOMAIN log'[s] :
            /\ 0 < log'[s][x].term /\ log'[s][x].term <= T
            /\ x <= y => log'[s][x].term <= log'[s][y].term
    <2>1. LogFits(h, log[s])
      BY DEF History
    <2>2. \A x, y \in DOMAIN log[s] : 0 < log[s][x].term /\ (x <= y => log[s][x].term <= log[s][y].term)
      BY <1>3, <1>4, <2>1, LogTermsRise
    <2>. QED  BY <1>2, <1>4, <2>2 DEF LogsTimely
  <1>15. /\ Agree(log'[s], log[s], Len(log[s]))
         /\ Agree(log'[s], h[T], Len(h[T]))
    <2>1. Len(h[T]) = 0
      BY <1>5, EmptySeq
    <2>. QED  BY <1>2, <1>3, <2>1 DEF Agree
  \* The quorums of the election and of the acknowledgements have a server in common.
  <1>16. ASSUME NEW t \in Nat, NEW j \in Nat, Choosable(h, a, current_term, t, j), t < T
         PROVE  Agree(log'[s], h[t], j)
    <2>1. PICK R \in SUBSET Server :
             IsMajority(Cardinality(R)) /\ \A v \in R : BallotOf(T, v, s) \in ballots
      <3>1. \E R \in SUBSET Server :
               IsMajority(Cardinality(R)) /\ \A v \in R : BallotOf(T, v, s) \in ballots'
        <4>. DEFINE e == [term |-> T, leader |-> s]
        <4>1. e \in elected' /\ e.term = T /\ e.leader = s
          BY <1>13
        <4>. HIDE DEF e
        <4>. QED  BY <4>1 DEF ElectionInv, LeadersElected, IsMajority
      <3>. QED  BY <1>2, <3>1
    <2>2. PICK Q \in SUBSET Server :
             IsMajority(Cardinality(Q)) /\ \A v \in Q : j <= a[t][v] \/ current_term[v] <= t
      BY <1>16 DEF Choosable
    <2>3. PICK v \in Server : v \in Q /\ v \in R
      BY <2>1, <2>2, MajoritiesMeet
    <2>. DEFINE b == BallotOf(T, v, s)
    <2>4. b \in ballots /\ b.term = T /\ b.voter = v /\ b.candidate = s
      BY <2>1, <2>3 DEF BallotOf
    <2>. HIDE DEF b
    <2>5. T <= current_term[v] /\ current_term[v] \in Nat
      BY <2>3, <2>4 DEF ElectionInv, CurrentVotes, TypeOK
    <2>6. j <= a[t][v]
      BY <1>3, <1>16, <2>2, <2>3, <2>5
    <2>7. Held(h, a, t, j)
      BY <1>4, <1>16 DEF Kept
    <2>8. Agree(log[b.candidate], h[t], j)
      BY <1>2, <1>16, <2>4, <2>6, <2>7 DEF Held
    <2>. QED  BY <1>2, <2>4, <2>8
  <1>17. current_term'[s] = current_term[s] /\ commit_idx'[s] = commit_idx[s]
    BY <1>2
  <1>18. \A k \in Packets(D, out) : k.msg.type # "appendentries_response"
    BY <1>11
  <1>. QED  BY <1>1, <1>10, <1>12, <1>13, <1>14, <1>15, <1>16, <1>17, <1>18, CommitWriting

\* raft_recv_entry
LEMMA CommitEntry ==
    ASSUME TypeOK, TypeOK', ElectionInv, ElectionInv', ElectionSafety', LeadsElected,
           CandidacyInv, NEW h \in Histories, NEW a \in Acks, History(h), Commit(h, a),
           NEW s \in Server, NEW id \in Ids, RecvEntry(s, id)
    PROVE  CommitInv'
  <1>. DEFINE T == current_term[s]
              e == [term |-> T, id |-> id]
              l == IF id = 0 THEN log[s] ELSE Append(log[s], e)
              D == {q \in Peers(s) \cap Voters : next_idx[s][q] = Len(l)}
              out == [q \in D |-> AppendEntries(T, l, commit_idx[s], next_idx[s][q])]
  <1>1. GoesOn(h)
    BY LogOwnSteps
  <1>2. /\ net \in Network /\ log[s] \in Seq(Entry) /\ Len(log[s]) \in Nat
        /\ DOMAIN log[s] = 1 .. Len(log[s])
        /\ T \in Nat /\ commit_idx[s] \in Nat
        /\ \A q \in Server : next_idx[s][q] \in Nat \ {0}
    BY EntryAt DEF TypeOK, Network
  <1>3. /\ state[s] = "leader"
        /\ log' = [log EXCEPT ![s] = l]
        /\ net' = Send(net, s, out)
        /\ commit_idx' = [commit_idx EXCEPT ![s] = IF Cardinality(Server) = 1 THEN Len(l) ELSE @]
        /\ UNCHANGED <<current_term, state, match_idx, ballots, elected>>
    BY Zenon DEF RecvEntry
  <1>4. IsElected(T, s) /\ 1 < Cardinality(Server) /\ 0 < T
    BY <1>3 DEF LeadsElected, CandidacyInv
  <1>5. log[s] = h[T]
    BY <1>4 DEF History
  <1>6. /\ l \in Seq(Entry) /\ Len(log[s]) <= Len(l)
        /\ \A j \in 1 .. Len(log[s]) : l[j] = log[s][j]
        /\ Len(l) = Len(log[s]) \/ (Len(l) = Len(log[s]) + 1 /\ l[Len(l)].term = T)
    <2>1. CASE id = 0
      BY <1>2, <2>1
    <2>2. CASE id # 0
      <3>1. e \in Entry /\ e.term = T
        BY <1>2, <2>2 DEF Entry
      <3>. HIDE DEF e
      <3>2. /\ Append(log[s], e) \in Seq(Entry)
            /\ Len(Append(log[s], e)) = Len(log[s]) + 1
            /\ \A j \in 1 .. Len(log[s]) : Append(log[s], e)[j] = log[s][j]
            /\ Append(log[s], e)[Len(log[s]) + 1] = e
        BY <1>2, <3>1, AppendProperties
      <3>. QED  BY <1>2, <2>2, <3>1, <3>2
    <2>. QED  BY <2>1, <2>2
  <1>. HIDE DEF l
  <1>7. /\ log'[s] = l /\ commit_idx'[s] = commit_idx[s] /\ current_term'[s] = T /\ state'[s] = "leader"
        /\ \A x \in Server \ {s} : log'[x] = log[x] /\ commit_idx'[x] = commit_idx[x]
    <2>1. Cardinality(Server) # 1
      BY <1>4
    <2>. QED  BY <1>3, <2>1 DEF TypeOK
  <1>8. ASSUME NEW q \in D
        PROVE  /\ out[q] \in Message /\ out[q].type = "appendentries" /\ next_idx[s][q] \in Nat \ {0}
               /\ out[q] = AppendEntries(T, l, commit_idx[s], next_idx[s][q])
    <2>1. out[q] = AppendEntries(T, l, commit_idx[s], next_idx[s][q])
      OBVIOUS
    <2>2. next_idx[s][q] \in Nat \ {0}
      BY <1>2 DEF Peers
    <2>. HIDE DEF out
    <2>3. out[q] \in Message
      BY <1>2, <1>6, <2>1, <2>2, AppendEntriesType
    <2>. QED  BY <2>1, <2>2, <2>3 DEF AppendEntries
  <1>9. out \in [D -> Message] /\ D \in SUBSET Peers(s)
    BY <1>8
  <1>. HIDE DEF out, D
  <1>10. Orderly(net, net', s, Packets(D, out))
    BY <1>2, <1>3, <1>9, SendOrderly
  <1>11. ASSUME NEW k \in Packets(D, out) PROVE Proper(s, k.msg) /\ k.msg.type = "appendentries"
    <2>1. PICK q \in D : k = [to |-> q, msg |-> out[q]]
      BY DEF Packets
    <2>2. k.msg = AppendEntries(current_term'[s], log'[s], commit_idx'[s], next_idx[s][q])
      BY <1>7, <1>8, <2>1
    <2>3. k.msg.type = "appendentries" /\ next_idx[s][q] \in Nat \ {0}
      BY <1>8, <2>1
    <2>. QED  BY <1>7, <2>2, <2>3 DEF Proper
  <1>12. Moves(s, Packets(D, out))
    BY <1>2, <1>3, <1>7, <1>10, <1>11 DEF Moves
  <1>13. /\ Agree(log'[s], log[s], Len(log[s])) /\ Agree(log'[s], h[T], Len(h[T]))
    BY <1>2, <1>5, <1>6, <1>7 DEF Agree
  <1>14. ASSUME NEW x \in DOMAIN l, NEW y \in DOMAIN l
         PROVE  /\ 0 < l[x].term /\ l[x].term <= T
                /\ x <= y => l[x].term <= l[y].term
    <2>1. \A j, k \in DOMAIN log[s] : /\ 0 < log[s][j].term /\ log[s][j].term <= T
                                      /\ j <= k => log[s][j].term <= log[s][k].term
      BY <1>2, <1>5 DEF Commit, TermsRise
    <2>2. x \in 1 .. Len(l) /\ y \in 1 .. Len(l) /\ Len(l) \in Nat
      BY <1>6, EntryAt
    <2>3. CASE x \in DOMAIN log[s] /\ y \in DOMAIN log[s]
      BY <1>2, <1>6, <2>1, <2>3
    <2>4. CASE x \in DOMAIN log[s] /\ y \notin DOMAIN log[s]
      <3>1. y = Len(l) /\ l[y].term = T
        BY <1>2, <1>6, <2>2, <2>4
      <3>2. l[x] = log[s][x]
        BY <1>2, <1>6, <2>4
      <3>. QED  BY <2>1, <2>4, <3>1, <3>2
    <2>5. CASE x \notin DOMAIN log[s]
      <3>1. x = Len(l) /\ l[x].term = T
        BY <1>2, <1>6, <2>2, <2>5
      <3>2. x <= y => x = y
        BY <2>2, <3>1
      <3>. QED  BY <1>2, <1>4, <3>1, <3>2
    <2>. QED  BY <2>3, <2>4, <2>5
  <1>15. \A x, y \in DOMAIN log'[s] :
            /\ 0 < log'[s][x].term /\ log'[s][x].term <= current_term[s]
            /\ x <= y => log'[s][x].term <= log'[s][y].term
    BY <1>7, <1>14
  <1>16. IsElected(current_term[s], s)'
    BY <1>3, <1>4 DEF IsElected
  <1>17. \A k \in Packets(D, out) : k.msg.type # "appendentries_response"
    BY <1>11
  <1>18. elected' = elected /\ match_idx' = match_idx
    BY <1>3
  <1>. QED  BY <1>1, <1>3, <1>7, <1>12, <1>13, <1>15, <1>16, <1>17, <1>18, CommitWriting

\* What the leader of a later term has of a committed entry's log.
LEMMA LaterAgrees ==
    ASSUME TypeOK, NEW h \in Histories, NEW a \in Acks, Commit(h, a), NEW p, NEW u \in Nat, IsElected(u, p),
           NEW t \in 0 .. u, NEW c \in Nat, Committed(h, a, t, c)
    PROVE  /\ Agree(h[u], h[t], c)
           /\ t < u => \A x, y \in Server : \A m \in InFlight(net, x, y) :
                          m.type = "appendentries" /\ m.term = u => c <= Reach(m)
  <1>1. t \in Nat
    OBVIOUS
  <1>2. Len(h[u]) \in Nat /\ Len(h[t]) \in Nat
    BY <1>1, EntryAt DEF Histories
  <1>3. PICK j \in Nat : c <= j /\ Choosable(h, a, current_term, t, j)
    BY CommittedChoosable
  <1>4. CASE t = u
    BY <1>2, <1>3, <1>4 DEF Choosable, Own, Agree
  <1>5. CASE t < u
    <2>1. Held(h, a, t, j)
      BY <1>1, <1>3 DEF Commit, Kept
    <2>2. [term |-> u, leader |-> p] \in elected /\ [term |-> u, leader |-> p].term = u
      BY DEF IsElected
    <2>3. Agree(h[u], h[t], j)
      BY <1>5, <2>1, <2>2 DEF Held
    <2>4. Agree(h[u], h[t], c)
      BY <1>2, <1>3, <2>3, AgreeLess
    <2>5. ASSUME NEW x \in Server, NEW y \in Server, NEW m \in InFlight(net, x, y),
                 m.type = "appendentries", m.term = u
          PROVE  c <= Reach(m)
      <3>1. j <= Reach(m)
        BY <1>5, <2>1, <2>5 DEF Held
      <3>2. Reach(m) \in Nat
        BY <2>5, UnderWay, ReachType
      <3>. QED  BY <1>3, <3>1, <3>2
    <2>. QED  BY <2>4, <2>5
  <1>. QED  BY <1>4, <1>5

\* What s relies on when an appendentries of its term or a later one arrives is in the log of
\* the sender, and the message reaches as far.
LEMMA Firm ==
    ASSUME TypeOK, NEW h \in Histories, NEW a \in Acks, History(h), Commit(h, a),
           NEW s \in Server, NEW p \in Server, NEW m \in InFlight(net, p, s),
           m.type = "appendentries", current_term[s] <= m.term
    PROVE  /\ \A t, n \in Nat : Choosable(h, a, current_term, t, n) /\ n <= a[t][s] =>
                 Agree(log[s], h[m.term], n) /\ n <= Reach(m)
           /\ Agree(log[s], h[m.term], a[m.term][s]) /\ a[m.term][s] <= Reach(m)
           /\ Agree(log[s], h[m.term], commit_idx[s]) /\ commit_idx[s] <= Reach(m)
  <1>. DEFINE u == m.term
  <1>1. /\ m \in Message /\ u \in Nat /\ Reach(m) \in Nat /\ current_term[s] \in Nat
        /\ Len(log[s]) \in Nat /\ commit_idx[s] \in Nat
    BY UnderWay, ReachType, EntryAt DEF TypeOK
  <1>2. \A t \in Nat : Len(h[t]) \in Nat
    BY EntryAt DEF Histories
  <1>3. IsElected(u, p)
    BY DEF History
  <1>4. a[u][s] \in Nat /\ a[u][s] <= Reach(m)
    <2>1. a[u][s] <= Reach(m)
      BY DEF Commit, MessagesSound, Sound
    <2>. QED  BY <1>1, <2>1 DEF Acks
  <1>5. Agree(log[s], h[u], a[u][s])
    <2>1. /\ 0 < a[u][s] => u <= current_term[s]
          /\ current_term[s] = u => Agree(log[s], h[u], a[u][s])
      BY <1>1 DEF Commit, Acknowledged
    <2>2. CASE a[u][s] = 0
      BY <1>1, <1>2, <2>2 DEF Agree
    <2>3. CASE a[u][s] # 0
      BY <1>1, <1>4, <2>1, <2>3
    <2>. QED  BY <2>2, <2>3
  <1>6. ASSUME NEW t \in Nat, NEW n \in Nat, Choosable(h, a, current_term, t, n), n <= a[t][s]
        PROVE  Agree(log[s], h[u], n) /\ n <= Reach(m)
    <2>1. a[t][s] \in Nat /\ 0 < n
      BY <1>6 DEF Acks, Choosable, Own
    <2>2. t <= current_term[s]
      <3>1. 0 < a[t][s]
        BY <1>6, <2>1
      <3>. QED  BY <3>1 DEF Commit, Acknowledged
    <2>3. Held(h, a, t, n)
      BY <1>6 DEF Commit, Kept
    <2>4. CASE t = u
      <3>1. Agree(log[s], h[t], n)
        BY <1>6, <2>3 DEF Held
      <3>2. n <= Reach(m)
        BY <1>1, <1>4, <1>6, <2>1, <2>4
      <3>. QED  BY <2>4, <3>1, <3>2
    <2>5. CASE t < u
      <3>1. Agree(log[s], h[t], n) /\ n <= Reach(m)
        BY <1>6, <2>3, <2>5 DEF Held
      <3>2. [term |-> u, leader |-> p] \in elected /\ [term |-> u, leader |-> p].term = u
        BY <1>3 DEF IsElected
      <3>3. Agree(h[u], h[t], n)
        BY <2>3, <2>5, <3>2 DEF Held
      <3>4. Agree(h[t], h[u], n)
        BY <1>1, <1>2, <3>3, AgreeLess
      <3>. QED  BY <1>1, <1>2, <3>1, <3>4, AgreeThrough
    <2>. QED  BY <1>1, <2>2, <2>4, <2>5
  <1>7. Agree(log[s], h[u], commit_idx[s]) /\ commit_idx[s] <= Reach(m)
    <2>. DEFINE c == commit_idx[s]
    <2>1. CASE c = 0
      BY <1>1, <1>2, <2>1 DEF Agree
    <2>2. CASE 0 < c
      <3>1. PICK t \in 0 .. current_term[s] : /\ Committed(h, a, t, c) /\ Agree(log[s], h[t], c)
                                              /\ t = current_term[s] => c <= a[t][s]
        BY <2>2 DEF Commit, CommitsSound
      <3>2. t \in 0 .. u /\ t \in Nat
        BY <1>1
      <3>3. Agree(h[u], h[t], c)
        BY <1>1, <1>3, <3>1, <3>2, LaterAgrees
      <3>4. Agree(h[t], h[u], c)
        BY <1>1, <1>2, <3>2, <3>3, AgreeLess
      <3>5. Agree(log[s], h[u], c)
        BY <1>1, <1>2, <3>1, <3>2, <3>4, AgreeThrough
      <3>6. CASE t < u
        BY <1>1, <1>3, <3>1, <3>2, <3>5, <3>6, LaterAgrees
      <3>7. CASE t = u
        <4>1. c <= a[u][s]
          BY <1>1, <3>1, <3>7
        <4>. QED  BY <1>1, <1>4, <3>5, <4>1
      <3>. QED  BY <1>1, <3>2, <3>6, <3>7
    <2>. QED  BY <1>1, <2>1, <2>2
  <1>. QED  BY <1>4, <1>5, <1>6, <1>7

\* s takes over what an appendentries brings, and acknowledges nb entries of the sender's log.
LEMMA CommitOverwrite ==
    ASSUME TypeOK, TypeOK', ElectionInv', ElectionSafety', CandidacyInv,
           NEW s \in Server, NEW p \in Server, NEW m \in InFlight(net, p, s),
           m.type = "appendentries", current_term[s] <= m.term, current_term'[s] = m.term,
           state'[s] = "follower", UNCHANGED elected, NEW out, Moves(s, out),
           NEW h \in Histories, NEW a \in Acks, History(h), GoesOn(h), Commit(h, a),
           \A n \in Nat : Agree(log[s], h[m.term], n) /\ n <= Reach(m) => Agree(log'[s], log[s], n),
           \A j \in DOMAIN log'[s] : log'[s][j].term <= m.term,
           NEW nb \in Nat, a[m.term][s] <= nb, Agree(log'[s], h[m.term], nb),
           a[m.term][s] < nb =>
              \A x \in Server : \A k \in InFlight(net', x, s) \cap InFlight(net, x, s) :
                 k.type = "appendentries" /\ k.term = m.term => nb <= Reach(k),
           \A k \in out : k.msg.type = "appendentries_response" /\ k.msg.success =>
              k.msg.term = m.term /\ k.msg.current_idx <= nb,
           \/ commit_idx'[s] \in {0, commit_idx[s]}
           \/ /\ commit_idx'[s] <= nb
              /\ \E t \in 0 .. m.term : Committed(h, a, t, commit_idx'[s])
    PROVE  CommitInv'
  <1>. DEFINE T == m.term
  <1>1. /\ TermsRise(h) /\ LogsTimely /\ Acknowledged(h, a) /\ Kept(h, a)
        /\ MessagesSound(h, a) /\ MatchesAcknowledged(a) /\ CommitsSound(h, a) /\ LeadsElected'
    BY DEF Commit, GoesOn
  <1>2. /\ T \in Nat /\ Len(log[s]) \in Nat /\ Len(log'[s]) \in Nat
        /\ commit_idx[s] \in Nat /\ commit_idx'[s] \in Nat /\ Reach(m) \in Nat
    BY EntryAt, UnderWay, ReachType DEF TypeOK
  <1>3. p # s /\ IsElected(T, p)
    BY DEF History
  <1>4. [term |-> T, leader |-> s] \notin elected'
    BY <1>3 DEF ElectionSafety, IsElected
  <1>5. PICK g \in Histories :
           /\ History(g)'
           /\ \A t \in Nat : \/ g[t] = h[t]
                             \/ /\ t = current_term[s] /\ t = current_term'[s] /\ IsElected(t, s)'
                                /\ g[t] = log'[s]
    BY <1>4, HistoryNext
  <1>6. g = h
    <2>1. \A t \in Nat : g[t] = h[t]
      BY <1>4, <1>5 DEF IsElected
    <2>2. g = [t \in Nat |-> g[t]] /\ h = [t \in Nat |-> h[t]]
      BY DEF Histories
    <2>. QED  BY <2>1, <2>2, Zenon
  <1>7. History(h)'
    BY <1>5, <1>6
  <1>. DEFINE row == [a[T] EXCEPT ![s] = nb]
  <1>8. PICK b \in Acks : b = [a EXCEPT ![T] = row]
    <2>1. row \in [Server -> Nat]
      BY <1>2 DEF Acks
    <2>. QED  BY <1>2, <2>1 DEF Acks
  <1>9. b[T][s] = nb /\ \A t \in Nat : \A v \in Server : b[t][v] = a[t][v] \/ (v = s /\ t = T)
    BY <1>2, <1>8 DEF Acks
  <1>. HIDE DEF row
  <1>10. Grown(s, h, h, a, b)
    <2>1. ASSUME NEW t \in Nat, NEW v \in Server
          PROVE  b[t][v] = a[t][v] \/ (v = s /\ t = current_term'[s] /\ a[t][v] < b[t][v])
      <3>1. CASE v = s /\ t = T
        <4>1. a[T][s] \in Nat
          BY <1>2 DEF Acks
        <4>2. b[t][v] = nb /\ a[t][v] = a[T][s] /\ t = current_term'[s]
          BY <1>9, <3>1
        <4>3. a[T][s] = nb \/ a[T][s] < nb
          BY <4>1
        <4>. QED  BY <3>1, <4>2, <4>3
      <3>2. CASE ~(v = s /\ t = T)
        BY <1>9, <3>2
      <3>. QED  BY <3>1, <3>2
    <2>2. Grows(h, h)
      <3>1. \A t \in Nat : Len(h[t]) \in Nat
        BY EntryAt DEF Histories
      <3>. QED  BY <3>1 DEF Grows
    <2>. QED  BY <2>1, <2>2 DEF Grown
  <1>11. \A j \in DOMAIN log'[s] : log'[s][j].term <= current_term'[s]
    OBVIOUS
  <1>12. IsElected(current_term[s], s)' => b[current_term'[s]][s] = Len(h[current_term'[s]])
    BY <1>4 DEF IsElected
  <1>13. Agree(log'[s], h[current_term'[s]], b[current_term'[s]][s])
    BY <1>9
  <1>14. \A x \in Server : \A k \in InFlight(net', x, s) \cap InFlight(net, x, s) :
              k.type = "appendentries" /\ k.term = current_term'[s]
                 /\ a[current_term'[s]][s] < b[current_term'[s]][s]
                 => b[current_term'[s]][s] <= Reach(k)
    BY <1>9
  <1>15. \A k \in out : k.msg.type = "appendentries_response" /\ k.msg.success
                             => k.msg.current_idx <= b[k.msg.term][s]
    BY <1>9
  <1>16. /\ \A t, n \in Nat : Choosable(h, a, current_term, t, n) /\ n <= a[t][s] =>
               Agree(log[s], h[T], n) /\ n <= Reach(m)
         /\ Agree(log[s], h[T], commit_idx[s]) /\ commit_idx[s] <= Reach(m)
    BY Firm
  <1>17. CommitFits(h, b, current_term'[s], log'[s], commit_idx'[s], s)
    <2>1. CASE commit_idx'[s] \in {0, commit_idx[s]}
      <3>1. Agree(log'[s], log[s], commit_idx[s])
        BY <1>2, <1>16
      <3>. QED  BY <1>1, <1>10, <2>1, <3>1, CommitStays
    <2>2. CASE /\ commit_idx'[s] <= nb
               /\ \E t \in 0 .. T : Committed(h, a, t, commit_idx'[s])
      <3>. DEFINE c == commit_idx'[s]
      <3>1. PICK t \in 0 .. T : Committed(h, a, t, c)
        BY <2>2
      <3>2. t \in Nat /\ Len(h[t]) \in Nat /\ Len(h[T]) \in Nat
        <4>1. t \in Nat /\ T \in Nat
          BY <1>2
        <4>. HIDE DEF T
        <4>. QED  BY <4>1, EntryAt DEF Histories
      <3>3. \A v \in Server : a[t][v] \in Nat /\ b[t][v] \in Nat /\ a[t][v] <= b[t][v]
        BY <1>10, <3>2, AcksGrow
      <3>4. Committed(h, b, t, c)
        BY <1>2, <1>10, <3>1, <3>2, <3>3, CommittedGrown DEF Grown
      <3>5. Agree(h[T], h[t], c)
        BY <1>2, <1>3, <3>1, LaterAgrees
      <3>6. Agree(log'[s], h[T], c)
        BY <1>2, <2>2, <3>2, AgreeLess
      <3>7. Agree(log'[s], h[t], c)
        BY <1>2, <3>2, <3>5, <3>6, AgreeThrough
      <3>8. t = T => c <= b[t][s]
        BY <1>9, <2>2
      <3>. QED  BY <3>1, <3>4, <3>7, <3>8 DEF CommitFits
    <2>. QED  BY <2>1, <2>2
  <1>18. ASSUME NEW t \in Nat, NEW i \in Nat, Choosable(h, a, current_term, t, i), i <= a[t][s]
         PROVE  Agree(log'[s], h[t], i)
    <2>1. Agree(log[s], h[t], i) /\ Len(h[t]) \in Nat
      BY <1>1, <1>18, EntryAt DEF Kept, Held, Histories
    <2>2. Agree(log'[s], log[s], i)
      BY <1>16, <1>18
    <2>. QED  BY <1>2, <2>1, <2>2, AgreeThrough
  <1>19. state'[s] = "leader" =>
            \A q \in Peers(s) \cap Voters : match_idx'[s][q] <= b[current_term'[s]][q]
    OBVIOUS
  <1>20. [term |-> current_term'[s], leader |-> s] \in elected' \ elected =>
              \A t, i \in Nat : Choosable(h, a, current_term, t, i) /\ t < current_term'[s]
                 => Agree(log'[s], h[t], i)
    OBVIOUS
  <1>21. Commit(h, b)' /\ CandidacyInv'
    BY <1>1, <1>7, <1>10, <1>11, <1>12, <1>13, <1>14, <1>15, <1>17, <1>18, <1>19, <1>20, CommitStep
  <1>. QED  BY <1>7, <1>21 DEF CommitInv

\* The beginning of a log, as far as n <= k, is left when the log is cut down to k entries.
LEMMA CutLog ==
    ASSUME NEW l \in Seq(Entry), NEW k \in 0 .. Len(l), NEW T, \A j \in DOMAIN l : l[j].term <= T
    PROVE  /\ \A n \in Nat : n <= k => Agree(SubSeq(l, 1, k), l, n)
           /\ \A j \in DOMAIN SubSeq(l, 1, k) : SubSeq(l, 1, k)[j].term <= T
  <1>1. Len(l) \in Nat /\ k \in Nat /\ DOMAIN l = 1 .. Len(l)
    BY EntryAt
  <1>2. SubSeq(l, 1, k) \in Seq(Entry) /\ Len(SubSeq(l, 1, k)) = k
    BY PrefixType
  <1>3. DOMAIN SubSeq(l, 1, k) = 1 .. k
    BY <1>2, EntryAt
  <1>4. Agree(SubSeq(l, 1, k), l, k)
    BY <1>1, AgreePrefix
  <1>5. \A j \in 1 .. k : SubSeq(l, 1, k)[j] = l[j] /\ j \in DOMAIN l
    BY <1>1, <1>4 DEF Agree
  <1>6. \A j \in DOMAIN SubSeq(l, 1, k) : SubSeq(l, 1, k)[j].term <= T
    BY <1>3, <1>5
  <1>. QED  BY <1>6, AgreePrefix

\* Whatever raft_recv_appendentries, or a crash in the middle of it, leaves of the log l: what l
\* has in common with the leader's log is still there.
LEMMA Overwritten ==
    ASSUME NEW h \in Histories, TermsRise(h), NEW l \in Seq(Entry),
           NEW m \in Message, m.type = "appendentries", Piece(h[m.term], m),
           \A j \in DOMAIN l : 0 < l[j].term /\ l[j].term <= m.term,
           NEW r,
           \/ PrevDiffers(l, m) /\ r = SubSeq(l, 1, m.prev_log_idx - 1)
           \/ /\ ~PrevMissing(l, m) /\ ~PrevDiffers(l, m)
              /\ \/ r = Merged(l, m)
                 \/ \E k \in KeptLen(l, m) .. Len(l) : r = SubSeq(l, 1, k)
                 \/ \E k \in KeptLen(l, m) .. Len(Merged(l, m)) : r = SubSeq(Merged(l, m), 1, k)
    PROVE  /\ \A n \in Nat : Agree(l, h[m.term], n) /\ n <= Reach(m) => Agree(r, l, n)
           /\ \A j \in DOMAIN r : r[j].term <= m.term
  <1>. DEFINE p == m.prev_log_idx
              x == h[m.term]
              kept == KeptLen(l, m)
              after == Merged(l, m)
  <1>1. /\ p \in Nat /\ m.entries \in Seq(Entry) /\ Len(m.entries) \in Nat /\ m.term \in Nat
        /\ DOMAIN m.entries = 1 .. Len(m.entries) /\ Len(l) \in Nat /\ DOMAIN l = 1 .. Len(l)
    BY ReachType, EntryAt
  <1>2. x \in Seq(Entry) /\ Len(x) \in Nat /\ DOMAIN x = 1 .. Len(x)
    BY <1>1, EntryAt DEF Histories
  <1>3. ASSUME NEW n \in Nat, Agree(l, x, n), n <= Reach(m)
        PROVE  /\ PrevDiffers(l, m) => n < p
               /\ ~PrevMissing(l, m) /\ ~PrevDiffers(l, m) => n <= kept
    BY <1>2, <1>3, Retained
  <1>4. ASSUME NEW k \in 0 .. Len(l), r = SubSeq(l, 1, k),
               \A n \in Nat : Agree(l, x, n) /\ n <= Reach(m) => n <= k
        PROVE  /\ \A n \in Nat : Agree(l, x, n) /\ n <= Reach(m) => Agree(r, l, n)
               /\ \A j \in DOMAIN r : r[j].term <= m.term
    BY <1>4, CutLog
  <1>5. CASE PrevDiffers(l, m) /\ r = SubSeq(l, 1, p - 1)
    <2>1. p - 1 \in 0 .. Len(l)
      BY <1>1, <1>5 DEF PrevDiffers
    <2>2. \A n \in Nat : Agree(l, x, n) /\ n <= Reach(m) => n <= p - 1
      BY <1>1, <1>3, <1>5
    <2>. QED  BY <1>4, <1>5, <2>1, <2>2
  <1>6. CASE ~PrevMissing(l, m) /\ ~PrevDiffers(l, m)
    <2>1. /\ after \in Seq(Entry) /\ kept <= Len(after) /\ kept \in p .. Len(l)
          /\ \A j \in 1 .. kept : after[j] = l[j]
          /\ Differs(l, m) = {} => Len(after) = kept
          /\ Differs(l, m) # {} =>
                Len(after) = p + Len(m.entries)
                /\ \A j \in kept + 1 .. p + Len(m.entries) : after[j] = m.entries[j - p]
      BY <1>6, MergedEntries, KeptLenBounds
    <2>2. ~Beyond(m)
      <3>. SUFFICES ASSUME Beyond(m) PROVE FALSE
        OBVIOUS
      <3>1. p \in DOMAIN l
        BY <1>1, <1>6 DEF PrevMissing, Beyond
      <3>. QED  BY <1>6, <3>1 DEF PrevDiffers, Beyond
    <2>3. /\ p + Len(m.entries) <= Len(x)
          /\ \A k \in DOMAIN m.entries : m.entries[k] = x[p + k]
      BY <2>2 DEF Piece, Reach
    <2>4. Len(after) \in Nat /\ DOMAIN after = 1 .. Len(after)
      BY <2>1, EntryAt
    <2>5. \A j \in DOMAIN x : x[j].term <= m.term
      BY <1>1 DEF TermsRise
    <2>. HIDE DEF after, kept, x, p
    <2>6. kept \in Nat /\ p <= kept /\ kept <= Len(l) /\ kept <= Len(after)
      BY <1>1, <2>1
    <2>7. \A j \in 1 .. kept : after[j] = l[j]
      BY <2>1
    <2>8. ASSUME NEW j \in DOMAIN after PROVE after[j].term <= m.term
      <3>1. CASE j <= kept
        <4>1. j \in DOMAIN l /\ after[j] = l[j]
          BY <1>1, <2>4, <2>6, <2>7, <3>1
        <4>. QED  BY <4>1
      <3>2. CASE ~(j <= kept)
        <4>1. Len(after) = p + Len(m.entries)
              /\ \A k \in kept + 1 .. p + Len(m.entries) : after[k] = m.entries[k - p]
          <5>1. Len(after) # kept
            BY <2>4, <2>6, <3>2
          <5>. QED  BY <2>1, <5>1
        <4>2. j - p \in DOMAIN m.entries /\ after[j] = m.entries[j - p] /\ j \in DOMAIN x
          BY <1>1, <1>2, <2>3, <2>4, <2>6, <3>2, <4>1
        <4>3. after[j] = x[j]
          <5>1. m.entries[j - p] = x[p + (j - p)]
            BY <2>3, <4>2
          <5>2. p + (j - p) = j
            BY <1>1, <2>4
          <5>. QED  BY <4>2, <5>1, <5>2
        <4>. QED  BY <2>5, <4>2, <4>3
      <3>. QED  BY <3>1, <3>2
    <2>9. ASSUME NEW n \in Nat, Agree(l, x, n), n <= Reach(m) PROVE n <= kept /\ Agree(after, l, n)
      <3>1. n <= kept
        BY <1>3, <1>6, <2>9
      <3>. QED  BY <1>1, <2>4, <2>6, <2>7, <3>1 DEF Agree
    <2>10. CASE r = after
      BY <2>8, <2>9, <2>10 DEF x
    <2>11. CASE \E k \in kept .. Len(l) : r = SubSeq(l, 1, k)
      <3>1. PICK k \in kept .. Len(l) : r = SubSeq(l, 1, k)
        BY <2>11
      <3>2. k \in 0 .. Len(l) /\ \A n \in Nat : n <= kept => n <= k
        BY <1>1, <2>6
      <3>. QED  BY <1>4, <2>9, <3>1, <3>2 DEF x
    <2>12. CASE \E k \in kept .. Len(after) : r = SubSeq(after, 1, k)
      <3>1. PICK k \in kept .. Len(after) : r = SubSeq(after, 1, k)
        BY <2>12
      <3>2. k \in 0 .. Len(after) /\ \A n \in Nat : n <= kept => n <= k
        BY <2>4, <2>6
      <3>3. /\ \A n \in Nat : n <= k => Agree(r, after, n)
            /\ \A j \in DOMAIN r : r[j].term <= m.term
        BY <2>1, <2>8, <3>1, <3>2, CutLog
      <3>4. Len(r) \in Nat
        BY <2>1, <3>1, <3>2, PrefixType
      <3>5. ASSUME NEW n \in Nat, Agree(l, x, n), n <= Reach(m) PROVE Agree(r, l, n)
        BY <1>1, <2>4, <2>9, <3>2, <3>3, <3>4, <3>5, AgreeThrough
      <3>. QED  BY <3>3, <3>5 DEF x
    <2>. QED  BY <1>6, <2>10, <2>11, <2>12 DEF after, kept, x, p
  <1>. QED  BY <1>5, <1>6

\* s is about to follow the sender of an appendentries.
LEMMA Following ==
    ASSUME TypeOK, ElectionSafety, LeadsElected, NEW h \in Histories, NEW a \in Acks, History(h),
           Commit(h, a), NEW s \in Server, NEW p \in Server, NEW i \in DOMAIN net[p][s],
           net[p][s][i].type = "appendentries", current_term[s] <= net[p][s][i].term
    PROVE  LET m == net[p][s][i] IN
           /\ m \in Message /\ m \in InFlight(net, p, s) /\ p # s /\ IsElected(m.term, p)
           /\ m.term \in Nat /\ SeenTerm(s, m.term) = m.term
           /\ Piece(h[m.term], m) /\ LogFits(h, log[s])
           /\ \A j \in DOMAIN log[s] : 0 < log[s][j].term /\ log[s][j].term <= m.term
           /\ Follows(s, m.term) \/ state[s] = "follower"
  <1>. DEFINE m == net[p][s][i]
  <1>1. /\ m \in Message /\ m \in InFlight(net, p, s) /\ m.term \in Nat /\ current_term[s] \in Nat
        /\ log[s] \in Seq(Entry) /\ state[s] \in {"follower", "candidate", "leader"}
        /\ m.type = "appendentries" /\ current_term[s] <= m.term
    BY Delivered, MessageFields DEF TypeOK
  <1>. HIDE DEF m
  <1>2. p # s /\ IsElected(m.term, p) /\ LogFits(h, log[s])
    BY <1>1 DEF History
  <1>3. Piece(h[m.term], m)
    BY <1>1 DEF Commit, MessagesSound, Sound
  <1>4. ASSUME NEW j \in DOMAIN log[s] PROVE 0 < log[s][j].term /\ log[s][j].term <= m.term
    <2>1. TermsRise(h) /\ LogsTimely
      BY DEF Commit
    <2>2. 0 < log[s][j].term
      BY <1>1, <1>2, <2>1, LogTermsRise
    <2>3. log[s][j].term \in Nat /\ log[s][j].term <= current_term[s]
      BY <1>1, <2>1, EntryAt DEF LogsTimely
    <2>. QED  BY <1>1, <2>2, <2>3
  <1>5. SeenTerm(s, m.term) = m.term
    BY <1>1 DEF SeenTerm, MaxOf
  <1>6. Follows(s, m.term) \/ state[s] = "follower"
    <2>1. state[s] = "leader" => current_term[s] # m.term
      BY <1>2 DEF LeadsElected, ElectionSafety, IsElected
    <2>. QED  BY <1>1, <2>1 DEF Follows
  <1>. QED  BY <1>1, <1>2, <1>3, <1>4, <1>5, <1>6 DEF m

\* A server that follows the sender and cuts its log acknowledges nothing new.
LEMMA CommitCut ==
    ASSUME TypeOK, TypeOK', ElectionInv, ElectionInv', ElectionSafety, ElectionSafety', LeadsElected,
           CandidacyInv, NEW h \in Histories, NEW a \in Acks, History(h), Commit(h, a),
           NEW s \in Server, NEW p \in Server, NEW i \in DOMAIN net[p][s],
           TruncateConflict(s, p, i) \/ CrashInAppendEntries(s, p, i)
    PROVE  CommitInv'
  <1>. DEFINE m == net[p][s][i]
              l == log[s]
  <1>1. GoesOn(h)
    BY LogReceive DEF Receive
  <1>2. m.type = "appendentries" /\ m.term >= current_term[s]
    BY DEF TruncateConflict, CrashInAppendEntries, Accepts
  <1>3. /\ m \in Message /\ m \in InFlight(net, p, s) /\ m.term \in Nat /\ current_term[s] \in Nat
        /\ Len(l) \in Nat /\ l \in Seq(Entry) /\ current_term[s] <= m.term
    BY <1>2, Delivered, MessageFields, EntryAt DEF TypeOK
  <1>4. /\ p # s /\ IsElected(m.term, p) /\ SeenTerm(s, m.term) = m.term
        /\ Piece(h[m.term], m)
        /\ \A j \in DOMAIN l : 0 < l[j].term /\ l[j].term <= m.term
        /\ Follows(s, m.term) \/ state[s] = "follower"
    BY <1>2, <1>3, Following
  <1>5. TermsRise(h)
    BY DEF Commit
  \* What both have in common.
  <1>6. ASSUME NEW out, Orderly(net, net', s, out),
               \A k \in out : /\ k.msg.type = "appendentries_response" /\ k.msg.success = FALSE,
               current_term' = [current_term EXCEPT ![s] = m.term],
               state'[s] = "follower", \A x \in Server \ {s} : state'[x] = state[x],
               NEW r, log' = [log EXCEPT ![s] = r],
               \/ PrevDiffers(l, m) /\ r = SubSeq(l, 1, m.prev_log_idx - 1)
               \/ /\ ~PrevMissing(l, m) /\ ~PrevDiffers(l, m)
                  /\ \/ r = Merged(l, m)
                     \/ \E k \in KeptLen(l, m) .. Len(l) : r = SubSeq(l, 1, k)
                     \/ \E k \in KeptLen(l, m) .. Len(Merged(l, m)) : r = SubSeq(Merged(l, m), 1, k),
               commit_idx'[s] \in {0, commit_idx[s]},
               \A x \in Server \ {s} : commit_idx'[x] = commit_idx[x] /\ match_idx'[x] = match_idx[x],
               UNCHANGED <<ballots, elected>>
        PROVE  CommitInv'
    <2>. HIDE DEF m
    <2>1. /\ current_term'[s] = m.term /\ \A x \in Server \ {s} : current_term'[x] = current_term[x]
      BY <1>6 DEF TypeOK
    <2>2. log'[s] = r /\ \A x \in Server \ {s} : log'[x] = log[x]
      BY <1>6 DEF TypeOK
    <2>3. \A k \in out : Proper(s, k.msg)
      BY <1>6 DEF Proper
    <2>4. Moves(s, out)
      BY <1>3, <1>6, <2>1, <2>2, <2>3 DEF Moves
    <2>5. /\ \A n \in Nat : Agree(l, h[m.term], n) /\ n <= Reach(m) => Agree(r, l, n)
          /\ \A j \in DOMAIN r : r[j].term <= m.term
      BY <1>2, <1>3, <1>4, <1>5, <1>6, Overwritten
    <2>6. PICK nb \in Nat : nb = a[m.term][s] /\ Agree(l, h[m.term], nb) /\ nb <= Reach(m)
      <3>1. Agree(l, h[m.term], a[m.term][s]) /\ a[m.term][s] <= Reach(m)
        BY <1>2, <1>3, Firm
      <3>2. a[m.term][s] \in Nat
        BY <1>3 DEF Acks
      <3>. QED  BY <3>1, <3>2
    <2>7. Agree(log'[s], h[m.term], nb)
      <3>1. Len(log'[s]) \in Nat /\ Len(h[m.term]) \in Nat
        BY <1>3, EntryAt DEF TypeOK, Histories
      <3>2. Agree(log'[s], l, nb)
        BY <2>2, <2>5, <2>6
      <3>3. Agree(l, h[m.term], nb) /\ Len(l) \in Nat /\ nb <= nb
        BY <1>3, <2>6
      <3>. HIDE DEF l
      <3>. QED  BY <3>1, <3>2, <3>3, AgreeThrough
    <2>8. /\ \A n \in Nat : Agree(log[s], h[m.term], n) /\ n <= Reach(m) => Agree(log'[s], log[s], n)
          /\ \A j \in DOMAIN log'[s] : log'[s][j].term <= m.term
      BY <2>2, <2>5
    <2>9. /\ a[m.term][s] <= nb
          /\ a[m.term][s] < nb =>
                \A x \in Server : \A k \in InFlight(net', x, s) \cap InFlight(net, x, s) :
                   k.type = "appendentries" /\ k.term = m.term => nb <= Reach(k)
      BY <2>6
    <2>10. \A k \in out : k.msg.type = "appendentries_response" /\ k.msg.success =>
              k.msg.term = m.term /\ k.msg.current_idx <= nb
      BY <1>6
    <2>11. /\ m \in InFlight(net, p, s) /\ m.type = "appendentries" /\ current_term[s] <= m.term
           /\ current_term'[s] = m.term /\ state'[s] = "follower" /\ UNCHANGED elected
           /\ commit_idx'[s] \in {0, commit_idx[s]}
      BY <1>2, <1>3, <1>6, <2>1
    <2>. QED  BY <1>1, <2>4, <2>7, <2>8, <2>9, <2>10, <2>11, CommitOverwrite
  <1>7. CASE TruncateConflict(s, p, i)
    <2>. DEFINE reply == Response(m.term, FALSE, m.prev_log_idx - 1)
                r == SubSeq(l, 1, m.prev_log_idx - 1)
    <2>1. /\ PrevDiffers(l, m) /\ log' = [log EXCEPT ![s] = r]
          /\ current_term' = [current_term EXCEPT ![s] = m.term]
          /\ state' = [state EXCEPT ![s] = IF Follows(s, m.term) THEN "follower" ELSE @]
          /\ net' = SendTo(Take(net, p, s, i), s, p, reply)
          /\ UNCHANGED <<commit_idx, match_idx, ballots, elected>>
      BY <1>4, <1>7 DEF TruncateConflict, FollowSender
    <2>2. reply \in Message /\ reply.type = "appendentries_response" /\ reply.success = FALSE
      <3>1. m.prev_log_idx - 1 \in Nat
        BY <1>3, <2>1, EntryAt DEF PrevDiffers
      <3>. QED  BY <1>3, <3>1, ResponseType DEF Response
    <2>. HIDE DEF reply, r
    <2>3. PICK out : Orderly(net, net', s, out) /\ \A k \in out : k.msg = reply
      BY <1>4, <2>1, <2>2, AnswerOrderly
    <2>4. state'[s] = "follower" /\ \A x \in Server \ {s} : state'[x] = state[x]
      BY <1>4, <2>1 DEF TypeOK
    <2>5. \A k \in out : k.msg.type = "appendentries_response" /\ k.msg.success = FALSE
      BY <2>2, <2>3
    <2>6. /\ commit_idx'[s] \in {0, commit_idx[s]}
          /\ \A x \in Server \ {s} : commit_idx'[x] = commit_idx[x] /\ match_idx'[x] = match_idx[x]
      BY <2>1
    <2>7. PrevDiffers(l, m) /\ r = SubSeq(l, 1, m.prev_log_idx - 1)
      BY <2>1 DEF r
    <2>. QED  BY <1>6, <2>1, <2>3, <2>4, <2>5, <2>6, <2>7
  <1>8. CASE CrashInAppendEntries(s, p, i)
    <2>. DEFINE none == {}
    <2>1. /\ Accepts(s, m) /\ Reload(s) /\ net' = Take(net, p, s, i)
          /\ current_term' = [current_term EXCEPT ![s] = m.term]
          /\ \/ \E k \in KeptLen(l, m) .. Len(l) : log' = [log EXCEPT ![s] = SubSeq(l, 1, k)]
             \/ \E k \in KeptLen(l, m) .. Len(Merged(l, m)) :
                   log' = [log EXCEPT ![s] = SubSeq(Merged(l, m), 1, k)]
      BY <1>4, <1>8 DEF CrashInAppendEntries
    <2>2. ~PrevMissing(l, m) /\ ~PrevDiffers(l, m)
      BY <2>1 DEF Accepts
    <2>3. Orderly(net, net', s, none)
      BY <2>1, TakenOrderly
    <2>4. \A k \in none : /\ k.msg.type = "appendentries_response" /\ k.msg.success = FALSE
      OBVIOUS
    <2>. HIDE DEF none
    <2>5. /\ state'[s] = "follower" /\ \A x \in Server \ {s} : state'[x] = state[x]
          /\ commit_idx'[s] \in {0, commit_idx[s]}
          /\ \A x \in Server \ {s} : commit_idx'[x] = commit_idx[x] /\ match_idx'[x] = match_idx[x]
          /\ UNCHANGED <<ballots, elected>>
      BY <2>1 DEF Reload, TypeOK
    <2>6. PICK r : /\ log' = [log EXCEPT ![s] = r]
                   /\ \/ \E k \in KeptLen(l, m) .. Len(l) : r = SubSeq(l, 1, k)
                      \/ \E k \in KeptLen(l, m) .. Len(Merged(l, m)) : r = SubSeq(Merged(l, m), 1, k)
      BY <2>1
    <2>. QED  BY <1>6, <2>1, <2>2, <2>3, <2>4, <2>5, <2>6
  <1>. QED  BY <1>7, <1>8

\* On a connection that delivers in order, what is still under way from the sender of the
\* message that s takes reaches as far as that message.
LEMMA LaterReach ==
    ASSUME TypeOK, ElectionSafety, Ordered, NEW h \in Histories, NEW a \in Acks, History(h),
           Commit(h, a), NEW s \in Server, NEW p \in Server, p # s,
           NEW i \in DOMAIN net[p][s], i \in Deliverable(p, s),
           net[p][s][i].type = "appendentries", ~Beyond(net[p][s][i]),
           NEW r \in Message, net' = SendTo(Take(net, p, s, i), s, p, r),
           NEW x \in Server, NEW k \in InFlight(net', x, s) \cap InFlight(net, x, s),
           k.type = "appendentries", k.term = net[p][s][i].term
    PROVE  Reach(net[p][s][i]) <= Reach(k)
  <1>1. i = 1
    BY DEF Deliverable
  <1>2. net \in Network /\ Take(net, p, s, i) \in Network
    BY Delivered DEF TypeOK, Network
  <1>3. net[p][s][i] \in InFlight(net, p, s)
    BY Delivered
  <1>4. x = p
    BY <1>3 DEF History, IsElected, ElectionSafety
  <1>5. k \in InFlight(Take(net, p, s, i), p, s)
    <2>1. \A y, z \in Server : InFlight(net', y, z) \subseteq
             InFlight(Take(net, p, s, i), y, z) \cup (IF y = s /\ z = p THEN {r} ELSE {})
      BY <1>2, SendOne
    <2>. QED  BY <1>4, <2>1
  <1>6. PICK j \in DOMAIN net[p][s] : 1 < j /\ k = net[p][s][j]
    <2>1. \A d \in DOMAIN Take(net, p, s, i)[p][s] :
             \E j \in DOMAIN net[p][s] : 1 < j /\ Take(net, p, s, i)[p][s][d] = net[p][s][j]
      BY <1>1, <1>2, TakeOrderly
    <2>. QED  BY <1>5, <2>1 DEF InFlight
  <1>7. Ahead(net[p][s][i], net[p][s][j])
    BY <1>1, <1>6 DEF Commit, MessagesSound
  <1>. QED  BY <1>6, <1>7 DEF Ahead

\* raft_recv_appendentries: the follower's log is the leader's as far as the message reaches,
\* which is what the response acknowledges.
LEMMA CommitAccept ==
    ASSUME TypeOK, TypeOK', ElectionInv, ElectionInv', ElectionSafety, ElectionSafety', LeadsElected,
           CandidacyInv, Ordered, NEW h \in Histories, NEW a \in Acks, History(h), Commit(h, a),
           NEW s \in Server, NEW p \in Server, NEW i \in DOMAIN net[p][s],
           AcceptAppendEntries(s, p, i)
    PROVE  CommitInv'
  <1>. DEFINE m == net[p][s][i]
              l == log[s]
              reply == Response(m.term, TRUE, m.prev_log_idx + Len(m.entries))
              r == Merged(l, m)
  <1>1. GoesOn(h)
    BY LogReceive DEF Receive
  <1>2. /\ m.type = "appendentries" /\ m.term >= current_term[s] /\ i \in Deliverable(p, s)
        /\ ~PrevMissing(l, m) /\ ~PrevDiffers(l, m)
    BY DEF AcceptAppendEntries, Accepts
  <1>3. /\ m \in Message /\ m \in InFlight(net, p, s) /\ m.term \in Nat /\ current_term[s] \in Nat
        /\ Len(l) \in Nat /\ l \in Seq(Entry) /\ current_term[s] <= m.term /\ commit_idx[s] \in Nat
        /\ commit_idx \in [Server -> Nat]
    BY <1>2, Delivered, MessageFields, EntryAt DEF TypeOK
  <1>4. /\ p # s /\ IsElected(m.term, p) /\ SeenTerm(s, m.term) = m.term
        /\ Piece(h[m.term], m) /\ LogFits(h, l)
        /\ \A j \in DOMAIN l : 0 < l[j].term /\ l[j].term <= m.term
        /\ Follows(s, m.term) \/ state[s] = "follower"
    BY <1>2, <1>3, Following
  <1>5. /\ log' = [log EXCEPT ![s] = r]
        /\ current_term' = [current_term EXCEPT ![s] = m.term]
        /\ state' = [state EXCEPT ![s] = IF Follows(s, m.term) THEN "follower" ELSE @]
        /\ commit_idx' = [commit_idx EXCEPT ![s] =
              IF @ < m.leader_commit THEN MinOf(MaxOf(Len(r), 1), m.leader_commit) ELSE @]
        /\ net' = SendTo(Take(net, p, s, i), s, p, reply)
        /\ UNCHANGED <<match_idx, ballots, elected>>
    BY <1>4 DEF AcceptAppendEntries, FollowSender
  <1>6. /\ m.prev_log_idx \in Nat /\ Len(m.entries) \in Nat /\ m.leader_commit \in Nat
        /\ Reach(m) \in Nat
    BY <1>2, <1>3, ReachType
  <1>7. TermsRise(h) /\ \A t \in Nat : LogFits(h, h[t])
    BY DEF Commit, History
  <1>8. /\ ~Beyond(m) /\ Reach(m) = m.prev_log_idx + Len(m.entries)
        /\ Agree(r, h[m.term], Reach(m))
    BY <1>2, <1>3, <1>4, <1>7, MergedAgrees
  <1>9. reply \in Message /\ reply.type = "appendentries_response" /\ reply.term = m.term
        /\ reply.current_idx = Reach(m)
    BY <1>3, <1>6, <1>8, ResponseType DEF Response
  <1>10. ASSUME NEW x \in Server, NEW k \in InFlight(net', x, s) \cap InFlight(net, x, s),
                k.type = "appendentries", k.term = m.term
         PROVE  Reach(m) <= Reach(k)
    <2>. HIDE DEF reply
    <2>. QED  BY <1>2, <1>4, <1>5, <1>8, <1>9, <1>10, LaterReach
  <1>11. /\ a[m.term][s] <= Reach(m) /\ m.leader_commit <= Reach(m)
         /\ 0 < m.leader_commit => \E t \in 0 .. m.term : Committed(h, a, t, m.leader_commit)
    BY <1>2, <1>3 DEF Commit, MessagesSound, Sound
  <1>12. PICK out : Orderly(net, net', s, out) /\ \A k \in out : k.msg = reply
    <2>. HIDE DEF reply
    <2>. QED  BY <1>4, <1>5, <1>9, AnswerOrderly
  <1>. HIDE DEF m, reply, r
  <1>13. current_term'[s] = m.term /\ \A x \in Server \ {s} : current_term'[x] = current_term[x]
    BY <1>5 DEF TypeOK
  <1>14. log'[s] = r /\ \A x \in Server \ {s} : log'[x] = log[x]
    BY <1>5 DEF TypeOK
  <1>15. state'[s] = "follower" /\ \A x \in Server \ {s} : state'[x] = state[x]
    BY <1>4, <1>5 DEF TypeOK
  <1>16. \A x \in Server \ {s} : commit_idx'[x] = commit_idx[x]
    BY <1>3, <1>5
  <1>17. \A k \in out : Proper(s, k.msg)
    BY <1>9, <1>12 DEF Proper
  <1>18. Moves(s, out)
    BY <1>3, <1>5, <1>12, <1>13, <1>14, <1>15, <1>16, <1>17 DEF Moves
  <1>19. /\ \A n \in Nat : Agree(l, h[m.term], n) /\ n <= Reach(m) => Agree(r, l, n)
         /\ \A j \in DOMAIN r : r[j].term <= m.term
    BY <1>2, <1>3, <1>4, <1>7, Overwritten DEF r
  <1>20. /\ \A n \in Nat : Agree(log[s], h[m.term], n) /\ n <= Reach(m) => Agree(log'[s], log[s], n)
         /\ \A j \in DOMAIN log'[s] : log'[s][j].term <= m.term
         /\ Agree(log'[s], h[m.term], Reach(m))
    BY <1>8, <1>14, <1>19
  <1>21. \/ commit_idx'[s] \in {0, commit_idx[s]}
         \/ /\ commit_idx'[s] <= Reach(m)
            /\ \E t \in 0 .. m.term : Committed(h, a, t, commit_idx'[s])
    <2>1. commit_idx'[s] = IF commit_idx[s] < m.leader_commit
                           THEN MinOf(MaxOf(Len(r), 1), m.leader_commit) ELSE commit_idx[s]
      BY <1>3, <1>5
    <2>2. CASE ~(commit_idx[s] < m.leader_commit)
      BY <2>1, <2>2
    <2>3. CASE commit_idx[s] < m.leader_commit
      <3>1. Len(r) \in Nat /\ Reach(m) <= Len(r)
        <4>1. log'[s] \in Seq(Entry)
          BY DEF TypeOK
        <4>. QED  BY <1>8, <1>14, <4>1, EntryAt DEF Agree
      <3>2. commit_idx'[s] = m.leader_commit
        BY <1>6, <1>11, <2>1, <2>3, <3>1 DEF MinOf, MaxOf
      <3>. QED  BY <1>3, <1>6, <1>11, <2>3, <3>2
    <2>. QED  BY <2>2, <2>3
  <1>22. \A k \in out : k.msg.type = "appendentries_response" /\ k.msg.success =>
            k.msg.term = m.term /\ k.msg.current_idx <= Reach(m)
    BY <1>6, <1>9, <1>12
  <1>23. UNCHANGED elected
    BY <1>5
  <1>24. PICK nb \in Nat : nb = Reach(m)
    BY <1>6
  <1>25. /\ a[m.term][s] <= nb /\ Agree(log'[s], h[m.term], nb)
         /\ a[m.term][s] < nb =>
               \A x \in Server : \A k \in InFlight(net', x, s) \cap InFlight(net, x, s) :
                  k.type = "appendentries" /\ k.term = m.term => nb <= Reach(k)
         /\ \A k \in out : k.msg.type = "appendentries_response" /\ k.msg.success =>
               k.msg.term = m.term /\ k.msg.current_idx <= nb
    BY <1>10, <1>11, <1>20, <1>22, <1>24
  <1>26. \/ commit_idx'[s] \in {0, commit_idx[s]}
         \/ /\ commit_idx'[s] <= nb
            /\ \E t \in 0 .. m.term : Committed(h, a, t, commit_idx'[s])
    BY <1>21, <1>24
  <1>27. /\ \A n \in Nat : Agree(log[s], h[m.term], n) /\ n <= Reach(m) => Agree(log'[s], log[s], n)
         /\ \A j \in DOMAIN log'[s] : log'[s][j].term <= m.term
    BY <1>20
  <1>28. /\ m \in InFlight(net, p, s) /\ m.type = "appendentries" /\ current_term[s] <= m.term
         /\ current_term'[s] = m.term /\ state'[s] = "follower"
    BY <1>2, <1>3, <1>13, <1>15
  <1>. QED  BY <1>1, <1>18, <1>23, <1>25, <1>26, <1>27, <1>28, CommitOverwrite

-----------------------------------------------------------------------------
(* The theorems. *)

LEMMA CommitReceive ==
    ASSUME TypeOK, TypeOK', ElectionInv, ElectionInv', ElectionSafety, ElectionSafety', LeadsElected,
           CandidacyInv, Ordered, NEW h \in Histories, NEW a \in Acks, History(h), Commit(h, a),
           NEW s \in Server, NEW p \in Server, NEW i \in DOMAIN net[p][s], Receive(s, p, i)
    PROVE  CommitInv'
  <1>1. CASE \/ IgnoreRequestVoteResponse(s, p, i) \/ LoseElection(s, p, i)
             \/ IgnoreAppendEntriesResponse(s, p, i) \/ StepDown(s, p, i)
             \/ CrashInRequestVote(s, p, i) \/ Lose(p, s, i)
    BY <1>1, CommitIgnored
  <1>2. CASE RecvRequestVote(s, p, i)
    BY <1>2, CommitRequestVote
  <1>3. CASE RecvVote(s, p, i)
    <2>1. CASE IsMajority(NVotesForMe(s, votes_for_me[s] \cup {p}))
      BY <1>3, <2>1, CommitWon
    <2>2. CASE ~IsMajority(NVotesForMe(s, votes_for_me[s] \cup {p}))
      BY <1>3, <2>2, CommitRefused
    <2>. QED  BY <2>1, <2>2
  <1>4. CASE RefuseAppendEntries(s, p, i)
    BY <1>4, CommitRefused
  <1>5. CASE TruncateConflict(s, p, i) \/ CrashInAppendEntries(s, p, i)
    BY <1>5, CommitCut
  <1>6. CASE AcceptAppendEntries(s, p, i)
    BY <1>6, CommitAccept
  <1>7. CASE RetryAppendEntries(s, p, i) \/ RecvAppended(s, p, i)
    BY <1>7, CommitAnswered
  <1>8. ~Duplicate(p, s, i)
    BY DEF Duplicate
  <1>. QED  BY <1>1, <1>2, <1>3, <1>4, <1>5, <1>6, <1>7, <1>8 DEF Receive

LEMMA CommitInit == Init => CommitInv
  <1>. SUFFICES ASSUME Init PROVE CommitInv
    OBVIOUS
  <1>1. /\ \A p, q \in Server : InFlight(net, p, q) = {} /\ DOMAIN net[p][q] = {}
        /\ \A s \in Server : /\ log[s] = << >> /\ state[s] = "follower" /\ current_term[s] = 0
                             /\ commit_idx[s] = 0
        /\ elected = {} /\ ballots = {}
    BY EmptySeq DEF Init, InFlight
  <1>2. PICK h \in Histories : \A t \in Nat : h[t] = << >>
    <2>1. [t \in Nat |-> << >>] \in Histories
      BY EmptySeq DEF Histories
    <2>. QED  BY <2>1
  <1>3. PICK a \in Acks : \A t \in Nat : \A v \in Server : a[t][v] = 0
    <2>1. [t \in Nat |-> [v \in Server |-> 0]] \in Acks
      BY DEF Acks
    <2>. QED  BY <2>1
  <1>4. Len(<< >>) = 0 /\ DOMAIN << >> = {}
    BY EmptySeq
  <1>5. LogFits(h, << >>)
    BY <1>4 DEF LogFits
  <1>6. History(h)
    BY <1>1, <1>2, <1>5 DEF History, IsElected
  <1>7. CandidacyInv
    BY <1>1 DEF CandidacyInv
  <1>8. TermsRise(h) /\ LogsTimely
    BY <1>1, <1>2, <1>4 DEF TermsRise, LogsTimely
  <1>9. Acknowledged(h, a)
    BY <1>1, <1>2, <1>3, <1>4 DEF Acknowledged, Agree, IsElected
  <1>10. Kept(h, a)
    <2>1. \A t, i \in Nat : ~Own(h, t, i)
      BY <1>2, <1>4 DEF Own
    <2>. QED  BY <2>1 DEF Kept, Choosable
  <1>11. MessagesSound(h, a) /\ MatchesAcknowledged(a) /\ CommitsSound(h, a)
    BY <1>1 DEF MessagesSound, MatchesAcknowledged, CommitsSound
  <1>. QED  BY <1>6, <1>7, <1>8, <1>9, <1>10, <1>11 DEF CommitInv, Commit

\* An entry that a majority has acknowledged, or may still come to acknowledge, stays with
\* those who acknowledged it and is in the log of every later leader: the invariant behind the
\* safety of commits, across crashes and lost messages, if the connections deliver in order.
THEOREM CommitInvariant == ASSUME Ordered PROVE Spec => []CommitInv
  <1>1. /\ TypeOK /\ TypeOK' /\ ElectionInv /\ ElectionInv' /\ ElectionSafety /\ ElectionSafety'
        /\ LogInv /\ CommitInv /\ [Next]_vars
        => CommitInv'
    <2>. SUFFICES ASSUME TypeOK, TypeOK', ElectionInv, ElectionInv', ElectionSafety, ElectionSafety',
                         LogInv, CommitInv, [Next]_vars
                  PROVE  CommitInv'
      OBVIOUS
    <2>1. PICK h \in Histories, a \in Acks : History(h) /\ Commit(h, a)
      BY DEF CommitInv
    <2>2. CandidacyInv /\ LeadsElected
      BY DEF CommitInv, LogInv
    <2>3. CASE UNCHANGED vars
      <3>1. History(h)' /\ CandidacyInv'
        BY <2>1, <2>2, <2>3 DEF vars, History, IsElected, CandidacyInv
      <3>2. TermsRise(h) /\ LogsTimely' /\ Acknowledged(h, a)' /\ Kept(h, a)'
        BY <2>1, <2>3 DEF vars, Commit, LogsTimely, Acknowledged, Kept, Held, IsElected, InFlight
      <3>3. MessagesSound(h, a)' /\ MatchesAcknowledged(a)' /\ CommitsSound(h, a)'
        BY <2>1, <2>3 DEF vars, Commit, MessagesSound, InFlight, MatchesAcknowledged, CommitsSound
      <3>4. Commit(h, a)'
        BY <3>2, <3>3 DEF Commit, TermsRise
      <3>. QED  BY <3>1, <3>4 DEF CommitInv
    <2>4. ASSUME NEW s \in Server,
                 \/ PeriodicIdle(s) \/ PeriodicHeartbeat(s) \/ PeriodicElection(s)
                 \/ Restart(s) \/ CrashInElection(s)
          PROVE  CommitInv'
      BY <2>1, <2>2, <2>4, CommitPeriodic
    <2>5. ASSUME NEW s \in Server, NEW id \in Ids, RecvEntry(s, id) PROVE CommitInv'
      BY <2>1, <2>2, <2>5, CommitEntry
    <2>6. ASSUME NEW s \in Server, NEW p \in Server, NEW i \in DOMAIN net[p][s], Receive(s, p, i)
          PROVE  CommitInv'
      BY <2>1, <2>2, <2>6, CommitReceive
    <2>. QED  BY <2>3, <2>4, <2>5, <2>6 DEF Next
  <1>. QED  BY <1>1, CommitInit, TypeCorrect, ElectionInvariant, ElectionSafe, LogInvariant, PTL
            DEF Spec

-----------------------------------------------------------------------------

\* What is committed in one term is in the log of the leader of any later one.
LEMMA CommittedAgree ==
    ASSUME TypeOK, NEW h \in Histories, NEW a \in Acks, History(h), Commit(h, a),
           NEW t \in Nat, NEW u \in Nat, t <= u, NEW c \in Nat, NEW d \in Nat,
           Committed(h, a, t, c), Committed(h, a, u, d)
    PROVE  Agree(h[u], h[t], c)
  <1>1. PICK j \in Nat : Own(h, u, j)
    BY DEF Committed
  <1>2. h[u] # << >>
    <2>1. Len(h[u]) # 0
      BY <1>1, EntryAt DEF Own, Histories
    <2>. QED  BY <2>1, EmptySeq
  <1>3. PICK p \in Server : IsElected(u, p)
    BY <1>2 DEF History
  <1>. QED  BY <1>3, LaterAgrees

\* The log of s up to its commit index is that of a leader, which has it committed.
LEMMA CommitOf ==
    ASSUME TypeOK, NEW h \in Histories, NEW a \in Acks, Commit(h, a), NEW s \in Server,
           0 < commit_idx[s]
    PROVE  \E t \in Nat : /\ t <= current_term[s] /\ Committed(h, a, t, commit_idx[s])
                          /\ Agree(log[s], h[t], commit_idx[s])
  <1>1. PICK t \in 0 .. current_term[s] :
           Committed(h, a, t, commit_idx[s]) /\ Agree(log[s], h[t], commit_idx[s])
    BY DEF Commit, CommitsSound
  <1>2. current_term[s] \in Nat
    BY DEF TypeOK
  <1>3. t \in Nat /\ t <= current_term[s]
    BY <1>2
  <1>. QED  BY <1>1, <1>3

\* Two servers never have different entries committed at the same index, whatever was elected,
\* deleted, lost and reloaded in between.
THEOREM StateMachinesAgree == ASSUME Ordered PROVE Spec => []StateMachineSafety
  <1>1. TypeOK /\ CommitInv => StateMachineSafety
    <2>. SUFFICES ASSUME TypeOK, CommitInv, NEW s \in Server, NEW x \in Server,
                         NEW i \in 1 .. MinOf(commit_idx[s], commit_idx[x])
                  PROVE  log[s][i] = log[x][i]
      BY DEF StateMachineSafety
    <2>1. PICK h \in Histories, a \in Acks : History(h) /\ Commit(h, a)
      BY DEF CommitInv
    <2>. DEFINE c == commit_idx[s]
                d == commit_idx[x]
    <2>2. c \in Nat /\ d \in Nat
      BY DEF TypeOK
    <2>3. i \in Nat /\ 0 < i /\ i <= c /\ i <= d
      BY <2>2 DEF MinOf
    <2>4. 0 < c /\ 0 < d
      BY <2>2, <2>3
    <2>5. PICK t \in Nat : Committed(h, a, t, c) /\ Agree(log[s], h[t], c)
      BY <2>1, <2>4, CommitOf
    <2>6. PICK u \in Nat : Committed(h, a, u, d) /\ Agree(log[x], h[u], d)
      BY <2>1, <2>4, CommitOf
    <2>7. i \in 1 .. c /\ i \in 1 .. d
      BY <2>2, <2>3
    <2>8. log[s][i] = h[t][i] /\ log[x][i] = h[u][i]
      BY <2>5, <2>6, <2>7 DEF Agree
    <2>9. CASE t <= u
      <3>1. Agree(h[u], h[t], c)
        BY <2>1, <2>2, <2>5, <2>6, <2>9, CommittedAgree
      <3>. QED  BY <2>7, <2>8, <3>1 DEF Agree
    <2>10. CASE u <= t
      <3>1. Agree(h[t], h[u], d)
        BY <2>1, <2>2, <2>5, <2>6, <2>10, CommittedAgree
      <3>. QED  BY <2>7, <2>8, <3>1 DEF Agree
    <2>. QED  BY <2>9, <2>10
  <1>. QED  BY <1>1, TypeCorrect, CommitInvariant, PTL

\* A leader has everything that any server of its term or an earlier one knows to be committed.
THEOREM LeadersComplete == ASSUME Ordered PROVE Spec => []LeaderCompleteness
  <1>1. TypeOK /\ LogInv /\ CommitInv => LeaderCompleteness
    <2>. SUFFICES ASSUME TypeOK, LogInv, CommitInv, NEW s \in Server, NEW x \in Server,
                         state[s] = "leader", current_term[x] <= current_term[s]
                  PROVE  /\ commit_idx[x] <= Len(log[s])
                         /\ \A i \in 1 .. commit_idx[x] : log[s][i] = log[x][i]
      BY DEF LeaderCompleteness
    <2>1. PICK h \in Histories, a \in Acks : History(h) /\ Commit(h, a)
      BY DEF CommitInv
    <2>. DEFINE T == current_term[s]
                c == commit_idx[x]
    <2>2. /\ c \in Nat /\ T \in Nat /\ current_term[x] \in Nat
          /\ Len(log[s]) \in Nat /\ Len(log[x]) \in Nat
      BY EntryAt DEF TypeOK
    <2>3. IsElected(T, s) /\ log[s] = h[T]
      BY <2>1 DEF LogInv, LeadsElected, History
    <2>4. CASE c = 0
      BY <2>2, <2>4
    <2>5. CASE 0 < c
      <3>1. PICK t \in Nat : /\ t <= current_term[x] /\ Committed(h, a, t, c)
                             /\ Agree(log[x], h[t], c)
        BY <2>1, <2>5, CommitOf
      <3>2. t \in 0 .. T
        BY <2>2, <3>1
      <3>3. Agree(log[s], h[t], c)
        BY <2>1, <2>2, <2>3, <3>1, <3>2, LaterAgrees
      <3>. QED  BY <3>1, <3>3 DEF Agree
    <2>. QED  BY <2>2, <2>4, <2>5
  <1>. QED  BY <1>1, TypeCorrect, LogInvariant, CommitInvariant, PTL

\* A committed entry stays in the logs of a majority of the nodes.
THEOREM CommittedOnMajorities == ASSUME Ordered PROVE Spec => []CommittedOnMajority
  <1>1. TypeOK /\ CommitInv => CommittedOnMajority
    <2>. SUFFICES ASSUME TypeOK, CommitInv, NEW s \in Server, NEW i \in 1 .. commit_idx[s]
                  PROVE  /\ i \in DOMAIN log[s]
                         /\ IsMajority(Cardinality({v \in Server :
                               i \in DOMAIN log[v] /\ log[v][i] = log[s][i]}))
      BY DEF CommittedOnMajority
    <2>1. PICK h \in Histories, a \in Acks : History(h) /\ Commit(h, a)
      BY DEF CommitInv
    <2>. DEFINE c == commit_idx[s]
                holders == {v \in Server : i \in DOMAIN log[v] /\ log[v][i] = log[s][i]}
    <2>2. c \in Nat /\ i \in Nat /\ 0 < i /\ i <= c /\ 0 < c
      BY DEF TypeOK
    <2>3. \A v \in Server : Len(log[v]) \in Nat /\ DOMAIN log[v] = 1 .. Len(log[v])
      BY EntryAt DEF TypeOK
    <2>4. PICK t \in Nat : Committed(h, a, t, c) /\ Agree(log[s], h[t], c)
      BY <2>1, <2>2, CommitOf
    <2>5. PICK j \in Nat, Q \in SUBSET Server :
             /\ c <= j /\ Own(h, t, j)
             /\ IsMajority(Cardinality(Q)) /\ \A v \in Q : j <= a[t][v]
      BY <2>4 DEF Committed
    <2>6. Held(h, a, t, j)
      BY <2>1, <2>5 DEF Choosable, Commit, Kept
    <2>7. log[s][i] = h[t][i] /\ i \in DOMAIN log[s]
      BY <2>2, <2>3, <2>4 DEF Agree
    <2>8. ASSUME NEW v \in Q PROVE v \in holders
      <3>1. v \in Server /\ Agree(log[v], h[t], j)
        BY <2>5, <2>6 DEF Held
      <3>2. i \in 1 .. j /\ i <= Len(log[v]) /\ log[v][i] = h[t][i]
        BY <2>2, <2>3, <2>5, <3>1 DEF Agree
      <3>. QED  BY <2>2, <2>3, <2>7, <3>1, <3>2
    <2>9. IsMajority(Cardinality(holders))
      <3>1. Q \subseteq holders /\ holders \subseteq Server /\ IsFiniteSet(Server)
        BY <2>8, ConstantsAssumption
      <3>. HIDE DEF holders
      <3>2. IsFiniteSet(holders)
        BY <3>1, FS_Subset
      <3>3. /\ Cardinality(Q) <= Cardinality(holders) /\ Cardinality(holders) <= Cardinality(Server)
            /\ Cardinality(Q) \in Nat /\ Cardinality(holders) \in Nat /\ Cardinality(Server) \in Nat
        <4>1. IsFiniteSet(Q)
          BY <3>1, <3>2, FS_Subset
        <4>. QED  BY <3>1, <3>2, <4>1, FS_Subset, FS_CardinalityType
      <3>. QED  BY <2>5, <3>3 DEF IsMajority
    <2>. QED  BY <2>7, <2>9
  <1>. QED  BY <1>1, TypeCorrect, CommitInvariant, PTL

\* match_idx never promises more than the peer's log holds, until a later term takes it over.
THEOREM MatchesReplicated == ASSUME Ordered PROVE Spec => []MatchIsReplicated
  <1>1. TypeOK /\ LogInv /\ CommitInv => MatchIsReplicated
    <2>. SUFFICES ASSUME TypeOK, LogInv, CommitInv, NEW s \in Server, NEW p \in Peers(s) \cap Voters,
                         state[s] = "leader", current_term[p] <= current_term[s]
                  PROVE  /\ match_idx[s][p] <= MinOf(Len(log[s]), Len(log[p]))
                         /\ \A i \in 1 .. match_idx[s][p] : log[p][i] = log[s][i]
      BY DEF MatchIsReplicated
    <2>1. PICK h \in Histories, a \in Acks : History(h) /\ Commit(h, a)
      BY DEF CommitInv
    <2>. DEFINE T == current_term[s]
                n == match_idx[s][p]
    <2>2. /\ p \in Server /\ n \in Nat /\ T \in Nat /\ current_term[p] \in Nat
          /\ Len(log[s]) \in Nat /\ Len(log[p]) \in Nat
      BY EntryAt DEF TypeOK, Peers
    <2>3. log[s] = h[T]
      BY <2>1 DEF LogInv, LeadsElected, History
    <2>4. n <= a[T][p] /\ a[T][p] \in Nat
      BY <2>1, <2>2 DEF Commit, MatchesAcknowledged, Acks
    <2>5. CASE n = 0
      BY <2>2, <2>5 DEF MinOf
    <2>6. CASE 0 < n
      <3>1. current_term[p] = T
        <4>1. T <= current_term[p]
          BY <2>1, <2>2, <2>4, <2>6 DEF Commit, Acknowledged
        <4>. QED  BY <2>2, <4>1
      <3>2. Agree(log[p], log[s], a[T][p])
        BY <2>1, <2>2, <2>3, <3>1 DEF Commit, Acknowledged
      <3>. HIDE DEF n
      <3>3. Agree(log[p], log[s], n)
        BY <2>2, <2>4, <3>2, AgreeLess
      <3>. QED  BY <2>2, <3>3 DEF Agree, MinOf, n
    <2>. QED  BY <2>2, <2>5, <2>6
  <1>. QED  BY <1>1, TypeCorrect, LogInvariant, CommitInvariant, PTL

\* No message that can be delivered makes an assert of its handler fail.
THEOREM AssertionsAlwaysHold == ASSUME Ordered PROVE Spec => []AssertionsHold
  <1>1. /\ TypeOK /\ ElectionInv /\ ElectionSafety /\ LogInv /\ CommitInv => AssertionsHold
    <2>. SUFFICES ASSUME TypeOK, ElectionInv, ElectionSafety, LogInv, CommitInv,
                         NEW s \in Server, NEW p \in Server, NEW i \in Deliverable(p, s)
                  PROVE  LET m == net[p][s][i] IN
                         CASE m.type = "requestvote" ->
                                 m.term = current_term[s] /\ ShouldGrantVote(s, m) => state[s] = "follower"
                           [] m.type = "appendentries" ->
                                 /\ m.term >= current_term[s] /\ PrevDiffers(log[s], m)
                                       => commit_idx[s] < m.prev_log_idx
                                 /\ Accepts(s, m)
                                       => /\ KeptLen(log[s], m) >= MinOf(commit_idx[s], Len(log[s]))
                                          /\ MinOf(MaxOf(Len(Merged(log[s], m)), 1), m.leader_commit)
                                                <= Len(Merged(log[s], m))
                           [] m.type = "appendentries_response" ->
                                 Answers(s, p, m) /\ m.success => m.current_idx <= Len(log[s])
                           [] OTHER -> TRUE
      BY DEF AssertionsHold
    <2>. DEFINE m == net[p][s][i]
                l == log[s]
    <2>1. PICK h \in Histories, a \in Acks : History(h) /\ Commit(h, a)
      BY DEF CommitInv
    <2>2. i \in DOMAIN net[p][s] /\ LeadsElected
      BY DEF Deliverable, LogInv
    <2>3. /\ m \in Message /\ m \in InFlight(net, p, s) /\ m.term \in Nat
          /\ current_term[s] \in Nat /\ commit_idx[s] \in Nat /\ l \in Seq(Entry) /\ Len(l) \in Nat
      BY <2>2, Delivered, MessageFields, EntryAt DEF TypeOK
    <2>4. ASSUME m.type = "requestvote", m.term = current_term[s], ShouldGrantVote(s, m)
          PROVE  state[s] = "follower"
      <3>1. voted_for[s] = None
        BY <2>3, <2>4 DEF ShouldGrantVote
      <3>. QED  BY <3>1, ConstantsAssumption DEF ElectionInv, VotesGiven
    <2>5. ASSUME m.type = "appendentries", m.term >= current_term[s]
          PROVE  /\ PrevDiffers(l, m) => commit_idx[s] < m.prev_log_idx
                 /\ Accepts(s, m)
                       => /\ KeptLen(l, m) >= MinOf(commit_idx[s], Len(l))
                          /\ MinOf(MaxOf(Len(Merged(l, m)), 1), m.leader_commit) <= Len(Merged(l, m))
      <3>1. current_term[s] <= m.term
        BY <2>3, <2>5
      <3>2. /\ Piece(h[m.term], m) /\ LogFits(h, l)
            /\ \A j \in DOMAIN l : 0 < l[j].term
        BY <2>1, <2>2, <2>5, <3>1, Following
      <3>3. Agree(l, h[m.term], commit_idx[s]) /\ commit_idx[s] <= Reach(m)
        BY <2>1, <2>3, <2>5, <3>1, Firm
      <3>4. m.prev_log_idx \in Nat /\ m.leader_commit \in Nat /\ Reach(m) \in Nat /\ h[m.term] \in Seq(Entry)
        BY <2>3, <2>5, ReachType DEF Histories
      <3>5. m.leader_commit <= Reach(m)
        BY <2>1, <2>3, <2>5 DEF Commit, MessagesSound, Sound
      <3>. HIDE DEF m
      <3>6. /\ PrevDiffers(l, m) => commit_idx[s] < m.prev_log_idx
            /\ ~PrevMissing(l, m) /\ ~PrevDiffers(l, m) => commit_idx[s] <= KeptLen(l, m)
        BY <2>3, <2>5, <3>2, <3>3, <3>4, Retained
      <3>7. ASSUME ~PrevMissing(l, m), ~PrevDiffers(l, m)
            PROVE  /\ KeptLen(l, m) >= MinOf(commit_idx[s], Len(l))
                   /\ MinOf(MaxOf(Len(Merged(l, m)), 1), m.leader_commit) <= Len(Merged(l, m))
        <4>1. KeptLen(l, m) \in m.prev_log_idx .. Len(l)
          BY <2>3, <2>5, <3>7, KeptLenBounds
        <4>2. KeptLen(l, m) >= MinOf(commit_idx[s], Len(l))
          <5>1. KeptLen(l, m) \in Nat /\ commit_idx[s] <= KeptLen(l, m)
            BY <2>3, <3>4, <3>6, <3>7, <4>1
          <5>2. MinOf(commit_idx[s], Len(l)) \in Nat /\ MinOf(commit_idx[s], Len(l)) <= commit_idx[s]
            BY <2>3 DEF MinOf
          <5>. QED  BY <2>3, <5>1, <5>2
        <4>3. \A t \in Nat : LogFits(h, h[t])
          BY <2>1 DEF History
        <4>4. Agree(Merged(l, m), h[m.term], Reach(m))
          BY <2>3, <2>5, <3>2, <3>7, <4>3, MergedAgrees
        <4>5. Merged(l, m) \in Seq(Entry)
          BY <2>3, <2>5, <3>7, MergedType
        <4>6. Len(Merged(l, m)) \in Nat /\ Reach(m) <= Len(Merged(l, m))
          BY <4>4, <4>5, EntryAt DEF Agree
        <4>. QED  BY <3>4, <3>5, <4>2, <4>6 DEF MinOf, MaxOf
      <3>. QED  BY <3>6, <3>7 DEF Accepts
    <2>6. ASSUME m.type = "appendentries_response", Answers(s, p, m), m.success
          PROVE  m.current_idx <= Len(l)
      <3>1. state[s] = "leader" /\ m.term = current_term[s]
        BY <2>6 DEF Answers
      <3>2. l = h[m.term]
        BY <2>1, <2>2, <3>1 DEF LeadsElected, History
      <3>3. m.current_idx <= a[m.term][p] /\ a[m.term][p] <= Len(l)
        BY <2>1, <2>3, <2>6, <3>2 DEF Commit, MessagesSound, Sound, Acknowledged
      <3>4. m.current_idx \in Nat /\ a[m.term][p] \in Nat
        BY <2>3, <2>6, MessageFields DEF Acks
      <3>. QED  BY <2>3, <3>3, <3>4
    <2>7. Accepts(s, m) => m.term >= current_term[s]
      BY DEF Accepts
    <2>. HIDE DEF m
    <2>. QED  BY <2>4, <2>5, <2>6, <2>7 DEF m
  <1>. QED  BY <1>1, TypeCorrect, ElectionInvariant, ElectionSafe, LogInvariant, CommitInvariant, PTL

\* One step of x treats the committed entries of x well.
LEMMA StableStep ==
    ASSUME TypeOK, TypeOK', ElectionSafety, LeadsElected, CandidacyInv, NEW h \in Histories,
           NEW a \in Acks, History(h), Commit(h, a), Next, NEW s \in Server
    PROVE  /\ commit_idx'[s] >= commit_idx[s] \/ Reload(s)
           /\ Agree(log'[s], log[s], commit_idx[s])
  <1>. DEFINE c == commit_idx[s]
              l == log[s]
  <1>1. /\ c \in Nat /\ commit_idx'[s] \in Nat /\ l \in Seq(Entry) /\ Len(l) \in Nat
        /\ current_term[s] \in Nat /\ commit_idx \in [Server -> Nat] /\ log \in [Server -> Seq(Entry)]
    BY EntryAt DEF TypeOK
  <1>2. c <= Len(l)
    <2>1. CASE c = 0
      BY <1>1, <2>1
    <2>2. CASE 0 < c
      BY <2>2, CommitOf DEF Agree
    <2>. QED  BY <1>1, <2>1, <2>2
  <1>3. log'[s] = log[s] => Agree(log'[s], log[s], c)
    BY <1>1, <1>2 DEF Agree
  <1>4. commit_idx'[s] = c => commit_idx'[s] >= c
    BY <1>1
  <1>5. ASSUME NEW x \in Server,
               \/ PeriodicIdle(x) \/ PeriodicHeartbeat(x) \/ PeriodicElection(x)
               \/ Restart(x) \/ CrashInElection(x)
        PROVE  (commit_idx'[s] >= c \/ Reload(s)) /\ Agree(log'[s], log[s], c)
    <2>1. UNCHANGED log
      BY <1>5 DEF PeriodicIdle, PeriodicHeartbeat, PeriodicElection, Restart, CrashInElection
    <2>2. UNCHANGED commit_idx \/ Reload(x)
      BY <1>5 DEF PeriodicIdle, PeriodicHeartbeat, PeriodicElection, Restart, CrashInElection
    <2>3. commit_idx'[s] = c \/ Reload(s)
      BY <1>1, <2>2 DEF Reload
    <2>. QED  BY <1>3, <1>4, <2>1, <2>3
  <1>6. ASSUME NEW x \in Server, NEW id \in Ids, RecvEntry(x, id)
        PROVE  (commit_idx'[s] >= c \/ Reload(s)) /\ Agree(log'[s], log[s], c)
    <2>. DEFINE e == [term |-> current_term[x], id |-> id]
    <2>1. /\ log' = [log EXCEPT ![x] = IF id = 0 THEN log[x] ELSE Append(log[x], e)]
          /\ state[x] = "leader"
          /\ commit_idx' = [commit_idx EXCEPT ![x] = IF Cardinality(Server) = 1
                THEN Len(IF id = 0 THEN log[x] ELSE Append(log[x], e)) ELSE @]
      BY <1>6 DEF RecvEntry
    <2>2. Cardinality(Server) # 1
      BY <2>1, ConstantsAssumption, FS_CardinalityType DEF CandidacyInv
    <2>3. commit_idx'[s] = c
      BY <1>1, <2>1, <2>2
    <2>4. CASE log'[s] = log[s]
      BY <1>3, <1>4, <2>3, <2>4
    <2>5. CASE log'[s] # log[s]
      <3>1. x = s /\ id # 0 /\ log'[s] = Append(l, e)
        BY <1>1, <2>1, <2>5
      <3>2. e \in Entry
        BY <3>1, ConstantsAssumption DEF Entry, TypeOK
      <3>. HIDE DEF e
      <3>3. Len(Append(l, e)) = Len(l) + 1 /\ \A j \in 1 .. Len(l) : Append(l, e)[j] = l[j]
        BY <1>1, <3>2, AppendProperties
      <3>4. Agree(log'[s], log[s], c)
        BY <1>1, <1>2, <3>1, <3>3 DEF Agree
      <3>. QED  BY <1>4, <2>3, <3>4
    <2>. QED  BY <2>4, <2>5
  <1>7. ASSUME NEW x \in Server, NEW p \in Server, NEW i \in DOMAIN net[p][x], Receive(x, p, i)
        PROVE  (commit_idx'[s] >= c \/ Reload(s)) /\ Agree(log'[s], log[s], c)
    <2>. DEFINE m == net[p][x][i]
    <2>1. CASE /\ UNCHANGED log
               /\ UNCHANGED commit_idx \/ Reload(x)
      <3>1. commit_idx'[s] = c \/ Reload(s)
        BY <1>1, <2>1 DEF Reload
      <3>. QED  BY <1>3, <1>4, <2>1, <3>1
    <2>2. CASE RecvAppended(x, p, i)
      <3>1. /\ UNCHANGED log
            /\ commit_idx' = [commit_idx EXCEPT ![x] =
                  IF /\ Cardinality(Server) \div 2 <
                           Cardinality(Replicas(x, [match_idx[x] EXCEPT ![p] = m.current_idx],
                                                m.current_idx)) + 1
                     /\ commit_idx[x] < m.current_idx
                  THEN m.current_idx ELSE commit_idx[x]]
        BY <2>2 DEF RecvAppended
      <3>2. commit_idx'[s] = c \/ c < commit_idx'[s]
        BY <1>1, <3>1
      <3>3. commit_idx'[s] >= c
        BY <1>1, <3>2
      <3>. QED  BY <1>3, <3>1, <3>3
    <2>3. CASE TruncateConflict(x, p, i) \/ AcceptAppendEntries(x, p, i) \/ CrashInAppendEntries(x, p, i)
      <3>1. m.type = "appendentries" /\ m.term >= current_term[x]
        BY <2>3 DEF TruncateConflict, AcceptAppendEntries, CrashInAppendEntries, Accepts
      <3>2. current_term[x] <= m.term
        BY <3>1, Delivered, MessageFields DEF TypeOK
      <3>3. /\ m \in Message /\ m \in InFlight(net, p, x) /\ Piece(h[m.term], m)
            /\ \A j \in DOMAIN log[x] : 0 < log[x][j].term /\ log[x][j].term <= m.term
        BY <3>1, <3>2, Following
      <3>4. Agree(log[x], h[m.term], commit_idx[x]) /\ commit_idx[x] <= Reach(m)
        BY <3>1, <3>2, <3>3, Firm
      <3>5. m.leader_commit \in Nat /\ m.leader_commit <= Reach(m) /\ Reach(m) \in Nat
        BY <3>1, <3>3, ReachType DEF Commit, MessagesSound, Sound
      <3>6. \E r : /\ log' = [log EXCEPT ![x] = r]
                   /\ \/ PrevDiffers(log[x], m) /\ r = SubSeq(log[x], 1, m.prev_log_idx - 1)
                      \/ /\ ~PrevMissing(log[x], m) /\ ~PrevDiffers(log[x], m)
                         /\ \/ r = Merged(log[x], m)
                            \/ \E k \in KeptLen(log[x], m) .. Len(log[x]) : r = SubSeq(log[x], 1, k)
                            \/ \E k \in KeptLen(log[x], m) .. Len(Merged(log[x], m)) :
                                  r = SubSeq(Merged(log[x], m), 1, k)
        <4>1. CASE TruncateConflict(x, p, i)
          BY <4>1 DEF TruncateConflict
        <4>2. CASE AcceptAppendEntries(x, p, i)
          BY <4>2 DEF AcceptAppendEntries, Accepts
        <4>3. CASE CrashInAppendEntries(x, p, i)
          BY <4>3 DEF CrashInAppendEntries, Accepts
        <4>. QED  BY <2>3, <4>1, <4>2, <4>3
      <3>7. \/ UNCHANGED commit_idx
            \/ Reload(x)
            \/ commit_idx' = [commit_idx EXCEPT ![x] =
                  IF @ < m.leader_commit
                  THEN MinOf(MaxOf(Len(Merged(log[x], m)), 1), m.leader_commit) ELSE @]
               /\ log' = [log EXCEPT ![x] = Merged(log[x], m)] /\ ~PrevMissing(log[x], m)
               /\ ~PrevDiffers(log[x], m)
        BY <2>3 DEF TruncateConflict, AcceptAppendEntries, CrashInAppendEntries, Accepts
      <3>. HIDE DEF m
      <3>8. Agree(log'[s], log[s], c)
        <4>1. PICK r : /\ log' = [log EXCEPT ![x] = r]
                       /\ \A n \in Nat : Agree(log[x], h[m.term], n) /\ n <= Reach(m) => Agree(r, log[x], n)
          <5>1. TermsRise(h) /\ log[x] \in Seq(Entry)
            BY <1>1 DEF Commit
          <5>. QED  BY <3>1, <3>3, <3>6, <5>1, Overwritten
        <4>2. CASE x = s
          BY <1>1, <3>4, <4>1, <4>2
        <4>3. CASE x # s
          BY <1>1, <1>3, <4>1, <4>3
        <4>. QED  BY <4>2, <4>3
      <3>9. commit_idx'[s] >= c \/ Reload(s)
        <4>1. CASE x # s
          <5>1. commit_idx'[s] = c
            BY <1>1, <3>7, <4>1 DEF Reload
          <5>. QED  BY <1>4, <5>1
        <4>2. CASE x = s
          <5>1. CASE UNCHANGED commit_idx \/ Reload(x)
            BY <1>4, <4>2, <5>1
          <5>2. CASE /\ commit_idx' = [commit_idx EXCEPT ![x] =
                           IF @ < m.leader_commit
                           THEN MinOf(MaxOf(Len(Merged(log[x], m)), 1), m.leader_commit) ELSE @]
                     /\ log' = [log EXCEPT ![x] = Merged(log[x], m)]
                     /\ ~PrevMissing(log[x], m) /\ ~PrevDiffers(log[x], m)
            <6>1. /\ log'[s] = Merged(l, m) /\ ~PrevMissing(l, m) /\ ~PrevDiffers(l, m)
                  /\ commit_idx'[s] = IF c < m.leader_commit
                        THEN MinOf(MaxOf(Len(log'[s]), 1), m.leader_commit) ELSE c
              BY <1>1, <4>2, <5>2
            <6>2. Agree(log'[s], h[m.term], Reach(m))
              <7>1. /\ \A t \in Nat : LogFits(h, h[t])
                    /\ LogFits(h, l)
                BY DEF History
              <7>. QED  BY <1>1, <3>1, <3>3, <4>2, <6>1, <7>1, MergedAgrees
            <6>3. Len(log'[s]) \in Nat /\ m.leader_commit <= Len(log'[s])
              <7>1. log'[s] \in Seq(Entry)
                BY DEF TypeOK
              <7>. QED  BY <3>5, <6>2, <7>1, EntryAt DEF Agree
            <6>4. commit_idx'[s] = c \/ (c < m.leader_commit /\ commit_idx'[s] = m.leader_commit)
              BY <3>5, <6>1, <6>3 DEF MinOf, MaxOf
            <6>. QED  BY <1>1, <3>5, <6>4
          <5>. QED  BY <3>7, <5>1, <5>2
        <4>. QED  BY <4>1, <4>2
      <3>. QED  BY <3>8, <3>9
    <2>4. \/ UNCHANGED log /\ (UNCHANGED commit_idx \/ Reload(x))
          \/ RecvAppended(x, p, i)
          \/ TruncateConflict(x, p, i) \/ AcceptAppendEntries(x, p, i) \/ CrashInAppendEntries(x, p, i)
      BY <1>7 DEF Receive, RecvRequestVote, IgnoreRequestVoteResponse, LoseElection, RecvVote,
                  RefuseAppendEntries, IgnoreAppendEntriesResponse, StepDown, RetryAppendEntries,
                  CrashInRequestVote, Lose, Duplicate, Unsent
    <2>. QED  BY <2>1, <2>2, <2>3, <2>4
  <1>. QED  BY <1>5, <1>6, <1>7 DEF Next

\* No step but a crash takes back a commit, and no step, not even a crash in the middle of
\* raft_recv_appendentries, changes an entry the server knows to be committed.
THEOREM CommitsStable == ASSUME Ordered PROVE Spec => CommittedStable
  <1>1. /\ TypeOK /\ TypeOK' /\ ElectionSafety /\ LogInv /\ CommitInv /\ [Next]_vars
        => [\A s \in Server :
               /\ commit_idx'[s] >= commit_idx[s] \/ Reload(s)
               /\ commit_idx[s] <= Len(log'[s])
               /\ \A i \in 1 .. commit_idx[s] : log'[s][i] = log[s][i]]_vars
    <2>. SUFFICES ASSUME TypeOK, TypeOK', ElectionSafety, LogInv, CommitInv, Next, NEW s \in Server
                  PROVE  /\ commit_idx'[s] >= commit_idx[s] \/ Reload(s)
                         /\ commit_idx[s] <= Len(log'[s])
                         /\ \A i \in 1 .. commit_idx[s] : log'[s][i] = log[s][i]
      OBVIOUS
    <2>1. PICK h \in Histories, a \in Acks : History(h) /\ Commit(h, a)
      BY DEF CommitInv
    <2>2. CandidacyInv /\ LeadsElected
      BY DEF CommitInv, LogInv
    <2>. QED  BY <2>1, <2>2, StableStep DEF Agree
  <1>. QED  BY <1>1, TypeCorrect, ElectionSafe, LogInvariant, CommitInvariant, PTL
            DEF Spec, CommittedStable
=============================================================================
