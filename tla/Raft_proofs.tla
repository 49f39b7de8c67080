----------------------------- MODULE Raft_proofs -----------------------------
(***************************************************************************)
(* Proofs about Raft, for any cluster, any bounds and either kind of       *)
(* network: type correctness, and at most one leader in a term.            *)
(***************************************************************************)
EXTENDS Raft, FiniteSetTheorems, SequenceTheorems, WellFoundedInduction,
        TLAPS

Network == [Server -> [Server -> Seq(Message)]]

-----------------------------------------------------------------------------
(* Messages and the network. *)

\* The fields of a message have the types the handlers rely on.
LEMMA MessageFields ==
    ASSUME NEW m \in Message
    PROVE  /\ m.term \in Nat
           /\ m.type = "requestvote" => m.last_log_idx \in Nat /\ m.last_log_term \in Nat
           /\ m.type = "requestvote_response" => m.vote_granted \in BOOLEAN
           /\ m.type = "appendentries" =>
                /\ m.prev_log_idx \in Nat /\ m.prev_log_term \in Nat
                /\ m.leader_commit \in Nat /\ m.entries \in Seq(Entry)
           /\ m.type = "appendentries_response" =>
                m.success \in BOOLEAN /\ m.current_idx \in Nat
  BY DEF Message

\* A message is one of the four, built as the send functions build it.
LEMMA RequestVoteType ==
    ASSUME NEW term \in Nat, NEW l \in Seq(Entry)
    PROVE  RequestVote(term, l) \in Message
  <1>1. l # << >> => l[Len(l)] \in Entry
    BY LenProperties, EmptySeq, ElementOfSeq
  <1>2. LastTerm(l) \in Nat
    BY <1>1 DEF LastTerm, Entry
  <1>3. Len(l) \in Nat
    BY LenProperties
  <1>. QED  BY <1>2, <1>3 DEF RequestVote, Message

LEMMA VoteResponseType ==
    ASSUME NEW term \in Nat, NEW granted \in BOOLEAN
    PROVE  [type |-> "requestvote_response", term |-> term, vote_granted |-> granted] \in Message
  BY DEF Message

LEMMA ResponseType ==
    ASSUME NEW term \in Nat, NEW success \in BOOLEAN, NEW idx \in Nat
    PROVE  Response(term, success, idx) \in Message
  BY DEF Response, Message

LEMMA AppendEntriesType ==
    ASSUME NEW term \in Nat, NEW l \in Seq(Entry), NEW commit \in Nat, NEW next \in Nat \ {0}
    PROVE  AppendEntries(term, l, commit, next) \in Message
  <1>0. Len(l) \in Nat /\ DOMAIN l = 1 .. Len(l) /\ \A i \in 1 .. Len(l) : l[i] \in Entry
    BY LenProperties
  <1>1. SubSeq(l, next, Len(l)) \in Seq(Entry)
    <2>1. \A i \in next .. Len(l) : l[i] \in Entry
      BY <1>0
    <2>. QED  BY <1>0, <2>1, SubSeqProperties
  <1>2. (IF next - 1 \in DOMAIN l THEN l[next - 1].term ELSE 0) \in Nat
    BY <1>0 DEF Entry
  <1>. QED  BY <1>1, <1>2 DEF AppendEntries, Message

\* Taking a message out of a connection leaves only messages that were in it.
LEMMA DropProperties ==
    ASSUME NEW c \in Seq(Message), NEW i \in DOMAIN c
    PROVE  /\ Drop(c, i) \in Seq(Message)
           /\ \A j \in DOMAIN Drop(c, i) : \E k \in DOMAIN c : Drop(c, i)[j] = c[k]
  <1>1. Len(c) \in Nat /\ DOMAIN c = 1 .. Len(c) /\ \A k \in 1 .. Len(c) : c[k] \in Message
    BY LenProperties
  <1>2. Len(c) - 1 \in Nat
    BY <1>1
  <1>3. DOMAIN Drop(c, i) = 1 .. Len(c) - 1
    BY DEF Drop
  <1>4. \A j \in 1 .. Len(c) - 1 : \E k \in DOMAIN c : Drop(c, i)[j] = c[k]
    BY <1>1 DEF Drop
  <1>5. \A j \in 1 .. Len(c) - 1 : (IF j < i THEN c[j] ELSE c[j + 1]) \in Message
    BY <1>1
  <1>6. Drop(c, i) \in Seq(Message)
    BY <1>2, <1>5, IsASeq DEF Drop
  <1>. QED  BY <1>3, <1>4, <1>6

LEMMA PutProperties ==
    ASSUME NEW c \in Seq(Message), NEW m \in Message
    PROVE  /\ Put(c, m) \in Seq(Message)
           /\ \A j \in DOMAIN Put(c, m) : Put(c, m)[j] = m \/ \E k \in DOMAIN c : Put(c, m)[j] = c[k]
  <1>1. CASE Len(c) < MaxInFlight
    BY <1>1, AppendProperties, LenProperties DEF Put
  <1>2. CASE ~(Len(c) < MaxInFlight)
    BY <1>2 DEF Put
  <1>. QED  BY <1>1, <1>2

LEMMA TakeProperties ==
    ASSUME NEW n \in Network, NEW p \in Server, NEW s \in Server, NEW i \in DOMAIN n[p][s]
    PROVE  /\ Take(n, p, s, i) \in Network
           /\ \A x, y \in Server : InFlight(Take(n, p, s, i), x, y) \subseteq InFlight(n, x, y)
  <1>. DEFINE N == Take(n, p, s, i)
  <1>1. n[p][s] \in Seq(Message)
    BY DEF Network
  <1>2. /\ Drop(n[p][s], i) \in Seq(Message)
        /\ \A j \in DOMAIN Drop(n[p][s], i) : \E k \in DOMAIN n[p][s] :
              Drop(n[p][s], i)[j] = n[p][s][k]
    BY <1>1, DropProperties
  <1>3. N \in Network
    BY <1>2 DEF Take, Network
  <1>4. \A x, y \in Server : N[x][y] = IF x = p /\ y = s THEN Drop(n[p][s], i) ELSE n[x][y]
    BY DEF Take, Network
  <1>5. ASSUME NEW x \in Server, NEW y \in Server
        PROVE  InFlight(N, x, y) \subseteq InFlight(n, x, y)
    BY <1>2, <1>4 DEF InFlight
  <1>. QED  BY <1>3, <1>5

LEMMA SendProperties ==
    ASSUME NEW n \in Network, NEW s \in Server, NEW D \in SUBSET Server, NEW out \in [D -> Message]
    PROVE  /\ Send(n, s, out) \in Network
           /\ \A x, y \in Server :
                 InFlight(Send(n, s, out), x, y) \subseteq
                    InFlight(n, x, y) \cup {out[q] : q \in {q \in D : x = s /\ q = y}}
  <1>. DEFINE N == Send(n, s, out)
  <1>1. \A q \in Server : n[s][q] \in Seq(Message)
    BY DEF Network
  <1>2. \A q \in D : /\ Put(n[s][q], out[q]) \in Seq(Message)
                     /\ \A j \in DOMAIN Put(n[s][q], out[q]) :
                          \/ Put(n[s][q], out[q])[j] = out[q]
                          \/ \E k \in DOMAIN n[s][q] : Put(n[s][q], out[q])[j] = n[s][q][k]
    <2>. TAKE q \in D
    <2>1. n[s][q] \in Seq(Message) /\ out[q] \in Message
      BY <1>1
    <2>. QED  BY <2>1, PutProperties, Zenon
  <1>3. N = [n EXCEPT ![s] = [q \in Server |-> IF q \in D THEN Put(n[s][q], out[q]) ELSE n[s][q]]]
    <2>1. DOMAIN out = D
      OBVIOUS
    <2>. QED  BY <2>1, Zenon DEF Send
  <1>4. N \in Network
    BY <1>1, <1>2, <1>3 DEF Network
  <1>5. \A x, y \in Server : N[x][y] = IF x = s /\ y \in D THEN Put(n[s][y], out[y]) ELSE n[x][y]
    BY <1>3 DEF Network
  <1>6. ASSUME NEW x \in Server, NEW y \in Server
        PROVE  InFlight(N, x, y) \subseteq
                  InFlight(n, x, y) \cup {out[q] : q \in {q \in D : x = s /\ q = y}}
    <2>1. CASE x = s /\ y \in D
      <3>1. N[x][y] = Put(n[s][y], out[y])
        BY <1>5, <2>1
      <3>2. \A j \in DOMAIN N[x][y] :
               N[x][y][j] = out[y] \/ \E k \in DOMAIN n[x][y] : N[x][y][j] = n[x][y][k]
        <4>1. \A j \in DOMAIN Put(n[s][y], out[y]) :
                  \/ Put(n[s][y], out[y])[j] = out[y]
                  \/ \E k \in DOMAIN n[s][y] : Put(n[s][y], out[y])[j] = n[s][y][k]
          BY <1>2, <2>1
        <4>. HIDE DEF N
        <4>. QED  BY <2>1, <3>1, <4>1
      <3>. HIDE DEF N
      <3>. QED  BY <2>1, <3>2 DEF InFlight
    <2>2. CASE ~(x = s /\ y \in D)
      BY <1>5, <2>2 DEF InFlight
    <2>. QED  BY <2>1, <2>2
  <1>. QED  BY <1>4, <1>6

-----------------------------------------------------------------------------
(* The log that raft_recv_appendentries leaves. *)

\* The first index at which a log and the entries of a message differ.
LEMMA LeastDiffers ==
    ASSUME NEW l \in Seq(Entry), NEW m \in Message, m.type = "appendentries",
           Differs(l, m) # {}
    PROVE  LET k == CHOOSE k \in Differs(l, m) : \A j \in Differs(l, m) : k <= j
           IN  k \in Differs(l, m) /\ \A j \in Differs(l, m) : k <= j
  <1>1. m.entries \in Seq(Entry)
    BY MessageFields
  <1>2. Differs(l, m) \in SUBSET Nat
    BY <1>1, LenProperties DEF Differs
  <1>3. \E k \in Differs(l, m) : \A j \in Differs(l, m) : k <= j
    <2>. DEFINE R == OpToRel(<, Nat)
    <2>1. \E k \in Differs(l, m) : \A j \in Differs(l, m) : ~(<<j, k>> \in R)
      BY <1>2, NatLessThanWellFounded, WFMin, Zenon
    <2>2. \A j, k \in Nat : j < k => <<j, k>> \in R
      BY DEF OpToRel
    <2>. HIDE DEF R
    <2>3. PICK k \in Differs(l, m) : \A j \in Differs(l, m) : ~(<<j, k>> \in R)
      BY <2>1
    <2>4. \A j \in Differs(l, m) : j \in Nat /\ k \in Nat /\ ~(j < k)
      BY <1>2, <2>2, <2>3
    <2>5. \A j \in Differs(l, m) : k <= j
      BY <2>4
    <2>. QED  BY <2>5
  <1>. QED  BY <1>3

LEMMA KeptLenBounds ==
    ASSUME NEW l \in Seq(Entry), NEW m \in Message, m.type = "appendentries",
           ~PrevMissing(l, m)
    PROVE  /\ KeptLen(l, m) \in m.prev_log_idx .. Len(l)
           /\ Differs(l, m) # {} => KeptLen(l, m) - m.prev_log_idx + 1 \in DOMAIN m.entries
  <1>1. /\ m.entries \in Seq(Entry) /\ Len(m.entries) \in Nat
        /\ DOMAIN m.entries = 1 .. Len(m.entries)
        /\ m.prev_log_idx \in Nat /\ Len(l) \in Nat /\ m.prev_log_idx <= Len(l)
    BY MessageFields, LenProperties DEF PrevMissing
  <1>2. CASE Differs(l, m) # {}
    <2>. DEFINE k == CHOOSE k \in Differs(l, m) : \A j \in Differs(l, m) : k <= j
    <2>1. k \in Differs(l, m) /\ \A j \in Differs(l, m) : k <= j
      BY <1>2, LeastDiffers, Zenon
    <2>2. k \in 1 .. Len(m.entries)
      BY <1>1, <2>1 DEF Differs
    <2>3. KeptLen(l, m) = m.prev_log_idx + k - 1
      BY <1>2 DEF KeptLen
    <2>. HIDE DEF k
    <2>4. k - 1 \in DOMAIN m.entries => m.prev_log_idx + (k - 1) <= Len(l)
      <3>1. k - 1 \notin Differs(l, m)
        BY <2>1, <2>2
      <3>2. k - 1 \in DOMAIN m.entries => ~(m.prev_log_idx + (k - 1) > Len(l))
        BY <3>1, Zenon DEF Differs
      <3>. QED  BY <1>1, <2>2, <3>2
    <2>. QED  BY <1>1, <2>2, <2>3, <2>4
  <1>3. CASE Differs(l, m) = {}
    BY <1>1, <1>3 DEF KeptLen
  <1>. QED  BY <1>2, <1>3

LEMMA PrefixType ==
    ASSUME NEW l \in Seq(Entry), NEW k \in 0 .. Len(l)
    PROVE  SubSeq(l, 1, k) \in Seq(Entry) /\ Len(SubSeq(l, 1, k)) = k
  <1>1. Len(l) \in Nat /\ \A i \in 1 .. k : l[i] \in Entry
    BY LenProperties
  <1>. QED  BY <1>1, SubSeqProperties

LEMMA MergedType ==
    ASSUME NEW l \in Seq(Entry), NEW m \in Message, m.type = "appendentries",
           ~PrevMissing(l, m)
    PROVE  Merged(l, m) \in Seq(Entry)
  <1>. DEFINE kept == KeptLen(l, m)
              from == kept - m.prev_log_idx + 1
  <1>1. /\ m.entries \in Seq(Entry) /\ Len(m.entries) \in Nat
        /\ DOMAIN m.entries = 1 .. Len(m.entries)
        /\ \A i \in 1 .. Len(m.entries) : m.entries[i] \in Entry
        /\ m.prev_log_idx \in Nat /\ Len(l) \in Nat
    BY MessageFields, LenProperties
  <1>2. /\ kept \in m.prev_log_idx .. Len(l)
        /\ Differs(l, m) # {} => from \in DOMAIN m.entries
    BY KeptLenBounds
  <1>. HIDE DEF kept
  <1>3. SubSeq(l, 1, kept) \in Seq(Entry)
    BY <1>1, <1>2, PrefixType
  <1>4. CASE Differs(l, m) # {}
    <2>1. from \in 1 .. Len(m.entries)
      BY <1>1, <1>2, <1>4
    <2>2. \A i \in from .. Len(m.entries) : m.entries[i] \in Entry
      BY <1>1, <2>1
    <2>3. SubSeq(m.entries, from, Len(m.entries)) \in Seq(Entry)
      BY <1>1, <2>1, <2>2, SubSeqProperties
    <2>4. SubSeq(l, 1, kept) \o SubSeq(m.entries, from, Len(m.entries)) \in Seq(Entry)
      BY <1>3, <2>3, ConcatProperties
    <2>. QED  BY <1>4, <2>4 DEF Merged, kept
  <1>5. CASE Differs(l, m) = {}
    BY <1>3, <1>5 DEF Merged, kept
  <1>. QED  BY <1>4, <1>5

-----------------------------------------------------------------------------
(* Type correctness. *)

\* A message that can be delivered is one under way, and a message.
LEMMA Delivered ==
    ASSUME TypeOK, NEW s \in Server, NEW p \in Server, NEW i \in DOMAIN net[p][s]
    PROVE  /\ net[p][s][i] \in Message
           /\ net[p][s][i] \in InFlight(net, p, s)
           /\ Take(net, p, s, i) \in Network
  <1>1. net \in Network /\ net[p][s] \in Seq(Message)
    BY DEF TypeOK, Network
  <1>2. net[p][s][i] \in Message
    BY <1>1
  <1>. QED  BY <1>1, <1>2, TakeProperties DEF InFlight

\* Sending one message, or one to each of a set of peers, leaves a network.
LEMMA SendOne ==
    ASSUME NEW n \in Network, NEW s \in Server, NEW p \in Server, NEW m \in Message
    PROVE  /\ SendTo(n, s, p, m) \in Network
           /\ \A x, y \in Server :
                 InFlight(SendTo(n, s, p, m), x, y)
                    \subseteq InFlight(n, x, y) \cup (IF x = s /\ y = p THEN {m} ELSE {})
  <1>. DEFINE out == [q \in {p} |-> m]
  <1>1. out \in [{p} -> Message] /\ {p} \in SUBSET Server /\ out[p] = m
    OBVIOUS
  <1>. HIDE DEF out
  <1>2. /\ Send(n, s, out) \in Network
        /\ \A x, y \in Server :
              InFlight(Send(n, s, out), x, y) \subseteq
                 InFlight(n, x, y) \cup {out[q] : q \in {q \in {p} : x = s /\ q = y}}
    BY <1>1, SendProperties
  <1>3. \A x, y \in Server : {out[q] : q \in {q \in {p} : x = s /\ q = y}}
                                \subseteq IF x = s /\ y = p THEN {m} ELSE {}
    BY <1>1
  <1>4. \A x, y \in Server : InFlight(Send(n, s, out), x, y)
                    \subseteq InFlight(n, x, y) \cup (IF x = s /\ y = p THEN {m} ELSE {})
    BY <1>2, <1>3
  <1>. QED  BY <1>2, <1>4 DEF out, SendTo

LEMMA TypeInit == Init => TypeOK
  BY EmptySeq DEF Init, TypeOK

\* A crash keeps the types, whatever term and log the server comes back with.
LEMMA ReloadType ==
    ASSUME TypeOK, NEW s \in Server, Reload(s),
           current_term' \in [Server -> Nat], log' \in [Server -> Seq(Entry)], net' \in Network
    PROVE  TypeOK'
  <1>1. /\ voted_for' \in [Server -> Server \cup {None}]
        /\ disk_vote' \in [Server -> Server \cup {None}]
        /\ current_leader' \in [Server -> Server \cup {None}]
    BY DEF TypeOK, Reload
  <1>2. state' \in [Server -> {"follower", "candidate", "leader"}]
    BY DEF TypeOK, Reload
  <1>3. /\ commit_idx' \in [Server -> Nat] /\ last_applied_idx' \in [Server -> Nat]
        /\ match_idx' \in [Server -> [Server -> Nat]]
    BY DEF TypeOK, Reload
  <1>4. next_idx' \in [Server -> [Server -> Nat \ {0}]]
    BY DEF TypeOK, Reload
  <1>5. votes_for_me' \in [Server -> SUBSET Server]
    BY DEF TypeOK, Reload
  <1>6. /\ ballots' \subseteq [term : Nat, voter : Server, candidate : Server]
        /\ elected' \subseteq [term : Nat, leader : Server]
    BY DEF TypeOK, Reload
  <1>. QED  BY <1>1, <1>2, <1>3, <1>4, <1>5, <1>6 DEF TypeOK, Network

\* The actions of a server that receives nothing.
LEMMA TypeOwnSteps ==
    ASSUME TypeOK, NEW s \in Server,
           \/ PeriodicIdle(s) \/ PeriodicHeartbeat(s) \/ PeriodicElection(s)
           \/ Restart(s) \/ CrashInElection(s)
           \/ \E id \in Ids : RecvEntry(s, id)
    PROVE  TypeOK'
  <1>. USE ConstantsAssumption
  <1>1. net \in Network /\ log[s] \in Seq(Entry) /\ Len(log[s]) \in Nat
    BY LenProperties DEF TypeOK, Network
  <1>2. ApplyEntry(s) => last_applied_idx' \in [Server -> Nat]
    <2>1. last_applied_idx \in [Server -> Nat]
      BY DEF TypeOK
    <2>. QED  BY <2>1 DEF ApplyEntry
  <1>3. CASE PeriodicIdle(s)
    BY <1>2, <1>3 DEF TypeOK, PeriodicIdle
  <1>4. CASE PeriodicHeartbeat(s)
    <2>. DEFINE out == [q \in Peers(s) |->
                 AppendEntries(current_term[s], log[s], commit_idx[s], next_idx[s][q])]
    <2>1. \A q \in Peers(s) :
             AppendEntries(current_term[s], log[s], commit_idx[s], next_idx[s][q]) \in Message
      <3>1. /\ current_term[s] \in Nat /\ commit_idx[s] \in Nat
            /\ \A q \in Peers(s) : next_idx[s][q] \in Nat \ {0}
        BY DEF TypeOK, Peers
      <3>. QED  BY <1>1, <3>1, AppendEntriesType
    <2>2. out \in [Peers(s) -> Message] /\ Peers(s) \in SUBSET Server
      BY <2>1 DEF Peers
    <2>3. net' = Send(net, s, out)
      BY <1>4 DEF PeriodicHeartbeat
    <2>. HIDE DEF out
    <2>4. net' \in Network
      BY <1>1, <2>2, <2>3, SendProperties
    <2>. QED  BY <1>2, <1>4, <2>4 DEF TypeOK, PeriodicHeartbeat, Network
  <1>5. CASE PeriodicElection(s)
    <2>. DEFINE D == Peers(s) \cap Voters
                out == [q \in D |-> RequestVote(current_term[s] + 1, log[s])]
    <2>1. RequestVote(current_term[s] + 1, log[s]) \in Message
      BY RequestVoteType DEF TypeOK
    <2>2. out \in [D -> Message] /\ D \in SUBSET Server
      BY <2>1 DEF Peers
    <2>3. net' = Send(net, s, out)
      BY <1>5 DEF PeriodicElection
    <2>. HIDE DEF out, D
    <2>4. net' \in Network
      BY <1>1, <2>2, <2>3, SendProperties
    <2>5. current_term[s] \in Nat /\ ballots \subseteq [term : Nat, voter : Server, candidate : Server]
      BY DEF TypeOK
    <2>6. ballots' \subseteq [term : Nat, voter : Server, candidate : Server]
      BY <1>5, <2>5 DEF PeriodicElection
    <2>7. votes_for_me' \in [Server -> SUBSET Server]
      BY <1>5 DEF PeriodicElection, TypeOK
    <2>. QED  BY <1>2, <1>5, <2>4, <2>6, <2>7 DEF TypeOK, PeriodicElection, Network
  <1>6. CASE Restart(s)
    BY <1>1, <1>6, ReloadType DEF TypeOK, Restart
  <1>7. CASE CrashInElection(s)
    <2>1. current_term' \in [Server -> Nat]
      BY <1>7 DEF TypeOK, CrashInElection
    <2>2. Reload(s) /\ log' = log /\ net' = net
      BY <1>7 DEF CrashInElection
    <2>3. log' \in [Server -> Seq(Entry)]
      BY <2>2 DEF TypeOK
    <2>. QED  BY <1>1, <2>1, <2>2, <2>3, ReloadType
  <1>8. ASSUME NEW id \in Ids, RecvEntry(s, id)
        PROVE  TypeOK'
    <2>. DEFINE l == IF id = 0 THEN log[s]
                     ELSE Append(log[s], [term |-> current_term[s], id |-> id])
                D == {q \in Peers(s) \cap Voters : next_idx[s][q] = Len(l)}
                out == [q \in D |->
                          AppendEntries(current_term[s], l, commit_idx[s], next_idx[s][q])]
    <2>1. l \in Seq(Entry) /\ Len(l) \in Nat
      <3>1. id # 0 => [term |-> current_term[s], id |-> id] \in Entry
        BY DEF TypeOK, Entry
      <3>2. l \in Seq(Entry)
        BY <1>1, <3>1, AppendProperties
      <3>. QED  BY <3>2, LenProperties
    <2>2. log' = [log EXCEPT ![s] = l] /\ net' = Send(net, s, out)
          /\ commit_idx' = [commit_idx EXCEPT ![s] = IF Cardinality(Server) = 1
                                                     THEN Len(l) ELSE @]
      BY <1>8, Zenon DEF RecvEntry
    <2>. HIDE DEF l
    <2>3. D \in SUBSET Server
      BY DEF Peers
    <2>4. \A q \in D : AppendEntries(current_term[s], l, commit_idx[s], next_idx[s][q]) \in Message
      <3>. TAKE q \in D
      <3>1. /\ current_term[s] \in Nat /\ commit_idx[s] \in Nat
            /\ next_idx[s][q] \in Nat \ {0}
        BY DEF TypeOK, Peers
      <3>. QED  BY <2>1, <3>1, AppendEntriesType
    <2>5. out \in [D -> Message]
      BY <2>4
    <2>. HIDE DEF out, D
    <2>6. net' \in Network
      BY <1>1, <2>2, <2>3, <2>5, SendProperties
    <2>7. log' \in [Server -> Seq(Entry)] /\ commit_idx' \in [Server -> Nat]
      BY <2>1, <2>2 DEF TypeOK
    <2>8. UNCHANGED <<current_term, voted_for, disk_vote, state, current_leader, last_applied_idx,
                      next_idx, match_idx, votes_for_me, ballots, elected>>
      BY <1>8 DEF RecvEntry
    <2>. QED  BY <2>6, <2>7, <2>8 DEF TypeOK, Network
  <1>. QED  BY <1>3, <1>4, <1>5, <1>6, <1>7, <1>8

\* The actions of a server that takes the i-th message from p.
LEMMA TypeReceive ==
    ASSUME TypeOK, NEW s \in Server, NEW p \in Server, NEW i \in DOMAIN net[p][s],
           Receive(s, p, i)
    PROVE  TypeOK'
  <1>. DEFINE m == net[p][s][i]
              n == Take(net, p, s, i)
  <1>. USE ConstantsAssumption
  <1>1. m \in Message /\ n \in Network /\ net \in Network
    BY Delivered DEF TypeOK, Network
  <1>2. /\ log[s] \in Seq(Entry) /\ Len(log[s]) \in Nat /\ DOMAIN log[s] = 1 .. Len(log[s])
        /\ current_term[s] \in Nat /\ commit_idx[s] \in Nat /\ next_idx[s][p] \in Nat \ {0}
    BY LenProperties DEF TypeOK
  <1>3. m.term \in Nat /\ SeenTerm(s, m.term) \in Nat
    BY <1>1, <1>2, MessageFields DEF SeenTerm, MaxOf
  <1>4. m.type = "appendentries" /\ FollowSender(s, m.term) =>
          /\ current_term' \in [Server -> Nat]
          /\ voted_for' \in [Server -> Server \cup {None}]
          /\ state' \in [Server -> {"follower", "candidate", "leader"}]
    <2>1. /\ current_term \in [Server -> Nat]
          /\ voted_for \in [Server -> Server \cup {None}]
          /\ state \in [Server -> {"follower", "candidate", "leader"}]
      BY DEF TypeOK
    <2>. HIDE DEF m
    <2>. QED  BY <1>3, <2>1 DEF FollowSender
  <1>. HIDE DEF n, m
  <1>5. CASE RecvRequestVote(s, p, i)
    <2>. DEFINE granted == ShouldGrantVote(s, m)
                reply == [type |-> "requestvote_response", term |-> SeenTerm(s, m.term),
                          vote_granted |-> granted]
    <2>1. granted \in BOOLEAN
      BY DEF ShouldGrantVote
    <2>2. reply \in Message
      BY <1>3, <2>1, VoteResponseType
    <2>3. net' = SendTo(n, s, p, reply)
      BY <1>5 DEF RecvRequestVote, n, m
    <2>. HIDE DEF reply
    <2>4. net' \in Network
      BY <1>1, <2>2, <2>3, SendOne
    <2>5. current_term' \in [Server -> Nat]
      BY <1>3, <1>5 DEF RecvRequestVote, TypeOK, m
    <2>6. /\ voted_for' \in [Server -> Server \cup {None}]
          /\ disk_vote' \in [Server -> Server \cup {None}]
      BY <1>5 DEF RecvRequestVote, TypeOK
    <2>7. /\ current_leader' \in [Server -> Server \cup {None}]
          /\ state' \in [Server -> {"follower", "candidate", "leader"}]
      BY <1>5 DEF RecvRequestVote, TypeOK
    <2>8. ballots' \subseteq [term : Nat, voter : Server, candidate : Server]
      <3>1. ballots \subseteq [term : Nat, voter : Server, candidate : Server]
        BY DEF TypeOK
      <3>2. ballots' \subseteq ballots \cup
               {[term |-> SeenTerm(s, m.term), voter |-> s, candidate |-> p]}
        BY <1>5 DEF RecvRequestVote, m
      <3>. QED  BY <1>3, <3>1, <3>2
    <2>9. UNCHANGED <<log, commit_idx, last_applied_idx, next_idx, match_idx, votes_for_me,
                      elected>>
      BY <1>5 DEF RecvRequestVote
    <2>. QED  BY <2>4, <2>5, <2>6, <2>7, <2>8, <2>9 DEF TypeOK, Network
  <1>6. CASE IgnoreRequestVoteResponse(s, p, i) \/ IgnoreAppendEntriesResponse(s, p, i) \/ Lose(p, s, i)
    <2>1. net' = n /\ UNCHANGED Unsent
      BY <1>6 DEF IgnoreRequestVoteResponse, IgnoreAppendEntriesResponse, Lose, n
    <2>. QED  BY <1>1, <2>1 DEF TypeOK, Unsent, Network
  <1>7. CASE LoseElection(s, p, i) \/ StepDown(s, p, i)
    <2>1. /\ net' = n
          /\ current_term' = [current_term EXCEPT ![s] = m.term]
          /\ voted_for' = [voted_for EXCEPT ![s] = None]
          /\ state' = [state EXCEPT ![s] = "follower"]
          /\ UNCHANGED <<disk_vote, current_leader, log, commit_idx, last_applied_idx, next_idx,
                         match_idx, votes_for_me, ballots, elected>>
      BY <1>7 DEF LoseElection, StepDown, n, m
    <2>. QED  BY <1>1, <1>3, <2>1 DEF TypeOK, Network
  <1>8. CASE RecvVote(s, p, i)
    <2>. DEFINE D == Peers(s) \cap Voters
                ae == AppendEntries(current_term[s], log[s], commit_idx[s], Len(log[s]) + 1)
                out == [q \in D |-> ae]
    <2>1. ae \in Message
      BY <1>2, AppendEntriesType
    <2>2. out \in [D -> Message] /\ D \in SUBSET Server
      BY <2>1 DEF Peers
    <2>3. net' = Send(n, s, out) \/ net' = n
      BY <1>8 DEF RecvVote, n
    <2>. HIDE DEF D, out
    <2>4. net' \in Network
      BY <1>1, <2>2, <2>3, SendProperties
    <2>5. votes_for_me' \in [Server -> SUBSET Server]
      BY <1>8 DEF RecvVote, TypeOK
    <2>6. \/ BecomeLeader(s)
          \/ UNCHANGED <<state, current_leader, elected, next_idx, match_idx>>
      BY <1>8 DEF RecvVote
    <2>7. /\ state' \in [Server -> {"follower", "candidate", "leader"}]
          /\ current_leader' \in [Server -> Server \cup {None}]
      <3>1. /\ state \in [Server -> {"follower", "candidate", "leader"}]
            /\ current_leader \in [Server -> Server \cup {None}]
        BY DEF TypeOK
      <3>2. CASE BecomeLeader(s)
        BY <3>1, <3>2 DEF BecomeLeader
      <3>3. CASE UNCHANGED <<state, current_leader>>
        BY <3>1, <3>3
      <3>. QED  BY <2>6, <3>2, <3>3
    <2>8. elected' \subseteq [term : Nat, leader : Server]
      <3>1. elected \subseteq [term : Nat, leader : Server]
        BY DEF TypeOK
      <3>2. elected' \subseteq elected \cup {[term |-> current_term[s], leader |-> s]}
        BY <2>6 DEF BecomeLeader
      <3>. QED  BY <1>2, <3>1, <3>2
    <2>9. /\ next_idx' \in [Server -> [Server -> Nat \ {0}]]
          /\ match_idx' \in [Server -> [Server -> Nat]]
      <3>1. /\ next_idx \in [Server -> [Server -> Nat \ {0}]]
            /\ match_idx \in [Server -> [Server -> Nat]]
        BY DEF TypeOK
      <3>2. CASE BecomeLeader(s)
        <4>1. /\ next_idx[s] \in [Server -> Nat \ {0}] /\ match_idx[s] \in [Server -> Nat]
              /\ Len(log[s]) + 1 \in Nat \ {0}
          BY <1>2, <3>1
        <4>2. /\ [q \in Server |-> IF q \in Peers(s) \cap Voters THEN Len(log[s]) + 1
                                     ELSE next_idx[s][q]] \in [Server -> Nat \ {0}]
              /\ [q \in Server |-> IF q \in Peers(s) \cap Voters THEN 0
                                     ELSE match_idx[s][q]] \in [Server -> Nat]
          BY <4>1
        <4>. QED  BY <3>1, <3>2, <4>2 DEF BecomeLeader
      <3>3. CASE UNCHANGED <<next_idx, match_idx>>
        BY <3>1, <3>3
      <3>. QED  BY <2>6, <3>2, <3>3
    <2>10. UNCHANGED <<current_term, voted_for, disk_vote, log, commit_idx, last_applied_idx, ballots>>
      BY <1>8 DEF RecvVote
    <2>. QED  BY <2>4, <2>5, <2>7, <2>8, <2>9, <2>10 DEF TypeOK, Network
  <1>9. CASE RefuseAppendEntries(s, p, i)
    <2>1. net' = SendTo(n, s, p, Response(SeenTerm(s, m.term), FALSE, Len(log[s])))
      BY <1>9 DEF RefuseAppendEntries, n, m
    <2>2. net' \in Network
      <3>1. Response(SeenTerm(s, m.term), FALSE, Len(log[s])) \in Message
        BY <1>2, <1>3, ResponseType
      <3>. DEFINE reply == Response(SeenTerm(s, m.term), FALSE, Len(log[s]))
      <3>2. net' = SendTo(n, s, p, reply) /\ reply \in Message
        BY <2>1, <3>1
      <3>. HIDE DEF reply
      <3>. QED  BY <1>1, <3>2, SendOne
    <2>3. /\ current_term' \in [Server -> Nat]
          /\ voted_for' \in [Server -> Server \cup {None}]
          /\ state' \in [Server -> {"follower", "candidate", "leader"}]
      <3>1. CASE UNCHANGED <<current_term, voted_for, state>>
        BY <3>1 DEF TypeOK
      <3>2. CASE m.type = "appendentries" /\ FollowSender(s, m.term)
        BY <1>4, <3>2
      <3>. QED  BY <1>9, <3>1, <3>2 DEF RefuseAppendEntries, m
    <2>4. UNCHANGED <<disk_vote, current_leader, log, commit_idx, last_applied_idx, next_idx,
                      match_idx, votes_for_me, ballots, elected>>
      BY <1>9 DEF RefuseAppendEntries
    <2>. QED  BY <2>2, <2>3, <2>4 DEF TypeOK, Network
  <1>10. CASE TruncateConflict(s, p, i)
    <2>1. /\ net' = SendTo(n, s, p, Response(SeenTerm(s, m.term), FALSE, m.prev_log_idx - 1))
          /\ m.type = "appendentries" /\ FollowSender(s, m.term)
          /\ m.prev_log_idx \in DOMAIN log[s]
          /\ log' = [log EXCEPT ![s] = SubSeq(log[s], 1, m.prev_log_idx - 1)]
      BY <1>10 DEF TruncateConflict, PrevDiffers, n, m
    <2>2. m.prev_log_idx - 1 \in 0 .. Len(log[s])
      BY <1>2, <2>1
    <2>3. net' \in Network
      <3>1. m.prev_log_idx - 1 \in Nat
        BY <1>2, <2>2
      <3>2. Response(SeenTerm(s, m.term), FALSE, m.prev_log_idx - 1) \in Message
        BY <1>3, <3>1, ResponseType
      <3>. DEFINE reply == Response(SeenTerm(s, m.term), FALSE, m.prev_log_idx - 1)
      <3>3. net' = SendTo(n, s, p, reply) /\ reply \in Message
        BY <2>1, <3>2
      <3>. HIDE DEF reply
      <3>. QED  BY <1>1, <3>3, SendOne
    <2>4. log' \in [Server -> Seq(Entry)]
      <3>1. SubSeq(log[s], 1, m.prev_log_idx - 1) \in Seq(Entry)
        BY <1>2, <2>2, PrefixType
      <3>. QED  BY <2>1, <3>1 DEF TypeOK
    <2>5. UNCHANGED <<disk_vote, current_leader, commit_idx, last_applied_idx, next_idx,
                      match_idx, votes_for_me, ballots, elected>>
      BY <1>10 DEF TruncateConflict
    <2>. QED  BY <1>4, <2>1, <2>3, <2>4, <2>5 DEF TypeOK, Network
  <1>11. CASE AcceptAppendEntries(s, p, i)
    <2>. DEFINE l == Merged(log[s], m)
    <2>1. /\ net' = SendTo(n, s, p, Response(SeenTerm(s, m.term), TRUE,
                                             m.prev_log_idx + Len(m.entries)))
          /\ m.type = "appendentries" /\ FollowSender(s, m.term) /\ ~PrevMissing(log[s], m)
          /\ log' = [log EXCEPT ![s] = l]
          /\ commit_idx' = [commit_idx EXCEPT ![s] =
                IF commit_idx[s] < m.leader_commit
                THEN MinOf(MaxOf(Len(l), 1), m.leader_commit) ELSE commit_idx[s]]
          /\ current_leader' = [current_leader EXCEPT ![s] = p]
      BY <1>11 DEF AcceptAppendEntries, Accepts, n, m
    <2>2. l \in Seq(Entry) /\ Len(l) \in Nat
      BY <1>1, <1>2, <2>1, MergedType, LenProperties
    <2>3. /\ m.prev_log_idx \in Nat /\ m.leader_commit \in Nat /\ m.entries \in Seq(Entry)
          /\ Len(m.entries) \in Nat
      BY <1>1, <2>1, MessageFields, LenProperties
    <2>4. net' \in Network
      <3>1. m.prev_log_idx + Len(m.entries) \in Nat
        BY <2>3
      <3>2. Response(SeenTerm(s, m.term), TRUE, m.prev_log_idx + Len(m.entries)) \in Message
        BY <1>3, <3>1, ResponseType
      <3>. DEFINE reply == Response(SeenTerm(s, m.term), TRUE, m.prev_log_idx + Len(m.entries))
      <3>3. net' = SendTo(n, s, p, reply) /\ reply \in Message
        BY <2>1, <3>2
      <3>. HIDE DEF reply
      <3>. QED  BY <1>1, <3>3, SendOne
    <2>. HIDE DEF l
    <2>5. log' \in [Server -> Seq(Entry)] /\ current_leader' \in [Server -> Server \cup {None}]
      BY <2>1, <2>2 DEF TypeOK
    <2>6. commit_idx' \in [Server -> Nat]
      <3>1. MinOf(MaxOf(Len(l), 1), m.leader_commit) \in Nat
        BY <2>2, <2>3 DEF MinOf, MaxOf
      <3>. QED  BY <2>1, <3>1 DEF TypeOK
    <2>7. UNCHANGED <<disk_vote, last_applied_idx, next_idx, match_idx, votes_for_me, ballots,
                      elected>>
      BY <1>11 DEF AcceptAppendEntries
    <2>. QED  BY <1>4, <2>1, <2>4, <2>5, <2>6, <2>7 DEF TypeOK, Network
  <1>12. CASE RetryAppendEntries(s, p, i)
    <2>. DEFINE back == IF m.current_idx < next_idx[s][p] - 1
                        THEN MinOf(m.current_idx + 1, Len(log[s])) ELSE next_idx[s][p] - 1
                next == MaxOf(back, 1)
    <2>1. /\ m.type = "appendentries_response"
          /\ next_idx' = [next_idx EXCEPT ![s][p] = next]
          /\ net' = SendTo(n, s, p, AppendEntries(current_term[s], log[s], commit_idx[s], next))
      BY <1>12 DEF RetryAppendEntries, Answers, n, m
    <2>2. m.current_idx \in Nat
      BY <1>1, <2>1, MessageFields
    <2>3. next \in Nat \ {0}
      BY <1>2, <2>2 DEF MinOf, MaxOf
    <2>. HIDE DEF next
    <2>4. net' \in Network
      <3>1. AppendEntries(current_term[s], log[s], commit_idx[s], next) \in Message
        BY <1>2, <2>3, AppendEntriesType
      <3>. QED  BY <1>1, <2>1, <3>1, SendOne
    <2>5. next_idx' \in [Server -> [Server -> Nat \ {0}]]
      BY <2>1, <2>3 DEF TypeOK
    <2>6. UNCHANGED <<current_term, voted_for, disk_vote, state, current_leader, log, commit_idx,
                      last_applied_idx, match_idx, votes_for_me, ballots, elected>>
      BY <1>12 DEF RetryAppendEntries
    <2>. QED  BY <2>4, <2>5, <2>6 DEF TypeOK, Network
  <1>13. CASE RecvAppended(s, p, i)
    <2>. DEFINE point == m.current_idx
                match == [match_idx[s] EXCEPT ![p] = point]
                commit == IF /\ Cardinality(Server) \div 2 < Cardinality(Replicas(s, match, point)) + 1
                             /\ commit_idx[s] < point
                          THEN point ELSE commit_idx[s]
    <2>1. /\ m.type = "appendentries_response"
          /\ next_idx' = [next_idx EXCEPT ![s][p] = point + 1]
          /\ match_idx' = [match_idx EXCEPT ![s] = match]
          /\ commit_idx' = [commit_idx EXCEPT ![s] = commit]
          /\ \/ net' = SendTo(n, s, p, AppendEntries(current_term[s], log[s], commit, point + 1))
             \/ net' = n
      BY <1>13 DEF RecvAppended, Answers, n, m
    <2>2. point \in Nat
      BY <1>1, <2>1, MessageFields
    <2>3. commit \in Nat
      BY <1>2, <2>2
    <2>. HIDE DEF commit, point
    <2>4. net' \in Network
      <3>1. point + 1 \in Nat \ {0}
        BY <2>2
      <3>2. AppendEntries(current_term[s], log[s], commit, point + 1) \in Message
        BY <1>2, <2>3, <3>1, AppendEntriesType
      <3>. QED  BY <1>1, <2>1, <3>2, SendOne
    <2>5. match \in [Server -> Nat]
      BY <2>2 DEF TypeOK
    <2>. HIDE DEF match
    <2>6. /\ next_idx' \in [Server -> [Server -> Nat \ {0}]]
          /\ match_idx' \in [Server -> [Server -> Nat]]
          /\ commit_idx' \in [Server -> Nat]
      <3>1. /\ next_idx \in [Server -> [Server -> Nat \ {0}]]
            /\ match_idx \in [Server -> [Server -> Nat]]
            /\ commit_idx \in [Server -> Nat]
        BY DEF TypeOK
      <3>2. point + 1 \in Nat \ {0}
        BY <2>2
      <3>. QED  BY <2>1, <2>3, <2>5, <3>1, <3>2
    <2>7. UNCHANGED <<current_term, voted_for, disk_vote, state, current_leader, log,
                      last_applied_idx, votes_for_me, ballots, elected>>
      BY <1>13 DEF RecvAppended
    <2>. QED  BY <2>4, <2>6, <2>7 DEF TypeOK, Network
  <1>14. CASE CrashInRequestVote(s, p, i)
    <2>1. /\ current_term' = [current_term EXCEPT ![s] = m.term]
          /\ Reload(s) /\ net' = n /\ log' = log
      BY <1>14 DEF CrashInRequestVote, n, m
    <2>2. current_term' \in [Server -> Nat] /\ log' \in [Server -> Seq(Entry)]
      BY <1>3, <2>1 DEF TypeOK
    <2>. QED  BY <1>1, <2>1, <2>2, ReloadType
  <1>15. CASE CrashInAppendEntries(s, p, i)
    <2>. DEFINE after == Merged(log[s], m)
                kept == KeptLen(log[s], m)
    <2>1. /\ current_term' = [current_term EXCEPT ![s] = SeenTerm(s, m.term)]
          /\ m.type = "appendentries" /\ ~PrevMissing(log[s], m)
          /\ Reload(s) /\ net' = n
          /\ \/ \E k \in kept .. Len(log[s]) : log' = [log EXCEPT ![s] = SubSeq(log[s], 1, k)]
             \/ \E k \in kept .. Len(after) : log' = [log EXCEPT ![s] = SubSeq(after, 1, k)]
      BY <1>15 DEF CrashInAppendEntries, Accepts, n, m
    <2>2. after \in Seq(Entry) /\ Len(after) \in Nat /\ kept \in Nat
      <3>1. m.prev_log_idx \in Nat
        BY <1>1, <2>1, MessageFields
      <3>. QED  BY <1>1, <1>2, <2>1, <3>1, MergedType, KeptLenBounds, LenProperties
    <2>. HIDE DEF after, kept
    <2>3. log' \in [Server -> Seq(Entry)]
      <3>1. /\ \A k \in kept .. Len(log[s]) : SubSeq(log[s], 1, k) \in Seq(Entry)
            /\ \A k \in kept .. Len(after) : SubSeq(after, 1, k) \in Seq(Entry)
        BY <1>2, <2>2, PrefixType
      <3>2. log \in [Server -> Seq(Entry)]
        BY DEF TypeOK
      <3>3. PICK l \in Seq(Entry) : log' = [log EXCEPT ![s] = l]
        BY <2>1, <3>1
      <3>. QED  BY <3>2, <3>3
    <2>4. current_term' \in [Server -> Nat]
      BY <1>3, <2>1 DEF TypeOK
    <2>. QED  BY <1>1, <2>1, <2>3, <2>4, ReloadType
  <1>16. CASE Duplicate(p, s, i)
    <2>1. net' = SendTo(net, p, s, m) /\ UNCHANGED Unsent
      BY <1>16 DEF Duplicate, m
    <2>2. net' \in Network
      BY <1>1, <2>1, SendOne
    <2>. QED  BY <2>1, <2>2 DEF TypeOK, Unsent, Network
  <1>. QED  BY <1>5, <1>6, <1>7, <1>8, <1>9, <1>10, <1>11, <1>12, <1>13, <1>14, <1>15, <1>16 DEF Receive

\* Type correctness: every variable keeps the type raft_private.h gives it.
THEOREM TypeCorrect == Spec => []TypeOK
  <1>1. TypeOK /\ [Next]_vars => TypeOK'
    <2>. SUFFICES ASSUME TypeOK, [Next]_vars PROVE TypeOK'
      OBVIOUS
    <2>1. CASE UNCHANGED vars
      BY <2>1 DEF vars, TypeOK
    <2>2. CASE Next
      BY <2>2, TypeOwnSteps, TypeReceive DEF Next
    <2>. QED  BY <2>1, <2>2
  <1>. QED  BY <1>1, TypeInit, PTL DEF Spec

-----------------------------------------------------------------------------
(* At most one leader in a term. *)

\* The step puts no granted vote under way.
NoNewVotes ==
    \A x, y \in Server : \A m \in InFlight(net', x, y) :
        m.type = "requestvote_response" /\ m.vote_granted => m \in InFlight(net, x, y)

\* What the votes depend on.
electionVars == <<current_term, voted_for, disk_vote, state, votes_for_me, ballots, elected>>

LEMMA ElectionUntouched ==
    ASSUME ElectionInv, UNCHANGED electionVars, NoNewVotes
    PROVE  ElectionInv'
  <1>1. VotesGiven'
    BY DEF ElectionInv, VotesGiven, electionVars, NoNewVotes, BallotOf
  <1>2. CurrentVotes' /\ OneVotePerTerm'
    BY DEF ElectionInv, CurrentVotes, OneVotePerTerm, electionVars
  <1>3. LeadersElected'
    BY DEF ElectionInv, LeadersElected, electionVars, IsMajority, BallotOf
  <1>. QED  BY <1>1, <1>2, <1>3 DEF ElectionInv

\* s becomes (or stays) a follower: in a later term with any vote in memory, or in its term
\* after a crash with the vote of its disk, or as a candidate that forgets its vote.
Demoted(s) ==
    \E term \in Nat, vote \in Server \cup {None} :
        /\ current_term' = [current_term EXCEPT ![s] = term]
        /\ voted_for' = [voted_for EXCEPT ![s] = vote]
        /\ state' = [state EXCEPT ![s] = "follower"]
        /\ \/ current_term[s] < term
           \/ term = current_term[s] /\ vote = disk_vote[s]
           \/ term = current_term[s] /\ vote = None /\ state[s] = "candidate"
        /\ \A c \in Server \ {s} : votes_for_me'[c] = votes_for_me[c]
        /\ UNCHANGED <<disk_vote, ballots, elected>>

LEMMA ElectionDemoted ==
    ASSUME TypeOK, ElectionInv, NEW s \in Server, Demoted(s), NoNewVotes
    PROVE  ElectionInv'
  <1>1. PICK term \in Nat, vote \in Server \cup {None} :
        /\ current_term' = [current_term EXCEPT ![s] = term]
        /\ voted_for' = [voted_for EXCEPT ![s] = vote]
        /\ state' = [state EXCEPT ![s] = "follower"]
        /\ \/ current_term[s] < term
           \/ term = current_term[s] /\ vote = disk_vote[s]
           \/ term = current_term[s] /\ vote = None /\ state[s] = "candidate"
        /\ \A c \in Server \ {s} : votes_for_me'[c] = votes_for_me[c]
        /\ UNCHANGED <<disk_vote, ballots, elected>>
    BY DEF Demoted
  <1>2. /\ current_term'[s] = term /\ voted_for'[s] = vote /\ state'[s] = "follower"
        /\ \A c \in Server \ {s} : /\ current_term'[c] = current_term[c]
                                    /\ voted_for'[c] = voted_for[c]
                                    /\ state'[c] = state[c]
    BY <1>1 DEF TypeOK
  <1>3. current_term[s] \in Nat /\ current_term[s] <= term
    BY <1>1 DEF TypeOK
  <1>4. /\ ballots \subseteq [term : Nat, voter : Server, candidate : Server]
        /\ elected \subseteq [term : Nat, leader : Server]
    BY DEF TypeOK
  <1>5. VotesGiven'
    <2>1. \A p, c \in Server : \A m \in InFlight(net', p, c) :
             m.type = "requestvote_response" /\ m.vote_granted
                => BallotOf(m.term, p, c) \in ballots'
      BY <1>1 DEF ElectionInv, VotesGiven, NoNewVotes
    <2>2. \A c \in Server : state'[c] # "follower" =>
             /\ voted_for'[c] = c /\ disk_vote'[c] = c
             /\ \A v \in votes_for_me'[c] \cup {c} : BallotOf(current_term'[c], v, c) \in ballots'
      BY <1>1, <1>2 DEF ElectionInv, VotesGiven
    <2>. QED  BY <2>1, <2>2 DEF VotesGiven, BallotOf
  <1>6. CurrentVotes'
    <2>1. ASSUME NEW b \in ballots
          PROVE  /\ b.term <= current_term'[b.voter]
                 /\ b.term = current_term'[b.voter]
                       => /\ b.candidate \in {b.voter, voted_for'[b.voter]}
                          /\ b.candidate \in {b.voter, disk_vote[b.voter]}
      <3>1. b.term \in Nat /\ b.voter \in Server
        BY <1>4
      <3>2. /\ b.term <= current_term[b.voter]
            /\ b.term = current_term[b.voter]
                  => /\ b.candidate \in {b.voter, voted_for[b.voter]}
                     /\ b.candidate \in {b.voter, disk_vote[b.voter]}
        BY DEF ElectionInv, CurrentVotes
      <3>3. CASE b.voter = s
        <4>1. state[s] = "candidate" => voted_for[s] = s
          BY DEF ElectionInv, VotesGiven
        <4>. QED  BY <1>1, <1>2, <1>3, <3>1, <3>2, <3>3, <4>1
      <3>4. CASE b.voter # s
        BY <1>2, <3>1, <3>2, <3>4
      <3>. QED  BY <3>3, <3>4
    <2>. QED  BY <1>1, <2>1 DEF CurrentVotes
  <1>7. LeadersElected'
    <2>1. ASSUME NEW e \in elected
          PROVE  /\ e.term <= current_term'[e.leader]
                 /\ e.term = current_term'[e.leader]
                       => /\ state'[e.leader] # "candidate"
                          /\ voted_for'[e.leader] = e.leader /\ disk_vote[e.leader] = e.leader
      <3>1. e.term \in Nat /\ e.leader \in Server
        BY <1>4
      <3>2. /\ e.term <= current_term[e.leader]
            /\ e.term = current_term[e.leader]
                  => /\ state[e.leader] # "candidate"
                     /\ voted_for[e.leader] = e.leader /\ disk_vote[e.leader] = e.leader
        BY DEF ElectionInv, LeadersElected
      <3>. QED  BY <1>1, <1>2, <1>3, <3>1, <3>2
    <2>2. \A e \in elected :
             /\ \A b \in ballots : b.term = e.term /\ b.voter = e.leader => b.candidate = e.leader
             /\ \E Q \in SUBSET Server : IsMajority(Cardinality(Q))
                   /\ \A v \in Q : BallotOf(e.term, v, e.leader) \in ballots
      BY DEF ElectionInv, LeadersElected
    <2>. QED  BY <1>1, <2>1, <2>2 DEF LeadersElected, IsMajority, BallotOf
  <1>8. OneVotePerTerm'
    BY <1>1 DEF ElectionInv, OneVotePerTerm
  <1>. QED  BY <1>5, <1>6, <1>7, <1>8 DEF ElectionInv

\* s gives a vote to c in a term of its own or a later one: to itself as it becomes a
\* candidate, or to another one as a follower that has no vote in its term.
VotedFor(s, c, term) ==
    /\ current_term' = [current_term EXCEPT ![s] = term]
    /\ voted_for' = [voted_for EXCEPT ![s] = c]
    /\ disk_vote' = [disk_vote EXCEPT ![s] = c]
    /\ ballots' = ballots \cup {BallotOf(term, s, c)}
    /\ \/ current_term[s] < term /\ state' = [state EXCEPT ![s] = "follower"]
       \/ /\ current_term[s] < term /\ state' = [state EXCEPT ![s] = "candidate"]
          /\ c = s /\ votes_for_me'[s] = {}
       \/ current_term[s] = term /\ voted_for[s] = None /\ UNCHANGED state
    /\ \A d \in Server \ {s} : votes_for_me'[d] = votes_for_me[d]
    /\ UNCHANGED elected

LEMMA ElectionVoted ==
    ASSUME TypeOK, ElectionInv, NEW s \in Server, NEW c \in Server, NEW term \in Nat,
           VotedFor(s, c, term),
           \A x, y \in Server : \A m \in InFlight(net', x, y) :
              m.type = "requestvote_response" /\ m.vote_granted
                 => m \in InFlight(net, x, y) \/ (x = s /\ y = c /\ m.term = term)
    PROVE  ElectionInv'
  <1>1. /\ current_term'[s] = term /\ voted_for'[s] = c /\ disk_vote'[s] = c
        /\ \A d \in Server \ {s} : /\ current_term'[d] = current_term[d]
                                    /\ voted_for'[d] = voted_for[d]
                                    /\ disk_vote'[d] = disk_vote[d]
                                    /\ state'[d] = state[d]
    BY DEF VotedFor, TypeOK
  <1>2. /\ current_term[s] \in Nat /\ current_term[s] <= term
        /\ current_term[s] = term => voted_for[s] = None /\ state'[s] = state[s]
        /\ current_term[s] < term =>
              state'[s] = "follower" \/ (c = s /\ votes_for_me'[s] = {})
    <2>1. /\ current_term \in [Server -> Nat] /\ voted_for[s] \in Server \cup {None}
          /\ state \in [Server -> {"follower", "candidate", "leader"}]
          /\ votes_for_me \in [Server -> SUBSET Server]
      BY DEF TypeOK
    <2>. QED  BY <2>1 DEF VotedFor
  <1>3. ballots' = ballots \cup {BallotOf(term, s, c)} /\ elected' = elected
    BY DEF VotedFor
  <1>4. /\ ballots \subseteq [term : Nat, voter : Server, candidate : Server]
        /\ elected \subseteq [term : Nat, leader : Server]
    BY DEF TypeOK
  <1>5. current_term[s] = term => state[s] = "follower"
    BY <1>2, ConstantsAssumption DEF ElectionInv, VotesGiven, TypeOK
  <1>6. \A b \in ballots : b.voter = s /\ b.term = term => b.candidate = s
    <2>. TAKE b \in ballots
    <2>1. b.term \in Nat /\ b.voter \in Server /\ b.candidate \in Server
      BY <1>4
    <2>2. /\ b.term <= current_term[b.voter]
          /\ b.term = current_term[b.voter] => b.candidate \in {b.voter, voted_for[b.voter]}
      BY DEF ElectionInv, CurrentVotes
    <2>. QED  BY <1>2, <2>1, <2>2, ConstantsAssumption
  <1>7. VotesGiven'
    <2>1. \A p, d \in Server : \A m \in InFlight(net', p, d) :
             m.type = "requestvote_response" /\ m.vote_granted
                => BallotOf(m.term, p, d) \in ballots'
      BY <1>3 DEF ElectionInv, VotesGiven
    <2>2. ASSUME NEW d \in Server, state'[d] # "follower"
          PROVE  /\ voted_for'[d] = d /\ disk_vote'[d] = d
                 /\ \A v \in votes_for_me'[d] \cup {d} : BallotOf(current_term'[d], v, d) \in ballots'
      <3>1. CASE d = s
        <4>1. c = s /\ votes_for_me'[s] = {}
          BY <1>2, <1>5, <2>2, <3>1
        <4>. QED  BY <1>1, <1>3, <3>1, <4>1
      <3>2. CASE d # s
        <4>1. /\ state[d] # "follower" /\ votes_for_me'[d] = votes_for_me[d]
              /\ current_term'[d] = current_term[d]
              /\ voted_for'[d] = voted_for[d] /\ disk_vote'[d] = disk_vote[d]
          BY <1>1, <2>2, <3>2 DEF VotedFor
        <4>. QED  BY <1>3, <4>1 DEF ElectionInv, VotesGiven
      <3>. QED  BY <3>1, <3>2
    <2>. QED  BY <2>1, <2>2 DEF VotesGiven, BallotOf
  <1>8. CurrentVotes'
    <2>1. ASSUME NEW b \in ballots'
          PROVE  /\ b.term <= current_term'[b.voter]
                 /\ b.term = current_term'[b.voter]
                       => /\ b.candidate \in {b.voter, voted_for'[b.voter]}
                          /\ b.candidate \in {b.voter, disk_vote'[b.voter]}
      <3>1. CASE b = BallotOf(term, s, c)
        BY <1>1, <3>1 DEF BallotOf
      <3>2. CASE b \in ballots
        <4>1. b.term \in Nat /\ b.voter \in Server
          BY <1>4, <3>2
        <4>2. /\ b.term <= current_term[b.voter]
              /\ b.term = current_term[b.voter]
                    => /\ b.candidate \in {b.voter, voted_for[b.voter]}
                       /\ b.candidate \in {b.voter, disk_vote[b.voter]}
          BY <3>2 DEF ElectionInv, CurrentVotes
        <4>3. CASE b.voter = s
          BY <1>1, <1>2, <1>6, <3>2, <4>1, <4>2, <4>3
        <4>4. CASE b.voter # s
          BY <1>1, <4>1, <4>2, <4>4
        <4>. QED  BY <4>3, <4>4
      <3>. QED  BY <1>3, <3>1, <3>2
    <2>. QED  BY <2>1 DEF CurrentVotes
  <1>9. LeadersElected'
    <2>1. ASSUME NEW e \in elected
          PROVE  /\ e.term <= current_term'[e.leader]
                 /\ e.term = current_term'[e.leader]
                       => /\ state'[e.leader] # "candidate"
                          /\ voted_for'[e.leader] = e.leader /\ disk_vote'[e.leader] = e.leader
                 /\ \A b \in ballots' : b.term = e.term /\ b.voter = e.leader
                       => b.candidate = e.leader
      <3>1. e.term \in Nat /\ e.leader \in Server
        BY <1>4
      <3>2. /\ e.term <= current_term[e.leader]
            /\ e.term = current_term[e.leader]
                  => /\ state[e.leader] # "candidate"
                     /\ voted_for[e.leader] = e.leader /\ disk_vote[e.leader] = e.leader
            /\ \A b \in ballots : b.term = e.term /\ b.voter = e.leader => b.candidate = e.leader
        BY DEF ElectionInv, LeadersElected
      <3>3. e.leader = s => e.term < term
        BY <1>2, <3>1, <3>2, ConstantsAssumption
      <3>4. /\ e.term <= current_term'[e.leader]
            /\ e.term = current_term'[e.leader]
                  => /\ state'[e.leader] # "candidate"
                     /\ voted_for'[e.leader] = e.leader /\ disk_vote'[e.leader] = e.leader
        BY <1>1, <1>2, <3>1, <3>2, <3>3
      <3>5. \A b \in ballots' : b.term = e.term /\ b.voter = e.leader => b.candidate = e.leader
        BY <1>3, <3>1, <3>2, <3>3 DEF BallotOf
      <3>. QED  BY <3>4, <3>5
    <2>2. \A e \in elected : \E Q \in SUBSET Server : IsMajority(Cardinality(Q))
                   /\ \A v \in Q : BallotOf(e.term, v, e.leader) \in ballots'
      BY <1>3 DEF ElectionInv, LeadersElected
    <2>. QED  BY <1>3, <2>1, <2>2 DEF LeadersElected, IsMajority, BallotOf
  <1>10. OneVotePerTerm'
    BY <1>3, <1>6 DEF ElectionInv, OneVotePerTerm, BallotOf
  <1>. QED  BY <1>7, <1>8, <1>9, <1>10 DEF ElectionInv

\* A candidate with a majority of votes becomes the leader of its term.
LEMMA ElectionWon ==
    ASSUME TypeOK, ElectionInv, NEW s \in Server, NEW p \in Server,
           state[s] = "candidate", BallotOf(current_term[s], p, s) \in ballots,
           votes_for_me' = [votes_for_me EXCEPT ![s] = votes_for_me[s] \cup {p}],
           \/ UNCHANGED <<state, elected>>
           \/ /\ IsMajority(NVotesForMe(s, votes_for_me[s] \cup {p}))
              /\ state' = [state EXCEPT ![s] = "leader"]
              /\ elected' = elected \cup {[term |-> current_term[s], leader |-> s]},
           UNCHANGED <<current_term, voted_for, disk_vote, ballots>>, NoNewVotes
    PROVE  ElectionInv'
  <1>. DEFINE flagged == votes_for_me[s] \cup {p}
              Q == ((flagged \cap Voters) \ {s}) \cup {s}
              won == [term |-> current_term[s], leader |-> s]
  <1>1. /\ voted_for[s] = s /\ disk_vote[s] = s
        /\ \A v \in flagged \cup {s} : BallotOf(current_term[s], v, s) \in ballots
    BY DEF ElectionInv, VotesGiven
  <1>2. /\ state'[s] # "follower" /\ \A d \in Server \ {s} : state'[d] = state[d]
        /\ votes_for_me'[s] = flagged
        /\ \A d \in Server \ {s} : votes_for_me'[d] = votes_for_me[d]
    BY DEF TypeOK
  <1>3. VotesGiven'
    <2>1. \A x, d \in Server : \A m \in InFlight(net', x, d) :
             m.type = "requestvote_response" /\ m.vote_granted
                => BallotOf(m.term, x, d) \in ballots'
      BY DEF ElectionInv, VotesGiven, NoNewVotes
    <2>2. \A d \in Server : state'[d] # "follower" =>
             /\ voted_for'[d] = d /\ disk_vote'[d] = d
             /\ \A v \in votes_for_me'[d] \cup {d} : BallotOf(current_term'[d], v, d) \in ballots'
      BY <1>1, <1>2 DEF ElectionInv, VotesGiven
    <2>. QED  BY <2>1, <2>2 DEF VotesGiven, BallotOf
  <1>4. CurrentVotes' /\ OneVotePerTerm'
    BY DEF ElectionInv, CurrentVotes, OneVotePerTerm
  <1>5. LeadersElected'
    <2>1. ASSUME NEW e \in elected
          PROVE  /\ e.term <= current_term[e.leader]
                 /\ e.term = current_term[e.leader]
                       => /\ state'[e.leader] # "candidate"
                          /\ voted_for[e.leader] = e.leader /\ disk_vote[e.leader] = e.leader
                 /\ \A b \in ballots : b.term = e.term /\ b.voter = e.leader
                       => b.candidate = e.leader
                 /\ \E R \in SUBSET Server : IsMajority(Cardinality(R))
                       /\ \A v \in R : BallotOf(e.term, v, e.leader) \in ballots
      <3>1. e.leader \in Server
        BY DEF TypeOK
      <3>2. e.term = current_term[e.leader] => e.leader # s
        BY DEF ElectionInv, LeadersElected
      <3>. QED  BY <1>2, <3>1, <3>2 DEF ElectionInv, LeadersElected
    <2>2. ASSUME elected' # elected
          PROVE  /\ won.term <= current_term[won.leader]
                 /\ state'[won.leader] # "candidate"
                 /\ voted_for[won.leader] = won.leader /\ disk_vote[won.leader] = won.leader
                 /\ \A b \in ballots : b.term = won.term /\ b.voter = won.leader
                       => b.candidate = won.leader
                 /\ \E R \in SUBSET Server : IsMajority(Cardinality(R))
                       /\ \A v \in R : BallotOf(won.term, v, won.leader) \in ballots
      <3>1. won.term = current_term[s] /\ won.leader = s /\ current_term[s] \in Nat
        BY DEF TypeOK
      <3>2. state'[s] = "leader" /\ IsMajority(NVotesForMe(s, flagged))
        BY <2>2 DEF TypeOK
      <3>3. \A b \in ballots : b.term = current_term[s] /\ b.voter = s => b.candidate = s
        BY <1>1 DEF ElectionInv, CurrentVotes
      <3>4. Q \in SUBSET Server
        BY ConstantsAssumption DEF TypeOK
      <3>5. Cardinality(Q) = NVotesForMe(s, flagged)
        <4>. DEFINE P == (flagged \cap Voters) \ {s}
        <4>1. P \in SUBSET Server
          BY ConstantsAssumption
        <4>2. IsFiniteSet(P) /\ s \notin P
          BY <4>1, ConstantsAssumption, FS_Subset
        <4>3. Cardinality(P \cup {s}) = Cardinality(P) + 1
          BY <4>2, FS_AddElement
        <4>. QED  BY <1>1, <4>3 DEF NVotesForMe
      <3>6. \A v \in Q : BallotOf(current_term[s], v, s) \in ballots
        BY <1>1
      <3>. QED  BY <1>1, <3>1, <3>2, <3>3, <3>4, <3>5, <3>6
    <2>3. elected' \subseteq elected \cup {won}
      OBVIOUS
    <2>. QED  BY <2>1, <2>2, <2>3 DEF LeadersElected, IsMajority, BallotOf
  <1>. QED  BY <1>3, <1>4, <1>5 DEF ElectionInv

\* Sending anything but vote responses is no new vote.
LEMMA SendNoVotes ==
    ASSUME NEW n \in Network, NEW s \in Server, NEW D \in SUBSET Server, NEW out \in [D -> Message],
           \A q \in D : out[q].type # "requestvote_response",
           \A x, y \in Server : InFlight(n, x, y) \subseteq InFlight(net, x, y),
           net' = Send(n, s, out)
    PROVE  NoNewVotes
  <1>1. \A x, y \in Server :
           InFlight(net', x, y) \subseteq
              InFlight(n, x, y) \cup {out[q] : q \in {q \in D : x = s /\ q = y}}
    BY SendProperties
  <1>. QED  BY <1>1 DEF NoNewVotes

LEMMA SendOneNoVotes ==
    ASSUME NEW n \in Network, NEW s \in Server, NEW p \in Server, NEW m \in Message,
           m.type # "requestvote_response" \/ m \in InFlight(net, s, p),
           \A x, y \in Server : InFlight(n, x, y) \subseteq InFlight(net, x, y),
           net' = SendTo(n, s, p, m)
    PROVE  NoNewVotes
  <1>1. \A x, y \in Server : InFlight(net', x, y)
                    \subseteq InFlight(n, x, y) \cup (IF x = s /\ y = p THEN {m} ELSE {})
    BY SendOne
  <1>. QED  BY <1>1 DEF NoNewVotes

LEMMA ElectionOwnSteps ==
    ASSUME TypeOK, ElectionInv, NEW s \in Server,
           \/ PeriodicIdle(s) \/ PeriodicHeartbeat(s) \/ PeriodicElection(s)
           \/ Restart(s) \/ CrashInElection(s)
           \/ \E id \in Ids : RecvEntry(s, id)
    PROVE  ElectionInv'
  <1>. USE ConstantsAssumption
  <1>1. /\ net \in Network /\ log[s] \in Seq(Entry) /\ Len(log[s]) \in Nat
        /\ current_term[s] \in Nat /\ commit_idx[s] \in Nat
        /\ \A q \in Server : next_idx[s][q] \in Nat \ {0}
    BY LenProperties DEF TypeOK, Network
  <1>2. CASE PeriodicIdle(s)
    <2>1. UNCHANGED electionVars /\ NoNewVotes
      BY <1>2 DEF PeriodicIdle, electionVars, NoNewVotes
    <2>. QED  BY <2>1, ElectionUntouched
  <1>3. CASE PeriodicHeartbeat(s)
    <2>. DEFINE out == [q \in Peers(s) |->
                 AppendEntries(current_term[s], log[s], commit_idx[s], next_idx[s][q])]
    <2>1. \A q \in Peers(s) :
             AppendEntries(current_term[s], log[s], commit_idx[s], next_idx[s][q]) \in Message
      BY <1>1, AppendEntriesType DEF Peers
    <2>2. /\ out \in [Peers(s) -> Message] /\ Peers(s) \in SUBSET Server
          /\ \A q \in Peers(s) : out[q].type # "requestvote_response"
      BY <2>1 DEF Peers, AppendEntries
    <2>3. net' = Send(net, s, out) /\ UNCHANGED electionVars
      BY <1>3 DEF PeriodicHeartbeat, electionVars
    <2>. HIDE DEF out
    <2>4. NoNewVotes
      BY <1>1, <2>2, <2>3, SendNoVotes
    <2>. QED  BY <2>3, <2>4, ElectionUntouched
  <1>4. CASE PeriodicElection(s)
    <2>. DEFINE D == Peers(s) \cap Voters
                rv == RequestVote(current_term[s] + 1, log[s])
                out == [q \in D |-> rv]
    <2>1. rv \in Message /\ rv.type # "requestvote_response"
      <3>1. current_term[s] + 1 \in Nat
        BY <1>1
      <3>2. rv \in Message
        BY <1>1, <3>1, RequestVoteType
      <3>. QED  BY <3>2 DEF RequestVote
    <2>2. /\ out \in [D -> Message] /\ D \in SUBSET Server
          /\ \A q \in D : out[q].type # "requestvote_response"
      BY <2>1 DEF Peers
    <2>3. net' = Send(net, s, out)
      BY <1>4 DEF PeriodicElection
    <2>. HIDE DEF out, D
    <2>4. NoNewVotes
      BY <1>1, <2>2, <2>3, SendNoVotes
    <2>5. VotedFor(s, s, current_term[s] + 1)
      BY <1>1, <1>4 DEF PeriodicElection, VotedFor, BallotOf, TypeOK
    <2>6. current_term[s] + 1 \in Nat
      BY <1>1
    <2>. QED  BY <2>4, <2>5, <2>6, ElectionVoted DEF NoNewVotes
  <1>5. CASE Restart(s)
    <2>1. NoNewVotes
      BY <1>5 DEF Restart, NoNewVotes
    <2>2. Demoted(s)
      <3>1. current_term' = [current_term EXCEPT ![s] = current_term[s]]
        BY <1>5 DEF Restart, TypeOK
      <3>2. disk_vote[s] \in Server \cup {None}
        BY DEF TypeOK
      <3>. QED  BY <1>1, <1>5, <3>1, <3>2 DEF Restart, Reload, Demoted, TypeOK
    <2>. QED  BY <2>1, <2>2, ElectionDemoted
  <1>6. CASE CrashInElection(s)
    <2>1. NoNewVotes
      BY <1>6 DEF CrashInElection, NoNewVotes
    <2>2. Demoted(s)
      <3>1. disk_vote[s] \in Server \cup {None}
        BY DEF TypeOK
      <3>2. current_term[s] + 1 \in Nat /\ current_term[s] < current_term[s] + 1
        BY <1>1
      <3>. QED  BY <1>6, <3>1, <3>2 DEF CrashInElection, Reload, Demoted, TypeOK
    <2>. QED  BY <2>1, <2>2, ElectionDemoted
  <1>7. ASSUME NEW id \in Ids, RecvEntry(s, id)
        PROVE  ElectionInv'
    <2>. DEFINE l == IF id = 0 THEN log[s]
                     ELSE Append(log[s], [term |-> current_term[s], id |-> id])
                D == {q \in Peers(s) \cap Voters : next_idx[s][q] = Len(l)}
                out == [q \in D |->
                          AppendEntries(current_term[s], l, commit_idx[s], next_idx[s][q])]
    <2>1. l \in Seq(Entry)
      <3>1. id # 0 => [term |-> current_term[s], id |-> id] \in Entry
        BY <1>1 DEF Entry
      <3>. QED  BY <1>1, <3>1, AppendProperties
    <2>2. net' = Send(net, s, out) /\ UNCHANGED electionVars
      BY <1>7 DEF RecvEntry, electionVars
    <2>. HIDE DEF l
    <2>3. D \in SUBSET Server
      BY DEF Peers
    <2>4. \A q \in D : AppendEntries(current_term[s], l, commit_idx[s], next_idx[s][q]) \in Message
      BY <1>1, <2>1, <2>3, AppendEntriesType
    <2>5. out \in [D -> Message] /\ \A q \in D : out[q].type # "requestvote_response"
      BY <2>4 DEF AppendEntries
    <2>. HIDE DEF out, D
    <2>6. NoNewVotes
      BY <1>1, <2>2, <2>3, <2>5, SendNoVotes
    <2>. QED  BY <2>2, <2>6, ElectionUntouched
  <1>. QED  BY <1>2, <1>3, <1>4, <1>5, <1>6, <1>7

LEMMA ElectionReceive ==
    ASSUME TypeOK, ElectionInv, NEW s \in Server, NEW p \in Server, NEW i \in DOMAIN net[p][s],
           Receive(s, p, i)
    PROVE  ElectionInv'
  <1>. DEFINE m == net[p][s][i]
              n == Take(net, p, s, i)
  <1>. USE ConstantsAssumption
  <1>1. /\ m \in Message /\ m \in InFlight(net, p, s) /\ n \in Network /\ net \in Network
        /\ \A x, y \in Server : InFlight(n, x, y) \subseteq InFlight(net, x, y)
    BY Delivered, TakeProperties DEF TypeOK, Network
  <1>2. /\ log[s] \in Seq(Entry) /\ Len(log[s]) \in Nat
        /\ current_term[s] \in Nat /\ commit_idx[s] \in Nat /\ next_idx[s][p] \in Nat \ {0}
        /\ voted_for[s] \in Server \cup {None} /\ disk_vote[s] \in Server \cup {None}
    <2>1. log[s] \in Seq(Entry)
      BY DEF TypeOK
    <2>2. next_idx[s][p] \in Nat \ {0}
      BY DEF TypeOK
    <2>3. /\ current_term[s] \in Nat /\ commit_idx[s] \in Nat
          /\ voted_for[s] \in Server \cup {None} /\ disk_vote[s] \in Server \cup {None}
      BY DEF TypeOK
    <2>. QED  BY <2>1, <2>2, <2>3, LenProperties
  <1>3. m.term \in Nat /\ SeenTerm(s, m.term) \in Nat
    BY <1>1, <1>2, MessageFields DEF SeenTerm, MaxOf
  <1>. HIDE DEF n, m
  <1>4. ASSUME net' = n PROVE NoNewVotes
    BY <1>1, <1>4 DEF NoNewVotes
  <1>5. ASSUME NEW success, NEW idx, net' = SendTo(n, s, p, Response(SeenTerm(s, m.term), success, idx)),
               success \in BOOLEAN, idx \in Nat
        PROVE  NoNewVotes
    <2>. DEFINE reply == Response(SeenTerm(s, m.term), success, idx)
    <2>1. reply \in Message /\ reply.type # "requestvote_response"
      BY <1>3, <1>5, ResponseType DEF Response
    <2>. HIDE DEF reply
    <2>. QED  BY <1>1, <1>5, <2>1, SendOneNoVotes DEF reply
  <1>6. ASSUME m.type = "appendentries", m.term >= current_term[s], FollowSender(s, m.term),
               UNCHANGED <<disk_vote, votes_for_me, ballots, elected>>, NoNewVotes
        PROVE  ElectionInv'
    <2>1. CASE Follows(s, m.term)
      <3>1. /\ SeenTerm(s, m.term) = m.term
            /\ current_term[s] < m.term \/ (m.term = current_term[s] /\ state[s] = "candidate")
        BY <1>2, <1>3, <1>6, <2>1 DEF Follows, SeenTerm, MaxOf
      <3>2. /\ current_term' = [current_term EXCEPT ![s] = m.term]
            /\ voted_for' = [voted_for EXCEPT ![s] = None]
            /\ state' = [state EXCEPT ![s] = "follower"]
        BY <1>6, <2>1, <3>1 DEF FollowSender
      <3>3. Demoted(s)
        BY <1>3, <1>6, <3>1, <3>2 DEF Demoted
      <3>. QED  BY <1>6, <3>3, ElectionDemoted
    <2>2. CASE ~Follows(s, m.term)
      <3>1. SeenTerm(s, m.term) = current_term[s]
        BY <1>2, <1>3, <1>6, <2>2 DEF Follows, SeenTerm, MaxOf
      <3>2. UNCHANGED electionVars
        BY <1>6, <2>2, <3>1 DEF FollowSender, electionVars, TypeOK
      <3>. QED  BY <1>6, <3>2, ElectionUntouched
    <2>. QED  BY <2>1, <2>2
  <1>7. ASSUME NEW term \in Nat, current_term' = [current_term EXCEPT ![s] = term],
               current_term[s] <= term, Reload(s), net' = n
        PROVE  ElectionInv'
    <2>1. /\ voted_for' = [voted_for EXCEPT ![s] = disk_vote[s]]
          /\ state' = [state EXCEPT ![s] = "follower"]
          /\ votes_for_me' = [votes_for_me EXCEPT ![s] = {}]
          /\ UNCHANGED <<disk_vote, ballots, elected>>
      BY <1>7 DEF Reload
    <2>2. \A c \in Server \ {s} : votes_for_me'[c] = votes_for_me[c]
      BY <2>1 DEF TypeOK
    <2>3. current_term[s] < term \/ term = current_term[s]
      BY <1>2, <1>7
    <2>4. Demoted(s)
      BY <1>2, <1>7, <2>1, <2>2, <2>3 DEF Demoted
    <2>. QED  BY <1>4, <1>7, <2>4, ElectionDemoted
  <1>8. CASE RecvRequestVote(s, p, i)
    <2>. DEFINE granted == ShouldGrantVote(s, m)
                term == SeenTerm(s, m.term)
                reply == [type |-> "requestvote_response", term |-> term, vote_granted |-> granted]
    <2>1. granted \in BOOLEAN
      BY DEF ShouldGrantVote
    <2>2. reply \in Message
      BY <1>3, <2>1, VoteResponseType
    <2>3. net' = SendTo(n, s, p, reply)
      BY <1>8 DEF RecvRequestVote, n, m
    <2>4. \A x, y \in Server : InFlight(net', x, y)
             \subseteq InFlight(net, x, y) \cup (IF x = s /\ y = p THEN {reply} ELSE {})
      <3>. HIDE DEF reply
      <3>. QED  BY <1>1, <2>2, <2>3, SendOne
    <2>5. /\ current_term' = [current_term EXCEPT ![s] = term]
          /\ state' = [state EXCEPT ![s] = IF current_term[s] < m.term THEN "follower" ELSE @]
          /\ voted_for' = [voted_for EXCEPT ![s] =
                IF granted THEN p ELSE IF current_term[s] < m.term THEN None ELSE @]
          /\ disk_vote' = [disk_vote EXCEPT ![s] = IF granted THEN p ELSE @]
          /\ ballots' = IF granted THEN ballots \cup {BallotOf(term, s, p)} ELSE ballots
          /\ UNCHANGED <<votes_for_me, elected>>
      BY <1>8 DEF RecvRequestVote, BallotOf, m
    <2>6. CASE granted
      <3>1. /\ m.term >= current_term[s] /\ (m.term > current_term[s] \/ voted_for[s] = None)
            /\ term = m.term
        BY <1>2, <1>3, <2>6 DEF ShouldGrantVote, SeenTerm, MaxOf
      <3>2. VotedFor(s, p, term)
        <4>1. CASE current_term[s] < m.term
          BY <2>5, <2>6, <3>1, <4>1 DEF VotedFor
        <4>2. CASE current_term[s] = m.term
          <5>1. voted_for[s] = None
            BY <1>2, <1>3, <3>1, <4>2
          <5>2. UNCHANGED state
            <6>1. ~(current_term[s] < m.term)
              BY <1>2, <4>2
            <6>2. state' = [state EXCEPT ![s] = state[s]]
              BY <2>5, <6>1
            <6>. QED  BY <6>2 DEF TypeOK
          <5>. QED  BY <2>5, <2>6, <3>1, <4>2, <5>1, <5>2 DEF VotedFor
        <4>. QED  BY <1>2, <1>3, <3>1, <4>1, <4>2
      <3>3. \A x, y \in Server : \A v \in InFlight(net', x, y) :
               v.type = "requestvote_response" /\ v.vote_granted
                  => v \in InFlight(net, x, y) \/ (x = s /\ y = p /\ v.term = term)
        BY <2>4
      <3>. HIDE DEF term
      <3>. QED  BY <1>3, <3>2, <3>3, ElectionVoted DEF term
    <2>7. CASE ~granted
      <3>1. NoNewVotes
        BY <2>4, <2>7 DEF NoNewVotes
      <3>2. UNCHANGED <<disk_vote, ballots>>
        BY <2>5, <2>7 DEF TypeOK
      <3>3. CASE current_term[s] < m.term
        <4>1. term = m.term
          BY <1>2, <1>3, <3>3 DEF SeenTerm, MaxOf
        <4>2. Demoted(s)
          BY <1>3, <2>5, <2>7, <3>2, <3>3, <4>1 DEF Demoted
        <4>. QED  BY <3>1, <4>2, ElectionDemoted
      <3>4. CASE ~(current_term[s] < m.term)
        <4>1. term = current_term[s]
          BY <1>2, <1>3, <3>4 DEF SeenTerm, MaxOf
        <4>2. UNCHANGED electionVars
          BY <2>5, <2>7, <3>2, <3>4, <4>1 DEF electionVars, TypeOK
        <4>. QED  BY <3>1, <4>2, ElectionUntouched
      <3>. QED  BY <3>3, <3>4
    <2>. QED  BY <2>6, <2>7
  <1>9. CASE IgnoreRequestVoteResponse(s, p, i) \/ IgnoreAppendEntriesResponse(s, p, i) \/ Lose(p, s, i)
    <2>1. net' = n /\ UNCHANGED electionVars
      BY <1>9 DEF IgnoreRequestVoteResponse, IgnoreAppendEntriesResponse, Lose, Unsent,
                  electionVars, n
    <2>. QED  BY <1>4, <2>1, ElectionUntouched
  <1>10. CASE LoseElection(s, p, i) \/ StepDown(s, p, i)
    <2>1. /\ net' = n /\ current_term[s] < m.term
          /\ current_term' = [current_term EXCEPT ![s] = m.term]
          /\ voted_for' = [voted_for EXCEPT ![s] = None]
          /\ state' = [state EXCEPT ![s] = "follower"]
          /\ UNCHANGED <<disk_vote, votes_for_me, ballots, elected>>
      BY <1>10 DEF LoseElection, StepDown, n, m
    <2>2. Demoted(s)
      BY <1>3, <2>1 DEF Demoted
    <2>. QED  BY <1>4, <2>1, <2>2, ElectionDemoted
  <1>11. CASE RecvVote(s, p, i)
    <2>. DEFINE D == Peers(s) \cap Voters
                ae == AppendEntries(current_term[s], log[s], commit_idx[s], Len(log[s]) + 1)
                out == [q \in D |-> ae]
    <2>1. /\ m.type = "requestvote_response" /\ m.vote_granted
          /\ state[s] = "candidate" /\ current_term[s] = m.term
          /\ votes_for_me' = [votes_for_me EXCEPT ![s] = votes_for_me[s] \cup {p}]
          /\ UNCHANGED <<current_term, voted_for, disk_vote, ballots>>
          /\ \/ UNCHANGED <<state, elected>>
             \/ /\ IsMajority(NVotesForMe(s, votes_for_me[s] \cup {p}))
                /\ state' = [state EXCEPT ![s] = "leader"]
                /\ elected' = elected \cup {[term |-> current_term[s], leader |-> s]}
          /\ net' = n \/ net' = Send(n, s, out)
      BY <1>11 DEF RecvVote, BecomeLeader, n, m
    <2>2. BallotOf(current_term[s], p, s) \in ballots
      BY <1>1, <2>1 DEF ElectionInv, VotesGiven
    <2>3. ae \in Message /\ ae.type # "requestvote_response"
      <3>1. Len(log[s]) + 1 \in Nat \ {0}
        BY <1>2
      <3>2. ae \in Message
        BY <1>2, <3>1, AppendEntriesType
      <3>. QED  BY <3>2 DEF AppendEntries
    <2>4. /\ out \in [D -> Message] /\ D \in SUBSET Server
          /\ \A q \in D : out[q].type # "requestvote_response"
      BY <2>3 DEF Peers
    <2>. HIDE DEF out, D
    <2>5. NoNewVotes
      <3>1. CASE net' = n
        BY <1>4, <3>1
      <3>2. CASE net' = Send(n, s, out)
        BY <1>1, <2>4, <3>2, SendNoVotes
      <3>. QED  BY <2>1, <3>1, <3>2
    <2>. QED  BY <2>1, <2>2, <2>5, ElectionWon
  <1>12. CASE RefuseAppendEntries(s, p, i)
    <2>1. /\ net' = SendTo(n, s, p, Response(SeenTerm(s, m.term), FALSE, Len(log[s])))
          /\ m.type = "appendentries"
          /\ \/ UNCHANGED <<current_term, voted_for, state>>
             \/ m.term >= current_term[s] /\ FollowSender(s, m.term)
          /\ UNCHANGED <<disk_vote, votes_for_me, ballots, elected>>
      BY <1>12 DEF RefuseAppendEntries, n, m
    <2>2. NoNewVotes
      BY <1>2, <1>5, <2>1
    <2>3. CASE UNCHANGED <<current_term, voted_for, state>>
      BY <2>1, <2>2, <2>3, ElectionUntouched DEF electionVars
    <2>4. CASE m.term >= current_term[s] /\ FollowSender(s, m.term)
      BY <1>6, <2>1, <2>2, <2>4
    <2>. QED  BY <2>1, <2>3, <2>4
  <1>13. CASE TruncateConflict(s, p, i)
    <2>1. /\ net' = SendTo(n, s, p, Response(SeenTerm(s, m.term), FALSE, m.prev_log_idx - 1))
          /\ m.type = "appendentries" /\ m.term >= current_term[s] /\ FollowSender(s, m.term)
          /\ m.prev_log_idx \in DOMAIN log[s]
          /\ UNCHANGED <<disk_vote, votes_for_me, ballots, elected>>
      BY <1>13 DEF TruncateConflict, PrevDiffers, n, m
    <2>2. m.prev_log_idx - 1 \in Nat
      BY <1>2, <2>1, LenProperties
    <2>3. NoNewVotes
      BY <1>5, <2>1, <2>2
    <2>. QED  BY <1>6, <2>1, <2>3
  <1>14. CASE AcceptAppendEntries(s, p, i)
    <2>1. /\ net' = SendTo(n, s, p, Response(SeenTerm(s, m.term), TRUE,
                                             m.prev_log_idx + Len(m.entries)))
          /\ m.type = "appendentries" /\ m.term >= current_term[s] /\ FollowSender(s, m.term)
          /\ UNCHANGED <<disk_vote, votes_for_me, ballots, elected>>
      BY <1>14 DEF AcceptAppendEntries, Accepts, n, m
    <2>2. m.prev_log_idx + Len(m.entries) \in Nat
      <3>1. m.prev_log_idx \in Nat /\ m.entries \in Seq(Entry)
        BY <1>1, <2>1, MessageFields
      <3>. QED  BY <3>1, LenProperties
    <2>3. NoNewVotes
      BY <1>5, <2>1, <2>2
    <2>. QED  BY <1>6, <2>1, <2>3
  <1>15. CASE RetryAppendEntries(s, p, i) \/ RecvAppended(s, p, i)
    <2>1. m.type = "appendentries_response" /\ UNCHANGED electionVars
      BY <1>15 DEF RetryAppendEntries, RecvAppended, Answers, electionVars, m
    <2>2. m.current_idx \in Nat
      BY <1>1, <2>1, MessageFields
    <2>3. \/ net' = n
          \/ \E commit \in Nat, next \in Nat \ {0} :
                net' = SendTo(n, s, p, AppendEntries(current_term[s], log[s], commit, next))
      <3>1. CASE RetryAppendEntries(s, p, i)
        <4>. DEFINE back == IF m.current_idx < next_idx[s][p] - 1
                            THEN MinOf(m.current_idx + 1, Len(log[s])) ELSE next_idx[s][p] - 1
        <4>1. MaxOf(back, 1) \in Nat \ {0}
          BY <1>2, <2>2 DEF MinOf, MaxOf
        <4>2. net' = SendTo(n, s, p, AppendEntries(current_term[s], log[s], commit_idx[s],
                                                   MaxOf(back, 1)))
          BY <3>1 DEF RetryAppendEntries, n, m
        <4>. HIDE DEF back
        <4>. QED  BY <1>2, <4>1, <4>2
      <3>2. CASE RecvAppended(s, p, i)
        <4>. DEFINE point == m.current_idx
                    match == [match_idx[s] EXCEPT ![p] = point]
                    commit == IF /\ Cardinality(Server) \div 2
                                     < Cardinality(Replicas(s, match, point)) + 1
                                 /\ commit_idx[s] < point
                              THEN point ELSE commit_idx[s]
        <4>1. commit \in Nat /\ point + 1 \in Nat \ {0}
          BY <1>2, <2>2
        <4>2. \/ net' = SendTo(n, s, p, AppendEntries(current_term[s], log[s], commit, point + 1))
              \/ net' = n
          BY <3>2 DEF RecvAppended, n, m
        <4>. HIDE DEF commit, point
        <4>. QED  BY <4>1, <4>2
      <3>. QED  BY <1>15, <3>1, <3>2
    <2>4. NoNewVotes
      <3>1. CASE net' = n
        BY <1>4, <3>1
      <3>2. ASSUME NEW commit \in Nat, NEW next \in Nat \ {0},
                   net' = SendTo(n, s, p, AppendEntries(current_term[s], log[s], commit, next))
            PROVE  NoNewVotes
        <4>. DEFINE ae == AppendEntries(current_term[s], log[s], commit, next)
        <4>1. ae \in Message /\ ae.type # "requestvote_response"
          BY <1>2, AppendEntriesType DEF AppendEntries
        <4>. HIDE DEF ae
        <4>. QED  BY <1>1, <3>2, <4>1, SendOneNoVotes DEF ae
      <3>. QED  BY <2>3, <3>1, <3>2
    <2>. QED  BY <2>1, <2>4, ElectionUntouched
  <1>16. CASE CrashInRequestVote(s, p, i)
    <2>1. /\ current_term' = [current_term EXCEPT ![s] = m.term] /\ current_term[s] < m.term
          /\ Reload(s) /\ net' = n
      BY <1>16 DEF CrashInRequestVote, n, m
    <2>2. current_term[s] <= m.term
      BY <1>2, <1>3, <2>1
    <2>. QED  BY <1>3, <1>7, <2>1, <2>2
  <1>17. CASE CrashInAppendEntries(s, p, i)
    <2>1. /\ current_term' = [current_term EXCEPT ![s] = SeenTerm(s, m.term)]
          /\ Reload(s) /\ net' = n
      BY <1>17 DEF CrashInAppendEntries, n, m
    <2>2. current_term[s] <= SeenTerm(s, m.term)
      BY <1>2, <1>3 DEF SeenTerm, MaxOf
    <2>. QED  BY <1>3, <1>7, <2>1, <2>2
  <1>18. CASE Duplicate(p, s, i)
    <2>1. net' = SendTo(net, p, s, m) /\ UNCHANGED electionVars
      BY <1>18 DEF Duplicate, Unsent, electionVars, m
    <2>2. NoNewVotes
      BY <1>1, <2>1, SendOneNoVotes
    <2>. QED  BY <2>1, <2>2, ElectionUntouched
  <1>. QED  BY <1>8, <1>9, <1>10, <1>11, <1>12, <1>13, <1>14, <1>15, <1>16, <1>17, <1>18
            DEF Receive

\* The invariant behind election safety holds in every reachable state: every vote that is
\* counted was given, and a leader's majority never votes for another one in its term.
THEOREM ElectionInvariant == Spec => []ElectionInv
  <1>1. Init => ElectionInv
    BY EmptySeq DEF Init, ElectionInv, VotesGiven, CurrentVotes, LeadersElected, OneVotePerTerm,
                InFlight
  <1>2. TypeOK /\ ElectionInv /\ [Next]_vars => ElectionInv'
    <2>. SUFFICES ASSUME TypeOK, ElectionInv, [Next]_vars PROVE ElectionInv'
      OBVIOUS
    <2>1. CASE UNCHANGED vars
      BY <2>1, ElectionUntouched DEF vars, electionVars, NoNewVotes
    <2>2. CASE Next
      BY <2>2, ElectionOwnSteps, ElectionReceive DEF Next
    <2>. QED  BY <2>1, <2>2
  <1>. QED  BY <1>1, <1>2, TypeCorrect, PTL DEF Spec

\* Two majorities of the nodes have a node in common.
LEMMA MajoritiesMeet ==
    ASSUME NEW Q \in SUBSET Server, NEW R \in SUBSET Server,
           IsMajority(Cardinality(Q)), IsMajority(Cardinality(R))
    PROVE  Q \cap R # {}
  <1>1. Cardinality(Server) \in Nat /\ Cardinality(Q) \in Nat /\ Cardinality(R) \in Nat
    BY ConstantsAssumption, FS_Subset, FS_CardinalityType
  <1>2. Cardinality(Q) + Cardinality(R) > Cardinality(Server)
    BY <1>1 DEF IsMajority
  <1>. QED  BY <1>2, ConstantsAssumption, FS_MajoritiesIntersect

\* At most one leader in a term, ever: whatever messages are lost, duplicated, delayed or
\* reordered, and whatever servers crash between or within calls of the library.
THEOREM ElectionSafe == Spec => []ElectionSafety
  <1>1. TypeOK /\ ElectionInv => ElectionSafety
    <2>. SUFFICES ASSUME TypeOK, ElectionInv, NEW e \in elected, NEW f \in elected,
                         e.term = f.term, e.leader # f.leader
                  PROVE  FALSE
      BY DEF ElectionSafety
    <2>1. PICK Q \in SUBSET Server : /\ IsMajority(Cardinality(Q))
                                     /\ \A v \in Q : BallotOf(e.term, v, e.leader) \in ballots
      BY DEF ElectionInv, LeadersElected
    <2>2. PICK R \in SUBSET Server : /\ IsMajority(Cardinality(R))
                                     /\ \A v \in R : BallotOf(f.term, v, f.leader) \in ballots
      BY DEF ElectionInv, LeadersElected
    <2>3. PICK v \in Server : v \in Q /\ v \in R
      BY <2>1, <2>2, MajoritiesMeet
    <2>4. v \in {e.leader, f.leader}
      BY <2>1, <2>2, <2>3 DEF ElectionInv, OneVotePerTerm, BallotOf
    <2>5. v # e.leader
      BY <2>2, <2>3 DEF ElectionInv, LeadersElected, BallotOf
    <2>6. v # f.leader
      BY <2>1, <2>3 DEF ElectionInv, LeadersElected, BallotOf
    <2>. QED  BY <2>4, <2>5, <2>6
  <1>. QED  BY <1>1, TypeCorrect, ElectionInvariant, PTL

\* The second vote of a term can only follow a candidacy of the voter's own.
THEOREM VotesOnce == Spec => []OneVotePerTerm
  <1>1. ElectionInv => OneVotePerTerm
    BY DEF ElectionInv
  <1>. QED  BY <1>1, ElectionInvariant, PTL
=============================================================================
