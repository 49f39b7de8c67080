--------------------------- MODULE RaftMembership ---------------------------
(***************************************************************************)
(* Membership changes of the Raft library, seen from one server: its list  *)
(* of nodes (raft_node.c), the configuration entries of its log and the    *)
(* index of the one that is not complete (voting_cfg_change_log_idx).  The *)
(* other servers are the environment, which sends what a leader whose log  *)
(* has the committed entries, or a peer with a vote or a response, could   *)
(* send.  The application does in its callbacks what module/raft/          *)
(* README.rst asks of it under "Membership changes": log_offer adds and    *)
(* removes nodes, log_pop does nothing about them.  A server whose own     *)
(* node is removed is shut down and is not modelled.                       *)
(***************************************************************************)
EXTENDS Integers, Sequences, FiniteSets

CONSTANTS
    Me, Peer,        \* ids of this server and of the others
    FirstNodes,      \* the ids that raft_add_node was called with at the start
    Change,          \* configuration changes that are asked for: [type, node]
    MaxTerms, MaxEntries  \* bounds: terms, entries of the log

ASSUME MembershipAssumption ==
    /\ Me \notin Peer /\ Me \in FirstNodes /\ FirstNodes \subseteq Peer \cup {Me}
    /\ IsFiniteSet(FirstNodes)
    /\ \A c \in Change : c.type \in {"add_nonvoting", "add", "remove"} /\ c.node \in Peer
    /\ MaxTerms \in Nat /\ MaxEntries \in Nat

VARIABLES
    srv,    \* the fields of the server
    nodes,  \* its nodes, by id
    led     \* history: the terms in which this server led

memberVars == <<srv, nodes, led>>

NoChange == -1
NoOne == 0  \* -1 of voted_for

\* raft_node_new.
NewNode == [match |-> 0, voting |-> TRUE, voted |-> FALSE, sufficient |-> FALSE]

\* raft_add_node: a node that is there becomes a voting one.
AddNode(n, id) ==
    IF id \in DOMAIN n THEN [n EXCEPT ![id].voting = TRUE]
    ELSE [i \in DOMAIN n \cup {id} |-> IF i = id THEN NewNode ELSE n[i]]

\* raft_add_non_voting_node.
AddNonVotingNode(n, id) == [AddNode(n, id) EXCEPT ![id].voting = FALSE]

\* raft_remove_node.
RemoveNode(n, id) == [i \in DOMAIN n \ {id} |-> n[i]]

\* raft_new, and a call of raft_add_node for every id.
MemberInit ==
    /\ srv = [state |-> "follower", term |-> 0, voted |-> NoOne,
              log |-> << >>, commit |-> 0, applied |-> 0, cfg |-> NoChange]
    /\ nodes = [i \in FirstNodes |-> NewNode]
    /\ led = {}

IsVotingChange(e) == e.type \in {"add", "remove"}

\* log_offer, the application's.
Offer(n, e) ==
    CASE e.type = "add_nonvoting" -> AddNonVotingNode(n, e.node)
      [] e.type = "add" -> AddNode(n, e.node)
      [] e.type = "remove" -> RemoveNode(n, e.node)
      [] OTHER -> n

\* log_offer for one entry after the other.
OfferAll(n, es) ==
    LET after[i \in 0 .. Len(es)] == IF i = 0 THEN n ELSE Offer(after[i - 1], es[i])
    IN after[Len(es)]

Entries(term) == {[type |-> "normal", node |-> NoOne, term |-> term]}
                 \cup {[type |-> c.type, node |-> c.node, term |-> term] : c \in Change}

\* raft_set_current_term.
SetTerm(s, term) ==
    IF s.term < term THEN [s EXCEPT !.term = term, !.voted = NoOne] ELSE s

\* What raft_recv_appendentries does about the term of a message that it accepts.
Follow(term) ==
    LET s == SetTerm(IF srv.state = "candidate" /\ srv.term = term
                     THEN [srv EXCEPT !.voted = NoOne] ELSE srv, term)
    IN [s EXCEPT !.state = IF s.term = srv.term /\ srv.state # "candidate" THEN @ ELSE "follower"]

\* raft_recv_entry that is accepted: no other change is under way, and the server leads.
RecvEntry ==
    \E e \in Entries(srv.term) :
        /\ srv.state = "leader" /\ Len(srv.log) < MaxEntries
        /\ UNCHANGED led
        /\ IsVotingChange(e) => srv.cfg = NoChange
        /\ nodes' = Offer(nodes, e)
        /\ srv' = [srv EXCEPT !.log = Append(@, e),
                              !.commit = IF Cardinality(DOMAIN nodes') = 1 THEN Len(srv.log) + 1 ELSE @,
                              !.cfg = IF IsVotingChange(e) THEN Len(srv.log) + 1 ELSE @]

\* The entries that raft_append_entry takes over, one by one: the index it notes is the
\* one before the entry.
NotedAt(log, es) ==
    LET changes == {i \in DOMAIN es : IsVotingChange(es[i])}
    IN IF changes = {} THEN srv.cfg
       ELSE Len(log) - 1 + (CHOOSE i \in changes : \A j \in changes : j <= i)

\* The log of a leader of the given term: it has what this server knows to be committed, and
\* agrees with its log up to some point.
LeaderLogs(term) ==
    {SubSeq(srv.log, 1, k) : k \in srv.commit .. Len(srv.log)}
    \cup UNION {{Append(SubSeq(srv.log, 1, k), e) :
                    e \in UNION {Entries(t) : t \in {t \in (1 .. term) \ led :
                        /\ k > 0 => srv.log[k].term <= t
                        /\ k < Len(srv.log) => srv.log[k + 1].term # t}}} :
                k \in {k \in srv.commit .. Len(srv.log) : k < MaxEntries}}

\* The entries of a leader's message that this server lacks, and what its log keeps before them.
Received(log, l, prev) ==
    LET es == SubSeq(l, prev + 1, Len(l))
        cut == es = << >> /\ 0 < prev /\ prev + 1 < Len(log)
        differs == {i \in DOMAIN es : prev + i \notin DOMAIN log \/ log[prev + i].term # es[i].term}
        first == IF differs = {} THEN Len(es) + 1 ELSE CHOOSE i \in differs : \A j \in differs : i <= j
    IN [kept |-> IF cut THEN SubSeq(log, 1, prev)
                 ELSE IF differs = {} THEN log ELSE SubSeq(log, 1, prev + first - 1),
        new |-> SubSeq(es, first, Len(es))]

\* raft_recv_appendentries from a leader of this term or of a later one, whose message follows
\* an entry that this server has.
RecvAppendEntries ==
    \E term \in (srv.term .. MaxTerms) \ (led \cup {0}) : \E l \in LeaderLogs(term) :
    \E prev \in 0 .. Len(l), leader_commit \in srv.commit .. Len(l) :
        LET m == Received(srv.log, l, prev)
            s == [Follow(term) EXCEPT !.log = m.kept \o m.new, !.cfg = NotedAt(m.kept, m.new)]
            last == IF Len(s.log) = 0 THEN 1 ELSE Len(s.log)
        IN /\ UNCHANGED led
           /\ prev \in DOMAIN srv.log \cup {0} /\ (prev > 0 => srv.log[prev].term = l[prev].term)
           /\ Len(m.kept) >= srv.commit
           /\ leader_commit <= Len(s.log)
           /\ nodes' = OfferAll(nodes, m.new)
           /\ srv' = [s EXCEPT !.commit = IF @ < leader_commit
                                          THEN (IF last < leader_commit THEN last ELSE leader_commit)
                                          ELSE @]

\* raft_recv_appendentries that finds another entry before the ones of the message.
RecvConflict ==
    \E term \in (srv.term .. MaxTerms) \ led : \E prev \in srv.commit + 1 .. Len(srv.log) :
        /\ srv.log[prev].term < term
        /\ srv' = [Follow(term) EXCEPT !.log = SubSeq(@, 1, prev - 1)]
        /\ UNCHANGED <<nodes, led>>

\* raft_periodic when the election timer has run out: raft_become_candidate.
StartElection ==
    /\ srv.state # "leader" /\ 1 < Cardinality(DOMAIN nodes) /\ srv.term < MaxTerms
    /\ srv' = [srv EXCEPT !.term = @ + 1, !.voted = Me, !.state = "candidate"]
    /\ nodes' = [i \in DOMAIN nodes |-> [nodes[i] EXCEPT !.voted = FALSE]]
    /\ UNCHANGED led

\* raft_get_nvotes_for_me.
VotesForMe(n) ==
    Cardinality({i \in DOMAIN n \ {Me} : n[i].voting /\ n[i].voted}) + (IF srv.voted = Me THEN 1 ELSE 0)

\* raft_become_leader.
Leading(n) ==
    [i \in DOMAIN n |-> IF i = Me \/ ~n[i].voting THEN n[i]
                        ELSE [n[i] EXCEPT !.match = 0]]

\* raft_recv_requestvote_response with a vote, of this term.
RecvVote ==
    \E from \in Peer :
        LET n == IF from \in DOMAIN nodes THEN [nodes EXCEPT ![from].voted = TRUE] ELSE nodes
            wins == VotesForMe(n) <= Cardinality(DOMAIN n) /\ Cardinality(DOMAIN n) \div 2 + 1 <= VotesForMe(n)
        IN /\ srv.state = "candidate"
           /\ nodes' = IF wins THEN Leading(n) ELSE n
           /\ srv' = IF wins THEN [srv EXCEPT !.state = "leader"] ELSE srv
           /\ led' = IF wins THEN led \cup {srv.term} ELSE led

\* raft_recv_requestvote, which grants or not, or a response, with a later term.
LaterTerm ==
    /\ srv.term < MaxTerms
    /\ \E vote \in {NoOne} \cup Peer :
         srv' = [srv EXCEPT !.term = @ + 1, !.voted = vote, !.state = "follower"]
    /\ UNCHANGED <<nodes, led>>

\* Mutant: non-voting nodes count too.
AgreeingAny(n, point) ==
    {i \in DOMAIN n \ {Me} : 0 < n[i].match /\ point <= n[i].match
                              /\ srv.log[n[i].match].term = srv.term}

\* The nodes that count for an entry, and whether with this server they are enough.
Agreeing(n, point) ==
    {i \in DOMAIN n \ {Me} : n[i].voting /\ 0 < n[i].match /\ point <= n[i].match
                              /\ srv.log[n[i].match].term = srv.term}

Enough(n, point) == Cardinality(DOMAIN n) \div 2 < Cardinality(Agreeing(n, point)) + 1

\* raft_recv_appendentries_response of a node in the list, in this term: it has the entries up
\* to idx.  A non-voting node that has nearly all of them is reported once
\* (node_has_sufficient_logs).
RecvResponse ==
    \E from \in Peer \cap DOMAIN nodes, idx \in 1 .. Len(srv.log) :
        LET sufficient == /\ ~nodes[from].voting /\ srv.cfg = NoChange
                          /\ Len(srv.log) <= idx + 1 /\ ~nodes[from].sufficient
            n == [nodes EXCEPT ![from].match = idx, ![from].sufficient = @ \/ sufficient]
        IN /\ srv.state = "leader" /\ nodes[from].match < idx
           /\ UNCHANGED led
           /\ nodes' = n
           /\ srv' = [srv EXCEPT !.commit = IF Enough(n, idx) /\ @ < idx THEN idx ELSE @]

\* raft_apply_entry: the change at the index that was noted is complete.
Apply ==
    /\ srv.applied < srv.commit /\ srv.applied + 1 \in DOMAIN srv.log
    /\ srv' = [srv EXCEPT !.applied = @ + 1,
                          !.cfg = IF @ = srv.applied + 1 THEN NoChange ELSE @]
    /\ UNCHANGED <<nodes, led>>

MemberNext ==
    \/ RecvEntry \/ RecvAppendEntries \/ RecvConflict \/ StartElection \/ RecvVote
    \/ LaterTerm \/ RecvResponse \/ Apply

MemberSpec == MemberInit /\ [][MemberNext]_memberVars

(***************************************************************************)
(*                              Properties                                 *)
(***************************************************************************)
Pending == {i \in srv.applied + 1 .. Len(srv.log) : IsVotingChange(srv.log[i])}

\* "Only one voting cfg change at a time" (raft_server.c:526): a leader takes no voting change
\* while its log has another one that is not committed.
OneVotingChange ==
    srv.state = "leader" =>
        LET open == {i \in Pending : srv.commit < i}
        IN \A i, j \in open : srv.log[j].term = srv.term => j <= i

Majority(n) == {q \in SUBSET {i \in DOMAIN n : n[i].voting} :
                    Cardinality({i \in DOMAIN n : n[i].voting}) < 2 * Cardinality(q)}

\* A leader commits only what a majority of the voting members have,
\* whatever nodes come and go and although non-voting ones count among num_nodes
\* (raft_server.c:235 to 254); the exception is a cluster of one (raft_server.c:558).
CommitsOnMajority ==
    [][srv.state = "leader" /\ srv'.state = "leader" /\ srv'.commit > srv.commit /\ Cardinality(DOMAIN nodes') > 1
       => \E q \in Majority(nodes') : \A i \in q \ {Me} : nodes'[i].match >= srv'.commit]_memberVars
=============================================================================
