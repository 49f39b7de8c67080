-------------------------------- MODULE Raft --------------------------------
(***************************************************************************)
(* The Raft consensus library (module/raft): raft_server.c, the accessors  *)
(* of raft_server_properties.c, the per-peer records of raft_node.c and    *)
(* the log interface of raft_log.c, for a cluster whose membership is      *)
(* fixed.  One action is one call of the public interface (raft_periodic,  *)
(* raft_recv_entry, the four raft_recv_* message handlers) or a step of    *)
(* the environment the application provides: the network that carries the  *)
(* messages given to the send callbacks, and a crash followed by the       *)
(* reload of what the persist_* and log_* callbacks flushed to disk.       *)
(*                                                                         *)
(* Time is abstract: a call of raft_periodic may find its timeout elapsed  *)
(* or not, so timeout_elapsed is a nondeterministic choice.                *)
(***************************************************************************)
EXTENDS Integers, Sequences, FiniteSets

CONSTANTS
    Server,       \* the nodes every server was configured with
    Voters,       \* the ones added by raft_add_node; the others are non-voting
    None,         \* -1 of voted_for, NULL of current_leader
    Ids,          \* the ids clients give their entries
    Ordered,      \* TRUE: every connection delivers in order (TCP streams)
    Unstable,     \* the servers that may crash
    Electing,     \* the servers whose election timer may run out
    MaxTerm, MaxLog,      \* bounds of the instance: terms, entries in a log,
    MaxInFlight, MaxBusy  \* messages of a connection, connections in use at a timeout

ASSUME ConstantsAssumption ==
    /\ IsFiniteSet(Server) /\ Voters \subseteq Server /\ Unstable \subseteq Server
    /\ Electing \subseteq Server
    /\ None \notin Server
    /\ Ids \subseteq Nat
    /\ Ordered \in BOOLEAN
    /\ MaxTerm \in Nat /\ MaxLog \in Nat /\ MaxInFlight \in Nat /\ MaxBusy \in Nat

VARIABLES
    current_term, voted_for, state, current_leader,
    log,                            \* flushed entry by entry (log_offer, log_pop)
    commit_idx, last_applied_idx,
    next_idx, match_idx,            \* of each server, for each peer
    votes_for_me,                   \* peers flagged RAFT_NODE_VOTED_FOR_ME
    disk_vote,                      \* what persist_vote flushed last
    net,                            \* net[p][q]: messages under way from p to q
    ballots, elected                \* history: votes given, elections won

vars == <<current_term, voted_for, state, current_leader, log, commit_idx,
          last_applied_idx, next_idx, match_idx, votes_for_me, disk_vote, net,
          ballots, elected>>

Peers(s) == Server \ {s}
MinOf(a, b) == IF a < b THEN a ELSE b
MaxOf(a, b) == IF a < b THEN b ELSE a

Entry == [term : Nat, id : Ids \ {0}]

Message ==
    [type : {"requestvote"}, term : Nat, last_log_idx : Nat, last_log_term : Nat]
    \cup [type : {"requestvote_response"}, term : Nat, vote_granted : BOOLEAN]
    \cup [type : {"appendentries"}, term : Nat, prev_log_idx : Nat,
          prev_log_term : Nat, leader_commit : Nat, entries : Seq(Entry)]
    \cup [type : {"appendentries_response"}, term : Nat, success : BOOLEAN,
          current_idx : Nat]

Init ==
    /\ current_term = [s \in Server |-> 0]
    /\ voted_for = [s \in Server |-> None]
    /\ disk_vote = [s \in Server |-> None]
    /\ state = [s \in Server |-> "follower"]
    /\ current_leader = [s \in Server |-> None]
    /\ log = [s \in Server |-> << >>]
    /\ commit_idx = [s \in Server |-> 0]
    /\ last_applied_idx = [s \in Server |-> 0]
    /\ next_idx = [s \in Server |-> [q \in Server |-> 1]]
    /\ match_idx = [s \in Server |-> [q \in Server |-> 0]]
    /\ votes_for_me = [s \in Server |-> {}]
    /\ net = [p \in Server |-> [q \in Server |-> << >>]]
    /\ ballots = {}
    /\ elected = {}

(***************************************************************************)
(* The network.  Nothing in the library retransmits by itself, so a        *)
(* message sent when MaxInFlight are under way to the same peer is lost.   *)
(***************************************************************************)
Put(c, m) == IF Len(c) < MaxInFlight THEN Append(c, m) ELSE c

\* n after s has sent out[q] to every q of DOMAIN out.
Send(n, s, out) ==
    [n EXCEPT ![s] = [q \in Server |-> IF q \in DOMAIN out THEN Put(n[s][q], out[q])
                                                           ELSE n[s][q]]]

SendTo(n, s, p, m) == Send(n, s, [q \in {p} |-> m])

Drop(c, i) == [j \in 1 .. Len(c) - 1 |-> IF j < i THEN c[j] ELSE c[j + 1]]

\* n without the i-th message from p to s.
Take(n, p, s, i) == [n EXCEPT ![p][s] = Drop(n[p][s], i)]

InFlight(n, p, q) == {n[p][q][i] : i \in DOMAIN n[p][q]}

\* The messages from p that s may receive now.
Deliverable(p, s) == IF Ordered THEN DOMAIN net[p][s] \cap {1} ELSE DOMAIN net[p][s]

\* Bound: timers run out and clients send only while few connections are in use.
Calm == Cardinality({c \in Server \X Server : net[c[1]][c[2]] # << >>}) <= MaxBusy

Unsent == <<current_term, voted_for, disk_vote, state, current_leader, log,
            commit_idx, last_applied_idx, next_idx, match_idx, votes_for_me,
            ballots, elected>>

Lose(p, s, i) ==
    /\ i \in DOMAIN net[p][s]
    /\ net' = Take(net, p, s, i)
    /\ UNCHANGED Unsent

Duplicate(p, s, i) ==
    /\ ~Ordered
    /\ i \in DOMAIN net[p][s]
    /\ net' = SendTo(net, p, s, net[p][s][i])
    /\ UNCHANGED Unsent

(***************************************************************************)
(* Messages built from the sender's state.                                 *)
(***************************************************************************)
LastTerm(l) == IF l = << >> THEN 0 ELSE l[Len(l)].term

RequestVote(term, l) ==
    [type |-> "requestvote", term |-> term,
     last_log_idx |-> Len(l), last_log_term |-> LastTerm(l)]

\* Everything from next to the end of the log l, after the entry before it.
AppendEntries(term, l, commit, next) ==
    [type |-> "appendentries", term |-> term,
     prev_log_idx |-> next - 1,
     prev_log_term |-> IF next - 1 \in DOMAIN l THEN l[next - 1].term ELSE 0,
     leader_commit |-> commit,
     entries |-> SubSeq(l, next, Len(l))]

Response(term, success, idx) ==
    [type |-> "appendentries_response", term |-> term, success |-> success,
     current_idx |-> idx]

(***************************************************************************)
(* raft_periodic: the timeout that has elapsed, if any, and then one       *)
(* committed entry is applied.                                             *)
(***************************************************************************)
ApplyEntry(s) ==
    last_applied_idx' =
        IF last_applied_idx[s] < commit_idx[s] /\ last_applied_idx[s] + 1 \in DOMAIN log[s]
        THEN [last_applied_idx EXCEPT ![s] = @ + 1]
        ELSE last_applied_idx

PeriodicIdle(s) ==
    /\ last_applied_idx[s] < commit_idx[s]
    /\ ApplyEntry(s)
    /\ UNCHANGED <<current_term, voted_for, disk_vote, state, current_leader, log,
                   commit_idx, next_idx, match_idx, votes_for_me, net, ballots, elected>>

PeriodicHeartbeat(s) ==
    /\ state[s] = "leader"
    /\ Calm
    /\ net' = Send(net, s, [q \in Peers(s) |->
                 AppendEntries(current_term[s], log[s], commit_idx[s], next_idx[s][q])])
    /\ ApplyEntry(s)
    /\ UNCHANGED <<current_term, voted_for, disk_vote, state, current_leader, log,
                   commit_idx, next_idx, match_idx, votes_for_me, ballots, elected>>

PeriodicElection(s) ==
    /\ s \in Electing
    /\ state[s] # "leader"
    /\ Cardinality(Server) > 1
    /\ current_term[s] < MaxTerm /\ Calm
    /\ current_term' = [current_term EXCEPT ![s] = @ + 1]
    /\ votes_for_me' = [votes_for_me EXCEPT ![s] = {}]
    /\ voted_for' = [voted_for EXCEPT ![s] = s]
    /\ disk_vote' = [disk_vote EXCEPT ![s] = s]
    /\ ballots' = ballots \cup {[term |-> current_term[s] + 1, voter |-> s, candidate |-> s]}
    /\ current_leader' = [current_leader EXCEPT ![s] = None]
    /\ state' = [state EXCEPT ![s] = "candidate"]
    /\ net' = Send(net, s, [q \in Peers(s) \cap Voters |->
                 RequestVote(current_term[s] + 1, log[s])])
    /\ ApplyEntry(s)
    /\ UNCHANGED <<log, commit_idx, next_idx, match_idx, elected>>

(***************************************************************************)
(* raft_recv_requestvote                                                   *)
(***************************************************************************)
\* Mutant: the logs are compared the wrong way round.
UpToDateSwapped(l, idx, term) ==
    \/ l = << >>
    \/ term < LastTerm(l)
    \/ term = LastTerm(l) /\ idx <= Len(l)

\* A log whose last entry is (idx, term) is at least as good as the log l.
UpToDate(l, idx, term) ==
    \/ l = << >>
    \/ LastTerm(l) < term
    \/ LastTerm(l) = term /\ Len(l) <= idx

\* Mutant: the vote already given in this term is forgotten.
GrantAgain(s, m) ==
    /\ m.term >= current_term[s]
    /\ UpToDate(log[s], m.last_log_idx, m.last_log_term)

ShouldGrantVote(s, m) ==
    /\ m.term >= current_term[s]
    /\ m.term > current_term[s] \/ voted_for[s] = None
    /\ UpToDate(log[s], m.last_log_idx, m.last_log_term)

\* raft_set_current_term and raft_become_follower, for a term above the current one.
SeenTerm(s, term) == MaxOf(current_term[s], term)

RecvRequestVote(s, p, i) ==
    LET m == net[p][s][i]
        term == SeenTerm(s, m.term)
        granted == ShouldGrantVote(s, m)
    IN
    /\ i \in Deliverable(p, s)
    /\ m.type = "requestvote"
    /\ current_term' = [current_term EXCEPT ![s] = term]
    /\ state' = [state EXCEPT ![s] = IF current_term[s] < m.term THEN "follower" ELSE @]
    /\ voted_for' = [voted_for EXCEPT ![s] =
          IF granted THEN p ELSE IF current_term[s] < m.term THEN None ELSE @]
    /\ disk_vote' = [disk_vote EXCEPT ![s] = IF granted THEN p ELSE @]
    /\ ballots' = IF granted
                  THEN ballots \cup {[term |-> term, voter |-> s, candidate |-> p]}
                  ELSE ballots
    /\ current_leader' = [current_leader EXCEPT ![s] = IF granted THEN None ELSE @]
    /\ net' = SendTo(Take(net, p, s, i), s, p,
                 [type |-> "requestvote_response", term |-> term, vote_granted |-> granted])
    /\ UNCHANGED <<log, commit_idx, last_applied_idx, next_idx, match_idx,
                   votes_for_me, elected>>

(***************************************************************************)
(* raft_recv_requestvote_response                                          *)
(***************************************************************************)
\* raft_votes_is_majority: non-voting nodes are part of num_nodes.
IsMajority(n) == n <= Cardinality(Server) /\ Cardinality(Server) \div 2 + 1 <= n

\* raft_get_nvotes_for_me: the flagged voting peers, and s if it voted for itself.
NVotesForMe(s, flagged) ==
    Cardinality((flagged \cap Voters) \ {s}) + (IF voted_for[s] = s THEN 1 ELSE 0)

\* Mutant: next_idx starts at the last entry instead of behind it.
BecomeLeaderAtLast(s) ==
    /\ state' = [state EXCEPT ![s] = "leader"]
    /\ current_leader' = [current_leader EXCEPT ![s] = s]
    /\ elected' = elected \cup {[term |-> current_term[s], leader |-> s]}
    /\ next_idx' = [next_idx EXCEPT ![s] = [q \in Server |-> Len(log[s])]]
    /\ match_idx' = [match_idx EXCEPT ![s] = [q \in Server |-> 0]]

BecomeLeader(s) ==
    /\ state' = [state EXCEPT ![s] = "leader"]
    /\ current_leader' = [current_leader EXCEPT ![s] = s]
    /\ elected' = elected \cup {[term |-> current_term[s], leader |-> s]}
    /\ next_idx' = [next_idx EXCEPT ![s] = [q \in Server |->
          IF q \in Peers(s) \cap Voters THEN Len(log[s]) + 1 ELSE next_idx[s][q]]]
    /\ match_idx' = [match_idx EXCEPT ![s] = [q \in Server |->
          IF q \in Peers(s) \cap Voters THEN 0 ELSE match_idx[s][q]]]

\* Not a candidate, or an answer to an earlier candidacy.
IgnoreRequestVoteResponse(s, p, i) ==
    /\ i \in Deliverable(p, s)
    /\ net[p][s][i].type = "requestvote_response"
    /\ \/ state[s] # "candidate"
       \/ net[p][s][i].term < current_term[s]
       \/ net[p][s][i].term = current_term[s] /\ ~net[p][s][i].vote_granted
    /\ net' = Take(net, p, s, i)
    /\ UNCHANGED Unsent

LoseElection(s, p, i) ==
    LET m == net[p][s][i] IN
    /\ i \in Deliverable(p, s)
    /\ m.type = "requestvote_response"
    /\ state[s] = "candidate"
    /\ current_term[s] < m.term
    /\ current_term' = [current_term EXCEPT ![s] = m.term]
    /\ voted_for' = [voted_for EXCEPT ![s] = None]
    /\ state' = [state EXCEPT ![s] = "follower"]
    /\ net' = Take(net, p, s, i)
    /\ UNCHANGED <<disk_vote, current_leader, log, commit_idx, last_applied_idx, next_idx,
                   match_idx, votes_for_me, ballots, elected>>

\* Mutant: the term of the response is not compared with the candidate's.
CountStaleVote(s, p, i) ==
    /\ i \in Deliverable(p, s)
    /\ net[p][s][i].type = "requestvote_response"
    /\ state[s] = "candidate"
    /\ net[p][s][i].vote_granted
    /\ votes_for_me' = [votes_for_me EXCEPT ![s] = @ \cup {p}]
    /\ net' = Take(net, p, s, i)
    /\ IF IsMajority(NVotesForMe(s, votes_for_me[s] \cup {p}))
       THEN BecomeLeader(s)
       ELSE UNCHANGED <<state, current_leader, elected, next_idx, match_idx>>
    /\ UNCHANGED <<current_term, voted_for, disk_vote, log, commit_idx, last_applied_idx,
                   ballots>>

RecvVote(s, p, i) ==
    LET m == net[p][s][i]
        flagged == votes_for_me[s] \cup {p}
    IN
    /\ i \in Deliverable(p, s)
    /\ m.type = "requestvote_response"
    /\ state[s] = "candidate"
    /\ current_term[s] = m.term
    /\ m.vote_granted
    /\ votes_for_me' = [votes_for_me EXCEPT ![s] = flagged]
    /\ IF IsMajority(NVotesForMe(s, flagged))
       THEN /\ BecomeLeader(s)
            /\ net' = Send(Take(net, p, s, i), s, [q \in Peers(s) \cap Voters |->
                        AppendEntries(current_term[s], log[s], commit_idx[s], Len(log[s]) + 1)])
       ELSE /\ net' = Take(net, p, s, i)
            /\ UNCHANGED <<state, current_leader, elected, next_idx, match_idx>>
    /\ UNCHANGED <<current_term, voted_for, disk_vote, log, commit_idx, last_applied_idx,
                   ballots>>

(***************************************************************************)
(* raft_recv_appendentries                                                 *)
(***************************************************************************)
\* Mutant: a follower of the sender's term forgets its vote as well.
FollowsAlways(s, term) == current_term[s] <= term

\* A candidate of the same term, or any server behind it, follows the sender.
Follows(s, term) ==
    current_term[s] < term \/ (state[s] = "candidate" /\ current_term[s] = term)

FollowSender(s, term) ==
    /\ current_term' = [current_term EXCEPT ![s] = SeenTerm(s, term)]
    /\ voted_for' = [voted_for EXCEPT ![s] = IF Follows(s, term) THEN None ELSE @]
    /\ state' = [state EXCEPT ![s] = IF Follows(s, term) THEN "follower" ELSE @]

\* The indices of m.entries that the log l lacks or holds with another term.
Differs(l, m) ==
    {k \in DOMAIN m.entries :
        \/ m.prev_log_idx + k > Len(l)
        \/ l[m.prev_log_idx + k].term # m.entries[k].term}

\* Mutant: everything after prev_log_idx is deleted, whether it differs or not.
KeptLenPrev(l, m) == m.prev_log_idx

\* How much of the log l is left before the remainder of m.entries is appended.
KeptLen(l, m) ==
    IF Differs(l, m) # {}
    THEN m.prev_log_idx
         + (CHOOSE k \in Differs(l, m) : \A j \in Differs(l, m) : k <= j) - 1
    ELSE IF m.entries = << >> /\ 0 < m.prev_log_idx /\ m.prev_log_idx + 1 < Len(l)
         THEN m.prev_log_idx
         ELSE Len(l)

\* Mutant: the entries are appended behind those that differ.
MergedBehind(l, m) == IF Differs(l, m) # {} THEN l \o m.entries ELSE l

\* The log l after the deletions and the appends.
Merged(l, m) ==
    IF Differs(l, m) # {}
    THEN SubSeq(l, 1, KeptLen(l, m))
         \o SubSeq(m.entries, KeptLen(l, m) - m.prev_log_idx + 1, Len(m.entries))
    ELSE SubSeq(l, 1, KeptLen(l, m))

PrevMissing(l, m) == m.prev_log_idx > Len(l)
PrevDiffers(l, m) ==
    /\ m.prev_log_idx \in DOMAIN l
    /\ l[m.prev_log_idx].term # m.prev_log_term

\* 1. the sender's term is over, or 2. the log does not reach prev_log_idx.
RefuseAppendEntries(s, p, i) ==
    LET m == net[p][s][i] IN
    /\ i \in Deliverable(p, s)
    /\ m.type = "appendentries"
    /\ \/ m.term < current_term[s] /\ UNCHANGED <<current_term, voted_for, state>>
       \/ /\ m.term >= current_term[s]
          /\ PrevMissing(log[s], m)
          /\ FollowSender(s, m.term)
    /\ net' = SendTo(Take(net, p, s, i), s, p,
                 Response(SeenTerm(s, m.term), FALSE, Len(log[s])))
    /\ UNCHANGED <<disk_vote, current_leader, log, commit_idx, last_applied_idx, next_idx,
                   match_idx, votes_for_me, ballots, elected>>

\* 2. the entry at prev_log_idx has another term: it goes, with all that follow it.
TruncateConflict(s, p, i) ==
    LET m == net[p][s][i] IN
    /\ i \in Deliverable(p, s)
    /\ m.type = "appendentries"
    /\ m.term >= current_term[s]
    /\ PrevDiffers(log[s], m)
    /\ FollowSender(s, m.term)
    /\ log' = [log EXCEPT ![s] = SubSeq(@, 1, m.prev_log_idx - 1)]
    /\ net' = SendTo(Take(net, p, s, i), s, p,
                 Response(SeenTerm(s, m.term), FALSE, m.prev_log_idx - 1))
    /\ UNCHANGED <<disk_vote, current_leader, commit_idx, last_applied_idx, next_idx,
                   match_idx, votes_for_me, ballots, elected>>

Accepts(s, m) ==
    /\ m.type = "appendentries"
    /\ m.term >= current_term[s]
    /\ ~PrevMissing(log[s], m) /\ ~PrevDiffers(log[s], m)

\* Mutant: the response acknowledges the whole log instead of what the message covers.
AcknowledgeAll(s, p, i) ==
    LET m == net[p][s][i] IN
    /\ i \in Deliverable(p, s)
    /\ Accepts(s, m)
    /\ FollowSender(s, m.term)
    /\ log' = [log EXCEPT ![s] = Merged(@, m)]
    /\ current_leader' = [current_leader EXCEPT ![s] = p]
    /\ net' = SendTo(Take(net, p, s, i), s, p,
                 Response(SeenTerm(s, m.term), TRUE, Len(Merged(log[s], m))))
    /\ UNCHANGED <<disk_vote, commit_idx, last_applied_idx, next_idx, match_idx, votes_for_me,
                   ballots, elected>>

AcceptAppendEntries(s, p, i) ==
    LET m == net[p][s][i] IN
    /\ i \in Deliverable(p, s)
    /\ Accepts(s, m)
    /\ FollowSender(s, m.term)
    /\ log' = [log EXCEPT ![s] = Merged(@, m)]
    /\ commit_idx' = [commit_idx EXCEPT ![s] =
          IF @ < m.leader_commit
          THEN MinOf(MaxOf(Len(Merged(log[s], m)), 1), m.leader_commit)
          ELSE @]
    /\ current_leader' = [current_leader EXCEPT ![s] = p]
    /\ net' = SendTo(Take(net, p, s, i), s, p,
                 Response(SeenTerm(s, m.term), TRUE, m.prev_log_idx + Len(m.entries)))
    /\ UNCHANGED <<disk_vote, last_applied_idx, next_idx, match_idx, votes_for_me,
                   ballots, elected>>

(***************************************************************************)
(* raft_recv_appendentries_response                                        *)
(***************************************************************************)
\* The first test of the handler, made before the terms are compared.
StaleResponse(s, p, m) == m.current_idx # 0 /\ m.current_idx <= match_idx[s][p]

IgnoreAppendEntriesResponse(s, p, i) ==
    LET m == net[p][s][i] IN
    /\ i \in Deliverable(p, s)
    /\ m.type = "appendentries_response"
    /\ StaleResponse(s, p, m) \/ state[s] # "leader" \/ m.term < current_term[s]
    /\ net' = Take(net, p, s, i)
    /\ UNCHANGED Unsent

StepDown(s, p, i) ==
    LET m == net[p][s][i] IN
    /\ i \in Deliverable(p, s)
    /\ m.type = "appendentries_response"
    /\ ~StaleResponse(s, p, m) /\ state[s] = "leader"
    /\ current_term[s] < m.term
    /\ current_term' = [current_term EXCEPT ![s] = m.term]
    /\ voted_for' = [voted_for EXCEPT ![s] = None]
    /\ state' = [state EXCEPT ![s] = "follower"]
    /\ net' = Take(net, p, s, i)
    /\ UNCHANGED <<disk_vote, current_leader, log, commit_idx, last_applied_idx, next_idx,
                   match_idx, votes_for_me, ballots, elected>>

Answers(s, p, m) ==
    /\ m.type = "appendentries_response"
    /\ ~StaleResponse(s, p, m) /\ state[s] = "leader"
    /\ m.term = current_term[s]

\* The log of p does not match: go back, and send again from there.
RetryAppendEntries(s, p, i) ==
    LET m == net[p][s][i]
        back == IF m.current_idx < next_idx[s][p] - 1
                THEN MinOf(m.current_idx + 1, Len(log[s]))
                ELSE next_idx[s][p] - 1
        next == MaxOf(back, 1)
    IN
    /\ i \in Deliverable(p, s)
    /\ Answers(s, p, m)
    /\ ~m.success
    /\ next_idx' = [next_idx EXCEPT ![s][p] = next]
    /\ net' = SendTo(Take(net, p, s, i), s, p,
                 AppendEntries(current_term[s], log[s], commit_idx[s], next))
    /\ UNCHANGED <<current_term, voted_for, disk_vote, state, current_leader, log, commit_idx,
                   last_applied_idx, match_idx, votes_for_me, ballots, elected>>

\* The voting peers counted for a commit up to point, given their match_idx.
Replicas(s, match, point) ==
    {q \in Peers(s) \cap Voters :
        /\ 0 < match[q]
        /\ log[s][match[q]].term = current_term[s]
        /\ point <= match[q]}

RecvAppended(s, p, i) ==
    LET m == net[p][s][i]
        point == m.current_idx
        match == [match_idx[s] EXCEPT ![p] = point]
        commit == IF /\ Cardinality(Server) \div 2 < Cardinality(Replicas(s, match, point)) + 1
                     /\ commit_idx[s] < point
                  THEN point
                  ELSE commit_idx[s]
    IN
    /\ i \in Deliverable(p, s)
    /\ Answers(s, p, m)
    /\ m.success
    /\ next_idx' = [next_idx EXCEPT ![s][p] = point + 1]
    /\ match_idx' = [match_idx EXCEPT ![s] = match]
    /\ commit_idx' = [commit_idx EXCEPT ![s] = commit]
    /\ net' = IF point + 1 \in DOMAIN log[s]
              THEN SendTo(Take(net, p, s, i), s, p,
                 AppendEntries(current_term[s], log[s], commit, point + 1))
              ELSE Take(net, p, s, i)
    /\ UNCHANGED <<current_term, voted_for, disk_vote, state, current_leader, log,
                   last_applied_idx, votes_for_me, ballots, elected>>

(***************************************************************************)
(* raft_recv_entry.  An entry whose id is 0 is not appended                *)
(* (log_append_entry), which the handler does not notice.                  *)
(***************************************************************************)
RecvEntry(s, id) ==
    LET l == IF id = 0 THEN log[s]
             ELSE Append(log[s], [term |-> current_term[s], id |-> id])
    IN
    /\ state[s] = "leader"
    /\ Len(log[s]) < MaxLog /\ Calm
    /\ log' = [log EXCEPT ![s] = l]
    /\ net' = Send(net, s,
                   [q \in {q \in Peers(s) \cap Voters : next_idx[s][q] = Len(l)} |->
                      AppendEntries(current_term[s], l, commit_idx[s], next_idx[s][q])])
    /\ commit_idx' = [commit_idx EXCEPT ![s] = IF Cardinality(Server) = 1 THEN Len(l) ELSE @]
    /\ UNCHANGED <<current_term, voted_for, disk_vote, state, current_leader, last_applied_idx,
                   next_idx, match_idx, votes_for_me, ballots, elected>>

(***************************************************************************)
(* Crash and restart: raft_new, then the application reloads the term, the *)
(* vote and the log it has flushed.                                        *)
(***************************************************************************)
Reload(s) ==
    /\ s \in Unstable
    /\ voted_for' = [voted_for EXCEPT ![s] = disk_vote[s]]
    /\ state' = [state EXCEPT ![s] = "follower"]
    /\ current_leader' = [current_leader EXCEPT ![s] = None]
    /\ commit_idx' = [commit_idx EXCEPT ![s] = 0]
    /\ last_applied_idx' = [last_applied_idx EXCEPT ![s] = 0]
    /\ next_idx' = [next_idx EXCEPT ![s] = [q \in Server |-> 1]]
    /\ match_idx' = [match_idx EXCEPT ![s] = [q \in Server |-> 0]]
    /\ votes_for_me' = [votes_for_me EXCEPT ![s] = {}]
    /\ UNCHANGED <<disk_vote, ballots, elected>>

\* Between two calls of the library.
Restart(s) ==
    /\ Reload(s)
    /\ UNCHANGED <<current_term, log, net>>

\* In raft_become_candidate, after persist_term and before persist_vote.
CrashInElection(s) ==
    /\ s \in Electing
    /\ state[s] # "leader"
    /\ current_term[s] < MaxTerm
    /\ current_term' = [current_term EXCEPT ![s] = @ + 1]
    /\ Reload(s)
    /\ UNCHANGED <<log, net>>

\* In raft_recv_requestvote, after persist_term and before persist_vote.
CrashInRequestVote(s, p, i) ==
    /\ i \in Deliverable(p, s)
    /\ net[p][s][i].type = "requestvote"
    /\ current_term[s] < net[p][s][i].term
    /\ current_term' = [current_term EXCEPT ![s] = net[p][s][i].term]
    /\ Reload(s)
    /\ net' = Take(net, p, s, i)
    /\ UNCHANGED log

\* In raft_recv_appendentries, after some of the log_pop and log_offer callbacks.
CrashInAppendEntries(s, p, i) ==
    LET m == net[p][s][i]
        l == log[s]
        kept == KeptLen(l, m)
        after == Merged(l, m)
    IN
    /\ i \in Deliverable(p, s)
    /\ Accepts(s, m)
    /\ current_term' = [current_term EXCEPT ![s] = SeenTerm(s, m.term)]
    /\ \/ \E k \in kept .. Len(l) : log' = [log EXCEPT ![s] = SubSeq(l, 1, k)]
       \/ \E k \in kept .. Len(after) : log' = [log EXCEPT ![s] = SubSeq(after, 1, k)]
    /\ Reload(s)
    /\ net' = Take(net, p, s, i)

Receive(s, p, i) ==
    \/ RecvRequestVote(s, p, i)
    \/ IgnoreRequestVoteResponse(s, p, i)
    \/ LoseElection(s, p, i)
    \/ RecvVote(s, p, i)
    \/ RefuseAppendEntries(s, p, i)
    \/ TruncateConflict(s, p, i)
    \/ AcceptAppendEntries(s, p, i)
    \/ IgnoreAppendEntriesResponse(s, p, i)
    \/ StepDown(s, p, i)
    \/ RetryAppendEntries(s, p, i)
    \/ RecvAppended(s, p, i)
    \/ CrashInRequestVote(s, p, i)
    \/ CrashInAppendEntries(s, p, i)
    \/ Lose(p, s, i)
    \/ Duplicate(p, s, i)

Next ==
    \/ \E s \in Server : \/ PeriodicIdle(s) \/ PeriodicHeartbeat(s) \/ PeriodicElection(s)
                         \/ Restart(s) \/ CrashInElection(s)
    \/ \E s \in Server, id \in Ids : RecvEntry(s, id)
    \/ \E s \in Server, p \in Server : \E i \in DOMAIN net[p][s] : Receive(s, p, i)

Spec == Init /\ [][Next]_vars

(***************************************************************************)
(*                              Properties                                 *)
(***************************************************************************)
\* The shape of the server structure of raft_private.h, and of what is under way.
TypeOK ==
    /\ current_term \in [Server -> Nat]
    /\ voted_for \in [Server -> Server \cup {None}]
    /\ disk_vote \in [Server -> Server \cup {None}]
    /\ state \in [Server -> {"follower", "candidate", "leader"}]
    /\ current_leader \in [Server -> Server \cup {None}]
    /\ log \in [Server -> Seq(Entry)]
    /\ commit_idx \in [Server -> Nat]
    /\ last_applied_idx \in [Server -> Nat]
    /\ next_idx \in [Server -> [Server -> Nat \ {0}]]
    /\ match_idx \in [Server -> [Server -> Nat]]
    /\ votes_for_me \in [Server -> SUBSET Server]
    /\ net \in [Server -> [Server -> Seq(Message)]]
    /\ ballots \subseteq [term : Nat, voter : Server, candidate : Server]
    /\ elected \subseteq [term : Nat, leader : Server]

\* No term ever has two leaders, over the whole history and across crashes, although
\* a candidate that sees the leader of its own term forgets its vote
\* (raft_recv_appendentries, raft_server.c:290) and may then give another.
ElectionSafety == \A e, f \in elected : e.term = f.term => e.leader = f.leader

\* A server gives two votes in one term only if one of them was its own candidacy:
\* the vote survives a crash at any point (persist_term and persist_vote are two calls).
OneVotePerTerm ==
    \A b, c \in ballots :
        b.term = c.term /\ b.voter = c.voter /\ b.candidate # c.candidate
            => b.voter \in {b.candidate, c.candidate}

\* What makes ElectionSafety inductive.  A vote under way, flagged or remembered is one that
\* was given; the votes of the current term are those in memory and on disk.
BallotOf(term, voter, candidate) ==
    [term |-> term, voter |-> voter, candidate |-> candidate]

VotesGiven ==
    /\ \A p, c \in Server : \A m \in InFlight(net, p, c) :
          m.type = "requestvote_response" /\ m.vote_granted
              => BallotOf(m.term, p, c) \in ballots
    /\ \A c \in Server : state[c] # "follower" =>
          /\ voted_for[c] = c /\ disk_vote[c] = c
          /\ \A v \in votes_for_me[c] \cup {c} : BallotOf(current_term[c], v, c) \in ballots

CurrentVotes ==
    \A b \in ballots :
        /\ b.term <= current_term[b.voter]
        /\ b.term = current_term[b.voter]
              => /\ b.candidate \in {b.voter, voted_for[b.voter]}
                 /\ b.candidate \in {b.voter, disk_vote[b.voter]}

\* A leader, past or present, has the votes of a majority and never votes for another server
\* in its term.
LeadersElected ==
    \A e \in elected :
        /\ e.term <= current_term[e.leader]
        /\ e.term = current_term[e.leader]
              => /\ state[e.leader] # "candidate"
                 /\ voted_for[e.leader] = e.leader /\ disk_vote[e.leader] = e.leader
        /\ \A b \in ballots : b.term = e.term /\ b.voter = e.leader => b.candidate = e.leader
        /\ \E Q \in SUBSET Server :
              IsMajority(Cardinality(Q)) /\ \A v \in Q : BallotOf(e.term, v, e.leader) \in ballots

ElectionInv == VotesGiven /\ CurrentVotes /\ LeadersElected /\ OneVotePerTerm

\* Two logs with an entry of the same term at the same index are equal up to it,
\* whatever was deleted and appended by raft_recv_appendentries in between.
LogMatching ==
    \A s, t \in Server : \A i \in DOMAIN log[s] \cap DOMAIN log[t] :
        log[s][i].term = log[t][i].term => \A j \in 1 .. i : log[s][j] = log[t][j]

\* Two servers never have different entries committed at the same index, so
\* applylog is called with the same entries in the same order on both.
StateMachineSafety ==
    \A s, t \in Server : \A i \in 1 .. MinOf(commit_idx[s], commit_idx[t]) :
        log[s][i] = log[t][i]

\* What any server of an earlier or the same term knows to be committed is in the
\* leader's log: the vote's log check keeps other candidates out (__should_grant_vote).
LeaderCompleteness ==
    \A s, t \in Server :
        state[s] = "leader" /\ current_term[t] <= current_term[s]
            => /\ commit_idx[t] <= Len(log[s])
               /\ \A i \in 1 .. commit_idx[t] : log[s][i] = log[t][i]

\* A committed entry stays in the logs of a majority of the nodes, crashed or not.
CommittedOnMajority ==
    \A s \in Server : \A i \in 1 .. commit_idx[s] :
        /\ i \in DOMAIN log[s]
        /\ IsMajority(Cardinality({t \in Server : i \in DOMAIN log[t] /\ log[t][i] = log[s][i]}))

\* match_idx, which decides what is committed, never promises more than the peer's
\* log still holds, until a later term takes the peer over.
MatchIsReplicated ==
    \A s \in Server : \A p \in Peers(s) \cap Voters :
        state[s] = "leader" /\ current_term[p] <= current_term[s]
            => /\ match_idx[s][p] <= MinOf(Len(log[s]), Len(log[p]))
               /\ \A i \in 1 .. match_idx[s][p] : log[p][i] = log[s][i]

\* No message under way makes an assert of its handler fail: the vote of a leader or
\* candidate (raft_server.c:447), the deletion of a committed entry (328, 341, 356), a
\* commit index beyond the log (raft_server_properties.c:99), an acknowledgement beyond
\* the leader's log (218).
AssertionsHold ==
    \A s, p \in Server : \A i \in Deliverable(p, s) :
        LET m == net[p][s][i] IN
        CASE m.type = "requestvote" ->
                m.term = current_term[s] /\ ShouldGrantVote(s, m) => state[s] = "follower"
          [] m.type = "appendentries" ->
                /\ m.term >= current_term[s] /\ PrevDiffers(log[s], m)
                      => commit_idx[s] < m.prev_log_idx
                /\ Accepts(s, m)
                      => /\ KeptLen(log[s], m) >= MinOf(commit_idx[s], Len(log[s]))
                         /\ MinOf(MaxOf(Len(Merged(log[s], m)), 1), m.leader_commit)
                               <= Len(Merged(log[s], m))
          [] m.type = "appendentries_response" ->
                Answers(s, p, m) /\ m.success => m.current_idx <= Len(log[s])
          [] OTHER -> TRUE

\* No step but a crash takes back a commit, and no step at all, not even a crash in the
\* middle of raft_recv_appendentries, changes an entry the server knows to be committed.
CommittedStable ==
    [][\A s \in Server :
          /\ commit_idx'[s] >= commit_idx[s] \/ Reload(s)
          /\ commit_idx[s] <= Len(log'[s])
          /\ \A i \in 1 .. commit_idx[s] : log'[s][i] = log[s][i]]_vars

\* The comment of raft_server.c:185, "If response contains term T > currentTerm: set
\* currentTerm = T and convert to follower": no leader goes on leading in its term after a
\* response of a later term.  The test of line 179 returns first if current_idx is not new.
ResponseDeposesLeader ==
    [][\A s, p \in Server : \A i \in Deliverable(p, s) :
          /\ IgnoreAppendEntriesResponse(s, p, i)
          /\ state[s] = "leader"
          => net[p][s][i].term <= current_term[s]]_vars
=============================================================================
