------------------------------- MODULE MCRaft -------------------------------
(* Instances of Raft for TLC. *)
EXTENDS Raft, TLC

\* Servers may be exchanged if they are of the same kind.
Symmetry ==
    {f \in Permutations(Server) : /\ {f[s] : s \in Voters} = Voters
                                  /\ {f[s] : s \in Unstable} = Unstable
                                  /\ {f[s] : s \in Electing} = Electing}

\* The history has no influence on the rest: states that differ in it alone are the
\* same to properties that say no more of it than its type.
NoHistory == <<current_term, voted_for, disk_vote, state, current_leader, log, commit_idx,
               last_applied_idx, next_idx, match_idx, votes_for_me, net>>

\* What decides which messages are sent and how they are answered, where no server crashes
\* and all may vote: not what was applied or is on disk, nor who leads; the indices of the
\* peers only at a leader and the votes only at a candidate, who begins without any.
Exchange ==
    <<current_term, voted_for, state, log, commit_idx, net,
      [s \in Server |-> IF state[s] = "leader" THEN <<next_idx[s], match_idx[s]>> ELSE << >>],
      [s \in Server |-> IF state[s] = "candidate" THEN votes_for_me[s] ELSE {}]>>
=============================================================================
