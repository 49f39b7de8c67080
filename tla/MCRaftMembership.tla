-------------------------- MODULE MCRaftMembership --------------------------
(* Instances of RaftMembership for TLC. *)
EXTENDS RaftMembership

\* A server joins as module/raft/README.rst says: first without a vote, then with one.
Join == [type : {"add_nonvoting", "add"}, node : {3}]
=============================================================================
