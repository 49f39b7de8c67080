---------------------------- MODULE LogSequence -----------------------------
(* The log as raft_server.c takes it: a sequence that grows at its end and is cut off. *)
EXTENDS Naturals, Sequences

CONSTANT Entry

VARIABLE log

Init == log = << >>

Extend(c) == log' = Append(log, c)

CutFrom(idx) == log' = SubSeq(log, 1, idx - 1)

Next == (\E c \in Entry : Extend(c)) \/ (\E idx \in 1 .. Len(log) : CutFrom(idx))

Spec == Init /\ [][Next]_log
=============================================================================
