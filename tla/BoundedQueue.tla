---------------------------- MODULE BoundedQueue ----------------------------
(* What the ring buffer promises its two threads: a first-in first-out queue of *)
(* bounded length, in which every step puts one item in or takes one out.       *)
EXTENDS Naturals, Sequences

CONSTANTS Item, Bound

VARIABLE queue

Init == queue = << >>

Put(x) == Len(queue) < Bound /\ queue' = Append(queue, x)

Get == queue # << >> /\ queue' = Tail(queue)

Next == Get \/ \E x \in Item : Put(x)

Spec == Init /\ [][Next]_queue
=============================================================================
