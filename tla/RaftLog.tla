------------------------------ MODULE RaftLog -------------------------------
(***************************************************************************)
(* The growing array of module/raft/src/raft_log.c behind the log of the   *)
(* server, with the operations that raft_server.c calls.  Nothing calls    *)
(* log_poll and log_empty, so that front and base stay 0.                  *)
(***************************************************************************)
EXTENDS Integers, Sequences

CONSTANTS
    Entry,            \* entries, numbers other than 0
    InitialCapacity,
    MaxCount          \* bound: entries of the log

ASSUME LogAssumption ==
    /\ Entry \subseteq Nat \ {0}
    /\ InitialCapacity \in Nat \ {0} /\ MaxCount \in Nat

VARIABLES
    size, count, front, back, base,  \* the fields of log_private_t
    entries                          \* its array

logVars == <<size, count, front, back, base, entries>>

Blank == 0  \* what calloc leaves

LogInit ==
    /\ size = InitialCapacity
    /\ count = 0 /\ front = 0 /\ back = 0 /\ base = 0
    /\ entries = [i \in 0 .. InitialCapacity - 1 |-> Blank]

\* Mutant: the copy leaves out the last entry.
EnsureCapacityLess ==
    IF count < size
    THEN [size |-> size, front |-> front, back |-> back, entries |-> entries]
    ELSE [size |-> 2 * size, front |-> 0, back |-> count,
          entries |-> [i \in 0 .. 2 * size - 1 |->
              IF i < count - 1
              THEN entries[IF front + i < size THEN front + i ELSE front + i - size]
              ELSE Blank]]

\* The array with room for one more entry; the copy starts at the front.
EnsureCapacity ==
    IF count < size
    THEN [size |-> size, front |-> front, back |-> back, entries |-> entries]
    ELSE [size |-> 2 * size, front |-> 0, back |-> count,
          entries |-> [i \in 0 .. 2 * size - 1 |->
              IF i < count
              THEN entries[IF front + i < size THEN front + i ELSE front + i - size]
              ELSE Blank]]

AppendEntry(c) ==
    LET room == EnsureCapacity IN
    /\ count < MaxCount
    /\ size' = room.size /\ front' = room.front
    /\ entries' = [room.entries EXCEPT ![room.back] = c]
    /\ count' = count + 1 /\ back' = room.back + 1
    /\ UNCHANGED base

\* How many entries there are from idx on; the loop of log_delete ends at once if none.
Behind(idx) == IF idx - 1 - base < count THEN count - (idx - 1 - base) ELSE 0

\* Mutant: back stays.
DeleteKeepsBack(idx) ==
    /\ count' = count - Behind(idx)
    /\ UNCHANGED <<size, front, back, base, entries>>

\* All entries from idx on.
Delete(idx) ==
    /\ back' = back - Behind(idx) /\ count' = count - Behind(idx)
    /\ UNCHANGED <<size, front, base, entries>>

LogNext == (\E c \in Entry : AppendEntry(c)) \/ (\E idx \in 1 .. MaxCount + 1 : Delete(idx))

LogSpec == LogInit /\ [][LogNext]_logVars

Within(idx) == base <= idx /\ idx <= base + count

Position(idx) == (front + idx - 1 - base) % size

\* The entry, or nothing.
GetAtIdx(idx) == IF Within(idx) THEN <<entries[Position(idx)]>> ELSE << >>

\* The entries that a caller may read behind the pointer it gets.
GetFromIdx(idx) ==
    LET i == Position(idx)
        n == IF i < back THEN back - i ELSE size - i
    IN IF Within(idx) THEN [k \in 1 .. n |-> entries[i + k - 1]] ELSE << >>

(***************************************************************************)
(*                              Properties                                 *)
(***************************************************************************)
LogContents == [i \in 1 .. count |-> entries[Position(i)]]

Sequence == INSTANCE LogSequence WITH log <- LogContents

\* The array implements the sequence that Raft.tla takes for the log: growing keeps every
\* entry, and what was deleted does not come back (raft_log.c:89 and 155).
ArrayIsSequence == Sequence!Spec

\* What the server reads is the sequence: log_get_at_idx returns its entries and nothing
\* for an index beyond, log_get_from_idx all of its rest, which becomes the entries of an
\* appendentries (raft_log.c:106 and 132, raft_server.c:654).
ReadsAgree ==
    \A idx \in 1 .. MaxCount + 1 :
        /\ GetAtIdx(idx) = IF idx <= count THEN <<LogContents[idx]>> ELSE << >>
        /\ GetFromIdx(idx) = SubSeq(LogContents, idx, count)

=============================================================================
