----------------------------- MODULE RingBuffer -----------------------------
(***************************************************************************)
(* The ring buffer of module/stl/src/stl_ring_buffer.c between a thread    *)
(* that queues and one that dequeues.  Head and tail are offsets in bytes; *)
(* memory is modelled slot by slot.  stl_ring_buffer_dequeue returns a     *)
(* pointer into the buffer and gives up the slot before its caller reads   *)
(* it: the caller may read until it dequeues again.                        *)
(***************************************************************************)
EXTENDS Integers, Sequences

CONSTANTS
    Capacity, DSize,  \* slots of the buffer, bytes of a slot
    MaxItems          \* bound: items that are queued, numbered from 1

ASSUME RingAssumption == Capacity \in Nat \ {0} /\ DSize \in Nat \ {0} /\ MaxItems \in Nat

VARIABLES
    head, tail, slots,  \* the fields head, tail, buf_ptr
    producer,           \* what the queueing thread does next
    consumer, ptr,      \* what the dequeueing thread does next, the slot it was given
    sent, received      \* history: items queued and dequeued so far

ringVars == <<head, tail, slots, producer, consumer, ptr, sent, received>>

Slot == 0 .. Capacity - 1
SlotOf(offset) == offset \div DSize
Advance(offset) == (offset + DSize) % (Capacity * DSize)

Torn == 0      \* a slot that memcpy is writing, or has never written
NoSlot == -1

IsEmpty == head = tail

\* Mutant: the offsets are taken for numbers of slots.
IsFullInSlots == tail + 1 = head

IsFull == Advance(tail) = head

RingInit ==
    /\ head = 0 /\ tail = 0
    /\ slots = [i \in Slot |-> Torn]
    /\ producer = "idle"
    /\ consumer = "idle" /\ ptr = NoSlot
    /\ sent = 0 /\ received = 0

\* stl_ring_buffer_queue: the test, the copy, the store of tail; if full it returns -1.
QueueTest ==
    /\ producer = "idle" /\ sent < MaxItems
    /\ ~IsFull
    /\ producer' = "copy"
    /\ UNCHANGED <<head, tail, slots, consumer, ptr, sent, received>>

QueueCopy ==
    /\ producer = "copy"
    /\ producer' = "copied"
    /\ slots' = [slots EXCEPT ![SlotOf(tail)] = Torn]
    /\ UNCHANGED <<head, tail, consumer, ptr, sent, received>>

QueueCopied ==
    /\ producer = "copied"
    /\ producer' = "publish"
    /\ slots' = [slots EXCEPT ![SlotOf(tail)] = sent + 1]
    /\ UNCHANGED <<head, tail, consumer, ptr, sent, received>>

QueuePublish ==
    /\ producer = "publish"
    /\ producer' = "idle"
    /\ tail' = Advance(tail)
    /\ sent' = sent + 1
    /\ UNCHANGED <<head, slots, consumer, ptr, received>>

\* Mutant: the slot behind the head.
DequeueTestNext ==
    /\ consumer = "idle"
    /\ ~IsEmpty
    /\ consumer' = "release"
    /\ ptr' = SlotOf(Advance(head))
    /\ received' = received + 1
    /\ UNCHANGED <<head, tail, slots, producer, sent>>

\* stl_ring_buffer_dequeue: the test and the pointer, the store of head.
DequeueTest ==
    /\ consumer = "idle"
    /\ ~IsEmpty
    /\ consumer' = "release"
    /\ ptr' = SlotOf(head)
    /\ received' = received + 1
    /\ UNCHANGED <<head, tail, slots, producer, sent>>

DequeueRelease ==
    /\ consumer = "release"
    /\ consumer' = "idle"
    /\ head' = Advance(head)
    /\ UNCHANGED <<tail, slots, producer, ptr, sent, received>>

RingNext ==
    \/ QueueTest \/ QueueCopy \/ QueueCopied \/ QueuePublish
    \/ DequeueTest \/ DequeueRelease

RingSpec == RingInit /\ [][RingNext]_ringVars

(***************************************************************************)
(*                              Properties                                 *)
(***************************************************************************)
\* The pointer that stl_ring_buffer_dequeue returned shows the item whose turn it was,
\* whole, until the next call: the slot that is kept empty protects it (is_full).
PointerValid == ptr # NoSlot => slots[ptr] = received

\* The items between head and tail.
RingContents ==
    LET n == ((tail + Capacity * DSize - head) % (Capacity * DSize)) \div DSize
    IN [i \in 1 .. n |-> slots[(SlotOf(head) + i - 1) % Capacity]]

Queue == INSTANCE BoundedQueue
            WITH queue <- RingContents, Item <- 1 .. MaxItems, Bound <- Capacity - 1

\* The two threads see a first-in first-out queue: the store of tail puts an item in and
\* the store of head takes one out, and nothing else changes it.
RingIsQueue == Queue!Spec
=============================================================================
