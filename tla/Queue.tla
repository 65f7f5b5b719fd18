------------------------------- MODULE Queue -------------------------------
(***************************************************************************)
(* The ring buffer of the tracker.  top is the slot that is written next;  *)
(* the items are the size slots before it.  The code computes with         *)
(* unsigned sizes: it adds max_size after a subtraction that may wrap, and *)
(* the sum is then the number below.                                       *)
(***************************************************************************)
EXTENDS Integers, Sequences

CONSTANT MaxSize    \* TRACKER_QUEUE_SIZE

ASSUME MaxSizeAssumption == MaxSize \in Nat \ {0}

Slots == 0..(MaxSize - 1)
Queue(Items) == [data: [Slots -> Items], top: Slots, size: 0..MaxSize]

\* malloc leaves garbage in the slots.
QueueInit(garbage) ==
    [data |-> [i \in Slots |-> garbage], top |-> 0, size |-> 0]

IsFull(ql) == ql.size = MaxSize
IsEmpty(ql) == ql.size = 0

\* Mutant: top is not wrapped.
EnqueueOn(ql, x) ==
    [data |-> [ql.data EXCEPT ![ql.top] = x],
     top |-> ql.top + 1,
     size |-> ql.size + 1]

Enqueue(ql, x) ==
    [data |-> [ql.data EXCEPT ![ql.top] = x],
     top |-> (ql.top + 1) % MaxSize,
     size |-> ql.size + 1]

\* The item i places before the slot that is written next.
Back(ql, i) == ql.data[(ql.top - i + MaxSize) % MaxSize]

Oldest(ql) == Back(ql, ql.size)
Dequeue(ql) == [ql EXCEPT !.size = @ - 1]

\* What the queue holds, the oldest item first.
Contents(ql) == [i \in 1..ql.size |-> Back(ql, ql.size - i + 1)]
=============================================================================
