-------------------------------- MODULE Fifo --------------------------------
(***************************************************************************)
(* What the tracker's queue promises: of the requests that were accepted,  *)
(* at most MaxSize wait, and each is handled once, in the order in which   *)
(* they were accepted.                                                     *)
(***************************************************************************)
EXTENDS Naturals, Sequences

CONSTANTS Items, MaxSize, Workers, Idle

VARIABLES waiting,      \* the items accepted and not yet handed over
          handling      \* the item that each worker is handling, or Idle

Init == /\ waiting = <<>>
        /\ handling = [w \in Workers |-> Idle]

Accept(x) ==
    /\ Len(waiting) < MaxSize
    /\ waiting' = Append(waiting, x)
    /\ UNCHANGED handling

Handle(w) ==
    /\ waiting # <<>> /\ handling[w] = Idle
    /\ handling' = [handling EXCEPT ![w] = Head(waiting)]
    /\ waiting' = Tail(waiting)

Finish(w) ==
    /\ handling[w] # Idle
    /\ handling' = [handling EXCEPT ![w] = Idle]
    /\ UNCHANGED waiting

Next == \/ \E x \in Items : Accept(x)
        \/ \E w \in Workers : Handle(w) \/ Finish(w)

Spec == Init /\ [][Next]_<<waiting, handling>>
=============================================================================
