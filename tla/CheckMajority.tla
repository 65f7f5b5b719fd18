--------------------------- MODULE CheckMajority ---------------------------
(***************************************************************************)
(* checkMajority: the search for a majority among the replies of a round,  *)
(* one step per iteration of its loop.  The replies are the count for      *)
(* NOBLOCK and, in the order of the map, the count of every block found.   *)
(***************************************************************************)
EXTENDS Integers, Sequences

CONSTANT Calls      \* the arguments checkMajority may be called with

\* The number of clients heard has not passed the number asked.
ASSUME CallsAssumption ==
    \A c \in Calls :
        /\ c \in [i: Nat, n_peers: Nat, no_block: Nat, messages: Seq(Nat \ {0})]
        /\ c.i <= c.n_peers

VARIABLES
    call,           \* the arguments
    largest, second_largest,
    largest_block,  \* the position of the block in the map, or 0 for NULL
    it,             \* the position of the iterator
    pc              \* "start", "loop", or the result: "true", "false"

vars == <<call, largest, second_largest, largest_block, it, pc>>

Init ==
    /\ call \in Calls
    /\ largest = 0 /\ second_largest = 0 /\ largest_block = 0 /\ it = 1
    /\ pc = "start"

\* Less than half of the clients heard: no potential majority.
TooFew ==
    /\ pc = "start" /\ call.i < call.n_peers \div 2
    /\ pc' = "false"
    /\ UNCHANGED <<call, largest, second_largest, largest_block, it>>

\* No block found at all.
NoMessages ==
    /\ pc = "start" /\ call.i >= call.n_peers \div 2 /\ call.messages = <<>>
    /\ pc' = "true"
    /\ UNCHANGED <<call, largest, second_largest, largest_block, it>>

\* The first block is compared with NOBLOCK.
First ==
    /\ pc = "start" /\ call.i >= call.n_peers \div 2 /\ call.messages # <<>>
    /\ LET n == call.messages[1]
       IN  \/ /\ n > call.no_block
              /\ largest' = n /\ second_largest' = call.no_block
              /\ largest_block' = 1
           \/ /\ n <= call.no_block
              /\ largest' = call.no_block /\ second_largest' = n
              /\ UNCHANGED largest_block
    /\ it' = 2
    /\ pc' = "loop"
    /\ UNCHANGED call

\* Mutant: the old leader is forgotten.
FollowingForgets ==
    /\ pc = "loop" /\ it <= Len(call.messages)
    /\ LET n == call.messages[it]
       IN  \/ /\ n > largest
              /\ largest' = n /\ largest_block' = it
              /\ UNCHANGED second_largest
           \/ /\ n <= largest /\ n > second_largest
              /\ second_largest' = n
              /\ UNCHANGED <<largest, largest_block>>
           \/ /\ n <= second_largest
              /\ UNCHANGED <<largest, second_largest, largest_block>>
    /\ it' = it + 1
    /\ UNCHANGED <<call, pc>>

\* Every following block is compared with the two largest.
Following ==
    /\ pc = "loop" /\ it <= Len(call.messages)
    /\ LET n == call.messages[it]
       IN  \/ /\ n > largest
              /\ largest' = n /\ second_largest' = largest
              /\ largest_block' = it
           \/ /\ n <= largest /\ n > second_largest
              /\ second_largest' = n
              /\ UNCHANGED <<largest, largest_block>>
           \/ /\ n <= second_largest
              /\ UNCHANGED <<largest, second_largest, largest_block>>
    /\ it' = it + 1
    /\ UNCHANGED <<call, pc>>

\* The clients that are not heard yet could all side with the second.
Compare ==
    /\ pc = "loop" /\ it > Len(call.messages)
    /\ pc' = IF largest > second_largest + (call.n_peers - call.i)
             THEN "true" ELSE "false"
    /\ UNCHANGED <<call, largest, second_largest, largest_block, it>>

Next == TooFew \/ NoMessages \/ First \/ Following \/ Compare
Spec == Init /\ [][Next]_vars

----------------------------------------------------------------------------
(* Properties *)

Replies == 0..Len(call.messages)
Count(k) == IF k = 0 THEN call.no_block ELSE call.messages[k]

\* k leads for good: should all clients not yet heard reply j, k still has
\* more replies than j, for every other j.
Leads(k) ==
    \A j \in Replies \ {k} : Count(k) > Count(j) + (call.n_peers - call.i)

\* "we can safely assume we have found all information for a majority vote"
\* (application.cc:258-259): with blocks found, the result is true exactly if
\* some reply leads for good, and largest_block is that reply.
MajorityIsFinal ==
    call.messages # <<>> /\ call.i >= call.n_peers \div 2 =>
        /\ pc = "true" => largest_block \in Replies /\ Leads(largest_block)
        /\ pc = "false" => \A k \in Replies : ~Leads(k)
=============================================================================
