------------------------------ MODULE MCSource ------------------------------
(***************************************************************************)
(* Two, three and four peers with one source of transactions.              *)
(***************************************************************************)
EXTENDS SingleSource, Scenarios

CONSTANTS A, B, C, D

\* A adds two blocks to the chain; B loses A from its peer list and finds it
\* again, over and over, so that B hears of A's proposals and A does not hear
\* of B's votes.
PartitionTrace == A :> <<1, 2>> @@ B :> <<>>
PartitionNetinfos == A :> {{A, B}} @@ B :> {{A, B}, {B}}
PartitionLimit == Limits(0, 2, 2)

\* All but B hold two blocks, and B, which joins them, refreshes again and again.
JoinTrace == [p \in Peers |-> IF p = B THEN <<>> ELSE <<1, 2>>]
JoinNetinfos == [p \in Peers |-> {IF p = B THEN Peers ELSE {p}}]
JoinLimit == "propose" :> 0 @@ "fault" :> 1
=============================================================================
