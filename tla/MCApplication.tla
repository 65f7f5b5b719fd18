--------------------------- MODULE MCApplication ---------------------------
(***************************************************************************)
(* Two peers, each with a block of its own to add.                         *)
(***************************************************************************)
EXTENDS Application, Scenarios

CONSTANTS A, B

PairTrace == A :> <<1>> @@ B :> <<2>>

\* Both peers know each other from the start.
PairNetinfos == [p \in {A, B} |-> {{A, B}}]
PairLimit == Limits(1, 2, 1)
=============================================================================
