----------------------------- MODULE MCHistory -----------------------------
(***************************************************************************)
(* Two proposers and a third peer, which knows nobody and stays silent.    *)
(***************************************************************************)
EXTENDS TwoProposers, Scenarios

CONSTANTS A, B, C

ThreeTrace == A :> <<1>> @@ B :> <<2>> @@ C :> <<>>
ThreeNetinfos == A :> {{A, B, C}} @@ B :> {{A, B, C}} @@ C :> {}
ThreeLimit == Limits(1, 2, 1)
=============================================================================
