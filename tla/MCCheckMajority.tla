-------------------------- MODULE MCCheckMajority --------------------------
(***************************************************************************)
(* All calls of checkMajority for up to MaxPeers peers and MaxBlocks       *)
(* different blocks.                                                       *)
(***************************************************************************)
EXTENDS CheckMajority, SequencesExt

CONSTANTS MaxPeers, MaxBlocks

Arguments ==
    [i: 0..MaxPeers, n_peers: 1..MaxPeers, no_block: 0..MaxPeers,
     messages: SeqOf(1..MaxPeers, MaxBlocks)]

\* The caller counts every client heard at most once.
SmallCalls ==
    {c \in Arguments : /\ c.i <= c.n_peers
                       /\ c.no_block + FoldSeq(+, 0, c.messages) <= c.i}
=============================================================================
