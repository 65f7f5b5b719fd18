---------------------------- MODULE TwoProposers ----------------------------
(***************************************************************************)
(* The deployment in which two peers compete: they know each other, and    *)
(* every other peer in their lists, if there is one, stays silent.         *)
(***************************************************************************)
EXTENDS VoteHistory

CONSTANTS First, Second     \* the two peers

Proposers == {First, Second}
Other(p) == IF p = First THEN Second ELSE First

\* Each of the two is in all the lists that the other receives; a silent peer
\* receives none.  No chain is loaded that forks from another one, or that a
\* silent peer only has.
ASSUME ProposersAssumption ==
    /\ First \in Peers /\ Second \in Peers /\ First # Second
    /\ \A p \in Proposers : \A S \in Netinfos[p] : Other(p) \in S
    /\ \A p \in Peers \ Proposers : Netinfos[p] = {}
    /\ \E p \in Proposers : IsPrefix(InitialChain(p), InitialChain(Other(p)))
    /\ \A p \in Peers \ Proposers : \A q \in Proposers :
          IsPrefix(InitialChain(p), InitialChain(q))

\* Two peers that compete for an index, each with a block of its own, settle on
\* one of the blocks by the order of the hashes, in nested votes if need be
\* (application.cc:659-687, 844-906): their chains do not fork unless one of
\* them has given a vote up (727-731).  Neither a round that times out nor a
\* datagram that is delayed, lost or duplicated makes them fork.
ForksNeedTimeouts == ~expired => ChainsAgree
=============================================================================
