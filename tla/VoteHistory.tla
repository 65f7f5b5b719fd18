---------------------------- MODULE VoteHistory ----------------------------
(***************************************************************************)
(* Application with history variables: what has been sent, which votes     *)
(* have ended with true, and whether one has ended by a timeout.           *)
(***************************************************************************)
EXTENDS Application

VARIABLES
    sent,       \* the messages with a block ever sent
    passed,     \* the votes that ended with true
    expired     \* has an activation of CheckVotesForBlock timed out?

history == <<sent, passed, expired>>

\* p has one candidate more: what it voted on, how many were asked, and its
\* own vote.
Passing(p) == Len(candidates'[p]) > Len(candidates[p])
PassedBy(p) == [peer |-> p, block |-> Innermost(p).block,
                n_peers |-> Innermost(p).n_peers, agree |-> Innermost(p).agree]

TimesOut(p) == votes'[p] # <<>> /\ Head(votes'[p]).status = "timed out"

HistoryInit == Init /\ sent = {} /\ passed = {} /\ expired = FALSE
HistoryNext ==
    /\ Next
    /\ sent' = sent \cup {m \in net' : m.block # <<>>}
    /\ passed' = passed \cup {PassedBy(p) : p \in {q \in Peers : Passing(q)}}
    /\ expired' = (expired \/ \E p \in Peers : TimesOut(p))
HistorySpec == HistoryInit /\ [][HistoryNext]_<<vars, history>>

\* The other peers that sent p a vote in favour of block b.
Supporters(p, b) == {m.from : m \in {v \in sent : /\ v.type = "VOTE"
                                                  /\ v.to = p
                                                  /\ v.block = b
                                                  /\ v.agree}}

\* What a vote adds to the count of the votes in favour.
InFavour(agree) == IF agree THEN 1 ELSE 0

\* More than half of n peers are in favour of b: the other peers that said so
\* to p, and p itself if it is.
EndorsedBlock(p, b, n, agree) ==
    Cardinality(Supporters(p, b)) + InFavour(agree) > n \div 2

\* Every block that became a candidate was voted for by more than half of the
\* peers that were asked (application.cc:710, 738), the peer itself among them
\* only if it was in favour (592-596), and the others by one vote each: no
\* vote for another block, vote against or repeated vote was taken for one,
\* whatever peer lists arrived since the peers were counted (778).
Endorsed ==
    \A v \in passed : EndorsedBlock(v.peer, v.block, v.n_peers, v.agree)
=============================================================================
