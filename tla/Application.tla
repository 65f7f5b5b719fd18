---------------------------- MODULE Application ----------------------------
(***************************************************************************)
(* The peers of the proof-of-work blockchain: the main thread of every     *)
(* Application (Run and everything it calls), its inbox thread and its     *)
(* tracker thread, and the UDP network between the peers.                  *)
(*                                                                         *)
(* A block is the sequence of the data of its chain from the block after   *)
(* genesis up to itself.  SHA-256 over (data, previous hash) is taken to   *)
(* be free of collisions, so that sequence stands for the block's hash:    *)
(* its Front is the previous hash and its Last is the data.  bc[p] is the  *)
(* whole chain of p and, for the same reason, the hash of its top block.   *)
(***************************************************************************)
EXTENDS Integers, Sequences, FiniteSets, SequencesExt

CONSTANTS
    Peers,          \* the peers that run the application
    Data,           \* the transaction batches that a block can hold
    Trace,          \* the batches each peer has read from its trace file
    Initialized,    \* the peers started with init = '1'
    HashLeq(_, _),  \* a.compare(b) <= 0 on the hashes of two blocks
    Netinfos,       \* the peer lists the tracker may send to each peer
    MaxInbox,       \* bound: an inbox this long accepts nothing more
    Limit           \* bound: how often an effort below is made, in total

\* Steps that can be taken again and again: a refresh without messages, a
\* proposal, and what the network does wrong, a timeout or a duplicate.
Efforts == {"idle", "propose", "fault"}

ASSUME TraceAssumption == Trace \in [Peers -> Seq(Data)]
ASSUME InitializedAssumption == Initialized \subseteq Peers
ASSUME PeersAssumption == IsFiniteSet(Peers)
ASSUME NetinfosAssumption == Netinfos \in [Peers -> SUBSET SUBSET Peers]
ASSUME MaxInboxAssumption == MaxInbox \in Nat
ASSUME LimitAssumption == \E E \in SUBSET Efforts : Limit \in [E -> Nat]

VARIABLES
    bc,             \* the chain of each peer, without its genesis block
    transactions,   \* the batches it has still to add
    pc,             \* where its main thread is
    after,          \* where RequestBlockchain returns to
    held,           \* the ADDREQUEST that Run holds during RequestBlockchain
    round,          \* the locals of RequestBlockchainBlock
    votes,          \* the activations of CheckVotesForBlock, innermost first
    candidates,     \* addblock_candidates
    aside,          \* read_messages of the loop that is running
    inbox,          \* the messages received and not yet read
    net,            \* the messages in flight
    netinfo,        \* the peer list last received from the tracker
    online,         \* is_online
    wasOffline,     \* was_offline
    spent           \* how often each limited effort has been made

mainVars == <<pc, after, held, round>>
trackerVars == <<netinfo, online, wasOffline>>
vars == <<bc, transactions, mainVars, votes, candidates, aside, inbox, net,
          trackerVars, spent>>

Chain == Seq(Data)
Block == Chain \ {<<>>}
MessageOf(types, blocks) ==
    [type: types, from: Peers, to: Peers, index: Nat \ {0}, block: blocks,
     agree: BOOLEAN]
AddRequest == MessageOf({"ADDREQUEST"}, Block)
Message == MessageOf({"BLOCK", "VOTE", "ADDREQUEST"}, Block)
           \cup MessageOf({"REQUESTBLOCK", "NOBLOCK"}, {<<>>})

\* The data found in the replies of one round, with the peers heard.
Round == [n_peers: Nat, seen: SUBSET Peers, no_block: Nat,
          found: [Data -> Nat]]

\* One activation of CheckVotesForBlock.  own: called by
\* AddBlockToBlockchain; agree: the caller's vote; status: why it stops.
Voting == [n_peers: Nat, block: Block, own: BOOLEAN, agree: BOOLEAN,
           n_agrees: Nat, n_disagrees: Nat, seen: SUBSET Peers,
           aside: Seq(Message), status: {"waiting", "timed out", "abandoned"}]

Candidate == [block: Block, own: BOOLEAN]
Location == {"Run", "RequestBlockchain", "AwaitBlock", "TimedOut", "Propose",
             "HandleRequest", "HandleAll", "Finish"}

NoRound == [n_peers |-> 0, seen |-> {}, no_block |-> 0,
            found |-> [d \in Data |-> 0]]

TypeOK ==
    /\ bc \in [Peers -> Chain]
    /\ transactions \in [Peers -> Chain]
    /\ pc \in [Peers -> Location]
    /\ after \in [Peers -> {"Run", "Propose", "HandleRequest"}]
    /\ held \in [Peers -> SUBSET AddRequest]
    /\ round \in [Peers -> Round]
    /\ votes \in [Peers -> Seq(Voting)]
    /\ candidates \in [Peers -> Seq(Candidate)]
    /\ aside \in [Peers -> Seq(Message)]
    /\ inbox \in [Peers -> Seq(Message)]
    /\ net \in SUBSET Message
    /\ netinfo \in [Peers -> SUBSET Peers]
    /\ online \in [Peers -> BOOLEAN]
    /\ wasOffline \in [Peers -> BOOLEAN]
    /\ spent \in [Efforts -> Nat]

----------------------------------------------------------------------------
(* The chain *)

\* The genesis block counts: Size is also the index of the next block.
Size(p) == Len(bc[p]) + 1
TopHash(p) == bc[p]

\* The block keeps the data it is given and is linked to the top, whatever
\* previous hash the block that the data was taken from had.
AddBlock(p, d) == bc' = [bc EXCEPT ![p] = Append(@, d)]
SneakPeekBlock(p, d) == Append(bc[p], d)

InitialChain(p) == IF p \in Initialized THEN Trace[p] ELSE <<>>
InitialTransactions(p) == IF p \in Initialized THEN <<>> ELSE Trace[p]

----------------------------------------------------------------------------
(* Sending *)

\* The peers that broadcast reaches: the peer list without the sender.
Others(p) == netinfo[p] \ {p}

Broadcast(p, type, index, block, agree) ==
    {[type |-> type, from |-> p, to |-> q, index |-> index,
      block |-> block, agree |-> agree] : q \in Others(p)}

\* Mutant: the end of the chain has a message type of its own.
SendLastBlock(p, m) ==
    [type |-> IF m.index < Size(p) THEN "BLOCK" ELSE "LASTBLOCK",
     from |-> p, to |-> m.from, index |-> m.index,
     block |-> IF m.index < Size(p) THEN SubSeq(bc[p], 1, m.index) ELSE <<>>,
     agree |-> FALSE]

\* Mutant: the top block is kept back.
SendButTop(p, m) ==
    [type |-> IF m.index < Len(bc[p]) THEN "BLOCK" ELSE "NOBLOCK",
     from |-> p, to |-> m.from, index |-> m.index,
     block |-> IF m.index < Len(bc[p]) THEN SubSeq(bc[p], 1, m.index) ELSE <<>>,
     agree |-> FALSE]

\* The answer to REQUESTBLOCK m: the block, or NOBLOCK past the end.
SendBlockchain(p, m) ==
    [type |-> IF m.index < Size(p) THEN "BLOCK" ELSE "NOBLOCK",
     from |-> p, to |-> m.from, index |-> m.index,
     block |-> IF m.index < Size(p) THEN SubSeq(bc[p], 1, m.index) ELSE <<>>,
     agree |-> FALSE]

----------------------------------------------------------------------------
(* Efforts *)

\* An effort that is not limited is not counted either.
Spend(e) ==
    \/ /\ e \in DOMAIN Limit
       /\ spent[e] < Limit[e]
       /\ spent' = [spent EXCEPT ![e] = @ + 1]
    \/ e \notin DOMAIN Limit /\ UNCHANGED spent

----------------------------------------------------------------------------
(* The other two threads of a peer *)

\* The inbox thread reads one datagram.  A datagram that the network
\* duplicates stays in flight; one never read is lost.
Receive(m) ==
    /\ Len(inbox[m.to]) < MaxInbox
    /\ inbox' = [inbox EXCEPT ![m.to] = Append(@, m)]
    /\ \/ net' = net \ {m} /\ UNCHANGED spent
       \/ Spend("fault") /\ UNCHANGED net
    /\ UNCHANGED <<bc, transactions, mainVars, votes, candidates, aside,
                   trackerVars>>

\* The tracker thread reads a peer list.  A peer that is not in it has been
\* offline.  should_refresh reads and clears was_offline without a lock, so
\* when the main thread is in Run the flag set here may be cleared at once.
ReceiveNetinfo(p) ==
    /\ \E S \in Netinfos[p] :
         /\ netinfo' = [netinfo EXCEPT ![p] = S]
         /\ online' = [online EXCEPT ![p] = p \in S]
         /\ \/ p \in S /\ UNCHANGED wasOffline
            \/ p \notin S /\ wasOffline' = [wasOffline EXCEPT ![p] = TRUE]
            \/ p \notin S /\ pc[p] = "Run" /\ UNCHANGED wasOffline
    /\ UNCHANGED <<bc, transactions, mainVars, votes, candidates, aside,
                   inbox, net, spent>>

----------------------------------------------------------------------------
(* Run *)

\* The main thread is at the top of its loop and has nothing to refresh.
Idle(p) == pc[p] = "Run" /\ online[p] /\ ~wasOffline[p]

\* RequestBlockchain is called and will return to l.
CallRequestBlockchain(p, l) ==
    /\ pc' = [pc EXCEPT ![p] = "RequestBlockchain"]
    /\ after' = [after EXCEPT ![p] = l]
    /\ UNCHANGED round

\* The first message of the inbox, taken out of it.
Oldest(p) == Head(inbox[p])
Take(p) == inbox' = [inbox EXCEPT ![p] = Tail(@)]
Pending(p, types) == inbox[p] # <<>> /\ Oldest(p).type \in types

RunRefresh(p) ==
    /\ pc[p] = "Run" /\ online[p] /\ wasOffline[p]
    /\ wasOffline' = [wasOffline EXCEPT ![p] = FALSE]
    /\ CallRequestBlockchain(p, "Run")
    /\ UNCHANGED <<bc, transactions, held, votes, candidates, aside, inbox,
                   net, netinfo, online, spent>>

RunRequestBlock(p) ==
    /\ Idle(p) /\ Pending(p, {"REQUESTBLOCK"})
    /\ Take(p)
    /\ net' = net \cup {SendBlockchain(p, Oldest(p))}
    /\ UNCHANGED <<bc, transactions, mainVars, votes, candidates, aside,
                   trackerVars, spent>>

RunAddRequest(p) ==
    /\ Idle(p) /\ Pending(p, {"ADDREQUEST"})
    /\ Take(p)
    /\ held' = [held EXCEPT ![p] = {Oldest(p)}]
    /\ CallRequestBlockchain(p, "HandleRequest")
    /\ UNCHANGED <<bc, transactions, votes, candidates, aside, net,
                   trackerVars, spent>>

\* Run frees a vote or a reply that nobody waits for.
RunFree(p) ==
    /\ Idle(p) /\ Pending(p, {"VOTE", "BLOCK", "NOBLOCK"})
    /\ Take(p)
    /\ UNCHANGED <<bc, transactions, mainVars, votes, candidates, aside, net,
                   trackerVars, spent>>

RunTransaction(p) ==
    /\ Idle(p) /\ inbox[p] = <<>> /\ transactions[p] # <<>>
    /\ Spend("propose")
    /\ CallRequestBlockchain(p, "Propose")
    /\ UNCHANGED <<bc, transactions, held, votes, candidates, aside, inbox,
                   net, trackerVars>>

RunNoMessages(p) ==
    /\ Idle(p) /\ inbox[p] = <<>> /\ transactions[p] = <<>>
    /\ Spend("idle")
    /\ CallRequestBlockchain(p, "Run")
    /\ UNCHANGED <<bc, transactions, held, votes, candidates, aside, inbox,
                   net, trackerVars>>

----------------------------------------------------------------------------
(* RequestBlockchain and its rounds, the calls of RequestBlockchainBlock *)

\* Enter a round.  Without other peers it succeeds at once with no block.
RequestBlock(p) ==
    /\ pc[p] = "RequestBlockchain"
    /\ IF Others(p) = {}
       THEN pc' = [pc EXCEPT ![p] = after[p]] /\ UNCHANGED round
       ELSE /\ pc' = [pc EXCEPT ![p] = "AwaitBlock"]
            /\ round' = [round EXCEPT ![p] =
                           [NoRound EXCEPT !.n_peers = Cardinality(Others(p))]]
    /\ net' = net \cup Broadcast(p, "REQUESTBLOCK", Size(p), <<>>, FALSE)
    /\ UNCHANGED <<bc, transactions, after, held, votes, candidates, aside,
                   inbox, trackerVars, spent>>

\* checkMajority: x leads if it is ahead of y even should all the peers not
\* yet heard side with y.  The map of found blocks being empty is enough for
\* NOBLOCK, and nothing is decided before half of the peers are heard.
Unheard(r) == r.n_peers - Cardinality(r.seen)
HalfHeard(r) == Cardinality(r.seen) >= r.n_peers \div 2

MajorityForNoBlock(r) ==
    /\ HalfHeard(r)
    /\ \/ \A d \in Data : r.found[d] = 0
       \/ \A d \in Data : r.no_block > r.found[d] + Unheard(r)

MajorityForBlock(r, d) ==
    /\ HalfHeard(r)
    /\ r.found[d] > r.no_block + Unheard(r)
    /\ \A e \in Data \ {d} : r.found[d] > r.found[e] + Unheard(r)

\* Leave the round and put the messages set aside back behind the inbox.
LeaveRound(p, kept, l) ==
    /\ pc' = [pc EXCEPT ![p] = l]
    /\ round' = [round EXCEPT ![p] = NoRound]
    /\ aside' = [aside EXCEPT ![p] = <<>>]
    /\ inbox' = [inbox EXCEPT ![p] = Tail(@) \o kept]

\* What follows the handling of a message, with r and kept the locals it
\* leaves: success with a block, success without, another round, or waiting.
Conclude(p, r, kept) ==
    \/ \E d \in Data :
         /\ MajorityForBlock(r, d)
         /\ AddBlock(p, d)
         /\ LeaveRound(p, kept, "RequestBlockchain")
    \/ /\ MajorityForNoBlock(r)
       /\ LeaveRound(p, kept, after[p])
       /\ UNCHANGED bc
    \/ /\ ~MajorityForNoBlock(r) /\ \A d \in Data : ~MajorityForBlock(r, d)
       /\ Cardinality(r.seen) >= r.n_peers
       /\ LeaveRound(p, kept, "RequestBlockchain")
       /\ UNCHANGED bc
    \/ /\ ~MajorityForNoBlock(r) /\ \A d \in Data : ~MajorityForBlock(r, d)
       /\ Cardinality(r.seen) < r.n_peers
       /\ round' = [round EXCEPT ![p] = r]
       /\ aside' = [aside EXCEPT ![p] = kept]
       /\ Take(p)
       /\ UNCHANGED <<bc, pc>>

\* The round after q has been heard, by whatever message; q counts once.
Hear(r, q) == [r EXCEPT !.seen = @ \cup {q}]

HearNoBlock(r, q) ==
    IF q \in r.seen THEN r ELSE [Hear(r, q) EXCEPT !.no_block = @ + 1]

\* Mutant: only the position of a block is compared.
ContinuesAnywhere(p, b) == Len(Front(b)) <= Len(TopHash(p))

\* A block that does not continue the chain of p is malformed: its sender
\* counts as heard and the block does not count.
Continues(p, b) == Front(b) = TopHash(p)

\* Mutant: only the sender of a malformed block is recorded.
HearBlockUnrecorded(p, r, q, b) ==
    IF q \in r.seen THEN r
    ELSE IF Continues(p, b) THEN [r EXCEPT !.found[Last(b)] = @ + 1]
    ELSE Hear(r, q)

HearBlock(p, r, q, b) ==
    IF q \in r.seen THEN r
    ELSE IF Continues(p, b) THEN [Hear(r, q) EXCEPT !.found[Last(b)] = @ + 1]
    ELSE Hear(r, q)

AwaitNoBlock(p) ==
    /\ pc[p] = "AwaitBlock" /\ Pending(p, {"NOBLOCK"})
    /\ Conclude(p, HearNoBlock(round[p], Oldest(p).from), aside[p])
    /\ UNCHANGED <<transactions, after, held, votes, candidates, net,
                   trackerVars, spent>>

AwaitBlock(p) ==
    /\ pc[p] = "AwaitBlock" /\ Pending(p, {"BLOCK"})
    /\ LET m == Oldest(p)
       IN  Conclude(p, HearBlock(p, round[p], m.from, m.block), aside[p])
    /\ UNCHANGED <<transactions, after, held, votes, candidates, net,
                   trackerVars, spent>>

\* A peer that requests the same block has none to offer; one that is
\* behind is served; one that is ahead is answered later.
AwaitRequestBlock(p) ==
    /\ pc[p] = "AwaitBlock" /\ Pending(p, {"REQUESTBLOCK"})
    /\ LET m == Oldest(p)
           r == round[p]
       IN  \/ /\ m.index = Size(p)
              /\ Conclude(p, Hear(r, m.from), aside[p])
              /\ UNCHANGED net
           \/ /\ m.index < Size(p)
              /\ net' = net \cup {SendBlockchain(p, m)}
              /\ Conclude(p, r, aside[p])
           \/ /\ m.index > Size(p)
              /\ Conclude(p, r, Append(aside[p], m))
              /\ UNCHANGED net
    /\ UNCHANGED <<transactions, after, held, votes, candidates, trackerVars,
                   spent>>

\* A vote or an addition request is freed.
AwaitFree(p) ==
    /\ pc[p] = "AwaitBlock" /\ Pending(p, {"VOTE", "ADDREQUEST"})
    /\ Conclude(p, round[p], aside[p])
    /\ UNCHANGED <<transactions, after, held, votes, candidates, net,
                   trackerVars, spent>>

\* The inbox was found empty n_tries times: the last try sleeps and gives up.
AwaitTimeout(p) ==
    /\ pc[p] = "AwaitBlock" /\ inbox[p] = <<>>
    /\ Spend("fault")
    /\ pc' = [pc EXCEPT ![p] = "TimedOut"]
    /\ round' = [round EXCEPT ![p] = NoRound]
    /\ UNCHANGED <<bc, transactions, after, held, votes, candidates, aside,
                   inbox, net, trackerVars>>

\* The messages set aside are put back, behind what arrived during the last
\* sleep, and the block is asked for again.
AwaitReturn(p) ==
    /\ pc[p] = "TimedOut"
    /\ pc' = [pc EXCEPT ![p] = "RequestBlockchain"]
    /\ inbox' = [inbox EXCEPT ![p] = @ \o aside[p]]
    /\ aside' = [aside EXCEPT ![p] = <<>>]
    /\ UNCHANGED <<bc, transactions, after, held, round, votes, candidates,
                   net, trackerVars, spent>>

----------------------------------------------------------------------------
(* Proposing a block and voting on blocks *)

\* CheckVotesForBlock starts: n_peers counts this peer, and so does its vote.
NewVoting(p, b, own, agree) ==
    [n_peers |-> Cardinality(Others(p)) + 1, block |-> b, own |-> own,
     agree |-> agree,
     n_agrees |-> IF agree THEN 1 ELSE 0,
     n_disagrees |-> IF agree THEN 0 ELSE 1,
     seen |-> {}, aside |-> <<>>, status |-> "waiting"]

\* AddBlockToBlockchain up to its call of CheckVotesForBlock.
AddBlockToBlockchain(p) ==
    /\ pc[p] = "Propose"
    /\ LET b == SneakPeekBlock(p, Head(transactions[p]))
       IN  /\ net' = net \cup Broadcast(p, "ADDREQUEST", Size(p), b, FALSE)
           /\ votes' = [votes EXCEPT ![p] = <<NewVoting(p, b, TRUE, TRUE)>>]
    /\ pc' = [pc EXCEPT ![p] = "HandleAll"]
    /\ UNCHANGED <<bc, transactions, after, held, round, candidates, aside,
                   inbox, trackerVars, spent>>

\* Mutant: outdated requests are not told apart.
VoteOutdated(p, m) == m.index <= Size(p)

\* The vote of p on request m: the block must continue the chain of p.  The
\* block hash and the proof of work that the code also checks are right in
\* every request that AddBlockToBlockchain makes.
Vote(p, m) == m.index = Size(p) /\ Continues(p, m.block)

\* HandleBlockAdditionRequest with allow_agree, for a request that is not
\* early: broadcast the vote and count the votes of the others.
HandleBlockAdditionRequest(p, m) ==
    /\ net' = net \cup Broadcast(p, "VOTE", m.index, m.block, Vote(p, m))
    /\ votes' = [votes EXCEPT ![p] =
                   <<NewVoting(p, m.block, FALSE, Vote(p, m))>> \o @]

\* Without allow_agree: broadcast a vote against.
RefuseBlockAdditionRequest(p, m) ==
    /\ net' = net \cup Broadcast(p, "VOTE", m.index, m.block, FALSE)
    /\ UNCHANGED votes

\* The request that Run held; one that would leave a gap goes back to the
\* inbox.
HandleHeldRequest(p) ==
    /\ pc[p] = "HandleRequest"
    /\ \E m \in held[p] :
         \/ /\ m.index > Size(p)
            /\ inbox' = [inbox EXCEPT ![p] = Append(@, m)]
            /\ UNCHANGED <<net, votes>>
         \/ /\ m.index <= Size(p)
            /\ HandleBlockAdditionRequest(p, m)
            /\ UNCHANGED inbox
    /\ held' = [held EXCEPT ![p] = {}]
    /\ pc' = [pc EXCEPT ![p] = "HandleAll"]
    /\ UNCHANGED <<bc, transactions, after, round, candidates, aside,
                   trackerVars, spent>>

\* CheckVotesForBlock ends with true on more agrees than half of the peers,
\* or, all votes in, on more agrees than disagrees.
AllVoted(v) == Cardinality(v.seen) + 1 >= v.n_peers

\* Mutant: half of the peers are enough.
HalfAgree(v) == v.n_agrees >= v.n_peers \div 2

MoreThanHalfAgree(v) == v.n_agrees > v.n_peers \div 2

Accepted(v) ==
    /\ v.status = "waiting"
    /\ \/ MoreThanHalfAgree(v)
       \/ /\ AllVoted(v)
          /\ v.n_agrees > v.n_disagrees + v.n_peers - (Cardinality(v.seen) + 1)
Decided(v) ==
    \/ v.status # "waiting"
    \/ MoreThanHalfAgree(v)
    \/ v.n_disagrees > v.n_peers \div 2
    \/ AllVoted(v)

\* The innermost activation, still waiting for votes.
Innermost(p) == Head(votes[p])
Collecting(p) == votes[p] # <<>> /\ ~Decided(Innermost(p))
SetVoting(p, v) == votes' = [votes EXCEPT ![p] = <<v>> \o Tail(@)]

\* Mutant: the sender's earlier vote is forgotten.
CountsAgain(p, v, m) == m.index = Size(p) /\ m.block = v.block

\* Mutant: a vote for any block of the current index is taken.
CountsAnyBlock(p, v, m) == m.index = Size(p) /\ m.from \notin v.seen

\* A vote counts if it is for the block waited for, at the current index,
\* and the first of its sender; any other vote up to that index is freed.
Counts(p, v, m) ==
    m.index = Size(p) /\ m.from \notin v.seen /\ m.block = v.block

Count(v, m) ==
    [v EXCEPT !.seen = @ \cup {m.from},
              !.n_agrees = IF m.agree THEN @ + 1 ELSE @,
              !.n_disagrees = IF m.agree THEN @ ELSE @ + 1]

CheckVote(p) ==
    /\ Collecting(p) /\ Pending(p, {"VOTE"})
    /\ Oldest(p).index <= Size(p)
    /\ IF Counts(p, Innermost(p), Oldest(p))
       THEN SetVoting(p, Count(Innermost(p), Oldest(p)))
       ELSE UNCHANGED votes
    /\ Take(p)
    /\ UNCHANGED <<bc, transactions, mainVars, candidates, aside, net,
                   trackerVars, spent>>

\* Early votes and block requests, and addition requests for another index.
CheckSetAside(p) ==
    /\ Collecting(p)
    /\ \/ Pending(p, {"VOTE", "REQUESTBLOCK"}) /\ Oldest(p).index > Size(p)
       \/ Pending(p, {"ADDREQUEST"}) /\ Oldest(p).index # Size(p)
    /\ SetVoting(p, [Innermost(p) EXCEPT !.aside = Append(@, Oldest(p))])
    /\ Take(p)
    /\ UNCHANGED <<bc, transactions, mainVars, candidates, aside, net,
                   trackerVars, spent>>

CheckRequestBlock(p) ==
    /\ Collecting(p) /\ Pending(p, {"REQUESTBLOCK"})
    /\ Oldest(p).index <= Size(p)
    /\ net' = net \cup {SendBlockchain(p, Oldest(p))}
    /\ Take(p)
    /\ UNCHANGED <<bc, transactions, mainVars, votes, candidates, aside,
                   trackerVars, spent>>

\* Another proposal for the same index: the smaller hash is preferred.
CheckAddRequest(p) ==
    /\ Collecting(p) /\ Pending(p, {"ADDREQUEST"})
    /\ LET m == Oldest(p)
       IN  /\ m.index = Size(p)
           /\ IF HashLeq(m.block, Innermost(p).block)
              THEN HandleBlockAdditionRequest(p, m)
              ELSE RefuseBlockAdditionRequest(p, m)
    /\ Take(p)
    /\ UNCHANGED <<bc, transactions, mainVars, candidates, aside, trackerVars,
                   spent>>

CheckFree(p) ==
    /\ Collecting(p) /\ Pending(p, {"BLOCK", "NOBLOCK"})
    /\ Take(p)
    /\ UNCHANGED <<bc, transactions, mainVars, votes, candidates, aside, net,
                   trackerVars, spent>>

\* The inbox stayed empty for n_peers * n_tries seconds.
CheckTimeout(p) ==
    /\ Collecting(p) /\ inbox[p] = <<>>
    /\ Spend("fault")
    /\ SetVoting(p, [Innermost(p) EXCEPT !.status = "timed out"])
    /\ UNCHANGED <<bc, transactions, mainVars, candidates, aside, inbox, net,
                   trackerVars>>

\* CheckVotesForBlock returns to its caller, and the caller to its own.  A
\* proposer broadcasts the outcome.  A nested activation was entered from
\* the one below it, which stops with false if the nested vote was in favour,
\* without putting back what it had set aside.
CheckReturn(p) ==
    /\ votes[p] # <<>> /\ Decided(Innermost(p))
    /\ LET v == Innermost(p)
           outer == Tail(votes[p])
       IN  /\ inbox' = [inbox EXCEPT ![p] =
                          IF v.status = "abandoned" THEN @ ELSE @ \o v.aside]
           /\ candidates' = [candidates EXCEPT ![p] =
                IF Accepted(v)
                THEN Append(@, [block |-> v.block, own |-> v.own]) ELSE @]
           /\ net' = IF v.own
                     THEN net \cup Broadcast(p, "VOTE", Len(v.block), v.block,
                                             Accepted(v))
                     ELSE net
           /\ votes' = [votes EXCEPT ![p] =
                IF outer # <<>> /\ v.agree
                THEN <<[Head(outer) EXCEPT !.status = "abandoned"]>> \o Tail(outer)
                ELSE outer]
    /\ UNCHANGED <<bc, transactions, mainVars, aside, trackerVars, spent>>

----------------------------------------------------------------------------
(* HandleAllBlockAdditionRequests and the end of Run's iteration *)

HandlingAll(p) == pc[p] = "HandleAll" /\ votes[p] = <<>>
ForTip(p, m) == m.type = "ADDREQUEST" /\ m.index = Size(p)

HandleAllRequest(p) ==
    /\ HandlingAll(p) /\ inbox[p] # <<>> /\ ForTip(p, Oldest(p))
    /\ HandleBlockAdditionRequest(p, Oldest(p))
    /\ Take(p)
    /\ UNCHANGED <<bc, transactions, mainVars, candidates, aside, trackerVars,
                   spent>>

HandleAllSetAside(p) ==
    /\ HandlingAll(p) /\ inbox[p] # <<>> /\ ~ForTip(p, Oldest(p))
    /\ aside' = [aside EXCEPT ![p] = Append(@, Oldest(p))]
    /\ Take(p)
    /\ UNCHANGED <<bc, transactions, mainVars, votes, candidates, net,
                   trackerVars, spent>>

\* c[i] is the last of the candidates with the smallest hash.
Best(c, i) ==
    /\ \A j \in DOMAIN c : HashLeq(c[i].block, c[j].block)
    /\ \A j \in DOMAIN c : j > i => ~HashLeq(c[j].block, c[i].block)

\* Mutant: done when some candidate is the peer's own.
OwnAmong(c) == \E i \in DOMAIN c : c[i].own

\* Mutant: done unless the block of another peer is added.
OwnUnlessBeaten(c) == \A i \in DOMAIN c : Best(c, i) => c[i].own

\* new_block == best: the best candidate is the block of this peer.
OwnAdded(c) == \E i \in DOMAIN c : Best(c, i) /\ c[i].own

\* The loop ends when it finds the inbox empty.
HandleAllBreak(p) ==
    /\ HandlingAll(p) /\ inbox[p] = <<>>
    /\ pc' = [pc EXCEPT ![p] = "Finish"]
    /\ UNCHANGED <<bc, transactions, after, held, round, votes, candidates,
                   aside, inbox, net, trackerVars, spent>>

\* The messages set aside are put back, behind what has arrived meanwhile; the
\* best candidate is added, and the transaction is done if that block is the
\* peer's own.
HandleAllFinish(p) ==
    /\ pc[p] = "Finish"
    /\ \/ candidates[p] = <<>> /\ UNCHANGED bc
       \/ \E i \in DOMAIN candidates[p] :
            /\ Best(candidates[p], i)
            /\ AddBlock(p, Last(candidates[p][i].block))
    /\ transactions' = [transactions EXCEPT ![p] =
                          IF OwnAdded(candidates[p]) THEN RemoveAt(@, 1) ELSE @]
    /\ candidates' = [candidates EXCEPT ![p] = <<>>]
    /\ inbox' = [inbox EXCEPT ![p] = @ \o aside[p]]
    /\ aside' = [aside EXCEPT ![p] = <<>>]
    /\ pc' = [pc EXCEPT ![p] = "Run"]
    /\ UNCHANGED <<after, held, round, votes, net, trackerVars, spent>>

----------------------------------------------------------------------------
(* The specification *)

\* The constructor: the trace is loaded and no tracker has answered yet.
Init ==
    /\ bc = [p \in Peers |-> InitialChain(p)]
    /\ transactions = [p \in Peers |-> InitialTransactions(p)]
    /\ pc = [p \in Peers |-> "Run"]
    /\ after = [p \in Peers |-> "Run"]
    /\ held = [p \in Peers |-> {}]
    /\ round = [p \in Peers |-> NoRound]
    /\ votes = [p \in Peers |-> <<>>]
    /\ candidates = [p \in Peers |-> <<>>]
    /\ aside = [p \in Peers |-> <<>>]
    /\ inbox = [p \in Peers |-> <<>>]
    /\ net = {}
    /\ netinfo = [p \in Peers |-> {}]
    /\ online = [p \in Peers |-> FALSE]
    /\ wasOffline = [p \in Peers |-> TRUE]
    /\ spent = [e \in Efforts |-> 0]

Run(p) ==
    \/ RunRefresh(p) \/ RunRequestBlock(p) \/ RunAddRequest(p) \/ RunFree(p)
    \/ RunTransaction(p) \/ RunNoMessages(p)

RequestBlockchain(p) ==
    \/ RequestBlock(p) \/ AwaitNoBlock(p) \/ AwaitBlock(p)
    \/ AwaitRequestBlock(p) \/ AwaitFree(p) \/ AwaitTimeout(p) \/ AwaitReturn(p)

CheckVotesForBlock(p) ==
    \/ CheckVote(p) \/ CheckSetAside(p) \/ CheckRequestBlock(p)
    \/ CheckAddRequest(p) \/ CheckFree(p) \/ CheckTimeout(p) \/ CheckReturn(p)

AdditionRequests(p) ==
    \/ AddBlockToBlockchain(p) \/ HandleHeldRequest(p)
    \/ HandleAllRequest(p) \/ HandleAllSetAside(p) \/ HandleAllBreak(p)
    \/ HandleAllFinish(p)

Next ==
    \/ \E m \in net : Receive(m)
    \/ \E p \in Peers : \/ ReceiveNetinfo(p)
                        \/ Run(p)
                        \/ RequestBlockchain(p)
                        \/ AdditionRequests(p)
                        \/ CheckVotesForBlock(p)

Spec == Init /\ [][Next]_vars

\* Every thread of a peer runs, and its inbox thread goes on receiving while
\* anything is in flight to the peer.
Main(p) ==
    Run(p) \/ RequestBlockchain(p) \/ AdditionRequests(p) \/ CheckVotesForBlock(p)

Fairness ==
    \A p \in Peers : /\ WF_vars(Main(p))
                    /\ WF_vars(\E m \in net : m.to = p /\ Receive(m))
                    /\ WF_vars(ReceiveNetinfo(p))

FairSpec == Spec /\ Fairness

----------------------------------------------------------------------------
(* Properties *)

\* The counts of a vote (application.cc:592-626) add up: this peer's vote and
\* one vote of every other peer seen, whichever of the intermediate and the
\* final VOTE of a proposer comes first, and never more than the peers asked.
VotesCounted ==
    \A p \in Peers : \A i \in DOMAIN votes[p] :
        LET v == votes[p][i]
        IN  /\ v.n_agrees + v.n_disagrees = Cardinality(v.seen) + 1
            /\ Cardinality(v.seen) + 1 <= v.n_peers
            /\ p \notin v.seen

\* In a round (application.cc:316-374) no peer is heard twice, so that the
\* unsigned n_peers - i of checkMajority (application.cc:260) never wraps.
RepliesCounted ==
    \A p \in Peers :
        LET r == round[p]
        IN  /\ Cardinality(r.seen) <= r.n_peers
            /\ \A d \in Data : r.no_block + r.found[d] <= Cardinality(r.seen)

\* Only a block for the current index is accepted and becomes a candidate
\* (application.cc:571-572, 808): requests that were answered late, or handled
\* after RequestBlockchain has moved the chain on, never do.
CandidatesAreNext ==
    \A p \in Peers :
        /\ \A i \in DOMAIN candidates[p] :
              Len(candidates[p][i].block) = Size(p)
        /\ \A i \in DOMAIN votes[p] :
              Accepted(votes[p][i]) => Len(votes[p][i].block) = Size(p)

\* A transaction leaves the list (application.cc:938-940) only in the step in
\* which its data enters the peer's chain, whatever other candidates the vote
\* has left.
NoTransactionLost ==
    [][\A p \in Peers : transactions'[p] # transactions[p] =>
          /\ transactions'[p] = Tail(transactions[p])
          /\ bc'[p] = Append(bc[p], Head(transactions[p]))]_vars

\* Of any two chains one is a prefix of the other.
ChainsAgree ==
    \A p, q \in Peers : IsPrefix(bc[p], bc[q]) \/ IsPrefix(bc[q], bc[p])

----------------------------------------------------------------------------
(* What a comment of the source says, and the code does not do *)

\* application.h:117 "Request the whole blockchain until fully updated with the
\* rest of the network": a refresh does not end while every peer that was asked
\* has the next block.
FullyUpdated ==
    [][\A p \in Peers : pc[p] = "AwaitBlock" /\ pc'[p] = after[p] =>
          \E q \in Others(p) : Len(bc[q]) <= Len(bc[p])]_vars

\* application.cc:639 "Add all messages that are not of type BLOCK or NOBLOCK
\* to queue": what an activation of CheckVotesForBlock has set aside is in the
\* inbox when it returns.
SetAsideQueued ==
    [][\A p \in Peers :
          Len(votes'[p]) < Len(votes[p])
              => Range(Innermost(p).aside) \subseteq Range(inbox'[p])]_vars

=============================================================================
