----------------------------- MODULE ForkProofs -----------------------------
(***************************************************************************)
(* The chains of two peers that compete do not fork, as long as neither    *)
(* gives a vote up: for any number of blocks, any silent peers in their    *)
(* lists, any timeouts of rounds and any faults of the network.            *)
(***************************************************************************)
EXTENDS TwoProposers, HistoryProofs

----------------------------------------------------------------------------
(* What a step does to the chains, the proposals and the votes *)

\* A peer that is not p keeps its own.
OthersKeep(p) ==
    \A r \in Peers \ {p} :
        UNCHANGED <<bc[r], transactions[r], round[r], votes[r], candidates[r]>>

Sends(M) == sent' = sent \cup M

\* A reply that p has counted or reads now continues its chain with d.
Replied(p, d) ==
    \/ round[p].found[d] > 0
    \/ \E m \in sent : /\ m \in Mail(p) /\ m.type = "BLOCK"
                       /\ m.block = Append(bc[p], d)

Answers(p) == {m \in Message : /\ m.from = p /\ m.type = "BLOCK"
                               /\ m.block \in Beginnings(bc[p])}

Requests(p) == {m \in sent : m \in Mail(p) /\ m.type = "ADDREQUEST"}
Ballots(p) == {m \in sent : m \in Mail(p) /\ m.type = "VOTE"}

\* Nothing but a reply, or a round that goes on.
Chats(p) ==
    /\ UNCHANGED <<bc, transactions, votes, candidates>>
    /\ \A d \in Data : round'[p].found[d] > 0 => Replied(p, d)
    /\ \E M \in SUBSET Answers(p) : Sends(M)

Syncs(p) ==
    /\ votes[p] = <<>> /\ candidates[p] = <<>>
    /\ \E d \in Data : Replied(p, d) /\ AddBlock(p, d)
    /\ round'[p] = NoRound
    /\ UNCHANGED <<transactions, votes, candidates>>
    /\ \E M \in SUBSET Answers(p) : Sends(M)

Proposes(p) ==
    /\ votes[p] = <<>> /\ candidates[p] = <<>> /\ transactions[p] # <<>>
    /\ LET b == SneakPeekBlock(p, Head(transactions[p]))
       IN  /\ Sends(Broadcast(p, "ADDREQUEST", Size(p), b, FALSE))
           /\ votes' = [votes EXCEPT ![p] = <<NewVoting(p, b, TRUE, TRUE)>>]
    /\ UNCHANGED <<bc, transactions, round, candidates>>

Handles(p, m) ==
    /\ m.index <= Size(p)
    /\ votes[p] = <<>> \/ /\ Collecting(p) /\ m.index = Size(p)
                          /\ HashLeq(m.block, Innermost(p).block)
    /\ Sends(Broadcast(p, "VOTE", m.index, m.block, Vote(p, m)))
    /\ votes' = [votes EXCEPT ![p] =
                   <<NewVoting(p, m.block, FALSE, Vote(p, m))>> \o @]
    /\ UNCHANGED <<bc, transactions, round, candidates>>

Refuses(p, m) ==
    /\ Collecting(p) /\ m.index = Size(p)
    /\ ~HashLeq(m.block, Innermost(p).block)
    /\ Sends(Broadcast(p, "VOTE", m.index, m.block, FALSE))
    /\ UNCHANGED <<bc, transactions, round, votes, candidates>>

Tallies(p, w) ==
    /\ Collecting(p) /\ SetVoting(p, w)
    /\ \/ \E m \in Ballots(p) : Counts(p, Innermost(p), m)
                                /\ w = Count(Innermost(p), m)
       \/ \E s \in Seq(Message) : w = [Innermost(p) EXCEPT !.aside = s]
       \/ w = [Innermost(p) EXCEPT !.status = "timed out"]
    /\ UNCHANGED <<bc, transactions, round, candidates, sent>>

Returns(p) ==
    /\ votes[p] # <<>> /\ Decided(Innermost(p))
    /\ LET v == Innermost(p)
           outer == Tail(votes[p])
       IN  /\ candidates' = [candidates EXCEPT ![p] =
                IF Accepted(v)
                THEN Append(@, [block |-> v.block, own |-> v.own]) ELSE @]
           /\ Sends(IF v.own
                    THEN Broadcast(p, "VOTE", Len(v.block), v.block, Accepted(v))
                    ELSE {})
           /\ votes' = [votes EXCEPT ![p] =
                IF outer # <<>> /\ v.agree
                THEN <<[Head(outer) EXCEPT !.status = "abandoned"]>> \o Tail(outer)
                ELSE outer]
    /\ UNCHANGED <<bc, transactions, round>>

Finishes(p) ==
    /\ votes[p] = <<>> /\ HandleAllFinish(p)
    /\ UNCHANGED <<round, votes, sent>>

Acts(p) ==
    \/ Chats(p) \/ Syncs(p) \/ Proposes(p) \/ Returns(p) \/ Finishes(p)
    \/ \E m \in Requests(p) : Handles(p, m) \/ Refuses(p, m)
    \/ \E w \in Voting : Tallies(p, w)

\* Only the two proposers do more than wait.
Effect(p) == /\ OthersKeep(p)
             /\ \/ p \in Proposers /\ Other(p) \in Others(p) /\ Acts(p)
                \/ UNCHANGED <<bc, transactions, round, votes, candidates, sent>>

LEMMA ProposerFacts ==
    /\ First \in Peers /\ Second \in Peers /\ First # Second
    /\ \A p \in Proposers : /\ Other(p) \in Proposers /\ Other(p) # p
                           /\ Other(Other(p)) = p
                           /\ p \in Peers /\ Other(p) \in Peers
                           /\ Proposers = {p, Other(p)}
BY ProposersAssumption DEF Proposers, Other

\* A peer that is not idle is one of the two and knows the other.
LEMMA ActiveProposer ==
    ASSUME HistoryInv, NEW p \in Peers, online[p] \/ pc[p] # "Run"
    PROVE  p \in Proposers /\ Other(p) \in Others(p)
<1>1. netinfo[p] \in Netinfos[p]  BY DEF HistoryInv, HistoryAt, ListKnown
<1>2. p \in Proposers  BY <1>1, ProposersAssumption
<1>3. Other(p) \in netinfo[p]  BY <1>1, <1>2, ProposersAssumption
<1> QED  BY <1>2, <1>3, ProposerFacts DEF Others

\* Only messages with a block enter the history.
LEMMA SentNow ==
    ASSUME HistoryInv, Recorded, NEW M, net' = net \cup M
    PROVE  Sends({m \in M : m.block # <<>>})
BY DEF HistoryInv, Recorded, Known, Sends

LEMMA NothingSent ==
    ASSUME HistoryInv, Recorded, net' \subseteq net
    PROVE  sent' = sent
BY DEF HistoryInv, Recorded, Known

LEMMA SentBlocks ==
    ASSUME HistoryInv, Recorded, NEW p \in Peers, NEW t, NEW i,
           NEW b \in Block, NEW a, net' = net \cup Broadcast(p, t, i, b, a)
    PROVE  Sends(Broadcast(p, t, i, b, a))
<1>1. \A m \in Broadcast(p, t, i, b, a) : m.block # <<>>
  BY DEF Broadcast, Block
<1> QED  BY <1>1, SentNow

LEMMA SentRequests ==
    ASSUME HistoryInv, Recorded, NEW p \in Peers, NEW i, NEW a,
           net' = net \cup Broadcast(p, "REQUESTBLOCK", i, <<>>, a)
    PROVE  sent' = sent
<1>1. \A m \in Broadcast(p, "REQUESTBLOCK", i, <<>>, a) : m.block = <<>>
  BY DEF Broadcast
<1> DEFINE M == Broadcast(p, "REQUESTBLOCK", i, <<>>, a)
<1>2. Sends({m \in M : m.block # <<>>})  BY SentNow
<1>3. {m \in M : m.block # <<>>} = {}  BY <1>1
<1> HIDE DEF M
<1> QED  BY <1>2, <1>3 DEF Sends

LEMMA SentAnswer ==
    ASSUME HistoryInv, Recorded, NEW p \in Peers, NEW m \in Message,
           net' = net \cup {SendBlockchain(p, m)}
    PROVE  \E M \in SUBSET Answers(p) : Sends(M)
<1> DEFINE a == SendBlockchain(p, m)
<1>1. TypeOK /\ bc[p] \in Chain /\ Len(bc[p]) \in Nat /\ m.index \in Nat \ {0}
  BY HistoryTypes, SizeType, MessageFields
<1>2. a \in Message  BY <1>1, SendBlockchainType
<1>3. /\ a.from = p
      /\ a.type = IF m.index < Size(p) THEN "BLOCK" ELSE "NOBLOCK"
      /\ a.block = IF m.index < Size(p) THEN SubSeq(bc[p], 1, m.index) ELSE <<>>
  BY DEF SendBlockchain
<1>4. a.block # <<>> => a \in Answers(p)
  <2> SUFFICES ASSUME a.block # <<>> PROVE a \in Answers(p)  OBVIOUS
  <2>1. m.index < Size(p)  BY <1>3
  <2>2. m.index <= Len(bc[p])  BY <1>1, <2>1 DEF Size
  <2>3. SubSeq(bc[p], 1, m.index) \in Beginnings(bc[p])
    BY <1>1, <2>2, WholeIsBeginning, ShorterBeginning
  <2> QED  BY <1>2, <1>3, <2>1, <2>3 DEF Answers
<1>5. Sends({n \in {a} : n.block # <<>>})  BY SentNow
<1>6. {n \in {a} : n.block # <<>>} \in SUBSET Answers(p)  BY <1>4
<1> QED  BY <1>5, <1>6

\* Every part of the state is a function on the peers.
LEMMA EffectTypes ==
    ASSUME HistoryInv, NEW p \in Peers
    PROVE  /\ TypeOK /\ SafeInv /\ PeerInv(p)
           /\ bc \in [Peers -> Chain] /\ transactions \in [Peers -> Chain]
           /\ round \in [Peers -> Round] /\ votes \in [Peers -> Seq(Voting)]
           /\ candidates \in [Peers -> Seq(Candidate)]
           /\ pc[p] # "HandleAll" => votes[p] = <<>>
           /\ pc[p] \notin {"HandleAll", "Finish"} => candidates[p] = <<>>
BY HistoryTypes DEF TypeOK, SafeInv, PeerInv, PhaseInv

LEMMA NoMessageEffect ==
    ASSUME HistoryInv, Recorded, NEW p \in Peers, net' \subseteq net,
           UNCHANGED <<bc, transactions, round, votes, candidates>>
    PROVE  Effect(p)
BY NothingSent DEF Effect, OthersKeep

LEMMA RunEffect ==
    ASSUME HistoryInv, Recorded, NEW p \in Peers, Run(p)
    PROVE  Effect(p)
<1>1. /\ UNCHANGED <<bc, transactions, round, votes, candidates>>
      /\ online[p]
  BY DEF Run, RunRefresh, RunRequestBlock, RunAddRequest, RunFree,
         RunTransaction, RunNoMessages, CallRequestBlockchain, mainVars, Idle
<1>2. CASE UNCHANGED net  BY <1>1, <1>2, NoMessageEffect
<1>3. CASE RunRequestBlock(p)
  <2>1. inbox[p] # <<>> /\ net' = net \cup {SendBlockchain(p, Oldest(p))}
    BY <1>3 DEF RunRequestBlock, Pending
  <2>2. \E M \in SUBSET Answers(p) : Sends(M)  BY <2>1, TakeKnown, SentAnswer
  <2>3. Chats(p)  BY <1>1, <2>2 DEF Chats, Replied
  <2> QED  BY <1>1, <2>3, ActiveProposer DEF Effect, Acts, OthersKeep
<1> QED
  BY <1>2, <1>3
  DEF Run, RunRefresh, RunAddRequest, RunFree, RunTransaction, RunNoMessages

\* What remains of a round when the message at hand has been handled.
LEMMA ConcludeEffect ==
    ASSUME HistoryInv, NEW p \in Peers, pc[p] = "AwaitBlock",
           NEW r \in Heard, \A d \in Data : r.found[d] > 0 => Replied(p, d),
           NEW kept, Conclude(p, r, kept),
           UNCHANGED <<transactions, votes, candidates>>,
           \E M \in SUBSET Answers(p) : Sends(M)
    PROVE  Effect(p)
<1>1. /\ bc \in [Peers -> Chain] /\ round \in [Peers -> Round]
      /\ votes[p] = <<>> /\ candidates[p] = <<>>
  BY EffectTypes
<1>2. p \in Proposers /\ Other(p) \in Others(p)  BY ActiveProposer
<1>3. CASE \E d \in Data : /\ MajorityForBlock(r, d) /\ AddBlock(p, d)
                           /\ LeaveRound(p, kept, "RequestBlockchain")
  <2>1. PICK d \in Data : /\ MajorityForBlock(r, d) /\ AddBlock(p, d)
                          /\ LeaveRound(p, kept, "RequestBlockchain")
    BY <1>3
  <2>2. Replied(p, d)  BY <2>1, FoundByMajority
  <2>3. round'[p] = NoRound /\ OthersKeep(p)
    BY <1>1, <2>1 DEF LeaveRound, AddBlock, OthersKeep
  <2>4. Syncs(p)  BY <1>1, <2>1, <2>2, <2>3 DEF Syncs
  <2> QED  BY <1>2, <2>3, <2>4 DEF Effect, Acts
<1>4. CASE UNCHANGED bc /\ \/ \E l : LeaveRound(p, kept, l)
                           \/ round' = [round EXCEPT ![p] = r]
  <2>1. round' \in {[round EXCEPT ![p] = r], [round EXCEPT ![p] = NoRound]}
    BY <1>4 DEF LeaveRound
  <2>2. OthersKeep(p)  BY <1>1, <1>4, <2>1 DEF OthersKeep
  <2>3. \A d \in Data : round'[p].found[d] > 0 => Replied(p, d)
    BY <1>1, <2>1 DEF NoRound
  <2>4. Chats(p)  BY <1>4, <2>3 DEF Chats
  <2> QED  BY <1>2, <2>2, <2>4 DEF Effect, Acts
<1> QED  BY <1>3, <1>4, Zenon DEF Conclude

\* A reply that counts continues the chain.
LEMMA HearReplied ==
    ASSUME HistoryInv, NEW p \in Peers, NEW m \in sent, m \in Mail(p),
           m.type = "BLOCK"
    PROVE  \A d \in Data :
              HearBlock(p, round[p], m.from, m.block).found[d] > 0
                  => Replied(p, d)
<1> DEFINE r == round[p]
           b == m.block
           h == Hear(r, m.from)
<1>1. /\ r \in Round /\ bc[p] \in Chain /\ b \in Block /\ m.from \in Peers
  BY EffectTypes, MailFields, MessageFields
<1>2. h \in Round /\ h.found = r.found /\ r.found \in [Data -> Nat]
  BY <1>1, HearType DEF Hear, Round
<1>3. Continues(p, b) => Append(bc[p], Last(b)) = b
  BY <1>1, FrontOfBlock DEF Continues, TopHash
<1> SUFFICES ASSUME NEW d \in Data, HearBlock(p, r, m.from, b).found[d] > 0
             PROVE  Replied(p, d)
  OBVIOUS
<1>4. CASE r.found[d] > 0  BY <1>4 DEF Replied
<1>5. CASE ~(r.found[d] > 0)
  <2> DEFINE f == HearBlock(p, r, m.from, b).found
  <2>1. f # r.found  BY <1>5
  <2>2. /\ Continues(p, b) /\ m.from \notin r.seen
        /\ f = [h EXCEPT !.found[Last(b)] = @ + 1].found
    BY <1>2, <2>1 DEF HearBlock
  <2> HIDE DEF h
  <2>3. [h EXCEPT !.found[Last(b)] = @ + 1].found
          = [h.found EXCEPT ![Last(b)] = @ + 1]
    BY <1>2 DEF Round
  <2>4. f = [r.found EXCEPT ![Last(b)] = @ + 1]  BY <1>2, <2>2, <2>3
  <2>5. d = Last(b)  BY <1>2, <1>5, <2>4
  <2>6. m.block = Append(bc[p], d)  BY <1>3, <2>2, <2>5
  <2> QED  BY <2>6 DEF Replied
<1> QED  BY <1>4, <1>5

LEMMA FoundKept ==
    ASSUME NEW r \in Round, NEW q
    PROVE  Hear(r, q).found = r.found /\ HearNoBlock(r, q).found = r.found
<1> DEFINE h == Hear(r, q)
<1>1. h.found = r.found  BY DEF Hear, Round
<1>2. [h EXCEPT !.no_block = @ + 1].found = h.found  BY DEF Hear, Round
<1>3. HearNoBlock(r, q) \in {r, [h EXCEPT !.no_block = @ + 1]}
  BY DEF HearNoBlock
<1> HIDE DEF h
<1> QED  BY <1>1, <1>2, <1>3 DEF h

LEMMA RequestBlockchainEffect ==
    ASSUME HistoryInv, Recorded, NEW p \in Peers, RequestBlockchain(p)
    PROVE  Effect(p)
<1>1. /\ TypeOK /\ round \in [Peers -> Round] /\ round[p] \in Heard
      /\ pc[p] = "AwaitBlock"
           => Cardinality(round[p].seen) < round[p].n_peers
  BY EffectTypes DEF PeerInv, RoundInv
<1>2. pc[p] # "Run" /\ UNCHANGED <<transactions, votes, candidates>>
  BY DEF RequestBlockchain, RequestBlock, AwaitNoBlock, AwaitBlock,
         AwaitRequestBlock, AwaitFree, AwaitTimeout, AwaitReturn
<1>3. p \in Proposers /\ Other(p) \in Others(p)  BY <1>2, ActiveProposer
<1>4. ASSUME sent' = sent PROVE \E M \in SUBSET Answers(p) : Sends(M)
  <2>1. {} \in SUBSET Answers(p) /\ Sends({})  BY <1>4 DEF Sends
  <2> QED  BY <2>1
<1>5. ASSUME NEW types, Pending(p, types)
      PROVE  /\ inbox[p] # <<>> /\ Oldest(p) \in Message
             /\ Oldest(p) \in Known /\ Oldest(p) \in Mail(p)
             /\ Oldest(p).from \in Peers
  BY <1>5, TakeKnown, MessageFields DEF Pending
<1>6. \A d \in Data : round[p].found[d] > 0 => Replied(p, d)  BY DEF Replied
<1>7. CASE RequestBlock(p) \/ AwaitTimeout(p)
  <2>1. UNCHANGED bc /\ \E r \in Round : /\ round' = [round EXCEPT ![p] = r]
                                         /\ \A d \in Data : r.found[d] > 0 => Replied(p, d)
    <3>1. CASE RequestBlock(p) /\ Others(p) # {}
      <4> DEFINE n == Cardinality(Others(p))
                 r == [NoRound EXCEPT !.n_peers = n]
      <4>1. n \in Nat  BY <1>1, OthersFinite
      <4>2. round' = [round EXCEPT ![p] = r] /\ UNCHANGED bc
        BY <3>1 DEF RequestBlock
      <4> HIDE DEF n
      <4>3. r \in Round  BY <4>1, NoRoundType
      <4>4. \A d \in Data : r.found[d] > 0 => Replied(p, d)  BY DEF NoRound
      <4> HIDE DEF r
      <4> QED  BY <4>2, <4>3, <4>4, Zenon
    <3>2. CASE AwaitTimeout(p)
      <4> DEFINE r == NoRound
      <4>1. r \in Round /\ \A d \in Data : r.found[d] > 0 => Replied(p, d)
        BY NoRoundType DEF NoRound
      <4>2. round' = [round EXCEPT ![p] = r] /\ UNCHANGED bc
        BY <3>2 DEF AwaitTimeout
      <4> HIDE DEF r
      <4> QED  BY <4>1, <4>2, Zenon
    <3>3. CASE RequestBlock(p) /\ Others(p) = {}
      BY <1>3, <3>3
    <3> QED  BY <1>7, <3>1, <3>2, <3>3
  <2>2. sent' = sent
    <3>1. CASE RequestBlock(p)  BY <3>1, SentRequests DEF RequestBlock
    <3>2. CASE AwaitTimeout(p)  BY <3>2, NothingSent DEF AwaitTimeout
    <3> QED  BY <1>7, <3>1, <3>2
  <2>3. OthersKeep(p)  BY <1>1, <1>2, <2>1 DEF OthersKeep
  <2>4. \A d \in Data : round'[p].found[d] > 0 => Replied(p, d)
    BY <1>1, <2>1
  <2>5. Chats(p)  BY <1>2, <1>4, <2>1, <2>2, <2>4 DEF Chats
  <2> QED  BY <1>3, <2>3, <2>5 DEF Effect, Acts
<1>8. CASE AwaitNoBlock(p)
  <2> DEFINE r == HearNoBlock(round[p], Oldest(p).from)
  <2>1. r \in Heard  BY <1>1, <1>5, <1>8, HeardKept DEF AwaitNoBlock
  <2>2. r.found = round[p].found
    <3>1. round[p] \in Round  BY <1>1
    <3> QED  BY <3>1, FoundKept
  <2>3. pc[p] = "AwaitBlock" /\ Conclude(p, r, aside[p]) /\ UNCHANGED net
    BY <1>8 DEF AwaitNoBlock
  <2>4. \E M \in SUBSET Answers(p) : Sends(M)  BY <1>4, <2>3, NothingSent
  <2>5. \A d \in Data : r.found[d] > 0 => Replied(p, d)  BY <1>6, <2>2
  <2> HIDE DEF r
  <2> QED  BY <1>2, <2>1, <2>3, <2>4, <2>5, ConcludeEffect
<1>9. CASE AwaitBlock(p)
  <2> DEFINE m == Oldest(p)
             r == HearBlock(p, round[p], m.from, m.block)
  <2>1. r \in Heard  BY <1>1, <1>5, <1>9, HeardKept DEF AwaitBlock
  <2>2. /\ pc[p] = "AwaitBlock" /\ Conclude(p, r, aside[p]) /\ UNCHANGED net
        /\ m \in Known /\ m \in Mail(p) /\ m.type = "BLOCK"
    BY <1>5, <1>9 DEF AwaitBlock, Pending
  <2>3. m \in sent  BY <2>2, MailFields, MessageFields DEF Known, Block
  <2>4. \A d \in Data : r.found[d] > 0 => Replied(p, d)
    BY <2>2, <2>3, HearReplied
  <2>5. \E M \in SUBSET Answers(p) : Sends(M)  BY <1>4, <2>2, NothingSent
  <2> HIDE DEF r, m
  <2> QED  BY <1>2, <2>1, <2>2, <2>4, <2>5, ConcludeEffect
<1>10. CASE AwaitRequestBlock(p)
  <2> DEFINE m == Oldest(p)
  <2>1. m \in Message /\ m.from \in Peers /\ pc[p] = "AwaitBlock"
    BY <1>5, <1>10 DEF AwaitRequestBlock
  <2>2. round[p] \in Heard /\ Hear(round[p], m.from) \in Heard
    BY <1>1, <2>1, HeardKept
  <2>3. Hear(round[p], m.from).found = round[p].found
    <3>1. round[p] \in Round  BY <1>1
    <3> QED  BY <3>1, FoundKept
  <2>4. /\ \E r \in {round[p], Hear(round[p], m.from)},
             kept \in {aside[p], Append(aside[p], m)} : Conclude(p, r, kept)
        /\ net' \in {net, net \cup {SendBlockchain(p, m)}}
    BY <1>10, Zenon DEF AwaitRequestBlock
  <2>5. \E M \in SUBSET Answers(p) : Sends(M)
    <3>1. CASE net' = net  BY <1>4, <3>1, NothingSent
    <3>2. CASE net' = net \cup {SendBlockchain(p, m)}
      BY <2>1, <3>2, SentAnswer
    <3> QED  BY <2>4, <3>1, <3>2
  <2> HIDE DEF m
  <2>6. PICK r \in {round[p], Hear(round[p], m.from)},
             kept \in {aside[p], Append(aside[p], m)} : Conclude(p, r, kept)
    BY <2>4
  <2>7. r \in Heard /\ \A d \in Data : r.found[d] > 0 => Replied(p, d)
    BY <1>6, <2>2, <2>3, <2>6
  <2> QED  BY <1>2, <2>1, <2>5, <2>6, <2>7, ConcludeEffect
<1>11. CASE AwaitFree(p)
  <2>1. /\ pc[p] = "AwaitBlock" /\ Conclude(p, round[p], aside[p])
        /\ UNCHANGED net
    BY <1>11 DEF AwaitFree
  <2>2. \E M \in SUBSET Answers(p) : Sends(M)  BY <1>4, <2>1, NothingSent
  <2> QED  BY <1>1, <1>2, <1>6, <2>1, <2>2, ConcludeEffect
<1>12. CASE AwaitReturn(p)
  BY <1>12, NoMessageEffect DEF AwaitReturn
<1> QED
  BY <1>7, <1>8, <1>9, <1>10, <1>11, <1>12 DEF RequestBlockchain

\* The request at hand was sent by the other proposer.
LEMMA RequestKnown ==
    ASSUME NEW p \in Peers, NEW m \in Known, m \in Mail(p),
           m.type = "ADDREQUEST"
    PROVE  /\ m \in Requests(p) /\ m.block \in Block /\ m.index \in Nat \ {0}
           /\ m.index = Len(m.block)
BY MailFields, MessageFields DEF Known, Requests, Block

LEMMA ActsEffect ==
    ASSUME HistoryInv, NEW p \in Peers, pc[p] # "Run", OthersKeep(p), Acts(p)
    PROVE  Effect(p)
BY ActiveProposer DEF Effect

\* The vote on a request of the mail, in favour or not.
LEMMA HandleEffect ==
    ASSUME HistoryInv, Recorded, NEW p \in Peers, pc[p] # "Run",
           NEW m \in Known, m \in Mail(p), m.type = "ADDREQUEST",
           UNCHANGED <<bc, transactions, round, candidates>>,
           \/ /\ HandleBlockAdditionRequest(p, m)
              /\ m.index <= Size(p)
              /\ votes[p] = <<>> \/ /\ Collecting(p) /\ m.index = Size(p)
                                    /\ HashLeq(m.block, Innermost(p).block)
           \/ /\ RefuseBlockAdditionRequest(p, m)
              /\ Collecting(p) /\ m.index = Size(p)
              /\ ~HashLeq(m.block, Innermost(p).block)
    PROVE  Effect(p)
<1>1. m \in Requests(p) /\ m.block \in Block  BY RequestKnown
<1>2. votes \in [Peers -> Seq(Voting)]  BY EffectTypes
<1>3. CASE /\ HandleBlockAdditionRequest(p, m)
           /\ m.index <= Size(p)
           /\ votes[p] = <<>> \/ /\ Collecting(p) /\ m.index = Size(p)
                                 /\ HashLeq(m.block, Innermost(p).block)
  <2> DEFINE a == Vote(p, m)
             s == <<NewVoting(p, m.block, FALSE, a)>> \o votes[p]
  <2>1. /\ net' = net \cup Broadcast(p, "VOTE", m.index, m.block, a)
        /\ votes' = [votes EXCEPT ![p] = s]
    BY <1>3 DEF HandleBlockAdditionRequest
  <2> HIDE DEF a, s
  <2>2. Sends(Broadcast(p, "VOTE", m.index, m.block, a))
    BY <1>1, <2>1, SentBlocks
  <2>3. OthersKeep(p)  BY <1>2, <2>1 DEF OthersKeep
  <2>4. Handles(p, m)  BY <1>3, <2>1, <2>2 DEF Handles, a, s
  <2> QED  BY <1>1, <2>3, <2>4, ActsEffect DEF Acts
<1>4. CASE /\ RefuseBlockAdditionRequest(p, m)
           /\ Collecting(p) /\ m.index = Size(p)
           /\ ~HashLeq(m.block, Innermost(p).block)
  <2>1. /\ net' = net \cup Broadcast(p, "VOTE", m.index, m.block, FALSE)
        /\ UNCHANGED votes
    BY <1>4 DEF RefuseBlockAdditionRequest
  <2>2. Sends(Broadcast(p, "VOTE", m.index, m.block, FALSE))
    BY <1>1, <2>1, SentBlocks
  <2>3. OthersKeep(p)  BY <2>1 DEF OthersKeep
  <2>4. Refuses(p, m)  BY <1>4, <2>1, <2>2 DEF Refuses
  <2> QED  BY <1>1, <2>3, <2>4, ActsEffect DEF Acts
<1> QED  BY <1>3, <1>4

LEMMA AdditionRequestsEffect ==
    ASSUME HistoryInv, Recorded, NEW p \in Peers, AdditionRequests(p)
    PROVE  Effect(p)
<1>1. /\ TypeOK /\ PeerInv(p) /\ TransactionAtHand
      /\ bc \in [Peers -> Chain] /\ transactions \in [Peers -> Chain]
      /\ votes \in [Peers -> Seq(Voting)]
      /\ candidates \in [Peers -> Seq(Candidate)]
      /\ pc[p] # "HandleAll" => votes[p] = <<>>
      /\ pc[p] \notin {"HandleAll", "Finish"} => candidates[p] = <<>>
  BY EffectTypes DEF SafeInv, TypeInv
<1>2. CASE AddBlockToBlockchain(p)
  <2> DEFINE b == SneakPeekBlock(p, Head(transactions[p]))
  <2>1. transactions[p] # <<>> /\ pc[p] = "Propose"
    BY <1>1, <1>2 DEF AddBlockToBlockchain, TransactionAtHand, AtHand
  <2>2. Head(transactions[p]) \in Data
    BY <1>1, <2>1, HeadTailProperties DEF Chain
  <2>3. b \in Block  BY <1>1, <2>2, AppendBlock DEF SneakPeekBlock
  <2>4. /\ net' = net \cup Broadcast(p, "ADDREQUEST", Size(p), b, FALSE)
        /\ votes' = [votes EXCEPT ![p] = <<NewVoting(p, b, TRUE, TRUE)>>]
        /\ UNCHANGED <<bc, transactions, round, candidates>>
    BY <1>2 DEF AddBlockToBlockchain
  <2> HIDE DEF b
  <2>5. Sends(Broadcast(p, "ADDREQUEST", Size(p), b, FALSE))
    BY <2>3, <2>4, SentBlocks
  <2>6. OthersKeep(p)  BY <1>1, <2>4 DEF OthersKeep
  <2>7. Proposes(p)  BY <1>1, <2>1, <2>4, <2>5 DEF Proposes, b
  <2> QED  BY <2>1, <2>6, <2>7, ActsEffect DEF Acts
<1>3. CASE HandleHeldRequest(p)
  <2>1. PICK m \in held[p] :
          \/ UNCHANGED <<net, votes>>
          \/ m.index <= Size(p) /\ HandleBlockAdditionRequest(p, m)
    BY <1>3 DEF HandleHeldRequest
  <2>2. /\ UNCHANGED <<bc, transactions, round, candidates>>
        /\ pc[p] = "HandleRequest" /\ votes[p] = <<>>
    BY <1>1, <1>3 DEF HandleHeldRequest
  <2>3. m \in Known /\ m \in Mail(p) /\ m.type = "ADDREQUEST"
    BY <1>1, HistoryTypes DEF PeerInv, MailInv, TypeOK, AddRequest, MessageOf
  <2>4. CASE UNCHANGED <<net, votes>>
    BY <2>2, <2>4, NoMessageEffect
  <2>5. CASE m.index <= Size(p) /\ HandleBlockAdditionRequest(p, m)
    BY <2>2, <2>3, <2>5, HandleEffect
  <2> QED  BY <2>1, <2>4, <2>5
<1>4. CASE HandleAllRequest(p)
  <2> DEFINE m == Oldest(p)
  <2>1. m \in Known /\ m \in Mail(p) /\ m.type = "ADDREQUEST"
    BY <1>4, TakeKnown DEF HandleAllRequest, ForTip
  <2>2. m.index = Size(p) /\ Size(p) \in Nat
    BY <1>1, <1>4, SizeType DEF HandleAllRequest, ForTip
  <2>3. /\ UNCHANGED <<bc, transactions, round, candidates>>
        /\ pc[p] = "HandleAll" /\ votes[p] = <<>>
        /\ HandleBlockAdditionRequest(p, m)
    BY <1>4 DEF HandleAllRequest, HandlingAll, mainVars
  <2> HIDE DEF m
  <2>4. m.index <= Size(p)  BY <2>2
  <2> QED  BY <2>1, <2>3, <2>4, HandleEffect
<1>5. CASE HandleAllSetAside(p)
  BY <1>5, NoMessageEffect DEF HandleAllSetAside, mainVars
<1>6. CASE HandleAllFinish(p)
  <2>1. /\ votes[p] = <<>> /\ pc[p] = "Finish"
        /\ UNCHANGED <<round, votes, net>>
    BY <1>1, <1>6 DEF HandleAllFinish
  <2>2. OthersKeep(p)
    BY <1>1, <1>6 DEF HandleAllFinish, AddBlock, OthersKeep
  <2>3. Finishes(p)  BY <1>6, <2>1, NothingSent DEF Finishes
  <2> QED  BY <2>1, <2>2, <2>3, ActsEffect DEF Acts
<1>7. CASE HandleAllBreak(p)
  BY <1>7, NoMessageEffect DEF HandleAllBreak
<1> QED  BY <1>2, <1>3, <1>4, <1>5, <1>6, <1>7 DEF AdditionRequests

LEMMA TallyEffect ==
    ASSUME HistoryInv, Recorded, NEW p \in Peers, Collecting(p),
           NEW w \in Voting, SetVoting(p, w),
           \/ \E m \in Ballots(p) : Counts(p, Innermost(p), m)
                                    /\ w = Count(Innermost(p), m)
           \/ \E s \in Seq(Message) : w = [Innermost(p) EXCEPT !.aside = s]
           \/ w = [Innermost(p) EXCEPT !.status = "timed out"],
           UNCHANGED <<bc, transactions, round, candidates, net>>
    PROVE  Effect(p)
<1>1. votes \in [Peers -> Seq(Voting)] /\ votes[p] # <<>>
  BY EffectTypes DEF Collecting
<1>2. pc[p] # "Run"  BY <1>1, EffectTypes
<1>3. OthersKeep(p)  BY <1>1 DEF SetVoting, OthersKeep
<1>4. sent' = sent  BY NothingSent
<1>5. Tallies(p, w)  BY <1>4, Zenon DEF Tallies
<1> QED  BY <1>2, <1>3, <1>5, ActsEffect DEF Acts

LEMMA ReturnEffect ==
    ASSUME HistoryInv, Recorded, NEW p \in Peers, CheckReturn(p)
    PROVE  Effect(p)
<1> DEFINE v == Innermost(p)
           M == IF v.own
                THEN Broadcast(p, "VOTE", Len(v.block), v.block, Accepted(v))
                ELSE {}
<1>1. /\ TypeOK /\ votes \in [Peers -> Seq(Voting)] /\ votes[p] # <<>>
      /\ candidates \in [Peers -> Seq(Candidate)] /\ pc[p] # "Run"
  BY EffectTypes DEF CheckReturn
<1>2. v.block \in Block  BY <1>1, InnermostType DEF Voting
<1>3. /\ net' = net \cup M
      /\ UNCHANGED <<bc, transactions, round>>
  BY DEF CheckReturn, mainVars
<1>4. Sends(M)
  <2>1. CASE v.own
    <3>1. M = Broadcast(p, "VOTE", Len(v.block), v.block, Accepted(v))
      BY <2>1
    <3> HIDE DEF M, v
    <3> QED  BY <1>2, <1>3, <3>1, SentBlocks
  <2>2. CASE ~v.own  BY <1>3, <2>2, NothingSent DEF Sends
  <2> QED  BY <2>1, <2>2
<1>5. OthersKeep(p)  BY <1>1, <1>3 DEF CheckReturn, OthersKeep
<1>6. Returns(p)  BY <1>3, <1>4 DEF CheckReturn, Returns
<1> QED  BY <1>1, <1>5, <1>6, ActsEffect DEF Acts

LEMMA CheckVotesForBlockEffect ==
    ASSUME HistoryInv, Recorded, NEW p \in Peers, CheckVotesForBlock(p)
    PROVE  Effect(p)
<1>1. votes[p] # <<>> /\ TypeOK /\ votes \in [Peers -> Seq(Voting)]
  BY EffectTypes
  DEF CheckVotesForBlock, CheckVote, CheckSetAside, CheckRequestBlock,
      CheckAddRequest, CheckFree, CheckTimeout, CheckReturn, Collecting
<1>2. pc[p] # "Run" /\ Innermost(p) \in Voting
  BY <1>1, EffectTypes, InnermostType
<1>3. ASSUME NEW types, Pending(p, types)
      PROVE  /\ Oldest(p) \in Message /\ Oldest(p) \in Known
             /\ Oldest(p) \in Mail(p)
  BY <1>3, TakeKnown DEF Pending
<1>4. CASE CheckVote(p)
  <2> DEFINE m == Oldest(p)
             w == Count(Innermost(p), m)
  <2>1. /\ m \in Message /\ m \in Known /\ m \in Mail(p) /\ m.type = "VOTE"
    BY <1>3, <1>4 DEF CheckVote, Pending
  <2>2. /\ Collecting(p)
        /\ UNCHANGED <<bc, transactions, round, candidates, net>>
        /\ \/ UNCHANGED votes
           \/ Counts(p, Innermost(p), m) /\ SetVoting(p, w)
    BY <1>4 DEF CheckVote, mainVars
  <2>3. m \in Ballots(p)
    BY <2>1, MessageFields DEF Known, Block, Ballots
  <2>4. w \in Voting  BY <1>2, <2>1, CountType
  <2> HIDE DEF m
  <2>5. CASE UNCHANGED votes  BY <2>2, <2>5, NoMessageEffect
  <2>6. CASE Counts(p, Innermost(p), m) /\ SetVoting(p, w)
    BY <2>2, <2>3, <2>4, <2>6, TallyEffect
  <2> QED  BY <2>2, <2>5, <2>6
<1>5. CASE CheckSetAside(p)
  <2> DEFINE s == Append(Innermost(p).aside, Oldest(p))
             w == [Innermost(p) EXCEPT !.aside = s]
  <2>1. s \in Seq(Message)
    BY <1>2, <1>3, <1>5, AppendProperties DEF CheckSetAside, Voting
  <2>2. /\ Collecting(p) /\ SetVoting(p, w)
        /\ UNCHANGED <<bc, transactions, round, candidates, net>>
    BY <1>5 DEF CheckSetAside, mainVars
  <2> HIDE DEF s
  <2>3. w \in Voting  BY <1>2, <2>1 DEF Voting
  <2> QED  BY <2>1, <2>2, <2>3, TallyEffect
<1>6. CASE CheckRequestBlock(p)
  <2>1. /\ net' = net \cup {SendBlockchain(p, Oldest(p))}
        /\ UNCHANGED <<bc, transactions, round, votes, candidates>>
    BY <1>6 DEF CheckRequestBlock, mainVars
  <2>2. \E M \in SUBSET Answers(p) : Sends(M)
    BY <1>3, <1>6, <2>1, SentAnswer DEF CheckRequestBlock
  <2>3. Chats(p) /\ OthersKeep(p)
    BY <2>1, <2>2 DEF Chats, Replied, OthersKeep
  <2> QED  BY <1>2, <2>3, ActsEffect DEF Acts
<1>7. CASE CheckAddRequest(p)
  <2> DEFINE m == Oldest(p)
  <2>1. /\ m \in Known /\ m \in Mail(p) /\ m.type = "ADDREQUEST"
    BY <1>3, <1>7 DEF CheckAddRequest, Pending
  <2>2. /\ Collecting(p) /\ m.index = Size(p) /\ Size(p) \in Nat
        /\ UNCHANGED <<bc, transactions, round, candidates>>
        /\ \/ /\ HashLeq(m.block, Innermost(p).block)
              /\ HandleBlockAdditionRequest(p, m)
           \/ /\ ~HashLeq(m.block, Innermost(p).block)
              /\ RefuseBlockAdditionRequest(p, m)
    BY <1>1, <1>7, SizeType DEF CheckAddRequest, mainVars
  <2> HIDE DEF m
  <2>3. m.index <= Size(p)  BY <2>2
  <2> QED  BY <1>2, <2>1, <2>2, <2>3, HandleEffect
<1>8. CASE CheckFree(p)
  BY <1>8, NoMessageEffect DEF CheckFree, mainVars
<1>9. CASE CheckTimeout(p)
  <2> DEFINE w == [Innermost(p) EXCEPT !.status = "timed out"]
  <2>1. w \in Voting  BY <1>2 DEF Voting
  <2>2. /\ Collecting(p) /\ SetVoting(p, w)
        /\ UNCHANGED <<bc, transactions, round, candidates, net>>
    BY <1>9 DEF CheckTimeout, mainVars
  <2> QED  BY <2>1, <2>2, TallyEffect
<1>10. CASE CheckReturn(p)  BY <1>10, ReturnEffect
<1> QED
  BY <1>4, <1>5, <1>6, <1>7, <1>8, <1>9, <1>10 DEF CheckVotesForBlock

\* Every step is an effect on one peer.
LEMMA NextEffect ==
    ASSUME HistoryInv, HistoryNext
    PROVE  \E p \in Peers : Effect(p)
<1>1. Recorded /\ TypeOK  BY HistoryTypes, ProposerFacts DEF HistoryNext, Recorded
<1>2. CASE \E m \in net : Receive(m)
  <2>1. PICK m \in net : Receive(m)  BY <1>2
  <2>2. m.to \in Peers  BY <1>1, MessageFields DEF TypeOK
  <2> QED  BY <1>1, <2>1, <2>2, NoMessageEffect DEF Receive, mainVars
<1>3. CASE \E p \in Peers : ReceiveNetinfo(p)
  BY <1>1, <1>3, NoMessageEffect DEF ReceiveNetinfo, mainVars
<1>4. CASE \E p \in Peers : Run(p) \/ RequestBlockchain(p)
                              \/ AdditionRequests(p) \/ CheckVotesForBlock(p)
  BY <1>1, <1>4, RunEffect, RequestBlockchainEffect, AdditionRequestsEffect,
     CheckVotesForBlockEffect
<1> QED  BY <1>2, <1>3, <1>4 DEF HistoryNext, Next

----------------------------------------------------------------------------
(* What two peers have proposed, voted on and added: the invariant of every *)
(* run, timeouts of votes included                                         *)

Proposed(p) == {m.block : m \in {n \in sent : n.type = "ADDREQUEST" /\ n.from = p}}
Voted(p, g) == {m.block : m \in {n \in sent : /\ n.type = "VOTE" /\ n.from = p
                                             /\ n.agree = g}}
AnyProposed == Proposed(First) \cup Proposed(Second)
ProposerOf(p, c) == IF c.own THEN p ELSE Other(p)

\* Outside a round nothing has been found.
Quiet == \A p \in Peers : pc[p] # "AwaitBlock" => round[p] = NoRound

Posted == {m \in Message :
             /\ m.from \in Proposers
             /\ m.type = "BLOCK" => m.block \in Beginnings(bc[m.from])
             /\ m.type = "VOTE" =>
                   /\ m.block \in AnyProposed
                   /\ m.agree => Len(m.block) > Len(InitialChain(m.from))}

\* What p has added came with the chains that were loaded, or was proposed.
ChainPart(p) ==
    /\ InitialChain(p) \in Beginnings(bc[p])
    /\ \A b \in Beginnings(bc[p]) :
          (\A r \in Proposers : Len(b) > Len(InitialChain(r))) => b \in AnyProposed

\* A proposal was made for the end of the chain, and there is one for every
\* length.
ProposalPart(p) ==
    \A b \in Proposed(p) :
        /\ Front(b) \in Beginnings(bc[p])
        /\ Len(b) > Len(InitialChain(p))
        /\ Len(b) <= Size(p)
        /\ Len(b) = Size(p) => OwnBlock(p, b)
        /\ \A c \in Proposed(p) : Len(c) = Len(b) => c = b

\* An activation has counted the vote of p, and that of the other, if any.
Tallied(p) ==
    {v \in Voting :
        /\ v.block \in Proposed(ProposerOf(p, v))
        /\ Len(v.block) <= Size(p)
        /\ v.own => v.agree
        /\ v.agree => Front(v.block) = bc[p]
        /\ v.n_peers >= 2
        /\ \/ v.seen = {} /\ v.n_agrees = InFavour(v.agree)
           \/ /\ v.seen = {Other(p)} /\ Len(v.block) = Size(p)
              /\ \E g \in BOOLEAN : /\ v.block \in Voted(Other(p), g)
                                    /\ v.n_agrees = InFavour(v.agree) + InFavour(g)}

Elected(p) == {c \in Candidate : /\ c.block \in Proposed(ProposerOf(p, c))
                                 /\ c.block \in Voted(Other(p), TRUE)
                                 /\ Front(c.block) = bc[p]}

VotePart(p) == votes[p] \in Seq(Tallied(p)) /\ candidates[p] \in Seq(Elected(p))

RoundPart(p) == \A d \in Data : round[p].found[d] > 0 =>
                    Append(bc[p], d) \in Beginnings(bc[Other(p)])

SilentPart == \A p \in Peers \ Proposers : bc[p] = InitialChain(p)

ProposerAt(p) == ChainPart(p) /\ ProposalPart(p) /\ VotePart(p) /\ RoundPart(p)

PairInv == /\ HistoryInv /\ TransactionInv /\ Quiet
           /\ sent \subseteq Posted
           /\ SilentPart
           /\ \A p \in Proposers : ProposerAt(p)

LEMMA InitialChainType ==
    \A p \in Peers : InitialChain(p) \in Chain /\ Len(InitialChain(p)) \in Nat
<1>1. <<>> \in Chain  BY EmptySeq DEF Chain
<1>2. \A p \in Peers : InitialChain(p) \in Chain
  BY <1>1, TraceAssumption DEF InitialChain, Chain
<1> QED  BY <1>2, LenProperties DEF Chain

LEMMA QuietStep == HistoryInv /\ Quiet /\ [Next]_vars => Quiet'
<1> SUFFICES ASSUME HistoryInv, Quiet, [Next]_vars, NEW q \in Peers PROVE
               pc'[q] # "AwaitBlock" => round'[q] = NoRound
  BY DEF Quiet
<1>1. /\ TypeOK /\ pc \in [Peers -> Location] /\ round \in [Peers -> Round]
      /\ pc[q] # "AwaitBlock" => round[q] = NoRound
  BY HistoryTypes DEF TypeOK, Quiet
<1>2. ASSUME UNCHANGED round,
             \/ UNCHANGED pc
             \/ \E p \in Peers : /\ \E l : pc' = [pc EXCEPT ![p] = l]
                                 /\ pc[p] # "AwaitBlock"
      PROVE  pc'[q] # "AwaitBlock" => round'[q] = NoRound
  BY <1>1, <1>2
<1>3. CASE \E m \in net : Receive(m)
  BY <1>2, <1>3 DEF Receive, mainVars
<1>4. ASSUME NEW p \in Peers, ReceiveNetinfo(p)
      PROVE  pc'[q] # "AwaitBlock" => round'[q] = NoRound
  BY <1>2, <1>4 DEF ReceiveNetinfo, mainVars
<1>5. ASSUME NEW p \in Peers, Run(p)
      PROVE  pc'[q] # "AwaitBlock" => round'[q] = NoRound
  <2>1. UNCHANGED round /\ pc[p] = "Run"
        /\ (UNCHANGED pc \/ pc' = [pc EXCEPT ![p] = "RequestBlockchain"])
    BY <1>5 DEF Run, RunRefresh, RunRequestBlock, RunAddRequest, RunFree,
                RunTransaction, RunNoMessages, CallRequestBlockchain, Idle, mainVars
  <2> QED  BY <1>2, <2>1
<1>6. ASSUME NEW p \in Peers, RequestBlockchain(p)
      PROVE  pc'[q] # "AwaitBlock" => round'[q] = NoRound
  <2>1. CASE RequestBlock(p)
    <3>1. /\ pc[p] = "RequestBlockchain"
          /\ \/ pc' = [pc EXCEPT ![p] = after[p]] /\ UNCHANGED round
             \/ /\ pc' = [pc EXCEPT ![p] = "AwaitBlock"]
                /\ \E r : round' = [round EXCEPT ![p] = r]
      BY <2>1 DEF RequestBlock
    <3> QED  BY <1>1, <1>2, <3>1
  <2>2. CASE AwaitTimeout(p)
    <3>1. /\ round' = [round EXCEPT ![p] = NoRound]
          /\ pc' = [pc EXCEPT ![p] = "TimedOut"]
      BY <2>2 DEF AwaitTimeout
    <3> QED  BY <1>1, <3>1
  <2>3. CASE pc[p] = "AwaitBlock" /\ \E r, kept : Conclude(p, r, kept)
    <3>1. PICK r, kept : Conclude(p, r, kept)  BY <2>3
    <3>2. \/ \E l : LeaveRound(p, kept, l)
          \/ round' = [round EXCEPT ![p] = r] /\ UNCHANGED pc
      BY <3>1, Zenon DEF Conclude
    <3>3. \/ /\ \E l : pc' = [pc EXCEPT ![p] = l]
             /\ round' = [round EXCEPT ![p] = NoRound]
          \/ round' = [round EXCEPT ![p] = r] /\ UNCHANGED pc
      BY <3>2, Zenon DEF LeaveRound
    <3> QED  BY <1>1, <2>3, <3>3
  <2>4. CASE AwaitReturn(p)
    <3>1. /\ UNCHANGED round /\ pc[p] # "AwaitBlock"
          /\ \E l : pc' = [pc EXCEPT ![p] = l]
      BY <2>4 DEF AwaitReturn
    <3> QED  BY <1>2, <3>1
  <2> QED
    BY <1>6, <2>1, <2>2, <2>3, <2>4, Zenon
    DEF RequestBlockchain, AwaitNoBlock, AwaitBlock, AwaitRequestBlock, AwaitFree
<1>7. ASSUME NEW p \in Peers, AdditionRequests(p)
      PROVE  pc'[q] # "AwaitBlock" => round'[q] = NoRound
  <2>1. UNCHANGED round /\ pc[p] # "AwaitBlock"
        /\ (UNCHANGED pc \/ \E l : pc' = [pc EXCEPT ![p] = l])
    BY <1>7
    DEF AdditionRequests, AddBlockToBlockchain, HandleHeldRequest,
        HandleAllRequest, HandleAllSetAside, HandleAllBreak, HandleAllFinish,
        HandlingAll, mainVars
  <2> QED  BY <1>2, <2>1
<1>8. ASSUME NEW p \in Peers, CheckVotesForBlock(p)
      PROVE  pc'[q] # "AwaitBlock" => round'[q] = NoRound
  <2>1. UNCHANGED <<round, pc>>
    BY <1>8
    DEF CheckVotesForBlock, CheckVote, CheckSetAside, CheckRequestBlock,
        CheckAddRequest, CheckFree, CheckTimeout, CheckReturn, mainVars
  <2> QED  BY <1>2, <2>1
<1>9. CASE UNCHANGED vars  BY <1>2, <1>9 DEF vars, mainVars
<1> QED  BY <1>3, <1>4, <1>5, <1>6, <1>7, <1>8, <1>9 DEF Next

\* What the proposers have, with its types.
LEMMA PairTypes ==
    ASSUME PairInv, NEW p \in Proposers
    PROVE  /\ TypeOK /\ HistoryInv /\ TransactionInv /\ PeerInv(p)
           /\ p \in Peers /\ Other(p) \in Proposers /\ Other(p) \in Peers
           /\ Other(p) # p /\ Other(Other(p)) = p
           /\ bc[p] \in Chain /\ transactions[p] \in Chain
           /\ bc \in [Peers -> Chain] /\ transactions \in [Peers -> Chain]
           /\ round \in [Peers -> Round]
           /\ votes \in [Peers -> Seq(Voting)]
           /\ candidates \in [Peers -> Seq(Candidate)]
           /\ Size(p) = Len(bc[p]) + 1 /\ Len(bc[p]) \in Nat
           /\ ProposerAt(p) /\ ProposerAt(Other(p))
           /\ sent \subseteq Message /\ sent \subseteq Posted
<1>1. p \in Peers /\ Other(p) \in Proposers /\ Other(p) \in Peers
      /\ Other(p) # p /\ Other(Other(p)) = p
  BY ProposerFacts
<1>2. HistoryInv /\ TransactionInv /\ sent \subseteq Posted /\ ProposerAt(p)
      /\ ProposerAt(Other(p))
  BY <1>1 DEF PairInv
<1>3. TypeOK /\ PeerInv(p)  BY <1>1, <1>2, EffectTypes
<1>4. Len(bc[p]) \in Nat  BY <1>1, <1>3, SizeType
<1> QED  BY <1>1, <1>2, <1>3, <1>4 DEF TypeOK, HistoryInv, Size

LEMMA ProposedBlock ==
    ASSUME sent \subseteq Message, NEW p \in Peers
    PROVE  /\ Proposed(p) \subseteq Block
           /\ \A g \in BOOLEAN : Voted(p, g) \subseteq Block
BY MessageFields DEF Proposed, Voted

\* Growing: more has been sent, by p, whose chain may have become longer.
Grows(p, M) == /\ OthersKeep(p) /\ Sends(M)
               /\ \A m \in M : m \in Message /\ m.from = p
               /\ bc'[p] \in Chain /\ bc[p] \in Beginnings(bc'[p])

LEMMA GrowsProposed ==
    ASSUME PairInv, NEW p \in Proposers, NEW M, Grows(p, M)
    PROVE  /\ Proposed(Other(p))' = Proposed(Other(p))
           /\ \A g \in BOOLEAN : Voted(Other(p), g)' = Voted(Other(p), g)
           /\ \A r \in Peers : Proposed(r) \subseteq Proposed(r)'
           /\ \A r \in Peers, g \in BOOLEAN : Voted(r, g) \subseteq Voted(r, g)'
           /\ AnyProposed \subseteq AnyProposed'
           /\ (\A m \in M : m.type # "ADDREQUEST") => Proposed(p)' = Proposed(p)
           /\ Proposed(p)' = Proposed(p) \cup
                {m.block : m \in {n \in M : n.type = "ADDREQUEST"}}
           /\ \A g \in BOOLEAN : Voted(p, g)' = Voted(p, g) \cup
                {m.block : m \in {n \in M : n.type = "VOTE" /\ n.agree = g}}
<1>1. Other(p) # p /\ First \in Peers /\ Second \in Peers
  BY ProposerFacts
<1>2. sent' = sent \cup M /\ \A m \in M : m.from = p  BY DEF Grows, Sends
<1>3. \A r \in Peers : Proposed(r) \subseteq Proposed(r)'
  BY <1>2 DEF Proposed
<1>4. \A r \in Peers, g \in BOOLEAN : Voted(r, g) \subseteq Voted(r, g)'
  BY <1>2 DEF Voted
<1>5. Proposed(Other(p))' = Proposed(Other(p))  BY <1>1, <1>2 DEF Proposed
<1>6. \A g \in BOOLEAN : Voted(Other(p), g)' = Voted(Other(p), g)
  BY <1>1, <1>2 DEF Voted
<1>7. AnyProposed \subseteq AnyProposed'  BY <1>1, <1>3 DEF AnyProposed
<1>8. Proposed(p)' = Proposed(p) \cup
                {m.block : m \in {n \in M : n.type = "ADDREQUEST"}}
  BY <1>2 DEF Proposed
<1>9. \A g \in BOOLEAN : Voted(p, g)' = Voted(p, g) \cup
                {m.block : m \in {n \in M : n.type = "VOTE" /\ n.agree = g}}
  BY <1>2 DEF Voted
<1> QED  BY <1>3, <1>4, <1>5, <1>6, <1>7, <1>8, <1>9

\* What a peer that keeps its chain has counted stays true.
LEMMA TalliedGrows ==
    ASSUME PairInv, NEW p \in Proposers, NEW r \in Proposers,
           bc'[r] = bc[r],
           \A x \in Peers : Proposed(x) \subseteq Proposed(x)',
           \A x \in Peers, g \in BOOLEAN : Voted(x, g) \subseteq Voted(x, g)'
    PROVE  /\ Tallied(r) \subseteq Tallied(r)' /\ Elected(r) \subseteq Elected(r)'
           /\ Seq(Tallied(r)) \subseteq Seq(Tallied(r)')
           /\ Seq(Elected(r)) \subseteq Seq(Elected(r)')
<1>1. r \in Peers /\ Other(r) \in Peers  BY ProposerFacts
<1>2. \A v : Proposed(ProposerOf(r, v)) \subseteq Proposed(ProposerOf(r, v))'
  BY <1>1 DEF ProposerOf
<1>3. Tallied(r) \subseteq Tallied(r)'
  BY <1>1, <1>2 DEF Tallied, Size
<1>4. Elected(r) \subseteq Elected(r)'
  BY <1>1, <1>2 DEF Elected
<1> QED  BY <1>3, <1>4, SeqMonotonic

\* A step of p leaves the other proposer and the silent peers as they are.
LEMMA PairAt ==
    ASSUME PairInv, HistoryInv', TransactionInv', Quiet',
           NEW p \in Proposers, NEW M, Grows(p, M), M \subseteq Posted',
           ProposerAt(p)'
    PROVE  PairInv'
<1> DEFINE q == Other(p)
<1>1. /\ q \in Proposers /\ q \in Peers /\ p \in Peers /\ q # p /\ Other(q) = p
      /\ Proposers = {p, q} /\ First \in Peers /\ Second \in Peers
  BY ProposerFacts
<1>2. /\ \A r \in Peers : Proposed(r) \subseteq Proposed(r)'
      /\ \A r \in Peers, g \in BOOLEAN : Voted(r, g) \subseteq Voted(r, g)'
      /\ AnyProposed \subseteq AnyProposed'
      /\ Proposed(q)' = Proposed(q)
  BY GrowsProposed
<1>3. /\ bc'[p] \in Chain /\ bc[p] \in Beginnings(bc'[p]) /\ OthersKeep(p)
      /\ \A r \in Peers \ {p} : /\ bc'[r] = bc[r] /\ votes'[r] = votes[r]
                               /\ transactions'[r] = transactions[r]
                               /\ round'[r] = round[r]
                               /\ candidates'[r] = candidates[r]
  BY DEF Grows, OthersKeep
<1>4. Beginnings(bc[p]) \subseteq Beginnings(bc'[p])  BY <1>3, BeginningsGrow
<1>5. \A r \in Proposers : Beginnings(bc[r]) \subseteq Beginnings(bc'[r])
  BY <1>1, <1>3, <1>4
<1>6. sent' \subseteq Posted'
  <2>1. Posted \subseteq Posted'
    BY <1>2, <1>5 DEF Posted
  <2>2. sent' = sent \cup M  BY DEF Grows, Sends
  <2> QED  BY <2>1, <2>2 DEF PairInv
<1>7. SilentPart'  BY <1>1, <1>3 DEF PairInv, SilentPart
<1>8. ProposerAt(q)'
  <2>1. ProposerAt(q)  BY <1>1 DEF PairInv
  <2>2. bc'[q] = bc[q] /\ transactions'[q] = transactions[q]
        /\ round'[q] = round[q] /\ votes'[q] = votes[q]
        /\ candidates'[q] = candidates[q]
    BY <1>1, <1>3
  <2> HIDE DEF q
  <2>3. ChainPart(q)'  BY <1>2, <2>1, <2>2 DEF ProposerAt, ChainPart
  <2>4. ProposalPart(q)'
    BY <1>2, <2>1, <2>2
    DEF ProposerAt, ProposalPart, OwnBlock, SneakPeekBlock, Size
  <2>5. VotePart(q)'
    BY <1>1, <1>2, <2>1, <2>2, TalliedGrows DEF ProposerAt, VotePart
  <2>6. RoundPart(q)'
    BY <1>1, <1>4, <2>1, <2>2 DEF ProposerAt, RoundPart
  <2> QED  BY <2>3, <2>4, <2>5, <2>6 DEF ProposerAt
<1> QED  BY <1>1, <1>6, <1>7, <1>8 DEF PairInv

----------------------------------------------------------------------------
(* The steps of a proposer *)

\* A step that neither adds a block nor proposes one.
LEMMA ActorKept ==
    ASSUME PairInv, NEW p \in Proposers, NEW M, Grows(p, M),
           \A m \in M : m.type # "ADDREQUEST",
           bc'[p] = bc[p], transactions'[p] = transactions[p]
    PROVE  /\ ChainPart(p)' /\ ProposalPart(p)'
           /\ Seq(Tallied(p)) \subseteq Seq(Tallied(p)')
           /\ Seq(Elected(p)) \subseteq Seq(Elected(p)')
<1>1. ProposerAt(p)  BY PairTypes
<1>2. /\ Proposed(p)' = Proposed(p) /\ AnyProposed \subseteq AnyProposed'
      /\ \A r \in Peers : Proposed(r) \subseteq Proposed(r)'
      /\ \A r \in Peers, g \in BOOLEAN : Voted(r, g) \subseteq Voted(r, g)'
  BY GrowsProposed
<1>3. ChainPart(p)'  BY <1>1, <1>2 DEF ProposerAt, ChainPart
<1>4. ProposalPart(p)'
  BY <1>1, <1>2 DEF ProposerAt, ProposalPart, OwnBlock, SneakPeekBlock, Size
<1> QED  BY <1>2, <1>3, <1>4, TalliedGrows

\* Whatever p finds in its mail is from the other proposer.
LEMMA FromOther ==
    ASSUME PairInv, NEW p \in Proposers, NEW m \in sent, m \in Mail(p)
    PROVE  /\ m.from = Other(p) /\ m \in Message
           /\ m.type = "BLOCK" => m.block \in Beginnings(bc[Other(p)])
           /\ m.type = "ADDREQUEST" => m.block \in Proposed(Other(p))
           /\ m.type = "VOTE" => m.block \in Voted(Other(p), m.agree)
<1>1. m \in Posted /\ m \in Message  BY DEF PairInv, Posted
<1>2. m.from # p /\ m.from \in Proposers  BY <1>1, MailFields, ProposerFacts DEF Posted
<1>3. m.from = Other(p)  BY <1>2, ProposerFacts
<1> QED  BY <1>1, <1>3 DEF Posted, Proposed, Voted

LEMMA RepliedNext ==
    ASSUME PairInv, NEW p \in Proposers, NEW d \in Data, Replied(p, d)
    PROVE  Append(bc[p], d) \in Beginnings(bc[Other(p)])
<1>1. RoundPart(p)  BY PairTypes DEF ProposerAt
<1> QED  BY <1>1, FromOther DEF Replied, RoundPart

LEMMA AnswersPosted ==
    ASSUME PairInv, NEW p \in Proposers, NEW M \in SUBSET Answers(p),
           bc[p] \in Beginnings(bc'[p]), bc'[p] \in Chain
    PROVE  /\ M \subseteq Posted'
           /\ \A m \in M : m \in Message /\ m.from = p /\ m.type = "BLOCK"
<1>1. Beginnings(bc[p]) \subseteq Beginnings(bc'[p])  BY BeginningsGrow
<1> QED  BY <1>1 DEF Answers, Posted

LEMMA PairChats ==
    ASSUME PairInv, HistoryInv', TransactionInv', Quiet',
           NEW p \in Proposers, OthersKeep(p), Chats(p)
    PROVE  PairInv'
<1>1. PICK M \in SUBSET Answers(p) : Sends(M)  BY DEF Chats
<1>2. UNCHANGED <<bc, transactions, votes, candidates>>  BY DEF Chats
<1>3. bc[p] \in Chain /\ ProposerAt(p)  BY PairTypes
<1>4. bc'[p] \in Chain /\ bc[p] \in Beginnings(bc'[p])
  BY <1>2, <1>3, WholeIsBeginning
<1>5. M \subseteq Posted'
      /\ \A m \in M : m \in Message /\ m.from = p /\ m.type = "BLOCK"
  BY <1>4, AnswersPosted
<1>6. Grows(p, M)  BY <1>1, <1>4, <1>5 DEF Grows
<1>7. /\ ChainPart(p)' /\ ProposalPart(p)'
      /\ Seq(Tallied(p)) \subseteq Seq(Tallied(p)')
      /\ Seq(Elected(p)) \subseteq Seq(Elected(p)')
  BY <1>2, <1>5, <1>6, ActorKept
<1>8. VotePart(p)'  BY <1>2, <1>3, <1>7 DEF ProposerAt, VotePart
<1>9. RoundPart(p)'  BY <1>2, RepliedNext DEF Chats, RoundPart
<1>10. ProposerAt(p)'  BY <1>7, <1>8, <1>9 DEF ProposerAt
<1> QED  BY <1>5, <1>6, <1>10, PairAt

LEMMA PairSyncs ==
    ASSUME PairInv, HistoryInv', TransactionInv', Quiet',
           NEW p \in Proposers, OthersKeep(p), Syncs(p)
    PROVE  PairInv'
<1> DEFINE q == Other(p)
<1>1. PICK M \in SUBSET Answers(p) : Sends(M)  BY DEF Syncs
<1>2. PICK d \in Data : Replied(p, d) /\ AddBlock(p, d)  BY DEF Syncs
<1>3. /\ bc \in [Peers -> Chain] /\ bc[p] \in Chain /\ p \in Peers
      /\ q \in Peers /\ q # p /\ q \in Proposers /\ Other(q) = p
      /\ ProposerAt(p) /\ ProposerAt(q) /\ sent \subseteq Message
      /\ Len(bc[p]) \in Nat
  BY PairTypes
<1>4. bc'[p] = Append(bc[p], d)  BY <1>2, <1>3 DEF AddBlock
<1>5. /\ bc'[p] \in Chain /\ bc[p] \in Beginnings(bc'[p])
      /\ Len(bc'[p]) = Len(bc[p]) + 1
  BY <1>3, <1>4, BlockOfAppend
<1>6. M \subseteq Posted'
      /\ \A m \in M : m \in Message /\ m.from = p /\ m.type = "BLOCK"
  BY <1>5, AnswersPosted
<1>7. Grows(p, M)  BY <1>1, <1>5, <1>6 DEF Grows
<1>8. bc'[p] \in Beginnings(bc[q])  BY <1>2, <1>4, RepliedNext
<1>9. /\ Beginnings(bc'[p]) \subseteq Beginnings(bc[q])
      /\ Beginnings(bc[p]) \subseteq Beginnings(bc'[p])
  BY <1>3, <1>5, <1>8, BeginningsGrow DEF PairInv
<1>10. Proposed(p)' = Proposed(p) /\ AnyProposed \subseteq AnyProposed'
  BY <1>6, <1>7, GrowsProposed
<1>11. ChainPart(p)'
  BY <1>3, <1>9, <1>10 DEF ProposerAt, ChainPart
<1>12. ProposalPart(p)'
  <2> SUFFICES ASSUME NEW b \in Proposed(p)
               PROVE  /\ Front(b) \in Beginnings(bc'[p])
                      /\ Len(b) > Len(InitialChain(p))
                      /\ Len(b) <= Size(p)' /\ Len(b) # Size(p)'
                      /\ \A c \in Proposed(p) : Len(c) = Len(b) => c = b
    BY <1>10 DEF ProposalPart
  <2>1. /\ Front(b) \in Beginnings(bc[p]) /\ Len(b) <= Len(bc[p]) + 1
        /\ Len(b) > Len(InitialChain(p))
        /\ \A c \in Proposed(p) : Len(c) = Len(b) => c = b
    BY <1>3 DEF ProposerAt, ProposalPart, Size
  <2>2. Len(b) \in Nat  BY <1>3, ProposedBlock, LastOfBlock
  <2> QED  BY <1>3, <1>5, <1>9, <2>1, <2>2 DEF Size
<1>13. VotePart(p)'
  <2>1. votes'[p] = <<>> /\ candidates'[p] = <<>>  BY DEF Syncs
  <2> QED  BY <2>1, EmptySeq DEF VotePart
<1>14. RoundPart(p)'
  BY DEF Syncs, RoundPart, NoRound
<1>15. ProposerAt(p)'  BY <1>11, <1>12, <1>13, <1>14 DEF ProposerAt
<1> QED  BY <1>6, <1>7, <1>15, PairAt

LEMMA BroadcastFields ==
    ASSUME NEW p, NEW t, NEW i, NEW b, NEW a
    PROVE  /\ \A m \in Broadcast(p, t, i, b, a) :
                 /\ m.from = p /\ m.type = t /\ m.index = i
                 /\ m.block = b /\ m.agree = a
           /\ Others(p) # {} => Broadcast(p, t, i, b, a) # {}
<1>1. \A m \in Broadcast(p, t, i, b, a) :
         /\ m.from = p /\ m.type = t /\ m.index = i
         /\ m.block = b /\ m.agree = a
  BY DEF Broadcast
<1>2. ASSUME NEW q \in Others(p) PROVE Broadcast(p, t, i, b, a) # {}
  <2> DEFINE m == [type |-> t, from |-> p, to |-> q, index |-> i,
                   block |-> b, agree |-> a]
  <2>1. m \in Broadcast(p, t, i, b, a)  BY DEF Broadcast
  <2> QED  BY <2>1
<1> QED  BY <1>1, <1>2

LEMMA ProposalPosted ==
    ASSUME PairInv, NEW p \in Proposers, NEW b \in Block, Len(b) = Size(p)
    PROVE  Broadcast(p, "ADDREQUEST", Size(p), b, FALSE) \subseteq Posted'
<1>1. Broadcast(p, "ADDREQUEST", Size(p), b, FALSE) \subseteq Message
  BY PairTypes, SizeType, BroadcastBlock
<1> QED  BY <1>1 DEF Broadcast, Posted

\* A proposal is made for the end of the chain of p.
LEMMA ProposedNow ==
    ASSUME PairInv, NEW p \in Proposers, transactions[p] # <<>>
    PROVE  LET b == SneakPeekBlock(p, Head(transactions[p]))
           IN  /\ b \in Block /\ Len(b) = Size(p) /\ Front(b) = bc[p]
               /\ OwnBlock(p, b)
<1>1. bc[p] \in Chain /\ transactions[p] \in Seq(Data)
  BY PairTypes DEF Chain
<1>2. Head(transactions[p]) \in Data  BY <1>1, HeadTailProperties
<1> QED  BY <1>1, <1>2, BlockOfAppend DEF SneakPeekBlock, OwnBlock, Size

LEMMA PairProposes ==
    ASSUME PairInv, HistoryInv', TransactionInv', Quiet',
           NEW p \in Proposers, Other(p) \in Others(p), OthersKeep(p), Proposes(p)
    PROVE  PairInv'
<1> DEFINE b == SneakPeekBlock(p, Head(transactions[p]))
           M == Broadcast(p, "ADDREQUEST", Size(p), b, FALSE)
           v == NewVoting(p, b, TRUE, TRUE)
<1>1. /\ Sends(M) /\ votes' = [votes EXCEPT ![p] = <<v>>]
      /\ UNCHANGED <<bc, transactions, round, candidates>>
      /\ candidates[p] = <<>>
      /\ transactions[p] # <<>>
  BY DEF Proposes
<1>2. /\ TypeOK /\ bc[p] \in Chain /\ ProposerAt(p) /\ p \in Peers
      /\ Len(bc[p]) \in Nat /\ Size(p) = Len(bc[p]) + 1 /\ sent \subseteq Message
      /\ votes \in [Peers -> Seq(Voting)]
  BY PairTypes
<1>3. /\ b \in Block /\ Len(b) = Size(p) /\ Front(b) = bc[p] /\ OwnBlock(p, b)
  BY <1>1, ProposedNow
<1> HIDE DEF b
<1>4. M \subseteq Posted'  BY <1>3, ProposalPosted
<1>5. /\ \A m \in M : m.from = p /\ m.type = "ADDREQUEST" /\ m.block = b
      /\ M # {}
  <2> DEFINE no == FALSE
  <2>1. M = Broadcast(p, "ADDREQUEST", Size(p), b, no) /\ Others(p) # {}
    OBVIOUS
  <2> HIDE DEF no, M
  <2> QED  BY <2>1, BroadcastFields
<1>6. M \subseteq Message  BY <1>4 DEF Posted
<1>7. Grows(p, M)  BY <1>1, <1>2, <1>5, <1>6, WholeIsBeginning DEF Grows
<1>8. Proposed(p)' = Proposed(p) \cup {b}
  <2>1. Proposed(p)' = Proposed(p) \cup
                {m.block : m \in {n \in M : n.type = "ADDREQUEST"}}
    BY <1>7, GrowsProposed
  <2>2. {m.block : m \in {n \in M : n.type = "ADDREQUEST"}} = {b}
    BY <1>5
  <2> QED  BY <2>1, <2>2
<1>9. AnyProposed \subseteq AnyProposed'  BY <1>7, GrowsProposed
<1>10. ChainPart(p)'  BY <1>1, <1>2, <1>9 DEF ProposerAt, ChainPart
<1>11. ProposalPart(p)'
  <2>1. ASSUME NEW c \in Proposed(p)
        PROVE  /\ Front(c) \in Beginnings(bc[p])
               /\ Len(c) > Len(InitialChain(p)) /\ Len(c) <= Size(p)
               /\ Len(c) = Size(p) => c = b
               /\ \A x \in Proposed(p) : Len(x) = Len(c) => x = c
    BY <1>2, <1>3 DEF ProposerAt, ProposalPart, OwnBlock
  <2>2. Len(InitialChain(p)) <= Len(bc[p]) /\ Len(InitialChain(p)) \in Nat
    BY <1>2, InitialChainType, BeginningFields DEF ProposerAt, ChainPart
  <2>3. /\ Front(b) \in Beginnings(bc[p]) /\ Len(b) > Len(InitialChain(p))
        /\ Len(b) <= Size(p)
    BY <1>2, <1>3, <2>2, WholeIsBeginning
  <2>4. /\ bc'[p] = bc[p] /\ Size(p)' = Size(p)
        /\ \A c : OwnBlock(p, c)' <=> OwnBlock(p, c)
    BY <1>1 DEF Size, OwnBlock, SneakPeekBlock
  <2>5. ASSUME NEW c \in Proposed(p) \cup {b}
        PROVE  /\ Front(c) \in Beginnings(bc[p])
               /\ Len(c) > Len(InitialChain(p)) /\ Len(c) <= Size(p)
               /\ Len(c) = Size(p) => OwnBlock(p, c)
               /\ \A x \in Proposed(p) \cup {b} : Len(x) = Len(c) => x = c
    BY <1>3, <2>1, <2>3
  <2> QED  BY <1>8, <2>4, <2>5 DEF ProposalPart
<1>12. VotePart(p)'
  <2>1. v \in Voting  BY <1>2, <1>3, NewVotingType
  <2>2. /\ v.block = b /\ v.own = TRUE /\ v.agree = TRUE /\ v.seen = {}
        /\ v.n_agrees = 1 /\ v.n_peers = Cardinality(Others(p)) + 1
    BY DEF NewVoting
  <2> HIDE DEF v
  <2>3. v.n_peers >= 2
    <3>1. Cardinality(Others(p)) \in Nat /\ IsFiniteSet(Others(p))
      BY <1>2, OthersFinite
    <3>2. Cardinality(Others(p)) # 0  BY <3>1, FS_EmptySet
    <3> QED  BY <2>2, <3>1, <3>2
  <2>4. ProposerOf(p, v) = p  BY <2>2 DEF ProposerOf
  <2>5. bc'[p] = bc[p] /\ Size(p)' = Size(p) /\ Size(p) \in Nat
    BY <1>1, <1>2 DEF Size
  <2>6. v.block \in Proposed(p)' /\ Len(v.block) <= Size(p)' /\ Front(v.block) = bc'[p]
    BY <1>3, <1>8, <2>2, <2>5
  <2>7. v \in Tallied(p)'
    BY <2>1, <2>2, <2>3, <2>4, <2>6 DEF Tallied, InFavour
  <2>8. <<v>> \in Seq(Tallied(p)')  BY <2>7, SingletonSeq
  <2>9. votes'[p] = <<v>> /\ candidates'[p] = <<>>  BY <1>1, <1>2
  <2> QED  BY <2>8, <2>9, EmptySeq DEF VotePart
<1>13. RoundPart(p)'
  BY <1>1, <1>2 DEF ProposerAt, RoundPart
<1>14. ProposerAt(p)'  BY <1>10, <1>11, <1>12, <1>13 DEF ProposerAt
<1> HIDE DEF M
<1> QED  BY <1>4, <1>7, <1>14, PairAt

\* The votes of p on a block that has been proposed.
LEMMA VoteGrows ==
    ASSUME PairInv, NEW p \in Proposers, NEW b \in Block, b \in AnyProposed,
           NEW a \in BOOLEAN, a => Len(b) = Size(p),
           OthersKeep(p), bc'[p] = bc[p],
           NEW i, i = Len(b), NEW M, M = Broadcast(p, "VOTE", i, b, a), Sends(M)
    PROVE  /\ Grows(p, M) /\ M \subseteq Posted'
           /\ \A m \in M : m.type = "VOTE" /\ m.block = b /\ m.agree = a
<1>1. /\ TypeOK /\ bc[p] \in Chain /\ p \in Peers /\ ProposerAt(p)
      /\ Len(bc[p]) \in Nat /\ Size(p) = Len(bc[p]) + 1
  BY PairTypes
<1>2. i \in Nat \ {0}  BY LastOfBlock
<1>3. M \subseteq Message  BY <1>1, <1>2, BroadcastBlock
<1>4. \A m \in M : m.from = p /\ m.type = "VOTE" /\ m.block = b /\ m.agree = a
  BY BroadcastFields
<1>5. Grows(p, M)  BY <1>1, <1>3, <1>4, WholeIsBeginning DEF Grows
<1>6. AnyProposed \subseteq AnyProposed'  BY <1>5, GrowsProposed
<1>7. a => Len(b) > Len(InitialChain(p))
  <2>1. Len(InitialChain(p)) <= Len(bc[p]) /\ Len(InitialChain(p)) \in Nat
    BY <1>1, InitialChainType, BeginningFields DEF ProposerAt, ChainPart
  <2> QED  BY <1>1, <2>1
<1>8. M \subseteq Posted'
  <2> SUFFICES ASSUME NEW m \in M PROVE m \in Posted'  OBVIOUS
  <2>1. m \in Message /\ m.from = p /\ m.type = "VOTE" /\ m.block = b /\ m.agree = a
    BY <1>3, <1>4
  <2> QED  BY <1>6, <1>7, <2>1 DEF Posted
<1> QED  BY <1>4, <1>5, <1>8

\* A new activation for a request.
LEMMA NewTallied ==
    ASSUME PairInv, NEW p \in Proposers, Other(p) \in Others(p),
           NEW b \in Block, b \in Proposed(Other(p)), Len(b) <= Size(p),
           NEW a \in BOOLEAN, a => Front(b) = bc[p]
    PROVE  NewVoting(p, b, FALSE, a) \in Tallied(p)
<1> DEFINE v == NewVoting(p, b, FALSE, a)
<1>1. TypeOK /\ p \in Peers  BY PairTypes
<1>2. v \in Voting  BY <1>1, NewVotingType
<1>3. /\ v.block = b /\ ~v.own /\ v.agree = a /\ v.seen = {}
      /\ v.n_agrees = InFavour(a) /\ v.n_peers = Cardinality(Others(p)) + 1
  BY DEF NewVoting, InFavour
<1> HIDE DEF v
<1>4. v.n_peers >= 2
  <2>1. Cardinality(Others(p)) \in Nat /\ IsFiniteSet(Others(p))
    BY <1>1, OthersFinite
  <2>2. Cardinality(Others(p)) # 0  BY <2>1, FS_EmptySet
  <2> QED  BY <1>3, <2>1, <2>2
<1>5. ProposerOf(p, v) = Other(p)  BY <1>3 DEF ProposerOf
<1>6. v \in Tallied(p)  BY <1>2, <1>3, <1>4, <1>5 DEF Tallied
<1> QED  BY <1>6 DEF v

LEMMA PairHandles ==
    ASSUME PairInv, HistoryInv', TransactionInv', Quiet',
           NEW p \in Proposers, Other(p) \in Others(p), OthersKeep(p),
           NEW m \in Requests(p), Handles(p, m) \/ Refuses(p, m)
    PROVE  PairInv'
<1> DEFINE b == m.block
<1>1. /\ TypeOK /\ bc[p] \in Chain /\ ProposerAt(p) /\ p \in Peers
      /\ Len(bc[p]) \in Nat /\ Size(p) = Len(bc[p]) + 1 /\ sent \subseteq Message
      /\ votes \in [Peers -> Seq(Voting)]
  BY PairTypes
<1>2. /\ b \in Proposed(Other(p)) /\ b \in Block /\ m.index = Len(b)
      /\ Len(b) \in Nat /\ b \in AnyProposed
  <2>1. m \in sent /\ m \in Mail(p) /\ m.type = "ADDREQUEST"  BY DEF Requests
  <2>2. b \in Proposed(Other(p)) /\ b \in Block /\ m.index = Len(b)
    BY <1>1, <2>1, FromOther, MessageFields, MailFields
  <2>3. Other(p) \in Proposers  BY ProposerFacts
  <2> QED  BY <2>2, <2>3, LastOfBlock DEF AnyProposed, Proposers
<1>3. UNCHANGED <<bc, transactions, round, candidates>>
  BY DEF Handles, Refuses
<1>4. PICK a \in BOOLEAN :
        /\ Sends(Broadcast(p, "VOTE", m.index, b, a))
        /\ a => Front(b) = bc[p] /\ Len(b) = Size(p)
        /\ \/ votes' = votes
           \/ /\ Len(b) <= Size(p)
              /\ votes' = [votes EXCEPT ![p] = <<NewVoting(p, b, FALSE, a)>> \o @]
  <2>1. CASE Handles(p, m)
    <3> DEFINE g == Vote(p, m)
    <3>1. /\ g \in BOOLEAN
          /\ Sends(Broadcast(p, "VOTE", m.index, b, g))
          /\ g => Front(b) = bc[p] /\ Len(b) = Size(p)
          /\ Len(b) <= Size(p)
          /\ votes' = [votes EXCEPT ![p] = <<NewVoting(p, b, FALSE, g)>> \o @]
      BY <1>2, <2>1 DEF Handles, Vote, Continues, TopHash
    <3> HIDE DEF g
    <3> QED  BY <3>1
  <2>2. CASE Refuses(p, m)
    <3> DEFINE g == FALSE
    <3>1. /\ g \in BOOLEAN /\ ~g
          /\ Sends(Broadcast(p, "VOTE", m.index, b, g)) /\ votes' = votes
      BY <2>2 DEF Refuses
    <3> HIDE DEF g
    <3> QED  BY <3>1
  <2> QED  BY <2>1, <2>2
<1> DEFINE M == Broadcast(p, "VOTE", m.index, b, a)
<1> HIDE DEF b
<1>5. M = Broadcast(p, "VOTE", m.index, b, a) /\ Sends(M)  BY <1>4
<1> HIDE DEF M
<1>6. /\ Grows(p, M) /\ M \subseteq Posted'
      /\ \A n \in M : n.type = "VOTE" /\ n.block = b /\ n.agree = a
  BY <1>2, <1>3, <1>4, <1>5, VoteGrows
<1>7. /\ ChainPart(p)' /\ ProposalPart(p)'
      /\ Seq(Tallied(p)) \subseteq Seq(Tallied(p)')
      /\ Seq(Elected(p)) \subseteq Seq(Elected(p)')
  BY <1>3, <1>6, ActorKept
<1>8. VotePart(p)'
  <2>1. votes[p] \in Seq(Tallied(p)) /\ candidates[p] \in Seq(Elected(p))
    BY <1>1 DEF ProposerAt, VotePart
  <2>2. votes'[p] \in Seq(Tallied(p))
    <3> DEFINE v == NewVoting(p, b, FALSE, a)
    <3>1. CASE votes' = votes  BY <2>1, <3>1
    <3>2. CASE /\ Len(b) <= Size(p)
               /\ votes' = [votes EXCEPT ![p] = <<v>> \o @]
      <4>1. v \in Tallied(p)  BY <1>2, <1>4, <3>2, NewTallied
      <4> HIDE DEF v
      <4>2. <<v>> \o votes[p] \in Seq(Tallied(p))
        BY <2>1, <4>1, SingletonSeq, ConcatProperties
      <4> QED  BY <1>1, <3>2, <4>2
    <3> QED  BY <1>4, <3>1, <3>2
  <2> QED  BY <1>3, <1>7, <2>1, <2>2 DEF VotePart
<1>9. RoundPart(p)'  BY <1>1, <1>3 DEF ProposerAt, RoundPart
<1>10. ProposerAt(p)'  BY <1>7, <1>8, <1>9 DEF ProposerAt
<1> QED  BY <1>6, <1>10, PairAt

\* A step of p that sends nothing and adds nothing.
LEMMA PairSilent ==
    ASSUME PairInv, HistoryInv', TransactionInv', Quiet',
           NEW p \in Peers, OthersKeep(p),
           UNCHANGED <<bc, transactions, round, sent>>,
           p \in Proposers => /\ votes'[p] \in Seq(Tallied(p))
                              /\ candidates'[p] \in Seq(Elected(p))
    PROVE  PairInv'
<1>1. /\ Proposed(First)' = Proposed(First) /\ Proposed(Second)' = Proposed(Second)
      /\ AnyProposed' = AnyProposed
      /\ \A r : Proposed(r)' = Proposed(r)
      /\ \A r, g : Voted(r, g)' = Voted(r, g)
  BY DEF AnyProposed, Proposed, Voted
<1>2. sent' \subseteq Posted' /\ SilentPart'
  BY <1>1 DEF PairInv, Posted, SilentPart
<1>3. ASSUME NEW r \in Proposers PROVE ProposerAt(r)'
  <2>1. ProposerAt(r) /\ r \in Peers  BY <1>3, ProposerFacts DEF PairInv
  <2>2. ChainPart(r)' /\ ProposalPart(r)' /\ RoundPart(r)'
    BY <1>1, <2>1
    DEF ProposerAt, ChainPart, ProposalPart, RoundPart, OwnBlock,
        SneakPeekBlock, Size
  <2>3. Tallied(r)' = Tallied(r) /\ Elected(r)' = Elected(r)
    BY <1>1 DEF Tallied, Elected, Size
  <2>4. votes'[r] \in Seq(Tallied(r)) /\ candidates'[r] \in Seq(Elected(r))
    BY <2>1 DEF ProposerAt, VotePart, OthersKeep
  <2>5. VotePart(r)'  BY <2>3, <2>4 DEF VotePart
  <2> QED  BY <2>2, <2>5 DEF ProposerAt
<1> QED  BY <1>2, <1>3 DEF PairInv

\* An activation that keeps its vote and its count, whatever its status.
LEMMA TalliedKept ==
    ASSUME NEW p \in Proposers, NEW v \in Tallied(p), NEW w \in Voting,
           w.block = v.block, w.own = v.own, w.agree = v.agree,
           w.n_peers = v.n_peers, w.seen = v.seen, w.n_agrees = v.n_agrees
    PROVE  w \in Tallied(p)
BY DEF Tallied, ProposerOf

LEMMA TallyKept ==
    ASSUME PairInv, NEW p \in Proposers, NEW w \in Voting, Tallies(p, w)
    PROVE  w \in Tallied(p) /\ Tail(votes[p]) \in Seq(Tallied(p))
           /\ Innermost(p) \in Tallied(p) /\ Innermost(p) \in Voting
           /\ w.block = Innermost(p).block /\ w.own = Innermost(p).own
           /\ w.agree = Innermost(p).agree
           /\ w.status \in {Innermost(p).status, "timed out"}
<1> DEFINE v == Innermost(p)
<1>1. votes[p] \in Seq(Tallied(p)) /\ votes[p] # <<>>
  BY PairTypes DEF ProposerAt, VotePart, Tallies, Collecting
<1>2. v \in Tallied(p) /\ Tail(votes[p]) \in Seq(Tallied(p))
  BY <1>1, HeadTailProperties DEF Innermost
<1>3. v \in Voting /\ v.n_agrees \in Nat /\ v.seen \in SUBSET Peers
  BY <1>2 DEF Tallied, Voting
<1>4. CASE \E m \in Ballots(p) : Counts(p, v, m) /\ w = Count(v, m)
  <2>1. PICK m \in Ballots(p) : Counts(p, v, m) /\ w = Count(v, m)
    BY <1>4
  <2>2. m \in sent /\ m \in Mail(p) /\ m.type = "VOTE"  BY DEF Ballots
  <2>3. /\ m.from = Other(p) /\ m.block \in Voted(Other(p), m.agree)
        /\ m.agree \in BOOLEAN /\ m.index = Len(m.block)
    <3>1. /\ m.from = Other(p) /\ m.block \in Voted(Other(p), m.agree)
          /\ m \in Message
      BY <2>2, FromOther
    <3> QED  BY <2>2, <3>1, PairTypes, MessageFields, MailFields
  <2>4. /\ w.block = v.block /\ w.own = v.own /\ w.agree = v.agree
        /\ w.n_peers = v.n_peers /\ w.seen = v.seen \cup {m.from}
        /\ w.n_agrees = IF m.agree THEN v.n_agrees + 1 ELSE v.n_agrees
        /\ w.status = v.status
    BY <1>3, <2>1 DEF Count, Voting
  <2>5. m.from \notin v.seen /\ m.block = v.block /\ m.index = Size(p)
    BY <2>1 DEF Counts
  <2>6. v.seen = {} /\ v.n_agrees = InFavour(v.agree)
    BY <1>2, <2>3, <2>5 DEF Tallied
  <2>7. /\ w.seen = {Other(p)} /\ w.n_agrees = InFavour(w.agree) + InFavour(m.agree)
        /\ w.block \in Voted(Other(p), m.agree) /\ Len(w.block) = Size(p)
    BY <1>3, <2>3, <2>4, <2>5, <2>6 DEF InFavour
  <2>8. w \in Tallied(p)
    <3>1. /\ v.block \in Proposed(ProposerOf(p, v)) /\ Len(v.block) <= Size(p)
          /\ v.own => v.agree
          /\ v.agree => Front(v.block) = bc[p]
          /\ v.n_peers >= 2
      BY <1>2 DEF Tallied
    <3>2. ProposerOf(p, w) = ProposerOf(p, v)  BY <2>4 DEF ProposerOf
    <3> QED  BY <2>3, <2>4, <2>7, <3>1, <3>2 DEF Tallied
  <2> QED  BY <1>2, <1>3, <2>4, <2>8
<1>5. CASE \/ \E s \in Seq(Message) : w = [v EXCEPT !.aside = s]
           \/ w = [v EXCEPT !.status = "timed out"]
  <2>1. /\ w.block = v.block /\ w.own = v.own /\ w.agree = v.agree
        /\ w.n_peers = v.n_peers /\ w.seen = v.seen /\ w.n_agrees = v.n_agrees
        /\ w.status \in {v.status, "timed out"}
    BY <1>3, <1>5 DEF Voting
  <2>2. w \in Tallied(p)  BY <1>2, <2>1, TalliedKept
  <2> QED  BY <1>2, <1>3, <2>1, <2>2
<1> QED  BY <1>4, <1>5 DEF Tallies

LEMMA PairTallies ==
    ASSUME PairInv, HistoryInv', TransactionInv', Quiet',
           NEW p \in Proposers, OthersKeep(p), NEW w \in Voting, Tallies(p, w)
    PROVE  PairInv'
<1>1. w \in Tallied(p) /\ Tail(votes[p]) \in Seq(Tallied(p))  BY TallyKept
<1>2. votes' = [votes EXCEPT ![p] = <<w>> \o Tail(@)]  BY DEF Tallies, SetVoting
<1>3. <<w>> \o Tail(votes[p]) \in Seq(Tallied(p))
  BY <1>1, SingletonSeq, ConcatProperties
<1>4. p \in Peers /\ votes \in [Peers -> Seq(Voting)] /\ ProposerAt(p)
  BY PairTypes
<1>5. votes'[p] \in Seq(Tallied(p))  BY <1>2, <1>3, <1>4
<1>6. candidates'[p] \in Seq(Elected(p))
  BY <1>4 DEF Tallies, ProposerAt, VotePart
<1> QED  BY <1>4, <1>5, <1>6, PairSilent DEF Tallies

\* What the end of an activation says of the vote of the other proposer: p alone
\* decides nothing, and the silent peers do not vote.
LEMMA Outcome ==
    ASSUME PairInv, NEW p \in Proposers, NEW v \in Tallied(p),
           v \in Counted(p, Size(p))
    PROVE  /\ Accepted(v) => /\ v.agree /\ v.status = "waiting"
                             /\ v.block \in Voted(Other(p), TRUE)
                             /\ Len(v.block) = Size(p)
           /\ v.status = "waiting" /\ Decided(v) =>
                 /\ Len(v.block) = Size(p)
                 /\ v.agree /\ ~Accepted(v) => v.block \in Voted(Other(p), FALSE)
<1>1. /\ v.n_peers \in Nat /\ v.n_agrees \in Nat /\ v.n_disagrees \in Nat
      /\ v.n_agrees + v.n_disagrees = Cardinality(v.seen) + 1
      /\ v.n_peers >= 2 /\ v.agree \in BOOLEAN
  BY PairTypes, CountedFields DEF Tallied, Voting
<1>2. v.n_peers \div 2 >= 1  BY <1>1
<1>3. CASE v.seen = {} /\ v.n_agrees = InFavour(v.agree)
  <2>1. /\ Cardinality(v.seen) = 0
        /\ v.n_agrees <= 1 /\ v.n_disagrees <= 1
    BY <1>1, <1>3, FS_EmptySet DEF InFavour
  <2>2. ~MoreThanHalfAgree(v) /\ ~AllVoted(v) /\ ~(v.n_disagrees > v.n_peers \div 2)
    BY <1>1, <1>2, <2>1 DEF MoreThanHalfAgree, AllVoted
  <2> QED  BY <2>2 DEF Accepted, Decided
<1>4. CASE /\ v.seen = {Other(p)} /\ Len(v.block) = Size(p)
           /\ \E g \in BOOLEAN : /\ v.block \in Voted(Other(p), g)
                                 /\ v.n_agrees = InFavour(v.agree) + InFavour(g)
  <2>1. PICK g \in BOOLEAN : /\ v.block \in Voted(Other(p), g)
                             /\ v.n_agrees = InFavour(v.agree) + InFavour(g)
    BY <1>4
  <2>2. Cardinality(v.seen) = 1  BY <1>4, FS_Singleton
  <2>3. /\ v.n_agrees + v.n_disagrees = 2
        /\ AllVoted(v) <=> v.n_peers = 2
    BY <1>1, <2>2 DEF AllVoted
  <2>4. Accepted(v) <=> v.status = "waiting" /\ v.agree /\ g
                        /\ (v.n_peers = 2 \/ 2 > v.n_peers \div 2)
    BY <1>1, <1>2, <2>1, <2>2, <2>3 DEF Accepted, MoreThanHalfAgree, InFavour
  <2>5. v.status = "waiting" /\ Decided(v) =>
           v.n_peers = 2 \/ 2 > v.n_peers \div 2
    BY <1>1, <1>2, <2>1, <2>3 DEF Decided, MoreThanHalfAgree, InFavour
  <2>6. g = TRUE \/ g = FALSE  OBVIOUS
  <2> QED  BY <1>4, <2>1, <2>4, <2>5, <2>6
<1> QED  BY <1>3, <1>4 DEF Tallied

LEMMA ReturnKept ==
    ASSUME PairInv, NEW p \in Proposers, Returns(p)
    PROVE  /\ Innermost(p) \in Tallied(p) /\ Innermost(p) \in Counted(p, Size(p))
           /\ Innermost(p).block \in Block
           /\ votes'[p] \in Seq(Tallied(p)) /\ candidates'[p] \in Seq(Elected(p))
<1> DEFINE v == Innermost(p)
           outer == Tail(votes[p])
           c == [block |-> v.block, own |-> v.own]
<1>1. /\ votes[p] \in Seq(Tallied(p)) /\ votes[p] \in Seq(Counted(p, Size(p)))
      /\ candidates[p] \in Seq(Elected(p)) /\ p \in Peers
      /\ votes \in [Peers -> Seq(Voting)]
      /\ candidates \in [Peers -> Seq(Candidate)]
  BY PairTypes DEF ProposerAt, VotePart, PeerInv, VotingInv
<1>2. v \in Tallied(p) /\ v \in Counted(p, Size(p)) /\ outer \in Seq(Tallied(p))
  BY <1>1, HeadTailProperties DEF Returns, Innermost
<1>3. v \in Voting /\ v.block \in Block /\ v.own \in BOOLEAN
  BY <1>2 DEF Tallied, Voting
<1>4. votes'[p] \in Seq(Tallied(p))
  <2>1. CASE outer # <<>> /\ v.agree
    <3> DEFINE w == [Head(outer) EXCEPT !.status = "abandoned"]
    <3>1. Head(outer) \in Tallied(p) /\ Tail(outer) \in Seq(Tallied(p))
      BY <1>2, <2>1, HeadTailProperties
    <3>2. Head(outer) \in Voting  BY <3>1 DEF Tallied
    <3>3. /\ w \in Voting /\ w.block = Head(outer).block /\ w.own = Head(outer).own
          /\ w.agree = Head(outer).agree /\ w.n_peers = Head(outer).n_peers
          /\ w.seen = Head(outer).seen /\ w.n_agrees = Head(outer).n_agrees
      BY <3>2 DEF Voting
    <3>4. votes' = [votes EXCEPT ![p] = <<w>> \o Tail(outer)]
      BY <2>1 DEF Returns
    <3> HIDE DEF w, outer
    <3>5. w \in Tallied(p)  BY <3>1, <3>3, TalliedKept
    <3>6. <<w>> \o Tail(outer) \in Seq(Tallied(p))
      BY <3>1, <3>5, SingletonSeq, ConcatProperties
    <3> QED  BY <1>1, <3>4, <3>6
  <2>2. CASE ~(outer # <<>> /\ v.agree)
    BY <1>1, <1>2, <2>2 DEF Returns
  <2> QED  BY <2>1, <2>2
<1>5. candidates'[p] \in Seq(Elected(p))
  <2>1. CASE Accepted(v)
    <3>1. v.agree /\ v.block \in Voted(Other(p), TRUE)
      BY <1>2, <2>1, Outcome
    <3>2. Front(v.block) = bc[p] /\ v.block \in Proposed(ProposerOf(p, v))
      BY <1>2, <3>1 DEF Tallied
    <3>3. c \in Candidate /\ c.block = v.block /\ c.own = v.own
      BY <1>3 DEF Candidate
    <3>4. candidates' = [candidates EXCEPT ![p] = Append(@, c)]
      BY <2>1 DEF Returns
    <3> HIDE DEF c, v
    <3>5. c \in Elected(p)  BY <3>1, <3>2, <3>3 DEF Elected, ProposerOf
    <3>6. Append(candidates[p], c) \in Seq(Elected(p))
      BY <1>1, <3>5, AppendProperties
    <3> QED  BY <1>1, <3>4, <3>6
  <2>2. CASE ~Accepted(v)  BY <1>1, <2>2 DEF Returns
  <2> QED  BY <2>1, <2>2
<1> QED  BY <1>2, <1>3, <1>4, <1>5

LEMMA PairReturns ==
    ASSUME PairInv, HistoryInv', TransactionInv', Quiet',
           NEW p \in Proposers, OthersKeep(p), Returns(p)
    PROVE  PairInv'
<1> DEFINE v == Innermost(p)
           b == v.block
           a == Accepted(v)
           i == Len(b)
           M == Broadcast(p, "VOTE", i, b, a)
<1>1. /\ v \in Tallied(p) /\ v \in Counted(p, Size(p)) /\ b \in Block
      /\ votes'[p] \in Seq(Tallied(p)) /\ candidates'[p] \in Seq(Elected(p))
  BY ReturnKept
<1>2. /\ UNCHANGED <<bc, transactions, round>>
      /\ Sends(IF v.own THEN M ELSE {})
  BY DEF Returns
<1>3. p \in Peers /\ ProposerAt(p)  BY PairTypes
<1>4. CASE ~v.own
  <2>1. sent' = sent  BY <1>2, <1>4 DEF Sends
  <2> QED  BY <1>1, <1>2, <1>3, <2>1, PairSilent
<1>5. CASE v.own
  <2>1. b \in Proposed(p) /\ b \in AnyProposed
    BY <1>1, <1>5, ProposerFacts DEF Tallied, ProposerOf, AnyProposed, Proposers
  <2>2. a \in BOOLEAN /\ (a => Len(b) = Size(p))
    BY <1>1, Outcome DEF Accepted
  <2>3. M = Broadcast(p, "VOTE", i, b, a) /\ Sends(M) /\ i = Len(b)
    BY <1>2, <1>5
  <2> HIDE DEF M, i, a, b
  <2>4. /\ Grows(p, M) /\ M \subseteq Posted'
        /\ \A n \in M : n.type = "VOTE"
    BY <1>1, <1>2, <2>1, <2>2, <2>3, VoteGrows
  <2>5. /\ ChainPart(p)' /\ ProposalPart(p)'
        /\ Seq(Tallied(p)) \subseteq Seq(Tallied(p)')
        /\ Seq(Elected(p)) \subseteq Seq(Elected(p)')
    BY <1>2, <2>4, ActorKept
  <2>6. VotePart(p)'  BY <1>1, <2>5 DEF VotePart
  <2>7. RoundPart(p)'  BY <1>2, <1>3 DEF ProposerAt, RoundPart
  <2>8. ProposerAt(p)'  BY <2>5, <2>6, <2>7 DEF ProposerAt
  <2> QED  BY <2>4, <2>8, PairAt
<1> QED  BY <1>4, <1>5

\* The end of HandleAllBlockAdditionRequests: without candidates nothing
\* changes, and otherwise the chain becomes the best candidate.
LEMMA FinishEffect ==
    ASSUME PairInv, NEW p \in Proposers, Finishes(p)
    PROVE  /\ votes[p] = <<>> /\ votes'[p] = <<>> /\ candidates'[p] = <<>>
           /\ \/ candidates[p] = <<>> /\ UNCHANGED <<bc, transactions>>
              \/ \E i \in DOMAIN candidates[p] :
                   /\ Best(candidates[p], i)
                   /\ candidates[p][i] \in Elected(p)
                   /\ candidates[p][i].block \in Block
                   /\ bc'[p] = candidates[p][i].block
<1> DEFINE c == candidates[p]
<1>1. /\ c \in Seq(Elected(p)) /\ p \in Peers /\ bc \in [Peers -> Chain]
      /\ candidates \in [Peers -> Seq(Candidate)]
  BY PairTypes DEF ProposerAt, VotePart
<1>2. /\ votes[p] = <<>> /\ votes' = votes
      /\ candidates' = [candidates EXCEPT ![p] = <<>>]
      /\ \/ c = <<>> /\ UNCHANGED bc
         \/ \E i \in DOMAIN c : Best(c, i) /\ AddBlock(p, Last(c[i].block))
      /\ transactions' = [transactions EXCEPT ![p] =
                            IF OwnAdded(c) THEN RemoveAt(@, 1) ELSE @]
  BY DEF Finishes, HandleAllFinish
<1>3. CASE c = <<>> /\ UNCHANGED bc
  <2>1. ~OwnAdded(c)  BY <1>3 DEF OwnAdded
  <2>2. transactions \in [Peers -> Chain]  BY PairTypes
  <2> QED  BY <1>1, <1>2, <1>3, <2>1, <2>2
<1>4. CASE \E i \in DOMAIN c : Best(c, i) /\ AddBlock(p, Last(c[i].block))
  <2>1. PICK i \in DOMAIN c : Best(c, i) /\ AddBlock(p, Last(c[i].block))
    BY <1>4
  <2>2. c[i] \in Elected(p)  BY <1>1, ElementOfSeq, LenProperties
  <2>3. c[i].block \in Block /\ Front(c[i].block) = bc[p]
    BY <2>2 DEF Elected, Candidate
  <2>4. bc'[p] = c[i].block  BY <1>1, <2>1, <2>3, FrontOfBlock DEF AddBlock
  <2> QED  BY <1>1, <1>2, <2>1, <2>2, <2>3, <2>4
<1> QED  BY <1>2, <1>3, <1>4

LEMMA PairFinishes ==
    ASSUME PairInv, HistoryInv', TransactionInv', Quiet',
           NEW p \in Proposers, OthersKeep(p), Finishes(p)
    PROVE  PairInv'
<1>1. /\ TypeOK /\ bc[p] \in Chain /\ p \in Peers /\ ProposerAt(p)
      /\ Len(bc[p]) \in Nat /\ sent \subseteq Message /\ ProposerAt(Other(p))
      /\ Other(p) \in Proposers
  BY PairTypes
<1>2. sent' = sent /\ round' = round /\ pc[p] = "Finish"
  BY DEF Finishes, HandleAllFinish
<1>3. votes'[p] = <<>> /\ candidates'[p] = <<>>  BY FinishEffect
<1>4. CASE UNCHANGED <<bc, transactions>>
  BY <1>1, <1>2, <1>3, <1>4, EmptySeq, PairSilent
<1>5. CASE \E i \in DOMAIN candidates[p] :
             /\ candidates[p][i] \in Elected(p)
             /\ candidates[p][i].block \in Block
             /\ bc'[p] = candidates[p][i].block
  <2>1. PICK c \in Elected(p) : c.block \in Block /\ bc'[p] = c.block
    BY <1>5
  <2> DEFINE b == c.block
  <2>2. /\ Front(b) = bc[p] /\ b \in Proposed(ProposerOf(p, c))
    BY <2>1 DEF Elected
  <2>3. /\ bc'[p] \in Chain /\ bc[p] \in Beginnings(bc'[p])
        /\ Len(bc'[p]) = Len(bc[p]) + 1
    BY <2>1, <2>2, FrontOfBlock, FrontLength DEF Block
  <2>4. Sends({}) /\ Grows(p, {})  BY <1>2, <2>3 DEF Grows, Sends
  <2>5. Proposed(p)' = Proposed(p) /\ AnyProposed' = AnyProposed
    BY <1>2 DEF Proposed, AnyProposed
  <2>6. b \in AnyProposed
    BY <2>2, ProposerFacts DEF ProposerOf, AnyProposed, Proposers
  <2>7. Beginnings(bc[p]) \subseteq Beginnings(bc'[p])  BY <2>3, BeginningsGrow
  <2>8. ChainPart(p)'
    <3>1. ASSUME NEW x \in Beginnings(bc'[p]) PROVE x \in Beginnings(bc[p]) \/ x = b
      <4>1. /\ x \in Chain /\ Len(x) \in Nat /\ Len(x) <= Len(bc'[p])
        BY <2>3, BeginningFields
      <4>2. CASE Len(x) <= Len(bc[p])
        BY <2>3, <4>2, PartOfBeginning
      <4>3. CASE ~(Len(x) <= Len(bc[p]))
        <5>1. Len(x) = Len(b)  BY <1>1, <2>1, <2>3, <4>1, <4>3
        <5> QED  BY <2>1, <2>3, <5>1, SameBeginning, WholeIsBeginning
      <4> QED  BY <4>2, <4>3
    <3> QED
      BY <1>1, <2>5, <2>6, <2>7, <3>1 DEF ProposerAt, ChainPart
  <2>9. ProposalPart(p)'
    <3> SUFFICES ASSUME NEW x \in Proposed(p)
                 PROVE  /\ Front(x) \in Beginnings(bc'[p])
                        /\ Len(x) > Len(InitialChain(p))
                        /\ Len(x) <= Size(p)' /\ Len(x) # Size(p)'
                        /\ \A y \in Proposed(p) : Len(y) = Len(x) => y = x
      BY <2>5 DEF ProposalPart
    <3>1. /\ Front(x) \in Beginnings(bc[p]) /\ Len(x) <= Len(bc[p]) + 1
          /\ Len(x) > Len(InitialChain(p))
          /\ \A y \in Proposed(p) : Len(y) = Len(x) => y = x
      BY <1>1 DEF ProposerAt, ProposalPart, Size
    <3>2. Len(x) \in Nat  BY <1>1, ProposedBlock, LastOfBlock
    <3> QED  BY <1>1, <2>3, <2>7, <3>1, <3>2 DEF Size
  <2>10. VotePart(p)'  BY <1>3, EmptySeq DEF VotePart
  <2>11. RoundPart(p)'
    <3>1. round'[p] = NoRound  BY <1>1, <1>2 DEF PairInv, Quiet
    <3> QED  BY <3>1 DEF RoundPart, NoRound
  <2>12. ProposerAt(p)'  BY <2>8, <2>9, <2>10, <2>11 DEF ProposerAt
  <2> QED  BY <2>4, <2>12, PairAt
<1> QED  BY <1>4, <1>5, FinishEffect

LEMMA PairActs ==
    ASSUME PairInv, HistoryInv', TransactionInv', Quiet',
           NEW p \in Peers, Effect(p)
    PROVE  PairInv'
<1>1. OthersKeep(p)  BY DEF Effect
<1>2. CASE p \in Proposers /\ Other(p) \in Others(p) /\ Acts(p)
  <2>1. CASE Chats(p)  BY <1>1, <1>2, <2>1, PairChats
  <2>2. CASE Syncs(p)  BY <1>1, <1>2, <2>2, PairSyncs
  <2>3. CASE Proposes(p)  BY <1>1, <1>2, <2>3, PairProposes
  <2>4. CASE Returns(p)  BY <1>1, <1>2, <2>4, PairReturns
  <2>5. CASE Finishes(p)  BY <1>1, <1>2, <2>5, PairFinishes
  <2>6. CASE \E m \in Requests(p) : Handles(p, m) \/ Refuses(p, m)
    BY <1>1, <1>2, <2>6, PairHandles
  <2>7. CASE \E w \in Voting : Tallies(p, w)
    BY <1>1, <1>2, <2>7, PairTallies
  <2> QED  BY <1>2, <2>1, <2>2, <2>3, <2>4, <2>5, <2>6, <2>7 DEF Acts
<1>3. CASE UNCHANGED <<bc, transactions, round, votes, candidates, sent>>
  <2>1. p \in Proposers => /\ votes[p] \in Seq(Tallied(p))
                           /\ candidates[p] \in Seq(Elected(p))
    BY DEF PairInv, ProposerAt, VotePart
  <2> QED  BY <1>1, <1>3, <2>1, PairSilent
<1> QED  BY <1>2, <1>3 DEF Effect

LEMMA PairStep == PairInv /\ [HistoryNext]_<<vars, history>> => PairInv'
<1> SUFFICES ASSUME PairInv, [HistoryNext]_<<vars, history>> PROVE PairInv'
  OBVIOUS
<1>1. HistoryInv /\ TransactionInv /\ Quiet  BY DEF PairInv
<1>2. [Next]_vars  BY DEF HistoryNext
<1>3. HistoryInv' /\ TransactionInv' /\ Quiet'
  BY <1>1, <1>2, HistoryStep, TransactionStep, QuietStep
<1>4. CASE HistoryNext
  BY <1>1, <1>3, <1>4, NextEffect, PairActs
<1>5. CASE UNCHANGED <<vars, history>>
  <2>1. UNCHANGED <<bc, transactions, round, votes, candidates, sent>>
    BY <1>5 DEF vars, mainVars, history
  <2>2. Effect(First)  BY <2>1 DEF Effect, OthersKeep
  <2> QED  BY <1>3, <2>2, PairActs, ProposerFacts
<1> QED  BY <1>4, <1>5

LEMMA PairInit == HistoryInit => PairInv
<1> SUFFICES ASSUME HistoryInit PROVE PairInv  OBVIOUS
<1>1. HistoryInv /\ TransactionInv
  BY HistoryInitially, SafeInit, OwnInit DEF HistoryInit, TransactionInv
<1>2. /\ sent = {}
      /\ \A p \in Peers : /\ bc[p] = InitialChain(p) /\ round[p] = NoRound
                          /\ votes[p] = <<>> /\ candidates[p] = <<>>
  BY DEF HistoryInit, Init
<1>3. Quiet /\ SilentPart /\ sent \subseteq Posted
  BY <1>2 DEF Quiet, SilentPart
<1>4. ASSUME NEW p \in Proposers PROVE ProposerAt(p)
  <2>1. p \in Peers /\ InitialChain(p) \in Chain  BY ProposerFacts, InitialChainType
  <2>2. ChainPart(p)
    <3>1. InitialChain(p) \in Beginnings(bc[p])  BY <1>2, <2>1, WholeIsBeginning
    <3>2. \A b \in Beginnings(bc[p]) : ~(Len(b) > Len(InitialChain(p)))
      BY <1>2, <2>1, BeginningFields
    <3> QED  BY <3>1, <3>2 DEF ChainPart
  <2>3. ProposalPart(p)  BY <1>2 DEF ProposalPart, Proposed
  <2>4. VotePart(p)  BY <1>2, <2>1, EmptySeq DEF VotePart
  <2>5. RoundPart(p)  BY <1>2, <2>1 DEF RoundPart, NoRound
  <2> QED  BY <2>2, <2>3, <2>4, <2>5 DEF ProposerAt
<1> QED  BY <1>1, <1>3, <1>4 DEF PairInv

----------------------------------------------------------------------------
(* Why the chains do not fork: the invariant of the runs in which no vote is *)
(* given up                                                                *)

HashOrder == \A a, b \in Block : /\ HashLeq(a, b) \/ HashLeq(b, a)
                                 /\ HashLeq(a, b) /\ HashLeq(b, a) => a = b

\* The proposals of q that beat any proposal of the other for their length.
Leading(q) == {y \in Proposed(q) : \A x \in Proposed(Other(q)) :
                                      Len(x) = Len(y) => ~HashLeq(x, y)}

Holds(p, y) == y \in Beginnings(bc[p])
Backs(p, y) == \/ Holds(p, y)
               \/ \E i \in DOMAIN candidates[p] : candidates[p][i].block = y
Waits(p) == votes[p] # <<>> /\ Innermost(p).status = "waiting"
Supports(p, y) == \/ Backs(p, y)
                  \/ /\ Waits(p) /\ Innermost(p).block = y
                     /\ Innermost(p).agree /\ ~Innermost(p).own

\* p is in an outdated vote and has preferred its block to y.
Refusing(p, y) == /\ Len(y) = Size(p) /\ Waits(p)
                  /\ Len(Innermost(p).block) < Size(p)
                  /\ ~HashLeq(y, Innermost(p).block)

\* Once the other has agreed to a leading block, or its proposer has added it,
\* the other adds it too.
Supported(q) == \A y \in Leading(q) :
    y \in Voted(Other(q), TRUE) \/ Holds(q, y) => Supports(Other(q), y)

\* A leading block that its proposer has announced, or the other has added,
\* is added by its proposer.
Confirmed(q) == \A y \in Leading(q) :
    \/ y \in Voted(q, TRUE)
    \/ Holds(Other(q), y) /\ Len(y) > Len(InitialChain(Other(q)))
    => Backs(q, y)

\* Votes against a leading block come too late, or too early, to matter.
Rejected(q) == \A y \in Leading(q) :
    y \in Voted(Other(q), FALSE) \cup Voted(q, FALSE) =>
        Len(y) <= Len(bc[Other(q)]) \/ Refusing(Other(q), y)

\* No other vote starts within that on a leading block of the peer's own.
Undisturbed(q) == \A i \in DOMAIN votes[q] :
    votes[q][i].own /\ votes[q][i].block \in Leading(q) =>
        Len(votes[q]) = 1 /\ votes[q][i].status = "waiting"

Settled(q) == Supported(q) /\ Confirmed(q) /\ Rejected(q) /\ Undisturbed(q)

Comparable(p) == \/ bc[p] \in Beginnings(bc[Other(p)])
                 \/ bc[Other(p)] \in Beginnings(bc[p])

Aligned == \A p \in Proposers : Settled(p) /\ Comparable(p)

ForkInv == PairInv /\ (~expired => Aligned)

LEMMA LeadingFields ==
    ASSUME PairInv, HashOrder, NEW q \in Proposers, NEW y \in Leading(q)
    PROVE  /\ y \in Block /\ y \in Proposed(q) /\ Len(y) \in Nat
           /\ y \notin Proposed(Other(q))
           /\ \A x \in Proposed(q) : Len(x) = Len(y) => x = y
<1>1. y \in Block /\ y \in Proposed(q) /\ q \in Peers /\ ProposalPart(q)
  BY PairTypes, ProposedBlock DEF Leading, ProposerAt
<1>2. HashLeq(y, y)  BY <1>1 DEF HashOrder
<1> QED  BY <1>1, <1>2, LastOfBlock DEF Leading, ProposalPart

LEMMA LeadingKept ==
    ASSUME PairInv, NEW p \in Proposers, NEW M, Grows(p, M),
           \A m \in M : m.type # "ADDREQUEST"
    PROVE  \A r \in Proposers : Leading(r)' = Leading(r)
<1>1. Proposed(p)' = Proposed(p) /\ Proposed(Other(p))' = Proposed(Other(p))
  BY GrowsProposed
<1>2. \A r \in Proposers : {r, Other(r)} = {p, Other(p)}  BY ProposerFacts
<1>3. \A r \in Proposers : /\ Proposed(r)' = Proposed(r)
                           /\ Proposed(Other(r))' = Proposed(Other(r))
  BY <1>1, <1>2
<1> QED  BY <1>3 DEF Leading

\* The votes of the proposers after a step of p.
LEMMA VotedNow ==
    ASSUME PairInv, NEW p \in Proposers, NEW M, Grows(p, M)
    PROVE  /\ Voted(Other(p), TRUE)' = Voted(Other(p), TRUE)
           /\ Voted(Other(p), FALSE)' = Voted(Other(p), FALSE)
           /\ (\A m \in M : m.type # "VOTE") =>
                 /\ Voted(p, TRUE)' = Voted(p, TRUE)
                 /\ Voted(p, FALSE)' = Voted(p, FALSE)
<1>1. Other(p) # p  BY ProposerFacts
<1>2. sent' = sent \cup M /\ \A m \in M : m.from = p  BY DEF Grows, Sends
<1> QED  BY <1>1, <1>2 DEF Voted

\* What a step of p leaves as it is.
LEMMA OtherSettled ==
    ASSUME PairInv, NEW p \in Proposers, NEW M, Grows(p, M),
           Settled(p), Settled(Other(p)), Comparable(p),
           Leading(Other(p))' \subseteq Leading(Other(p)),
           bc'[p] = bc[p]
    PROVE  /\ Confirmed(Other(p))' /\ Undisturbed(Other(p))' /\ Comparable(p)'
           /\ Leading(p)' \subseteq Leading(p) => Supported(p)'
<1> DEFINE q == Other(p)
<1>1. /\ q \in Proposers /\ q \in Peers /\ q # p /\ Other(q) = p /\ p \in Peers
  BY ProposerFacts
<1>2. /\ bc'[q] = bc[q] /\ votes'[q] = votes[q] /\ candidates'[q] = candidates[q]
  BY <1>1 DEF Grows, OthersKeep
<1>3. Voted(q, TRUE)' = Voted(q, TRUE) /\ Voted(q, FALSE)' = Voted(q, FALSE)
  BY VotedNow
<1>4. Settled(q) /\ Other(p) = q  OBVIOUS
<1>5. Leading(q)' \subseteq Leading(q)  OBVIOUS
<1> HIDE DEF q
<1>6. Confirmed(q)'
  <2> SUFFICES ASSUME NEW y \in Leading(q),
                      \/ y \in Voted(q, TRUE)
                      \/ Holds(p, y)' /\ Len(y) > Len(InitialChain(p))
               PROVE  Backs(q, y)'
    BY <1>1, <1>3, <1>5 DEF Confirmed
  <2>1. Holds(p, y)' <=> Holds(p, y)  BY DEF Holds
  <2>2. Backs(q, y)  BY <1>1, <1>4, <2>1 DEF Settled, Confirmed
  <2> QED  BY <1>2, <2>2 DEF Backs, Holds
<1>7. Undisturbed(q)'
  BY <1>2, <1>4, <1>5 DEF Settled, Undisturbed
<1>8. Comparable(p)'  BY <1>2, <1>4 DEF Comparable
<1>9. Leading(p)' \subseteq Leading(p) => Supported(p)'
  <2> SUFFICES ASSUME NEW y \in Leading(p),
                      y \in Voted(q, TRUE) \/ Holds(p, y)'
               PROVE  Supports(q, y)'
    BY <1>3, <1>4 DEF Supported
  <2>1. Holds(p, y)' <=> Holds(p, y)  BY DEF Holds
  <2>2. Supports(q, y)  BY <1>4, <2>1 DEF Settled, Supported
  <2> QED  BY <1>2, <2>2 DEF Supports, Backs, Holds, Waits, Innermost
<1> QED  BY <1>4, <1>6, <1>7, <1>8, <1>9

LEMMA AlignedAt ==
    ASSUME NEW p \in Proposers, Settled(p)', Settled(Other(p))', Comparable(p)'
    PROVE  Aligned'
<1>1. Proposers = {p, Other(p)} /\ Other(Other(p)) = p  BY ProposerFacts
<1>2. Comparable(Other(p))'  BY <1>1 DEF Comparable
<1> QED  BY <1>1, <1>2 DEF Aligned

\* A step that concerns neither the chain nor the votes.
LEMMA AlignedChats ==
    ASSUME PairInv, Aligned, NEW p \in Proposers, OthersKeep(p), Chats(p)
    PROVE  Aligned'
<1> DEFINE q == Other(p)
<1>1. PICK M \in SUBSET Answers(p) : Sends(M)  BY DEF Chats
<1>2. UNCHANGED <<bc, votes, candidates>>  BY DEF Chats
<1>3. bc[p] \in Chain /\ q \in Proposers /\ Other(q) = p  BY PairTypes
<1>4. \A m \in M : m \in Message /\ m.from = p /\ m.type = "BLOCK"
  BY DEF Answers
<1>5. Grows(p, M)  BY <1>1, <1>2, <1>3, <1>4, WholeIsBeginning DEF Grows
<1>6. \A r \in Proposers : Leading(r)' = Leading(r)
  BY <1>4, <1>5, LeadingKept
<1>7. \A r \in {p, q} : /\ Voted(r, TRUE)' = Voted(r, TRUE)
                        /\ Voted(r, FALSE)' = Voted(r, FALSE)
  BY <1>4, <1>5, VotedNow
<1>8. Settled(p) /\ Settled(q) /\ Comparable(p)  BY <1>3 DEF Aligned
<1> HIDE DEF q
<1>9. ASSUME NEW r \in {p, q} PROVE Settled(r)'
  <2>1. r \in Proposers /\ Other(r) \in {p, q} /\ Settled(r)
    BY <1>3, <1>8 DEF q
  <2> QED
    BY <1>2, <1>6, <1>7, <2>1
    DEF Settled, Supported, Confirmed, Rejected, Undisturbed, Supports, Backs,
        Holds, Refusing, Waits, Innermost, Size
<1> QED  BY <1>2, <1>8, <1>9, AlignedAt DEF Comparable, q

\* A step of p that adds no block and proposes none.
LEMMA AlignedVotes ==
    ASSUME PairInv, Aligned, NEW p \in Proposers, NEW q, q = Other(p),
           NEW M, Grows(p, M), \A m \in M : m.type # "ADDREQUEST",
           bc'[p] = bc[p],
           \A y \in Leading(q) :
               y \in Voted(p, TRUE)' \/ Holds(q, y) => Supports(p, y)',
           \A y \in Leading(q) :
               y \in Voted(p, FALSE)' \cup Voted(q, FALSE) =>
                   Len(y) <= Len(bc[p]) \/ Refusing(p, y)',
           \A y : Backs(p, y) => Backs(p, y)',
           \A y \in Leading(p) :
               y \in Voted(p, TRUE)' => y \in Voted(p, TRUE) \/ Backs(p, y)',
           \A y \in Leading(p) :
               y \in Voted(p, FALSE)' => y \in Voted(p, FALSE) \cup Voted(q, FALSE),
           \A i \in DOMAIN votes'[p] :
               votes'[p][i].own /\ votes'[p][i].block \in Leading(p) =>
                   Len(votes'[p]) = 1 /\ votes'[p][i].status = "waiting"
    PROVE  Aligned'
<1>1. /\ q \in Proposers /\ q \in Peers /\ q # p /\ Other(q) = p /\ p \in Peers
  BY ProposerFacts
<1>2. Settled(p) /\ Settled(q) /\ Comparable(p)  BY <1>1 DEF Aligned
<1>3. Leading(p)' = Leading(p) /\ Leading(q)' = Leading(q)
  BY <1>1, LeadingKept
<1>4. Voted(q, TRUE)' = Voted(q, TRUE) /\ Voted(q, FALSE)' = Voted(q, FALSE)
  BY VotedNow
<1>5. /\ bc'[q] = bc[q] /\ votes'[q] = votes[q] /\ candidates'[q] = candidates[q]
  BY <1>1 DEF Grows, OthersKeep
<1>6. Confirmed(q)' /\ Undisturbed(q)' /\ Comparable(p)' /\ Supported(p)'
  BY <1>1, <1>2, <1>3, OtherSettled
<1>7. \A y : Holds(q, y)' <=> Holds(q, y)  BY <1>5 DEF Holds
<1>8. Supported(q)'  BY <1>1, <1>3, <1>7 DEF Supported
<1>9. Rejected(q)'  BY <1>1, <1>3, <1>4 DEF Rejected
<1>10. Confirmed(p)'
  <2> SUFFICES ASSUME NEW y \in Leading(p),
                      \/ y \in Voted(p, TRUE)'
                      \/ Holds(q, y) /\ Len(y) > Len(InitialChain(q))
               PROVE  Backs(p, y)'
    BY <1>1, <1>3, <1>7 DEF Confirmed
  <2> QED  BY <1>2 DEF Settled, Confirmed
<1>11. Rejected(p)'
  <2> SUFFICES ASSUME NEW y \in Leading(p),
                      y \in Voted(q, FALSE) \cup Voted(p, FALSE)'
               PROVE  Len(y) <= Len(bc'[q]) \/ Refusing(q, y)'
    BY <1>1, <1>3, <1>4 DEF Rejected
  <2>1. y \in Voted(q, FALSE) \cup Voted(p, FALSE)  OBVIOUS
  <2>2. Len(y) <= Len(bc[q]) \/ Refusing(q, y)
    BY <1>2, <2>1 DEF Settled, Rejected
  <2> QED  BY <1>5, <2>2 DEF Refusing, Waits, Innermost, Size
<1>12. Undisturbed(p)'  BY <1>3 DEF Undisturbed
<1> QED  BY <1>6, <1>8, <1>9, <1>10, <1>11, <1>12, AlignedAt DEF Settled

LEMMA AlignedTallies ==
    ASSUME PairInv, Aligned, NEW p \in Proposers, OthersKeep(p),
           NEW w \in Voting, Tallies(p, w), ~TimesOut(p)
    PROVE  Aligned'
<1> DEFINE q == Other(p)
           v == Innermost(p)
<1>1. /\ q \in Proposers /\ Other(q) = p /\ p \in Peers /\ bc[p] \in Chain
      /\ votes \in [Peers -> Seq(Voting)]
  BY PairTypes
<1>2. Settled(p) /\ Settled(q)  BY <1>1 DEF Aligned
<1>3. /\ votes[p] # <<>> /\ votes' = [votes EXCEPT ![p] = <<w>> \o Tail(@)]
      /\ UNCHANGED <<bc, candidates, sent>>
  BY DEF Tallies, Collecting, SetVoting
<1>4. /\ w.block = v.block /\ w.own = v.own /\ w.agree = v.agree
      /\ w.status \in {v.status, "timed out"}
  BY TallyKept
<1>5. votes[p] \in Seq(Voting) /\ Tail(votes[p]) \in Seq(Voting)
      /\ Len(votes[p]) \in Nat \ {0} /\ Len(Tail(votes[p])) = Len(votes[p]) - 1
      /\ \A i \in 1..Len(Tail(votes[p])) : Tail(votes[p])[i] = votes[p][i + 1]
  BY <1>1, <1>3, HeadTailProperties, LenProperties, EmptySeq
<1>6. /\ Len(votes'[p]) = Len(votes[p]) /\ votes'[p] # <<>> /\ Head(votes'[p]) = w
      /\ votes'[p][1] = w
      /\ \A i \in 2..Len(votes[p]) : votes'[p][i] = votes[p][i]
      /\ DOMAIN votes'[p] = 1..Len(votes[p]) /\ DOMAIN votes[p] = 1..Len(votes[p])
  BY <1>1, <1>3, <1>5
<1>7. w.status = v.status /\ v = votes[p][1]
  <2>1. v = votes[p][1]  BY <1>3 DEF Innermost
  <2>2. w.status # "timed out"  BY <1>6 DEF TimesOut
  <2> QED  BY <1>4, <2>1, <2>2
<1>8. Innermost(p)' = w  BY <1>6 DEF Innermost
<1> HIDE DEF q, v
<1>9. \A y : /\ Backs(p, y)' <=> Backs(p, y)
             /\ Holds(q, y)' <=> Holds(q, y)
  BY <1>3 DEF Backs, Holds
<1>10. \A y : Supports(p, y) => Supports(p, y)'
  BY <1>3, <1>4, <1>6, <1>7, <1>8, <1>9 DEF Supports, Waits, v
<1>11. \A y : Refusing(p, y) => Refusing(p, y)'
  BY <1>3, <1>4, <1>6, <1>7, <1>8 DEF Refusing, Waits, Size, v
<1>12. /\ Voted(p, TRUE)' = Voted(p, TRUE) /\ Voted(p, FALSE)' = Voted(p, FALSE)
  BY <1>3 DEF Voted
<1> DEFINE M == {}
<1>13. Grows(p, M) /\ \A m \in M : m.type # "ADDREQUEST"
  BY <1>1, <1>3, WholeIsBeginning DEF Grows, Sends
<1>14. bc'[p] = bc[p] /\ q = Other(p)  BY <1>3 DEF q
<1>15. \A y \in Leading(p) :
    /\ y \in Voted(p, TRUE)' => y \in Voted(p, TRUE) \/ Backs(p, y)'
    /\ y \in Voted(p, FALSE)' => y \in Voted(p, FALSE) \cup Voted(q, FALSE)
  BY <1>12
<1>16. \A y : Backs(p, y) => Backs(p, y)'  BY <1>9
<1> HIDE DEF M
<1>17. \A i \in DOMAIN votes'[p] :
          votes'[p][i].own /\ votes'[p][i].block \in Leading(p) =>
              Len(votes'[p]) = 1 /\ votes'[p][i].status = "waiting"
  <2> SUFFICES ASSUME NEW i \in 1..Len(votes[p]),
                      votes'[p][i].own, votes'[p][i].block \in Leading(p)
               PROVE  Len(votes[p]) = 1 /\ votes'[p][i].status = "waiting"
    BY <1>6
  <2>1. /\ votes[p][i].own = votes'[p][i].own
        /\ votes[p][i].block = votes'[p][i].block
        /\ votes[p][i].status = votes'[p][i].status
    <3>1. CASE i = 1
      <4>1. votes[p][i] = v /\ votes'[p][i] = w  BY <1>6, <1>7, <3>1
      <4> QED  BY <1>4, <1>7, <4>1
    <3>2. CASE i \in 2..Len(votes[p])  BY <1>6, <3>2
    <3>3. i = 1 \/ i \in 2..Len(votes[p])  BY <1>5
    <3> QED  BY <3>1, <3>2, <3>3, Zenon
  <2> QED  BY <1>2, <1>6, <2>1 DEF Settled, Undisturbed
<1>18. \A y \in Leading(q) :
          y \in Voted(p, TRUE)' \/ Holds(q, y) => Supports(p, y)'
  BY <1>1, <1>2, <1>10, <1>12 DEF Settled, Supported
<1>19. \A y \in Leading(q) :
          y \in Voted(p, FALSE)' \cup Voted(q, FALSE) =>
              Len(y) <= Len(bc[p]) \/ Refusing(p, y)'
  BY <1>1, <1>2, <1>11, <1>12 DEF Settled, Rejected
<1> QED
  BY <1>13, <1>17, <1>18, <1>19, <1>14, <1>15, <1>16, AlignedVotes

\* Of two proposals of the same length at most one is leading.
LEMMA LeadingWins ==
    ASSUME PairInv, HashOrder, NEW q \in Proposers, NEW y \in Leading(q),
           NEW x \in Block, Len(x) = Len(y),
           x \in AnyProposed, ~HashLeq(y, x)
    PROVE  FALSE
<1>1. y \in Block /\ \A z \in Proposed(q) : Len(z) = Len(y) => z = y
  BY LeadingFields
<1>2. {First, Second} = {q, Other(q)}  BY ProposerFacts DEF Proposers
<1>3. x \in Proposed(q) \/ x \in Proposed(Other(q))  BY <1>2 DEF AnyProposed
<1>4. HashLeq(x, y)  BY <1>1 DEF HashOrder
<1>5. x # y  BY <1>4
<1> QED  BY <1>1, <1>3, <1>4, <1>5 DEF Leading

\* The chains of the proposers agree on what a proposal of one builds on.
LEMMA FrontAgrees ==
    ASSUME PairInv, Aligned, NEW p \in Proposers,
           NEW y \in Proposed(Other(p)), Len(y) = Size(p)
    PROVE  Front(y) = bc[p]
<1> DEFINE q == Other(p)
<1>1. /\ bc[p] \in Chain /\ bc[q] \in Chain /\ Len(bc[p]) \in Nat
      /\ Size(p) = Len(bc[p]) + 1 /\ Len(bc[q]) \in Nat
      /\ ProposalPart(q) /\ q \in Proposers /\ q \in Peers /\ sent \subseteq Message
  <2>1. q \in Proposers  BY PairTypes
  <2> QED  BY <2>1, PairTypes DEF ProposerAt
<1>2. Comparable(p)  BY DEF Aligned
<1>3. y \in Block  BY <1>1, ProposedBlock
<1>4. /\ Front(y) \in Beginnings(bc[q]) /\ Len(Front(y)) = Len(bc[p])
      /\ Len(Front(y)) <= Len(bc[q])
  <2>1. Front(y) \in Beginnings(bc[q])  BY <1>1 DEF ProposalPart
  <2>2. Len(y) = Len(Front(y)) + 1  BY <1>3, FrontLength
  <2>3. Len(Front(y)) \in Nat /\ Len(Front(y)) <= Len(bc[q])
    BY <1>1, <2>1, BeginningFields
  <2> QED  BY <1>1, <2>1, <2>2, <2>3
<1>5. CASE bc[p] \in Beginnings(bc[q])
  BY <1>1, <1>4, <1>5, SameBeginning
<1>6. CASE bc[q] \in Beginnings(bc[p])
  <2>1. Len(bc[q]) = Len(bc[p])  BY <1>1, <1>4, <1>6, BeginningFields
  <2>2. bc[q] = bc[p]  BY <1>1, <1>6, <2>1, WholeIsBeginning, SameBeginning
  <2> QED  BY <1>1, <1>4, <2>2, WholeIsBeginning, SameBeginning
<1> QED  BY <1>2, <1>5, <1>6 DEF Comparable

LEMMA AlignedRefuses ==
    ASSUME PairInv, Aligned, HashOrder, NEW p \in Proposers, OthersKeep(p),
           NEW m \in Requests(p), Refuses(p, m)
    PROVE  Aligned'
<1> DEFINE q == Other(p)
           b == m.block
           v == Innermost(p)
           a == FALSE
           M == Broadcast(p, "VOTE", m.index, b, a)
<1>1. /\ q \in Proposers /\ Other(q) = p /\ p \in Peers /\ bc[p] \in Chain
      /\ sent \subseteq Message /\ ProposerAt(p) /\ q \in Peers
  BY PairTypes
<1>2. Settled(p) /\ Settled(q)  BY <1>1 DEF Aligned
<1>3. /\ b \in Proposed(q) /\ b \in Block /\ m.index = Len(b) /\ b \in AnyProposed
  <2>1. m \in sent /\ m \in Mail(p) /\ m.type = "ADDREQUEST"  BY DEF Requests
  <2>2. b \in Proposed(q) /\ b \in Block /\ m.index = Len(b)
    BY <1>1, <2>1, FromOther, MessageFields, MailFields
  <2> QED  BY <1>1, <2>2 DEF AnyProposed, Proposers
<1>4. /\ votes[p] # <<>> /\ v.status = "waiting" /\ Len(b) = Size(p)
      /\ ~HashLeq(b, v.block) /\ UNCHANGED <<bc, votes, candidates>>
  BY <1>3 DEF Refuses, Collecting, Decided
<1>5. v \in Tallied(p)
  <2>1. votes[p] \in Seq(Tallied(p))  BY <1>1 DEF ProposerAt, VotePart
  <2> QED  BY <1>4, <2>1, HeadTailProperties DEF Innermost
<1>6. /\ v.block \in Block /\ v.block \in AnyProposed
      /\ Len(v.block) \in Nat /\ Len(v.block) <= Size(p)
  <2>1. v.block \in Proposed(ProposerOf(p, v)) /\ Len(v.block) <= Size(p)
        /\ v.block \in Block
    BY <1>5 DEF Tallied, Voting
  <2>2. v.block \in AnyProposed
    BY <1>1, <2>1, ProposerFacts DEF AnyProposed, ProposerOf, Proposers
  <2> QED  BY <2>1, <2>2, LastOfBlock
<1>7. b \in Leading(q) => Refusing(p, b)
  <2> SUFFICES ASSUME b \in Leading(q) PROVE Len(v.block) < Size(p)
    BY <1>4 DEF Refusing, Waits
  <2>1. Len(v.block) # Len(b)  BY <1>1, <1>4, <1>6, LeadingWins
  <2> QED  BY <1>1, <1>4, <1>6, <2>1, SizeType
<1>8. b \notin Leading(p)  BY <1>1, <1>3, LeadingFields
<1>9. /\ M = Broadcast(p, "VOTE", m.index, b, a) /\ Sends(M) /\ a = FALSE
      /\ a \in BOOLEAN
  BY DEF Refuses
<1>10. bc'[p] = bc[p]  BY <1>4
<1> HIDE DEF q, b, v, a, M
<1>11. /\ Grows(p, M) /\ \A n \in M : n.type = "VOTE" /\ n.block = b /\ n.agree = a
  BY <1>3, <1>9, <1>10, VoteGrows
<1>12. sent' = sent \cup M  BY <1>9 DEF Sends
<1>13. /\ Voted(p, TRUE)' = Voted(p, TRUE)
       /\ Voted(p, FALSE)' \subseteq Voted(p, FALSE) \cup {b}
  BY <1>9, <1>11, <1>12 DEF Voted
<1>14. /\ votes'[p] = votes[p] /\ \A y : Backs(p, y)' <=> Backs(p, y)
       /\ \A y : Supports(p, y)' <=> Supports(p, y)
       /\ \A y : Refusing(p, y)' <=> Refusing(p, y)
  BY <1>4 DEF Backs, Holds, Supports, Refusing, Waits, Innermost, Size
<1>15. \A y \in Leading(q) :
          y \in Voted(p, TRUE)' \/ Holds(q, y) => Supports(p, y)'
  BY <1>1, <1>2, <1>13, <1>14 DEF Settled, Supported
<1>16. \A y \in Leading(q) :
          y \in Voted(p, FALSE)' \cup Voted(q, FALSE) =>
              Len(y) <= Len(bc[p]) \/ Refusing(p, y)'
  BY <1>1, <1>2, <1>7, <1>13, <1>14 DEF Settled, Rejected
<1>17. \A y \in Leading(p) :
    /\ y \in Voted(p, TRUE)' => y \in Voted(p, TRUE) \/ Backs(p, y)'
    /\ y \in Voted(p, FALSE)' => y \in Voted(p, FALSE) \cup Voted(q, FALSE)
  BY <1>8, <1>13
<1>18. \A i \in DOMAIN votes'[p] :
          votes'[p][i].own /\ votes'[p][i].block \in Leading(p) =>
              Len(votes'[p]) = 1 /\ votes'[p][i].status = "waiting"
  BY <1>2, <1>14 DEF Settled, Undisturbed
<1>19. (\A n \in M : n.type # "ADDREQUEST") /\ q = Other(p)  BY <1>11 DEF q
<1>20. \A y : Backs(p, y) => Backs(p, y)'  BY <1>14
<1> QED
  BY <1>10, <1>11, <1>15, <1>16, <1>17, <1>18, <1>19, <1>20, AlignedVotes

LEMMA AlignedHandles ==
    ASSUME PairInv, Aligned, HashOrder, NEW p \in Proposers, OthersKeep(p),
           NEW m \in Requests(p), Handles(p, m)
    PROVE  Aligned'
<1> DEFINE q == Other(p)
           b == m.block
           v == Innermost(p)
           a == Vote(p, m)
           no == FALSE
           w == NewVoting(p, b, no, a)
           M == Broadcast(p, "VOTE", m.index, b, a)
<1>1. /\ q \in Proposers /\ Other(q) = p /\ p \in Peers /\ bc[p] \in Chain
      /\ sent \subseteq Message /\ ProposerAt(p) /\ q \in Peers
      /\ Len(bc[p]) \in Nat /\ Size(p) = Len(bc[p]) + 1
      /\ votes \in [Peers -> Seq(Voting)]
  BY PairTypes
<1>2. Settled(p) /\ Settled(q)  BY <1>1 DEF Aligned
<1>3. /\ b \in Proposed(q) /\ b \in Block /\ m.index = Len(b) /\ b \in AnyProposed
      /\ Len(b) \in Nat /\ q = Other(p)
  <2>1. m \in sent /\ m \in Mail(p) /\ m.type = "ADDREQUEST"  BY DEF Requests
  <2>2. b \in Proposed(q) /\ b \in Block /\ m.index = Len(b)
    BY <1>1, <2>1, FromOther, MessageFields, MailFields
  <2> QED  BY <1>1, <2>2, LastOfBlock DEF AnyProposed, Proposers
<1>4. /\ UNCHANGED <<bc, candidates>> /\ Len(b) <= Size(p)
      /\ votes[p] = <<>> \/ (Len(b) = Size(p) /\ HashLeq(b, v.block))
      /\ votes' = [votes EXCEPT ![p] = <<w>> \o @]
      /\ Sends(M) /\ bc'[p] = bc[p]
  <2>1. /\ UNCHANGED <<bc, candidates>> /\ m.index <= Size(p)
        /\ votes[p] = <<>> \/ (m.index = Size(p) /\ HashLeq(b, v.block))
    BY DEF Handles
  <2>2. votes' = [votes EXCEPT ![p] = <<w>> \o @] /\ Sends(M)  BY DEF Handles
  <2> HIDE DEF b, v, w, M
  <2> QED  BY <1>3, <2>1, <2>2
<1>5. a \in BOOLEAN /\ (a <=> Len(b) = Size(p))
  <2>1. a <=> (Len(b) = Size(p) /\ Front(b) = bc[p])
    BY <1>3 DEF Vote, Continues, TopHash
  <2>2. Len(b) = Size(p) => Front(b) = bc[p]  BY <1>3, FrontAgrees
  <2>3. a \in BOOLEAN  BY DEF Vote, Continues
  <2> QED  BY <2>1, <2>2, <2>3
<1>6. /\ w.block = b /\ w.own = FALSE /\ w.agree = a /\ w.status = "waiting"
      /\ w \in Voting
  <2>1. no \in BOOLEAN /\ TypeOK  BY PairTypes
  <2>2. w = NewVoting(p, b, no, a)  OBVIOUS
  <2> HIDE DEF no, w, a, b
  <2>3. w \in Voting  BY <1>1, <1>3, <1>5, <2>1, <2>2, NewVotingType
  <2> QED  BY <2>2, <2>3 DEF NewVoting, no
<1>7. M = Broadcast(p, "VOTE", m.index, b, a)  OBVIOUS
<1>8. votes[p] # <<>> =>
         /\ v \in Tallied(p) /\ v \in Voting /\ v = votes[p][1]
         /\ Len(b) = Size(p) /\ HashLeq(b, v.block)
  <2> SUFFICES ASSUME votes[p] # <<>> PROVE v \in Tallied(p) /\ v = votes[p][1]
    BY <1>4 DEF Tallied
  <2>1. votes[p] \in Seq(Tallied(p))  BY <1>1 DEF ProposerAt, VotePart
  <2> QED  BY <2>1, HeadTailProperties DEF Innermost
<1>9. votes[p] \in Seq(Voting) /\ votes[p] \in Seq(Tallied(p))
  BY <1>1 DEF ProposerAt, VotePart
<1> HIDE DEF q, b, v, a, w, M
<1>10. /\ Grows(p, M) /\ \A n \in M : n.type = "VOTE" /\ n.block = b /\ n.agree = a
  BY <1>1, <1>3, <1>4, <1>5, <1>7, VoteGrows
<1>11. sent' = sent \cup M  BY <1>4 DEF Sends
<1>12. /\ Voted(p, TRUE)' \subseteq Voted(p, TRUE) \cup (IF a THEN {b} ELSE {})
       /\ Voted(p, FALSE)' \subseteq Voted(p, FALSE) \cup (IF a THEN {} ELSE {b})
  BY <1>5, <1>10, <1>11 DEF Voted
<1>13. /\ votes'[p] = <<w>> \o votes[p] /\ <<w>> \in Seq(Voting)
       /\ Len(<<w>>) = 1 /\ <<w>>[1] = w /\ Len(votes[p]) \in Nat
  BY <1>1, <1>4, <1>6, <1>9, SingletonSeq, LenProperties
<1>14. /\ Len(votes'[p]) = Len(votes[p]) + 1 /\ votes'[p] \in Seq(Voting)
       /\ \A i \in 1..(Len(votes[p]) + 1) :
             votes'[p][i] = IF i <= 1 THEN w ELSE votes[p][i - 1]
       /\ DOMAIN votes'[p] = 1..(Len(votes[p]) + 1)
  <2>1. /\ <<w>> \o votes[p] \in Seq(Voting)
        /\ Len(<<w>> \o votes[p]) = 1 + Len(votes[p])
        /\ \A i \in 1..(1 + Len(votes[p])) :
              (<<w>> \o votes[p])[i] = IF i <= 1 THEN <<w>>[i] ELSE votes[p][i - 1]
    BY <1>9, <1>13, ConcatProperties
  <2>2. Len(votes'[p]) = Len(votes[p]) + 1 /\ votes'[p] \in Seq(Voting)
    BY <1>13, <2>1
  <2>3. DOMAIN votes'[p] = 1..(Len(votes[p]) + 1)  BY <2>2, LenProperties
  <2>4. \A i \in 1..(Len(votes[p]) + 1) :
           votes'[p][i] = IF i <= 1 THEN w ELSE votes[p][i - 1]
    <3> SUFFICES ASSUME NEW i \in 1..(Len(votes[p]) + 1)
                 PROVE  votes'[p][i] = IF i <= 1 THEN w ELSE votes[p][i - 1]
      OBVIOUS
    <3>1. i \in 1..(1 + Len(votes[p]))  BY <1>13
    <3>2. i <= 1 => i = 1  BY <1>13
    <3> QED  BY <1>13, <2>1, <3>1, <3>2
  <2> QED  BY <2>2, <2>3, <2>4
<1>15. votes'[p] # <<>> /\ Innermost(p)' = w
  <2>1. votes'[p] # <<>>  BY <1>13, <1>14, EmptySeq
  <2>2. Head(votes'[p]) = votes'[p][1]  BY <1>14, <2>1
  <2>3. votes'[p][1] = w  BY <1>13, <1>14
  <2> QED  BY <2>1, <2>2, <2>3 DEF Innermost
<1>16. \A y : Backs(p, y)' <=> Backs(p, y)  BY <1>4 DEF Backs, Holds
\* An activation in favour of a leading block is on the block of this request.
<1>17. \A y \in Leading(q) : y \in Voted(p, TRUE)' \/ Holds(q, y) => Supports(p, y)'
  <2> SUFFICES ASSUME NEW y \in Leading(q), y \in Voted(p, TRUE)' \/ Holds(q, y),
                      ~Backs(p, y)
               PROVE  y = b /\ a
    BY <1>6, <1>15, <1>16 DEF Supports, Waits
  <2>1. CASE y \in Voted(p, TRUE) \/ Holds(q, y)
    <3>1. Supports(p, y)  BY <1>1, <1>2, <2>1 DEF Settled, Supported
    <3>2. votes[p] # <<>> /\ v.block = y /\ v.agree
      BY <3>1 DEF Supports, Waits, v
    <3>3. Front(y) = bc[p] /\ y \in Block /\ Len(b) = Size(p)
      BY <1>8, <3>2 DEF Tallied, Voting
    <3>4. Len(y) = Size(p)  BY <1>1, <3>3, FrontLength
    <3> QED  BY <1>1, <1>3, <1>5, <3>3, <3>4, LeadingFields
  <2>2. CASE ~(y \in Voted(p, TRUE) \/ Holds(q, y))
    BY <1>12, <2>2
  <2> QED  BY <2>1, <2>2
<1>18. \A y \in Leading(q) :
          y \in Voted(p, FALSE)' \cup Voted(q, FALSE) =>
              Len(y) <= Len(bc[p]) \/ Refusing(p, y)'
  <2> SUFFICES ASSUME NEW y \in Leading(q),
                      y \in Voted(p, FALSE)' \cup Voted(q, FALSE)
               PROVE  Len(y) <= Len(bc[p])
    OBVIOUS
  <2>1. CASE y \in Voted(p, FALSE) \cup Voted(q, FALSE)
    <3>1. Len(y) <= Len(bc[p]) \/ Refusing(p, y)
      BY <1>1, <1>2, <2>1 DEF Settled, Rejected
    <3> SUFFICES ASSUME Refusing(p, y) PROVE FALSE  BY <3>1
    <3>2. votes[p] # <<>> /\ Len(y) = Size(p) /\ ~HashLeq(y, v.block)
      BY DEF Refusing, Waits, v
    <3>3. y = b  BY <1>1, <1>3, <1>8, <3>2, LeadingFields
    <3> QED  BY <1>8, <3>2, <3>3
  <2>2. CASE ~(y \in Voted(p, FALSE) \cup Voted(q, FALSE))
    <3>1. y = b /\ ~a  BY <1>12, <2>2
    <3> QED  BY <1>1, <1>3, <1>4, <1>5, <3>1
  <2> QED  BY <2>1, <2>2
<1>19. b \notin Leading(p)  BY <1>1, <1>3, LeadingFields
<1>20. \A y \in Leading(p) :
    /\ y \in Voted(p, TRUE)' => y \in Voted(p, TRUE) \/ Backs(p, y)'
    /\ y \in Voted(p, FALSE)' => y \in Voted(p, FALSE) \cup Voted(q, FALSE)
  BY <1>12, <1>19
\* A request during the vote on a leading block of p's own is refused.
<1>21. \A i \in DOMAIN votes'[p] :
          votes'[p][i].own /\ votes'[p][i].block \in Leading(p) =>
              Len(votes'[p]) = 1 /\ votes'[p][i].status = "waiting"
  <2> SUFFICES ASSUME NEW i \in 1..(Len(votes[p]) + 1), votes'[p][i].own,
                      votes'[p][i].block \in Leading(p)
               PROVE  FALSE
    BY <1>14
  <2>1. i # 1  BY <1>6, <1>13, <1>14
  <2> DEFINE j == i - 1
  <2>2. j \in 1..Len(votes[p]) /\ votes'[p][i] = votes[p][j]
    BY <1>13, <1>14, <2>1
  <2> HIDE DEF j
  <2>3. votes[p][j].own /\ votes[p][j].block \in Leading(p) /\ j \in DOMAIN votes[p]
    BY <1>9, <2>2, LenProperties
  <2>4. Len(votes[p]) = 1  BY <1>2, <2>3 DEF Settled, Undisturbed
  <2>5. j = 1 /\ votes[p] # <<>>  BY <1>9, <2>2, <2>4, EmptySeq
  <2>6. v.own /\ v.block \in Leading(p)  BY <1>8, <2>3, <2>5
  <2>7. /\ v.agree /\ Front(v.block) = bc[p] /\ v.block \in Block
        /\ Len(b) = Size(p) /\ HashLeq(b, v.block)
    BY <1>8, <2>5, <2>6 DEF Tallied, Voting
  <2>8. Len(v.block) = Len(b)  BY <1>1, <2>7, FrontLength
  <2> QED  BY <1>3, <2>6, <2>7, <2>8 DEF Leading
<1>22. (\A n \in M : n.type # "ADDREQUEST") /\ q = Other(p) /\ bc'[p] = bc[p]
  BY <1>3, <1>4, <1>10
<1>23. \A y : Backs(p, y) => Backs(p, y)'  BY <1>16
<1> QED
  BY <1>10, <1>17, <1>18, <1>20, <1>21, <1>22, <1>23, AlignedVotes

LEMMA AlignedReturns ==
    ASSUME PairInv, Aligned, HashOrder, NEW p \in Proposers, OthersKeep(p),
           Returns(p)
    PROVE  Aligned'
<1> DEFINE q == Other(p)
           v == Innermost(p)
           b == v.block
           a == Accepted(v)
           i == Len(b)
           c == [block |-> b, own |-> v.own]
           outer == Tail(votes[p])
           M == IF v.own THEN Broadcast(p, "VOTE", i, b, a) ELSE {}
<1>1. /\ q \in Proposers /\ Other(q) = p /\ p \in Peers /\ bc[p] \in Chain
      /\ sent \subseteq Message /\ ProposerAt(p) /\ q \in Peers /\ q = Other(p)
      /\ Len(bc[p]) \in Nat /\ Size(p) = Len(bc[p]) + 1
      /\ votes \in [Peers -> Seq(Voting)]
      /\ candidates \in [Peers -> Seq(Candidate)]
  BY PairTypes
<1>2. Settled(p) /\ Settled(q)  BY <1>1 DEF Aligned
<1>3. /\ v \in Tallied(p) /\ v \in Voting /\ b \in Block /\ Len(b) \in Nat
      /\ (a => /\ v.agree /\ v.status = "waiting"
               /\ b \in Voted(q, TRUE) /\ Len(b) = Size(p))
      /\ (v.status = "waiting" =>
             /\ Len(b) = Size(p)
             /\ v.agree /\ ~a => b \in Voted(q, FALSE))
  <2>1. /\ v \in Tallied(p) /\ v \in Counted(p, Size(p)) /\ b \in Block
        /\ Decided(v)
    BY ReturnKept DEF Returns
  <2> HIDE DEF v
  <2>2. /\ Accepted(v) => /\ v.agree /\ v.status = "waiting"
                          /\ v.block \in Voted(q, TRUE)
                          /\ Len(v.block) = Size(p)
        /\ v.status = "waiting" =>
              /\ Len(v.block) = Size(p)
              /\ v.agree /\ ~Accepted(v) => v.block \in Voted(q, FALSE)
    BY <2>1, Outcome
  <2> QED  BY <2>1, <2>2, LastOfBlock DEF Tallied
<1>4. /\ v.own => v.agree
      /\ b \in Proposed(IF v.own THEN p ELSE q)
      /\ b \in AnyProposed
      /\ votes[p] # <<>> /\ votes[p] \in Seq(Voting) /\ v = votes[p][1]
  <2>1. /\ v.own => v.agree
        /\ b \in Proposed(IF v.own THEN p ELSE q)
    BY <1>3 DEF Tallied, ProposerOf
  <2>2. b \in AnyProposed
    BY <1>1, <2>1, ProposerFacts DEF AnyProposed, Proposers
  <2>3. votes[p] # <<>> /\ votes[p] \in Seq(Voting)  BY <1>1 DEF Returns
  <2>4. v = votes[p][1]  BY <2>3 DEF Innermost
  <2> QED  BY <2>1, <2>2, <2>3, <2>4
<1>5. /\ bc' = bc
      /\ Sends(M)
      /\ candidates' = [candidates EXCEPT ![p] = IF a THEN Append(@, c) ELSE @]
      /\ votes' = [votes EXCEPT ![p] =
            IF outer # <<>> /\ v.agree
            THEN <<[Head(outer) EXCEPT !.status = "abandoned"]>> \o Tail(outer)
            ELSE outer]
  BY DEF Returns
<1>6. c.block = b /\ c \in Candidate
  BY <1>3 DEF Candidate, Voting
<1>7. a \in BOOLEAN /\ i = Len(b)  BY DEF Accepted
\* M: the outcome of p's own proposal.
<1>8. /\ Grows(p, M)
      /\ \A n \in M : n.type = "VOTE" /\ n.block = b /\ n.agree = a /\ v.own
  <2>1. CASE v.own
    <3>1. M = Broadcast(p, "VOTE", i, b, a)  BY <2>1
    <3>2. Sends(M) /\ bc'[p] = bc[p]  BY <1>5
    <3> HIDE DEF M, a, b, i, v
    <3>3. a => Len(b) = Size(p)  BY <1>3
    <3> QED  BY <1>3, <1>4, <1>7, <2>1, <3>1, <3>2, <3>3, VoteGrows
  <2>2. CASE ~v.own
    <3>1. M = {}  BY <2>2
    <3> HIDE DEF M
    <3> QED  BY <1>1, <1>5, <3>1, WholeIsBeginning DEF Grows
  <2> QED  BY <2>1, <2>2
<1> HIDE DEF q, v, b, a, i, c, outer, M
<1>9. sent' = sent \cup M  BY <1>5 DEF Sends
<1>10. /\ Voted(p, TRUE)' \subseteq
             Voted(p, TRUE) \cup (IF a /\ v.own THEN {b} ELSE {})
       /\ Voted(p, FALSE)' \subseteq
             Voted(p, FALSE) \cup (IF ~a /\ v.own THEN {b} ELSE {})
  BY <1>7, <1>8, <1>9 DEF Voted
<1>11. \A y : Backs(p, y) => Backs(p, y)'
  <2> SUFFICES ASSUME NEW y, Backs(p, y) PROVE Backs(p, y)'  OBVIOUS
  <2>1. CASE Holds(p, y)  BY <1>5, <2>1 DEF Backs, Holds
  <2>2. CASE \E j \in DOMAIN candidates[p] : candidates[p][j].block = y
    <3>1. PICK j \in DOMAIN candidates[p] : candidates[p][j].block = y
      BY <2>2
    <3>2. candidates[p] \in Seq(Candidate) /\ j \in 1..Len(candidates[p])
      BY <1>1, LenProperties
    <3>3. j \in DOMAIN Append(candidates[p], c)
          /\ Append(candidates[p], c)[j] = candidates[p][j]
      BY <1>6, <3>2, AppendProperties, LenProperties
    <3>4. j \in DOMAIN candidates'[p] /\ candidates'[p][j] = candidates[p][j]
      BY <1>1, <1>5, <3>1, <3>3
    <3> QED  BY <3>1, <3>4 DEF Backs
  <2> QED  BY <2>1, <2>2 DEF Backs
<1>12. \A y : a /\ y = b => Backs(p, y)'
  <2> SUFFICES ASSUME NEW y, a, y = b PROVE Backs(p, y)'  OBVIOUS
  <2> DEFINE n == Len(candidates[p]) + 1
  <2>1. candidates[p] \in Seq(Candidate)  BY <1>1
  <2>2. /\ Append(candidates[p], c) \in Seq(Candidate)
        /\ Len(Append(candidates[p], c)) = n /\ n \in 1..n
        /\ Append(candidates[p], c)[n] = c
    BY <1>6, <2>1, AppendProperties, LenProperties
  <2>3. candidates'[p] = Append(candidates[p], c)  BY <1>1, <1>5
  <2> HIDE DEF n
  <2>4. n \in DOMAIN candidates'[p] /\ candidates'[p][n].block = y
    BY <1>6, <2>2, <2>3, LenProperties
  <2> QED  BY <2>4 DEF Backs
\* The vote on a leading block ends in favour.
<1>13. \A y \in Leading(q) : y \in Voted(p, TRUE)' \/ Holds(q, y) => Supports(p, y)'
  <2> SUFFICES ASSUME NEW y \in Leading(q), y \in Voted(p, TRUE)' \/ Holds(q, y)
               PROVE  Backs(p, y)'
    BY DEF Supports
  <2>1. y \notin Proposed(p)  BY <1>1, LeadingFields
  <2>2. y \in Voted(p, TRUE) \/ Holds(q, y)  BY <1>4, <1>10, <2>1
  <2>3. Supports(p, y)  BY <1>1, <1>2, <2>2 DEF Settled, Supported
  <2>4. CASE Backs(p, y)  BY <1>11, <2>4
  <2>5. CASE Waits(p) /\ b = y /\ v.agree /\ ~v.own
    <3>1. v.status = "waiting" /\ Len(b) = Size(p)
      BY <1>3, <2>5 DEF Waits, v
    <3>2. CASE a  BY <1>12, <2>5, <3>2
    <3>3. CASE ~a
      <4>1. y \in Voted(q, FALSE)  BY <1>3, <2>5, <3>1, <3>3
      <4>2. Len(y) <= Len(bc[p]) \/ Refusing(p, y)
        BY <1>1, <1>2, <4>1 DEF Settled, Rejected
      <4>3. ~Refusing(p, y)
        BY <1>1, <2>5, <3>1 DEF Refusing, v, b
      <4> QED  BY <1>1, <2>5, <3>1, <4>2, <4>3
    <3> QED  BY <3>2, <3>3
  <2> QED  BY <2>3, <2>4, <2>5 DEF Supports, v, b
<1>14. \A y \in Leading(q) :
          y \in Voted(p, FALSE)' \cup Voted(q, FALSE) =>
              Len(y) <= Len(bc[p]) \/ Refusing(p, y)'
  <2> SUFFICES ASSUME NEW y \in Leading(q),
                      y \in Voted(p, FALSE)' \cup Voted(q, FALSE)
               PROVE  Len(y) <= Len(bc[p])
    OBVIOUS
  <2>1. y \notin Proposed(p)  BY <1>1, LeadingFields
  <2>2. y \in Voted(p, FALSE) \cup Voted(q, FALSE)  BY <1>4, <1>10, <2>1
  <2>3. Len(y) <= Len(bc[p]) \/ Refusing(p, y)
    BY <1>1, <1>2, <2>2 DEF Settled, Rejected
  <2>4. ~Refusing(p, y)
    <3> SUFFICES ASSUME Refusing(p, y) PROVE FALSE  OBVIOUS
    <3>1. v.status = "waiting" /\ Len(b) < Size(p)
      BY DEF Refusing, Waits, v, b
    <3> QED  BY <1>1, <1>3, <3>1
  <2> QED  BY <2>3, <2>4
<1>15. \A y \in Leading(p) :
    /\ y \in Voted(p, TRUE)' => y \in Voted(p, TRUE) \/ Backs(p, y)'
    /\ y \in Voted(p, FALSE)' => y \in Voted(p, FALSE) \cup Voted(q, FALSE)
  <2> SUFFICES ASSUME NEW y \in Leading(p)
               PROVE  /\ y \in Voted(p, TRUE)' => y \in Voted(p, TRUE) \/ Backs(p, y)'
                      /\ y \in Voted(p, FALSE)' =>
                            y \in Voted(p, FALSE) \cup Voted(q, FALSE)
    OBVIOUS
  <2>1. v.own /\ b = y => v.status = "waiting"
    <3>1. 1 \in DOMAIN votes[p]  BY <1>4, LenProperties, EmptySeq
    <3> QED  BY <1>2, <1>4, <3>1 DEF Settled, Undisturbed, b
  <2>2. v.own /\ ~a /\ b = y => y \in Voted(q, FALSE)
    BY <1>3, <1>4, <2>1
  <2> QED  BY <1>10, <1>12, <2>2
<1>16. \A j \in DOMAIN votes'[p] :
          votes'[p][j].own /\ votes'[p][j].block \in Leading(p) =>
              Len(votes'[p]) = 1 /\ votes'[p][j].status = "waiting"
  <2> SUFFICES ASSUME NEW j \in DOMAIN votes'[p], votes'[p][j].own,
                      votes'[p][j].block \in Leading(p)
               PROVE  FALSE
    OBVIOUS
  <2>1. /\ outer \in Seq(Voting) /\ Len(votes[p]) \in Nat \ {0}
        /\ Len(outer) = Len(votes[p]) - 1
        /\ \A k \in 1..Len(outer) : outer[k] = votes[p][k + 1]
    BY <1>4, HeadTailProperties, LenProperties, EmptySeq DEF outer
  <2>2. j \in 1..Len(outer) /\ votes'[p][j].own = outer[j].own
        /\ votes'[p][j].block = outer[j].block
    <3>1. CASE outer # <<>> /\ v.agree
      <4> DEFINE h == Head(outer)
                 w == [h EXCEPT !.status = "abandoned"]
                 t == Tail(outer)
      <4>1. /\ h \in Voting /\ t \in Seq(Voting) /\ h = outer[1]
            /\ Len(t) = Len(outer) - 1 /\ \A k \in 1..Len(t) : t[k] = outer[k + 1]
            /\ Len(outer) \in Nat \ {0}
        BY <2>1, <3>1, HeadTailProperties, LenProperties, EmptySeq
      <4>2. w \in Voting /\ w.own = h.own /\ w.block = h.block
        BY <4>1 DEF Voting
      <4>3. votes'[p] = <<w>> \o t  BY <1>1, <1>5, <3>1
      <4> HIDE DEF h, w, t
      <4>4. <<w>> \in Seq(Voting) /\ Len(<<w>>) = 1 /\ <<w>>[1] = w
        BY <4>2, SingletonSeq
      <4>5. /\ votes'[p] \in Seq(Voting) /\ Len(votes'[p]) = 1 + Len(t)
            /\ \A k \in 1..(1 + Len(t)) :
                  votes'[p][k] = IF k <= 1 THEN <<w>>[k] ELSE t[k - 1]
        BY <4>1, <4>3, <4>4, ConcatProperties
      <4>6. j \in 1..Len(outer)  BY <4>1, <4>5, LenProperties
      <4>7. CASE j = 1
        <5>1. 1 \in 1..(1 + Len(t)) /\ 1 <= 1  BY <4>1
        <5>2. votes'[p][1] = w  BY <4>4, <4>5, <5>1
        <5> QED  BY <4>1, <4>2, <4>6, <4>7, <5>2
      <4>8. CASE j # 1
        <5> DEFINE k == j - 1
        <5>1. k \in 1..Len(t) /\ j = k + 1 /\ j \in 1..(1 + Len(t)) /\ ~(j <= 1)
          BY <4>1, <4>6, <4>8
        <5>2. votes'[p][j] = t[k]  BY <4>5, <5>1
        <5>3. t[k] = outer[k + 1]  BY <4>1, <5>1
        <5> QED  BY <4>6, <5>1, <5>2, <5>3
      <4> QED  BY <4>7, <4>8
    <3>2. CASE ~(outer # <<>> /\ v.agree)
      <4>1. votes'[p] = outer  BY <1>1, <1>5, <3>2
      <4> QED  BY <2>1, <4>1, LenProperties
    <3> QED  BY <3>1, <3>2
  <2> DEFINE k == j + 1
  <2>3. k \in 1..Len(votes[p]) /\ k > 1 /\ outer[j] = votes[p][k]
    BY <2>1, <2>2
  <2> HIDE DEF k
  <2>4. k \in DOMAIN votes[p]  BY <1>4, <2>3, LenProperties
  <2>5. Len(votes[p]) = 1
    BY <1>2, <2>2, <2>3, <2>4 DEF Settled, Undisturbed
  <2> QED  BY <2>3, <2>5
<1>17. (\A n \in M : n.type # "ADDREQUEST") /\ q = Other(p) /\ bc'[p] = bc[p]
  BY <1>1, <1>5, <1>8
<1> QED
  BY <1>8, <1>11, <1>13, <1>14, <1>15, <1>16, <1>17, AlignedVotes

LEMMA AlignedProposes ==
    ASSUME PairInv, Aligned, HashOrder, NEW p \in Proposers, OthersKeep(p),
           Other(p) \in Others(p), Proposes(p)
    PROVE  Aligned'
<1> DEFINE q == Other(p)
           b == SneakPeekBlock(p, Head(transactions[p]))
           no == FALSE
           M == Broadcast(p, "ADDREQUEST", Size(p), b, no)
<1>1. /\ q \in Proposers /\ Other(q) = p /\ p \in Peers /\ bc[p] \in Chain
      /\ sent \subseteq Message /\ ProposerAt(p) /\ q \in Peers /\ q = Other(p)
      /\ Len(bc[p]) \in Nat /\ Size(p) = Len(bc[p]) + 1 /\ ProposerAt(q)
      /\ sent \subseteq Posted /\ votes \in [Peers -> Seq(Voting)] /\ q # p
  BY PairTypes
<1>2. Settled(p) /\ Settled(q)  BY <1>1 DEF Aligned
<1>3. /\ votes[p] = <<>> /\ transactions[p] # <<>> /\ Sends(M)
      /\ UNCHANGED <<bc, candidates>> /\ bc'[p] = bc[p]
  BY DEF Proposes
<1>4. \E v : v.status = "waiting" /\ votes' = [votes EXCEPT ![p] = <<v>>]
  <2> DEFINE v == NewVoting(p, b, TRUE, TRUE)
  <2>1. v.status = "waiting"  BY DEF NewVoting
  <2>2. votes' = [votes EXCEPT ![p] = <<v>>]  BY DEF Proposes
  <2> HIDE DEF v
  <2> QED  BY <2>1, <2>2
<1>5. b \in Block /\ Len(b) = Size(p)  BY <1>3, ProposedNow
<1> HIDE DEF q, b, no
<1>6. \A m \in M : m \in Message /\ m.from = p /\ m.type = "ADDREQUEST" /\ m.block = b
  <2>1. \A m \in M : m.from = p /\ m.type = "ADDREQUEST" /\ m.block = b
    BY BroadcastFields
  <2>2. M \subseteq Message  BY <1>5, ProposalPosted DEF Posted, no
  <2> QED  BY <2>1, <2>2
<1> HIDE DEF M
<1>7. Grows(p, M)  BY <1>1, <1>3, <1>6, WholeIsBeginning DEF Grows
<1>8. sent' = sent \cup M  BY <1>3 DEF Sends
<1>9. /\ Proposed(q)' = Proposed(q) /\ Proposed(p) \subseteq Proposed(p)'
      /\ Proposed(p)' \subseteq Proposed(p) \cup {b}
      /\ Voted(p, TRUE)' = Voted(p, TRUE) /\ Voted(p, FALSE)' = Voted(p, FALSE)
      /\ Voted(q, TRUE)' = Voted(q, TRUE) /\ Voted(q, FALSE)' = Voted(q, FALSE)
  BY <1>1, <1>6, <1>8 DEF Proposed, Voted
<1>10. Leading(q)' \subseteq Leading(q)  BY <1>1, <1>9 DEF Leading
<1>11. Leading(p)' \subseteq Leading(p) \cup {b}  BY <1>1, <1>9 DEF Leading
<1>12. Confirmed(q)' /\ Undisturbed(q)' /\ Comparable(p)'
  <2>1. Comparable(p)  BY DEF Aligned
  <2> QED  BY <1>1, <1>2, <1>3, <1>7, <1>10, <2>1, OtherSettled
<1>13. /\ bc'[q] = bc[q] /\ votes'[q] = votes[q] /\ candidates'[q] = candidates[q]
  BY <1>1 DEF OthersKeep
<1>14. \A y : /\ Backs(p, y)' <=> Backs(p, y)
              /\ Holds(q, y)' <=> Holds(q, y)
              /\ Holds(p, y)' <=> Holds(p, y)
  BY <1>3 DEF Backs, Holds
<1>15. Supported(q)'
  <2> SUFFICES ASSUME NEW y \in Leading(q), y \in Voted(p, TRUE) \/ Holds(q, y)
               PROVE  Backs(p, y)
    BY <1>1, <1>9, <1>10, <1>14 DEF Supported, Supports
  <2>1. Supports(p, y)  BY <1>1, <1>2 DEF Settled, Supported
  <2> QED  BY <1>3, <2>1 DEF Supports, Waits
<1>16. Rejected(q)'
  <2> SUFFICES ASSUME NEW y \in Leading(q),
                      y \in Voted(p, FALSE) \cup Voted(q, FALSE)
               PROVE  Len(y) <= Len(bc[p])
    BY <1>1, <1>3, <1>9, <1>10 DEF Rejected
  <2>1. Len(y) <= Len(bc[p]) \/ Refusing(p, y)
    BY <1>1, <1>2 DEF Settled, Rejected
  <2> QED  BY <1>3, <2>1 DEF Refusing, Waits
\* The proposal of p is not yet known to anyone, unless it repeats one.
<1>17. \A y \in Leading(p)' : y \notin Leading(p) =>
          /\ y \notin Voted(p, TRUE) /\ y \notin Voted(p, FALSE)
          /\ y \notin Voted(q, TRUE) /\ y \notin Voted(q, FALSE)
          /\ ~Holds(p, y)
          /\ ~(Holds(q, y) /\ Len(y) > Len(InitialChain(q)))
  <2> SUFFICES ASSUME NEW y \in Leading(p)', y \notin Leading(p)
               PROVE  /\ y \notin Voted(p, TRUE) /\ y \notin Voted(p, FALSE)
                      /\ y \notin Voted(q, TRUE) /\ y \notin Voted(q, FALSE)
                      /\ ~Holds(p, y)
                      /\ ~(Holds(q, y) /\ Len(y) > Len(InitialChain(q)))
    OBVIOUS
  <2>1. y = b /\ y \in Block /\ Len(y) = Size(p)  BY <1>5, <1>11
  <2>2. y \notin Proposed(p) /\ y \notin Proposed(q)
    <3>1. HashLeq(y, y)  BY <2>1 DEF HashOrder
    <3>2. /\ \A x \in Proposed(q) : Len(x) = Len(y) => ~HashLeq(x, y)
          /\ y \in Proposed(p)'
      BY <1>1, <1>9 DEF Leading
    <3> QED  BY <1>1, <3>1, <3>2 DEF Leading
  <2>3. y \notin AnyProposed
    BY <1>1, <2>2, ProposerFacts DEF AnyProposed, Proposers
  <2>4. /\ y \notin Voted(p, TRUE) /\ y \notin Voted(p, FALSE)
        /\ y \notin Voted(q, TRUE) /\ y \notin Voted(q, FALSE)
    BY <1>1, <2>3 DEF Voted, Posted
  <2>5. ~Holds(p, y)  BY <1>1, <2>1, BeginningFields DEF Holds
  <2>6. ~(Holds(q, y) /\ Len(y) > Len(InitialChain(q)))
    <3>1. Len(InitialChain(p)) <= Len(bc[p]) /\ Len(InitialChain(p)) \in Nat
      BY <1>1, InitialChainType, BeginningFields DEF ProposerAt, ChainPart
    <3>2. Len(y) > Len(InitialChain(p))  BY <1>1, <2>1, <3>1
    <3>3. Proposers = {p, q}  BY <1>1, ProposerFacts
    <3> QED  BY <1>1, <2>3, <3>2, <3>3 DEF ProposerAt, ChainPart, Holds
  <2> QED  BY <2>4, <2>5, <2>6
<1>18. Supported(p)'
  <2> SUFFICES ASSUME NEW y \in Leading(p)', y \in Voted(q, TRUE) \/ Holds(p, y)
               PROVE  Supports(q, y)'
    BY <1>1, <1>9, <1>14 DEF Supported
  <2>1. y \in Leading(p)  BY <1>17
  <2>2. Supports(q, y)  BY <1>1, <1>2, <2>1 DEF Settled, Supported
  <2> QED  BY <1>13, <2>2 DEF Supports, Backs, Holds, Waits, Innermost
<1>19. Confirmed(p)'
  <2> SUFFICES ASSUME NEW y \in Leading(p)',
                      \/ y \in Voted(p, TRUE)
                      \/ Holds(q, y) /\ Len(y) > Len(InitialChain(q))
               PROVE  Backs(p, y)
    BY <1>1, <1>9, <1>14 DEF Confirmed
  <2>1. y \in Leading(p)  BY <1>17
  <2> QED  BY <1>1, <1>2, <2>1 DEF Settled, Confirmed
<1>20. Rejected(p)'
  <2> SUFFICES ASSUME NEW y \in Leading(p)',
                      y \in Voted(q, FALSE) \cup Voted(p, FALSE)
               PROVE  Len(y) <= Len(bc[q])' \/ Refusing(q, y)'
    BY <1>1, <1>9 DEF Rejected
  <2>1. y \in Leading(p)  BY <1>17
  <2>2. Len(y) <= Len(bc[q]) \/ Refusing(q, y)
    BY <1>1, <1>2, <2>1 DEF Settled, Rejected
  <2> QED  BY <1>13, <2>2 DEF Refusing, Waits, Innermost, Size
<1>21. Undisturbed(p)'
  <2>1. PICK v : v.status = "waiting" /\ votes'[p] = <<v>>  BY <1>1, <1>4
  <2> QED  BY <2>1 DEF Undisturbed
<1> QED
  BY <1>1, <1>12, <1>15, <1>16, <1>18, <1>19, <1>20, <1>21, AlignedAt
  DEF Settled

\* A block that RequestBlockchain adds is in the chain of the other proposer.
LEMMA AlignedSyncs ==
    ASSUME PairInv, Aligned, NEW p \in Proposers, OthersKeep(p), Syncs(p)
    PROVE  Aligned'
<1> DEFINE q == Other(p)
<1>1. /\ q \in Proposers /\ Other(q) = p /\ p \in Peers /\ q \in Peers
      /\ bc[p] \in Chain /\ bc[q] \in Chain /\ q # p /\ q = Other(p)
      /\ Len(bc[p]) \in Nat /\ bc \in [Peers -> Chain]
  <2>1. q \in Proposers  BY PairTypes
  <2> QED  BY <2>1, PairTypes
<1>2. Settled(p) /\ Settled(q)  BY <1>1 DEF Aligned
<1>3. PICK M \in SUBSET Answers(p) : Sends(M)  BY DEF Syncs
<1>4. PICK d \in Data : Replied(p, d) /\ AddBlock(p, d)  BY DEF Syncs
<1>5. bc'[p] = Append(bc[p], d)  BY <1>1, <1>4 DEF AddBlock
<1>6. /\ bc'[p] \in Chain /\ bc[p] \in Beginnings(bc'[p])
      /\ Len(bc'[p]) = Len(bc[p]) + 1
  BY <1>1, <1>5, BlockOfAppend
<1>7. bc'[p] \in Beginnings(bc[q])  BY <1>4, <1>5, RepliedNext
<1>8. /\ Beginnings(bc'[p]) \subseteq Beginnings(bc[q])
      /\ Beginnings(bc[p]) \subseteq Beginnings(bc'[p])
  BY <1>1, <1>6, <1>7, BeginningsGrow
<1>9. /\ votes[p] = <<>> /\ votes' = votes /\ candidates[p] = <<>>
      /\ candidates' = candidates /\ bc'[q] = bc[q]
  BY <1>1 DEF Syncs, OthersKeep
<1>10. \A m \in M : m \in Message /\ m.from = p /\ m.type = "BLOCK"
  BY DEF Answers
<1>11. Grows(p, M)  BY <1>3, <1>6, <1>10 DEF Grows
<1>12. Leading(p)' = Leading(p) /\ Leading(q)' = Leading(q)
  BY <1>1, <1>10, <1>11, LeadingKept
<1>13. /\ Voted(p, TRUE)' = Voted(p, TRUE) /\ Voted(p, FALSE)' = Voted(p, FALSE)
       /\ Voted(q, TRUE)' = Voted(q, TRUE) /\ Voted(q, FALSE)' = Voted(q, FALSE)
  BY <1>10, <1>11, VotedNow
<1> HIDE DEF q
<1>14. \A y : /\ Holds(p, y) => Holds(p, y)'
              /\ Holds(p, y)' => Holds(q, y)
              /\ Holds(q, y)' <=> Holds(q, y)
              /\ Backs(p, y) <=> Holds(p, y)
              /\ Backs(q, y)' <=> Backs(q, y)
              /\ Supports(p, y) <=> Holds(p, y)
              /\ Supports(q, y)' <=> Supports(q, y)
              /\ ~Refusing(p, y)
              /\ Refusing(q, y)' <=> Refusing(q, y)
  BY <1>8, <1>9
  DEF Holds, Backs, Supports, Refusing, Waits, Innermost, Size
<1>15. \A y \in Leading(p) \cup Leading(q) : Len(y) \in Nat
  <2>1. \A r \in {p, q} : Proposed(r) \subseteq Block
    BY <1>1, PairTypes, ProposedBlock
  <2> QED  BY <2>1, LastOfBlock DEF Leading
<1>16. Settled(q)'
  <2>1. Supported(q)'
    <3> SUFFICES ASSUME NEW y \in Leading(q), y \in Voted(p, TRUE) \/ Holds(q, y)
                 PROVE  Holds(p, y)'
      BY <1>1, <1>12, <1>13, <1>14 DEF Supported, Supports, Backs
    <3>1. Supports(p, y)  BY <1>1, <1>2 DEF Settled, Supported
    <3> QED  BY <1>14, <3>1
  <2>2. Confirmed(q)'
    <3> SUFFICES ASSUME NEW y \in Leading(q), y \in Voted(q, TRUE) \/ Holds(p, y)'
                 PROVE  Backs(q, y)
      BY <1>1, <1>12, <1>13, <1>14 DEF Confirmed
    <3>1. CASE y \in Voted(q, TRUE)  BY <1>2, <3>1 DEF Settled, Confirmed
    <3>2. CASE Holds(p, y)'
      <4>1. Holds(q, y)  BY <1>14, <3>2
      <4> QED  BY <4>1 DEF Backs
    <3> QED  BY <3>1, <3>2
  <2>3. Rejected(q)'
    <3> SUFFICES ASSUME NEW y \in Leading(q),
                        y \in Voted(p, FALSE) \cup Voted(q, FALSE)
                 PROVE  Len(y) <= Len(bc'[p])
      BY <1>1, <1>12, <1>13 DEF Rejected
    <3>1. Len(y) <= Len(bc[p])  BY <1>1, <1>2, <1>14 DEF Settled, Rejected
    <3> QED  BY <1>1, <1>6, <1>15, <3>1
  <2>4. Undisturbed(q)'  BY <1>2, <1>9, <1>12 DEF Settled, Undisturbed
  <2> QED  BY <2>1, <2>2, <2>3, <2>4 DEF Settled
<1>17. Settled(p)'
  <2>1. Supported(p)'
    <3> SUFFICES ASSUME NEW y \in Leading(p), y \in Voted(q, TRUE) \/ Holds(p, y)'
                 PROVE  Supports(q, y)
      BY <1>1, <1>12, <1>13, <1>14 DEF Supported
    <3>1. CASE y \in Voted(q, TRUE)  BY <1>1, <1>2, <3>1 DEF Settled, Supported
    <3>2. CASE Holds(p, y)'
      <4>1. Holds(q, y)  BY <1>14, <3>2
      <4> QED  BY <4>1 DEF Supports, Backs
    <3> QED  BY <3>1, <3>2
  <2>2. Confirmed(p)'
    <3> SUFFICES ASSUME NEW y \in Leading(p),
                        \/ y \in Voted(p, TRUE)
                        \/ Holds(q, y) /\ Len(y) > Len(InitialChain(q))
                 PROVE  Holds(p, y)'
      BY <1>1, <1>12, <1>13, <1>14 DEF Confirmed, Backs
    <3>1. Backs(p, y)  BY <1>1, <1>2 DEF Settled, Confirmed
    <3> QED  BY <1>14, <3>1
  <2>3. Rejected(p)'
    <3> SUFFICES ASSUME NEW y \in Leading(p),
                        y \in Voted(q, FALSE) \cup Voted(p, FALSE)
                 PROVE  Len(y) <= Len(bc[q]) \/ Refusing(q, y)
      BY <1>1, <1>9, <1>12, <1>13, <1>14 DEF Rejected
    <3> QED  BY <1>1, <1>2 DEF Settled, Rejected
  <2>4. Undisturbed(p)'  BY <1>2, <1>9, <1>12 DEF Settled, Undisturbed
  <2> QED  BY <2>1, <2>2, <2>3, <2>4 DEF Settled
<1>18. Comparable(p)'  BY <1>1, <1>7, <1>9 DEF Comparable
<1> QED  BY <1>1, <1>16, <1>17, <1>18, AlignedAt

\* A candidate that wins against a leading block is that block.
LEMMA BestLeads ==
    ASSUME PairInv, HashOrder, NEW p \in Proposers,
           NEW r \in Proposers, NEW y \in Leading(r),
           NEW b \in Block, b \in AnyProposed, Len(b) = Len(y), HashLeq(b, y)
    PROVE  b = y
<1>1. {First, Second} = {r, Other(r)}  BY ProposerFacts DEF Proposers
<1>2. b \in Proposed(r) \/ b \in Proposed(Other(r))  BY <1>1 DEF AnyProposed
<1>3. b \notin Proposed(Other(r))  BY DEF Leading
<1> QED  BY <1>2, <1>3, LeadingFields

\* Of two different proposals of the same length one is leading.
LEMMA OneLeads ==
    ASSUME PairInv, HashOrder, NEW y \in AnyProposed, NEW z \in AnyProposed,
           Len(y) = Len(z), y # z
    PROVE  \E r \in Proposers : y \in Leading(r) \/ z \in Leading(r)
<1>1. PICK r \in Proposers : y \in Proposed(r)
  BY DEF AnyProposed, Proposers
<1>2. /\ Other(r) \in Proposers /\ Other(Other(r)) = r
      /\ {First, Second} = {r, Other(r)} /\ r \in Peers /\ Other(r) \in Peers
      /\ ProposalPart(r) /\ ProposalPart(Other(r)) /\ sent \subseteq Message
  BY PairTypes, ProposerFacts DEF ProposerAt, Proposers
<1>3. z \notin Proposed(r)  BY <1>1, <1>2 DEF ProposalPart
<1>4. z \in Proposed(Other(r))  BY <1>2, <1>3 DEF AnyProposed
<1>5. y \in Block /\ z \in Block  BY <1>1, <1>2, <1>4, ProposedBlock
<1>6. ~HashLeq(y, z) \/ ~HashLeq(z, y)  BY <1>5 DEF HashOrder
<1>7. CASE ~HashLeq(z, y)
  <2>1. y \in Leading(r)
    BY <1>1, <1>2, <1>4, <1>7 DEF Leading, ProposalPart
  <2> QED  BY <1>4, <1>7, <2>1
<1>8. CASE ~HashLeq(y, z)
  <2>1. z \in Leading(Other(r))
    BY <1>1, <1>2, <1>4, <1>8 DEF Leading, ProposalPart
  <2> QED  BY <1>1, <1>2, <1>8, <2>1
<1> QED  BY <1>6, <1>7, <1>8

\* What p and the other proposer have at the end of a vote.
LEMMA FinishView ==
    ASSUME PairInv, NEW p \in Proposers, Finishes(p),
           NEW i \in DOMAIN candidates[p], Best(candidates[p], i),
           candidates[p][i] \in Elected(p),
           NEW b \in Block, b = candidates[p][i].block, bc'[p] = b
    PROVE  /\ Len(b) = Size(p) /\ bc[p] \in Beginnings(b)
           /\ Front(b) = bc[p]
           /\ b \in Voted(Other(p), TRUE) /\ b \in AnyProposed
           /\ \A y : Holds(p, y)' <=> Holds(p, y) \/ y = b
           /\ \A y : Backs(p, y) => Holds(p, y)
                         \/ /\ y \in Block /\ Len(y) = Len(b) /\ HashLeq(b, y)
<1>1. /\ bc[p] \in Chain /\ candidates[p] \in Seq(Elected(p))
      /\ Len(bc[p]) \in Nat /\ Size(p) = Len(bc[p]) + 1
      /\ p \in Peers /\ Other(p) \in Proposers
  BY PairTypes DEF ProposerAt, VotePart
<1>2. /\ Front(b) = bc[p] /\ b \in Voted(Other(p), TRUE)
      /\ b \in Proposed(ProposerOf(p, candidates[p][i]))
  BY DEF Elected
<1>3. /\ b \in Chain /\ Len(b) = Size(p) /\ bc[p] \in Beginnings(b)
  BY <1>1, <1>2, FrontOfBlock, FrontLength DEF Block
<1>4. b \in AnyProposed
  BY <1>1, <1>2 DEF AnyProposed, ProposerOf, Proposers
<1>5. \A y : Holds(p, y)' <=> Holds(p, y) \/ y = b
  <2>1. Beginnings(bc[p]) \subseteq Beginnings(b) /\ b \in Beginnings(b)
    BY <1>3, BeginningsGrow, WholeIsBeginning
  <2>2. ASSUME NEW y \in Beginnings(b), y # b PROVE y \in Beginnings(bc[p])
    <3>1. y \in Chain /\ Len(y) \in Nat /\ Len(y) <= Len(b)
      BY <1>3, BeginningFields
    <3>2. Len(y) # Len(b)  BY <1>3, <2>1, <2>2, SameBeginning
    <3>3. Len(y) <= Len(bc[p])  BY <1>1, <1>3, <3>1, <3>2
    <3> QED  BY <1>3, <3>3, PartOfBeginning
  <2>3. \A y : Holds(p, y)' <=> y \in Beginnings(b)  BY DEF Holds
  <2> QED  BY <2>1, <2>2, <2>3 DEF Holds
<1>6. ASSUME NEW y, Backs(p, y), ~Holds(p, y)
      PROVE  y \in Block /\ Len(y) = Len(b) /\ HashLeq(b, y)
  <2>1. PICK j \in DOMAIN candidates[p] : candidates[p][j].block = y
    BY <1>6 DEF Backs
  <2>2. candidates[p][j] \in Elected(p)  BY <1>1, <2>1, ElementOfSeq, LenProperties
  <2>3. y \in Block /\ Front(y) = bc[p]  BY <2>1, <2>2 DEF Elected, Candidate
  <2>4. HashLeq(b, y)  BY <2>1 DEF Best
  <2>5. Len(y) = Len(Front(y)) + 1 /\ Len(b) = Len(Front(b)) + 1
    BY <2>3, FrontLength
  <2> QED  BY <1>2, <2>3, <2>4, <2>5
<1> QED  BY <1>2, <1>3, <1>4, <1>5, <1>6

\* Whoever supports a block without holding it builds it on the end of its chain.
LEMMA SupportedNext ==
    ASSUME PairInv, NEW p \in Proposers, NEW y, Supports(p, y)
    PROVE  Holds(p, y) \/ (y \in Block /\ Front(y) = bc[p])
<1>1. candidates[p] \in Seq(Elected(p)) /\ votes[p] \in Seq(Tallied(p))
  BY PairTypes DEF ProposerAt, VotePart
<1>2. CASE \E j \in DOMAIN candidates[p] : candidates[p][j].block = y
  <2>1. PICK j \in DOMAIN candidates[p] : candidates[p][j].block = y  BY <1>2
  <2>2. candidates[p][j] \in Elected(p)  BY <1>1, <2>1, ElementOfSeq, LenProperties
  <2> QED  BY <2>1, <2>2 DEF Elected, Candidate
<1>3. CASE Waits(p) /\ Innermost(p).block = y /\ Innermost(p).agree
  <2>1. Innermost(p) \in Tallied(p)
    BY <1>1, <1>3, HeadTailProperties DEF Waits, Innermost
  <2> QED  BY <1>3, <2>1 DEF Tallied, Voting
<1> QED  BY <1>2, <1>3 DEF Supports, Backs

\* The candidate that p adds does not fork from the chain of the other.
LEMMA FinishComparable ==
    ASSUME PairInv, Aligned, HashOrder, NEW p \in Proposers, Finishes(p),
           NEW i \in DOMAIN candidates[p], Best(candidates[p], i),
           candidates[p][i] \in Elected(p),
           NEW b \in Block, b = candidates[p][i].block, bc'[p] = b
    PROVE  b \in Beginnings(bc[Other(p)]) \/ bc[Other(p)] \in Beginnings(b)
<1> DEFINE q == Other(p)
<1>1. /\ q \in Proposers /\ Other(q) = p /\ p \in Peers /\ q \in Peers
      /\ bc[p] \in Chain /\ bc[q] \in Chain /\ q # p /\ q = Other(p)
      /\ Len(bc[p]) \in Nat /\ Len(bc[q]) \in Nat
      /\ Size(p) = Len(bc[p]) + 1 /\ ProposerAt(p) /\ ProposerAt(q)
      /\ sent \subseteq Posted
  <2>1. q \in Proposers  BY PairTypes
  <2> QED  BY <2>1, PairTypes
<1>2. Settled(p) /\ Settled(q) /\ Comparable(p)  BY <1>1 DEF Aligned
<1>3. /\ Len(b) = Size(p) /\ bc[p] \in Beginnings(b) /\ b \in Chain
      /\ b \in Voted(q, TRUE) /\ b \in AnyProposed
      /\ \A y : Backs(p, y) => Holds(p, y)
                    \/ /\ y \in Block /\ Len(y) = Len(b) /\ HashLeq(b, y)
  BY FinishView DEF Block
<1>4. votes[p] = <<>>  BY DEF Finishes
<1> HIDE DEF q
<1>5. CASE bc[q] \in Beginnings(bc[p])
  <2>1. bc[q] \in Beginnings(b)  BY <1>3, <1>5, BeginningsGrow
  <2> QED  BY <2>1 DEF q
<1>6. CASE bc[p] \in Beginnings(bc[q]) /\ ~(Len(b) <= Len(bc[q]))
  <2>1. Len(bc[p]) = Len(bc[q])  BY <1>1, <1>3, <1>6, BeginningFields
  <2>2. bc[p] = bc[q]  BY <1>1, <1>6, <2>1, WholeIsBeginning, SameBeginning
  <2> QED  BY <1>3, <2>2 DEF q
<1>7. CASE bc[p] \in Beginnings(bc[q]) /\ Len(b) <= Len(bc[q])
  <2> DEFINE n == Len(b)
             z == SubSeq(bc[q], 1, n)
  <2>1. /\ n \in Nat /\ n = Len(b) /\ z \in Beginnings(bc[q])
        /\ Len(z) = Len(b) /\ z \in Chain
    <3>1. n \in Nat /\ n = Len(b) /\ n <= Len(bc[q])  BY <1>1, <1>3, <1>7
    <3>2. bc[q] \in Seq(Data)  BY <1>1 DEF Chain
    <3> HIDE DEF n
    <3>3. z \in Beginnings(bc[q])  BY <1>1, <3>1, WholeIsBeginning, ShorterBeginning
    <3>4. \A k \in 1..n : bc[q][k] \in Data  BY <1>1, <3>1, <3>2, ElementOfSeq
    <3>5. Len(z) = n  BY <3>1, <3>4, SubSeqProperties
    <3> QED  BY <1>1, <3>1, <3>3, <3>5, BeginningFields
  <2> HIDE DEF z, n
  <2>2. Len(z) > Len(InitialChain(q)) /\ Len(z) > Len(InitialChain(p))
    <3>1. Len(b) > Len(InitialChain(q))  BY <1>1, <1>3 DEF Voted, Posted
    <3>2. Len(InitialChain(p)) <= Len(bc[p]) /\ Len(InitialChain(p)) \in Nat
      BY <1>1, InitialChainType, BeginningFields DEF ProposerAt, ChainPart
    <3> QED  BY <1>1, <1>3, <2>1, <3>1, <3>2
  <2>3. z \in AnyProposed
    <3>1. Proposers = {p, q}  BY <1>1, ProposerFacts
    <3> QED  BY <1>1, <2>1, <2>2, <3>1 DEF ProposerAt, ChainPart
  <2>4. CASE b = z  BY <2>1, <2>4 DEF q
  <2>5. CASE b # z
    <3>1. PICK r \in Proposers : b \in Leading(r) \/ z \in Leading(r)
      BY <1>3, <2>1, <2>3, <2>5, OneLeads
    <3>2. r = p \/ r = q  BY <1>1, ProposerFacts
    <3>3. CASE z \in Leading(r)
      <4>1. Holds(q, z)  BY <2>1 DEF Holds
      <4>2. Supports(p, z)
        BY <1>1, <1>2, <2>2, <3>2, <3>3, <4>1
        DEF Settled, Supported, Confirmed, Supports
      <4>3. Backs(p, z)  BY <1>4, <4>2 DEF Supports, Waits
      <4>4. ~Holds(p, z)  BY <1>1, <1>3, <2>1, BeginningFields DEF Holds
      <4>5. z \in Block /\ HashLeq(b, z)  BY <1>3, <4>3, <4>4
      <4> QED  BY <1>3, <2>1, <2>5, <3>3, <4>5, BestLeads
    <3>4. CASE b \in Leading(r)
      <4>1. Supports(q, b)
        BY <1>1, <1>2, <1>3, <3>2, <3>4
        DEF Settled, Supported, Confirmed, Supports
      <4>2. ~Holds(q, b)  BY <1>1, <2>1, <2>5, SameBeginning DEF Holds
      <4>3. Front(b) = bc[q]  BY <1>1, <4>1, <4>2, SupportedNext
      <4> QED  BY <1>1, <1>7, <4>3, FrontLength
    <3> QED  BY <3>1, <3>3, <3>4
  <2> QED  BY <2>4, <2>5
<1> QED  BY <1>2, <1>5, <1>6, <1>7 DEF Comparable, q

LEMMA AlignedUnchanged ==
    ASSUME Aligned, UNCHANGED <<bc, votes, candidates, sent>>
    PROVE  Aligned'
<1>1. \A r : /\ Proposed(r)' = Proposed(r) /\ Voted(r, TRUE)' = Voted(r, TRUE)
             /\ Voted(r, FALSE)' = Voted(r, FALSE)
  BY DEF Proposed, Voted
<1>2. \A r : Leading(r)' = Leading(r)  BY <1>1 DEF Leading
<1>3. \A r, y : /\ Holds(r, y)' <=> Holds(r, y)
                /\ Backs(r, y)' <=> Backs(r, y)
                /\ Supports(r, y)' <=> Supports(r, y)
                /\ Refusing(r, y)' <=> Refusing(r, y)
  BY DEF Holds, Backs, Supports, Refusing, Waits, Innermost, Size
<1>4. ASSUME NEW r \in Proposers PROVE Settled(r)' /\ Comparable(r)'
  <2>1. Settled(r) /\ Comparable(r)  BY DEF Aligned
  <2>2. Supported(r)' /\ Confirmed(r)' /\ Undisturbed(r)'
    BY <1>1, <1>2, <1>3, <2>1 DEF Settled, Supported, Confirmed, Undisturbed
  <2>3. Rejected(r)'
    BY <1>1, <1>2, <1>3, <2>1 DEF Settled, Rejected
  <2> QED  BY <2>1, <2>2, <2>3 DEF Settled, Comparable
<1> QED  BY <1>4 DEF Aligned

LEMMA AlignedFinishes ==
    ASSUME PairInv, Aligned, HashOrder, NEW p \in Proposers, OthersKeep(p),
           Finishes(p)
    PROVE  Aligned'
<1> DEFINE q == Other(p)
<1>1. /\ q \in Proposers /\ Other(q) = p /\ p \in Peers /\ q \in Peers
      /\ bc[p] \in Chain /\ q # p /\ q = Other(p) /\ Len(bc[p]) \in Nat
      /\ Size(p) = Len(bc[p]) + 1
      /\ candidates \in [Peers -> Seq(Candidate)]
  BY PairTypes
<1>2. Settled(p) /\ Settled(q)  BY <1>1 DEF Aligned
<1>3. votes' = votes /\ votes[p] = <<>> /\ candidates'[p] = <<>> /\ sent' = sent
  BY FinishEffect DEF Finishes
<1>4. CASE candidates[p] = <<>> /\ UNCHANGED <<bc, transactions>>
  <2>1. candidates' = candidates
    <3>1. candidates' = [candidates EXCEPT ![p] = <<>>]
      BY DEF Finishes, HandleAllFinish
    <3> QED  BY <1>1, <1>4, <3>1
  <2> QED  BY <1>3, <1>4, <2>1, AlignedUnchanged
<1>5. CASE \E i \in DOMAIN candidates[p] :
             /\ Best(candidates[p], i)
             /\ candidates[p][i] \in Elected(p)
             /\ candidates[p][i].block \in Block
             /\ bc'[p] = candidates[p][i].block
  <2>1. PICK i \in DOMAIN candidates[p] :
             /\ Best(candidates[p], i)
             /\ candidates[p][i] \in Elected(p)
             /\ candidates[p][i].block \in Block
             /\ bc'[p] = candidates[p][i].block
    BY <1>5
  <2>2. PICK b \in Block : b = candidates[p][i].block  BY <2>1
  <2>3. bc'[p] = b  BY <2>1, <2>2
  <2>4. /\ Len(b) = Size(p) /\ b \in Voted(q, TRUE) /\ b \in AnyProposed
        /\ \A y : Holds(p, y)' <=> Holds(p, y) \/ y = b
        /\ \A y : Backs(p, y) => Holds(p, y)
                      \/ /\ y \in Block /\ Len(y) = Len(b) /\ HashLeq(b, y)
    BY <2>1, <2>2, <2>3, FinishView
  <2>5. b \in Beginnings(bc[q]) \/ bc[q] \in Beginnings(b)
    BY <2>1, <2>2, <2>3, FinishComparable
  <2>6. /\ bc'[q] = bc[q] /\ votes'[q] = votes[q] /\ candidates'[q] = candidates[q]
    BY <1>1 DEF OthersKeep
  <2> HIDE DEF q
  <2>7. \A r : /\ Proposed(r)' = Proposed(r) /\ Voted(r, TRUE)' = Voted(r, TRUE)
               /\ Voted(r, FALSE)' = Voted(r, FALSE)
    BY <1>3 DEF Proposed, Voted
  <2>8. \A r : Leading(r)' = Leading(r)  BY <2>7 DEF Leading
  <2>9. \A y : /\ Holds(q, y)' <=> Holds(q, y)
               /\ Backs(q, y)' <=> Backs(q, y)
               /\ Supports(q, y)' <=> Supports(q, y)
               /\ Refusing(q, y)' <=> Refusing(q, y)
               /\ Supports(p, y) <=> Backs(p, y)
               /\ ~Refusing(p, y)
    BY <1>3, <2>6
    DEF Holds, Backs, Supports, Refusing, Waits, Innermost, Size
  <2>10. \A y : Holds(p, y)' => Supports(p, y)' /\ Backs(p, y)'
    BY DEF Supports, Backs
\* A leading candidate is the one added.
  <2>11. \A y \in Leading(p) \cup Leading(q) : Backs(p, y) => Holds(p, y)'
    <3> SUFFICES ASSUME NEW r \in {p, q}, NEW y \in Leading(r), Backs(p, y),
                        ~Holds(p, y)
                 PROVE  y = b
      BY <2>4
    <3>1. y \in Block /\ Len(y) = Len(b) /\ HashLeq(b, y)  BY <2>4
    <3> QED  BY <1>1, <2>4, <3>1, BestLeads
  <2>12. /\ \A y \in Leading(p) \cup Leading(q) : Len(y) \in Nat
         /\ Len(bc'[p]) = Len(bc[p]) + 1
    BY <1>1, <2>3, <2>4, LeadingFields
  <2>13. Settled(q)'
    <3>1. Supported(q)'
      <4> SUFFICES ASSUME NEW y \in Leading(q), y \in Voted(p, TRUE) \/ Holds(q, y)
                   PROVE  Holds(p, y)'
        BY <1>1, <2>7, <2>8, <2>9, <2>10 DEF Supported
      <4> QED  BY <1>1, <1>2, <2>9, <2>11 DEF Settled, Supported
    <3>2. Confirmed(q)'
      <4> SUFFICES ASSUME NEW y \in Leading(q),
                          \/ y \in Voted(q, TRUE)
                          \/ Holds(p, y)' /\ Len(y) > Len(InitialChain(p))
                   PROVE  Backs(q, y)
        BY <1>1, <2>7, <2>8, <2>9 DEF Confirmed
      <4>1. \/ y \in Voted(q, TRUE)
            \/ Holds(p, y) /\ Len(y) > Len(InitialChain(p))
        BY <2>4
      <4> QED  BY <1>1, <1>2, <4>1 DEF Settled, Confirmed
    <3>3. Rejected(q)'
      <4> SUFFICES ASSUME NEW y \in Leading(q),
                          y \in Voted(p, FALSE) \cup Voted(q, FALSE)
                   PROVE  Len(y) <= Len(bc'[p])
        BY <1>1, <2>7, <2>8 DEF Rejected
      <4>1. Len(y) <= Len(bc[p])  BY <1>1, <1>2, <2>9 DEF Settled, Rejected
      <4> QED  BY <1>1, <2>12, <4>1
    <3>4. Undisturbed(q)'  BY <1>2, <2>6, <2>8 DEF Settled, Undisturbed
    <3> QED  BY <3>1, <3>2, <3>3, <3>4 DEF Settled
  <2>14. Settled(p)'
    <3>1. Supported(p)'
      <4> SUFFICES ASSUME NEW y \in Leading(p), y \in Voted(q, TRUE) \/ Holds(p, y)'
                   PROVE  Supports(q, y)
        BY <1>1, <2>7, <2>8, <2>9 DEF Supported
      <4>1. y \in Voted(q, TRUE) \/ Holds(p, y)  BY <2>4
      <4> QED  BY <1>1, <1>2, <4>1 DEF Settled, Supported
    <3>2. Confirmed(p)'
      <4> SUFFICES ASSUME NEW y \in Leading(p),
                          \/ y \in Voted(p, TRUE)
                          \/ Holds(q, y) /\ Len(y) > Len(InitialChain(q))
                   PROVE  Holds(p, y)'
        BY <1>1, <2>7, <2>8, <2>9, <2>10 DEF Confirmed
      <4>1. Backs(p, y)  BY <1>1, <1>2 DEF Settled, Confirmed
      <4> QED  BY <2>11, <4>1
    <3>3. Rejected(p)'
      <4> SUFFICES ASSUME NEW y \in Leading(p),
                          y \in Voted(q, FALSE) \cup Voted(p, FALSE)
                   PROVE  Len(y) <= Len(bc[q]) \/ Refusing(q, y)
        BY <1>1, <2>6, <2>7, <2>8, <2>9 DEF Rejected
      <4> QED  BY <1>1, <1>2 DEF Settled, Rejected
    <3>4. Undisturbed(p)'  BY <1>2, <1>3, <2>8 DEF Settled, Undisturbed
    <3> QED  BY <3>1, <3>2, <3>3, <3>4 DEF Settled
  <2>15. Comparable(p)'  BY <1>1, <2>3, <2>5, <2>6 DEF Comparable
  <2> QED  BY <1>1, <2>13, <2>14, <2>15, AlignedAt
<1> QED  BY <1>4, <1>5, FinishEffect

----------------------------------------------------------------------------
(* Theorem *)

LEMMA AlignedStep ==
    ASSUME PairInv, Aligned, HashOrder, NEW p \in Peers, Effect(p), ~TimesOut(p)
    PROVE  Aligned'
<1>1. OthersKeep(p)  BY DEF Effect
<1>2. CASE p \in Proposers /\ Other(p) \in Others(p) /\ Acts(p)
  <2>1. CASE Chats(p)  BY <1>1, <1>2, <2>1, AlignedChats
  <2>2. CASE Syncs(p)  BY <1>1, <1>2, <2>2, AlignedSyncs
  <2>3. CASE Proposes(p)  BY <1>1, <1>2, <2>3, AlignedProposes
  <2>4. CASE Returns(p)  BY <1>1, <1>2, <2>4, AlignedReturns
  <2>5. CASE Finishes(p)  BY <1>1, <1>2, <2>5, AlignedFinishes
  <2>6. CASE \E m \in Requests(p) : Handles(p, m) \/ Refuses(p, m)
    BY <1>1, <1>2, <2>6, AlignedHandles, AlignedRefuses
  <2>7. CASE \E w \in Voting : Tallies(p, w)
    BY <1>1, <1>2, <2>7, AlignedTallies
  <2> QED  BY <1>2, <2>1, <2>2, <2>3, <2>4, <2>5, <2>6, <2>7 DEF Acts
<1>3. CASE UNCHANGED <<bc, transactions, round, votes, candidates, sent>>
  BY <1>3, AlignedUnchanged
<1> QED  BY <1>2, <1>3 DEF Effect

LEMMA ForkStep == HashOrder /\ ForkInv /\ [HistoryNext]_<<vars, history>> => ForkInv'
<1> SUFFICES ASSUME HashOrder, ForkInv, [HistoryNext]_<<vars, history>>, ~expired'
             PROVE  Aligned'
  BY PairStep DEF ForkInv
<1>1. PairInv  BY DEF ForkInv
<1>2. CASE HistoryNext
  <2>1. ~expired /\ \A p \in Peers : ~TimesOut(p)  BY <1>2 DEF HistoryNext
  <2>2. Aligned  BY <2>1 DEF ForkInv
  <2>3. PICK p \in Peers : Effect(p)  BY <1>1, <1>2, NextEffect DEF PairInv
  <2> QED  BY <1>1, <2>1, <2>2, <2>3, AlignedStep
<1>3. CASE UNCHANGED <<vars, history>>
  <2>1. UNCHANGED <<bc, votes, candidates, sent, expired>>
    BY <1>3 DEF vars, mainVars, history
  <2> QED  BY <2>1, AlignedUnchanged DEF ForkInv
<1> QED  BY <1>2, <1>3

LEMMA ForkInit == HistoryInit => ForkInv
<1> SUFFICES ASSUME HistoryInit PROVE Aligned  BY PairInit DEF ForkInv
<1>1. /\ sent = {}
      /\ \A p \in Peers : bc[p] = InitialChain(p) /\ votes[p] = <<>>
  BY DEF HistoryInit, Init
<1>2. \A r : Leading(r) = {}  BY <1>1 DEF Leading, Proposed
<1>3. ASSUME NEW p \in Proposers PROVE Settled(p)
  <2>1. p \in Peers  BY ProposerFacts
  <2> QED
    BY <1>1, <1>2, <2>1
    DEF Settled, Supported, Confirmed, Rejected, Undisturbed
<1>4. ASSUME NEW p \in Proposers PROVE Comparable(p)
  <2>1. PICK r \in Proposers : IsPrefix(InitialChain(r), InitialChain(Other(r)))
    BY ProposersAssumption
  <2>2. /\ r \in Peers /\ Other(r) \in Peers /\ p \in {r, Other(r)}
        /\ Other(Other(r)) = r
    BY ProposerFacts
  <2>3. InitialChain(r) \in Beginnings(InitialChain(Other(r)))
    BY <2>1, <2>2, InitialChainType, PrefixIs
  <2>4. bc[r] \in Beginnings(bc[Other(r)])  BY <1>1, <2>2, <2>3
  <2> QED  BY <2>2, <2>4 DEF Comparable
<1> QED  BY <1>3, <1>4 DEF Aligned

\* The chains of all peers agree: those of the silent ones are the chains that
\* they loaded, which both proposers loaded too.
LEMMA ForkInvAgree == ForkInv => ForksNeedTimeouts
<1> SUFFICES ASSUME PairInv, Aligned, NEW p \in Peers, NEW q \in Peers
             PROVE  IsPrefix(bc[p], bc[q]) \/ IsPrefix(bc[q], bc[p])
  BY DEF ForkInv, ForksNeedTimeouts, ChainsAgree
<1>1. bc \in [Peers -> Chain]  BY PairTypes, ProposerFacts DEF Proposers
<1>2. \A r \in Peers, s \in Peers :
         bc[r] \in Beginnings(bc[s]) => IsPrefix(bc[r], bc[s])
  BY <1>1, PrefixIs
<1>3. ASSUME NEW r \in Peers \ Proposers, NEW s \in Proposers
      PROVE  bc[r] \in Beginnings(bc[s])
  <2>1. bc[r] = InitialChain(r)  BY DEF PairInv, SilentPart
  <2>2. s \in Peers /\ InitialChain(s) \in Beginnings(bc[s])
    BY ProposerFacts DEF PairInv, ProposerAt, ChainPart
  <2>3. InitialChain(r) \in Beginnings(InitialChain(s))
    BY <2>2, ProposersAssumption, InitialChainType, PrefixIs
  <2> QED  BY <1>1, <2>1, <2>2, <2>3, BeginningsGrow
<1>4. CASE p \in Proposers /\ q \in Proposers
  <2>1. q = p \/ q = Other(p)  BY <1>4, ProposerFacts
  <2>2. CASE q = p  BY <1>1, <1>2, <2>2, WholeIsBeginning
  <2>3. CASE q = Other(p)  BY <1>2, <1>4, <2>3 DEF Aligned, Comparable
  <2> QED  BY <2>1, <2>2, <2>3
<1>5. CASE p \notin Proposers /\ q \in Proposers  BY <1>2, <1>3, <1>5
<1>6. CASE p \in Proposers /\ q \notin Proposers  BY <1>2, <1>3, <1>6
<1>7. CASE p \notin Proposers /\ q \notin Proposers
  <2>1. First \in Proposers /\ First \in Peers  BY ProposerFacts DEF Proposers
  <2>2. /\ bc[p] \in Beginnings(bc[First]) /\ bc[q] \in Beginnings(bc[First])
        /\ bc[First] \in Chain
    BY <1>1, <1>3, <1>7, <2>1
  <2>3. Len(bc[p]) \in Nat /\ Len(bc[q]) \in Nat  BY <2>2, BeginningFields
  <2>4. Len(bc[p]) <= Len(bc[q]) \/ Len(bc[q]) <= Len(bc[p])  BY <2>3
  <2> QED  BY <1>2, <2>2, <2>4, PartOfBeginning
<1> QED  BY <1>4, <1>5, <1>6, <1>7

\* As long as no activation of CheckVotesForBlock has timed out
\* (application.cc:727-731), the chains of two competing peers do not fork, if
\* the hashes of blocks are totally ordered (844-906, 659-687).
THEOREM ChainsForkOnlyByTimeouts ==
    ASSUME HashOrder
    PROVE  HistorySpec => []ForksNeedTimeouts
<1>1. ForkInv /\ [HistoryNext]_<<vars, history>> => ForkInv'  BY ForkStep
<1> QED  BY <1>1, ForkInit, ForkInvAgree, PTL DEF HistorySpec

\* Timeouts of votes or not: what a proposer has added was loaded or proposed by
\* one of the two, and every candidate it holds was proposed for the end of its
\* chain and has a vote of the other in its favour (application.cc:504-579,
\* 710-741, 904-908).
THEOREM ProposalsOnly ==
    HistorySpec => [](\A p \in Proposers : /\ ChainPart(p)
                                           /\ candidates[p] \in Seq(Elected(p)))
<1>1. PairInv => \A p \in Proposers : /\ ChainPart(p)
                                      /\ candidates[p] \in Seq(Elected(p))
  BY DEF PairInv, ProposerAt, VotePart
<1>2. PairInv /\ [HistoryNext]_<<vars, history>> => PairInv'  BY PairStep
<1> QED  BY <1>1, <1>2, PairInit, PTL DEF HistorySpec
=============================================================================
