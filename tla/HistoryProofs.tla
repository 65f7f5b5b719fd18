--------------------------- MODULE HistoryProofs ---------------------------
(***************************************************************************)
(* Every vote that ends with true had a majority of real votes, for any    *)
(* number of peers, any faults of the network and any peer lists.          *)
(***************************************************************************)
EXTENDS VoteHistory, SafetyProofs

----------------------------------------------------------------------------
(* The inductive invariant *)

\* A message that carries a block has been sent.
Known == {m \in Message : m.block # <<>> => m \in sent}

\* The votes in favour that an activation has counted were sent, each by a
\* peer of its own, for its block, but for the vote of the peer itself, which
\* counts among them only if it is in favour.
Backed(p) ==
    {v \in Voting :
        /\ v.aside \in Seq(Known)
        /\ v.n_agrees <= Cardinality(Supporters(p, v.block) \cap v.seen)
                           + InFavour(v.agree)}

Ended == [peer: Peers, block: Block, n_peers: Nat, agree: BOOLEAN]
EndorsedVotes ==
    {v \in Ended : EndorsedBlock(v.peer, v.block, v.n_peers, v.agree)}

\* A peer that is not idle has received its list.
ListKnown(p) == online[p] \/ pc[p] # "Run" => netinfo[p] \in Netinfos[p]

HistoryAt(p) == /\ inbox[p] \in Seq(Known)
                /\ aside[p] \in Seq(Known)
                /\ held[p] \subseteq Known
                /\ votes[p] \in Seq(Backed(p))
                /\ ListKnown(p)

HistoryInv == /\ SafeInv
              /\ sent \subseteq Message
              /\ net \subseteq Known
              /\ passed \subseteq EndorsedVotes
              /\ \A p \in Peers : HistoryAt(p)

----------------------------------------------------------------------------
(* Supporters *)

LEMMA OneOrNone == ASSUME NEW agree PROVE InFavour(agree) \in {0, 1}
BY DEF InFavour

LEMMA SupportersFinite ==
    ASSUME sent \subseteq Message, NEW p \in Peers, NEW b,
           NEW S \in SUBSET Peers
    PROVE  /\ Supporters(p, b) \in SUBSET Peers
           /\ IsFiniteSet(Supporters(p, b) \cap S)
           /\ Cardinality(Supporters(p, b) \cap S) \in Nat
           /\ Cardinality(Supporters(p, b)) \in Nat
           /\ Cardinality(Supporters(p, b) \cap S)
                <= Cardinality(Supporters(p, b))
<1>1. Supporters(p, b) \in SUBSET Peers
  BY MessageFields DEF Supporters
<1>2. IsFiniteSet(Supporters(p, b)) /\ IsFiniteSet(Supporters(p, b) \cap S)
  BY <1>1, PeersAssumption, FS_Subset
<1> QED  BY <1>1, <1>2, FS_CardinalityType, FS_Subset

\* A history that grows takes no supporter away.
LEMMA SupportersGrow ==
    ASSUME sent \subseteq sent', sent' \subseteq Message,
           NEW p \in Peers, NEW b, NEW S \in SUBSET Peers
    PROVE  /\ Cardinality(Supporters(p, b)) <= Cardinality(Supporters(p, b)')
           /\ Cardinality(Supporters(p, b) \cap S)
                <= Cardinality(Supporters(p, b)' \cap S)
<1>1. Supporters(p, b) \subseteq Supporters(p, b)'
  BY DEF Supporters
<1>2. Supporters(p, b)' \in SUBSET Peers
  BY MessageFields DEF Supporters
<1>3. /\ IsFiniteSet(Supporters(p, b)')
      /\ IsFiniteSet(Supporters(p, b)' \cap S)
  BY <1>2, PeersAssumption, FS_Subset
<1>4. Supporters(p, b) \cap S \subseteq Supporters(p, b)' \cap S
  BY <1>1
<1> QED  BY <1>1, <1>3, <1>4, FS_Subset

\* The invariant's sets only grow with the history.
LEMMA BackedGrows ==
    ASSUME sent \subseteq sent', sent' \subseteq Message
    PROVE  /\ Known \subseteq Known'
           /\ EndorsedVotes \subseteq EndorsedVotes'
           /\ \A p \in Peers : Backed(p) \subseteq Backed(p)'
<1>1. Known \subseteq Known'  BY DEF Known
<1>2. sent \subseteq Message  OBVIOUS
<1>3. ASSUME NEW p \in Peers, NEW v \in Backed(p) PROVE v \in Backed(p)'
  <2>1. /\ v \in Voting /\ v.seen \in SUBSET Peers /\ v.n_agrees \in Nat
        /\ v.aside \in Seq(Known)
        /\ v.n_agrees <= Cardinality(Supporters(p, v.block) \cap v.seen)
                           + InFavour(v.agree)
    BY DEF Backed, Voting
  <2>2. v.aside \in Seq(Known')  BY <1>1, <2>1, SeqMonotonic
  <2>3. /\ Cardinality(Supporters(p, v.block) \cap v.seen)
             <= Cardinality(Supporters(p, v.block)' \cap v.seen)
        /\ Cardinality(Supporters(p, v.block) \cap v.seen) \in Nat
    BY <1>2, <2>1, SupportersGrow, SupportersFinite
  <2>4. Cardinality(Supporters(p, v.block)' \cap v.seen) \in Nat
    <3>1. Supporters(p, v.block)' \in SUBSET Peers
      BY MessageFields DEF Supporters
    <3> QED  BY <2>1, <3>1, PeersAssumption, FS_Subset, FS_CardinalityType
  <2>5. v.n_agrees <= Cardinality(Supporters(p, v.block)' \cap v.seen)
                        + InFavour(v.agree)
    BY <2>1, <2>3, <2>4, OneOrNone
  <2> QED  BY <2>1, <2>2, <2>5 DEF Backed
<1>4. ASSUME NEW v \in EndorsedVotes PROVE v \in EndorsedVotes'
  <2>1. /\ v \in Ended /\ v.peer \in Peers /\ v.n_peers \in Nat
        /\ Cardinality(Supporters(v.peer, v.block)) + InFavour(v.agree)
             > v.n_peers \div 2
    BY DEF EndorsedVotes, EndorsedBlock, Ended
  <2>2. /\ Cardinality(Supporters(v.peer, v.block))
             <= Cardinality(Supporters(v.peer, v.block)')
        /\ Cardinality(Supporters(v.peer, v.block)) \in Nat
    BY <1>2, <2>1, SupportersGrow, SupportersFinite
  <2>3. Cardinality(Supporters(v.peer, v.block)') \in Nat
    <3>1. Supporters(v.peer, v.block)' \in SUBSET Peers
      BY MessageFields DEF Supporters
    <3> QED  BY <3>1, PeersAssumption, FS_Subset, FS_CardinalityType
  <2>4. v.n_peers \div 2 \in Nat  BY <2>1
  <2>5. Cardinality(Supporters(v.peer, v.block)') + InFavour(v.agree)
          > v.n_peers \div 2
    BY <2>1, <2>2, <2>3, <2>4, OneOrNone
  <2> QED  BY <2>1, <2>5 DEF EndorsedVotes, EndorsedBlock
<1> QED  BY <1>1, <1>3, <1>4

\* A vote that is counted is one supporter more, if it agrees.
LEMMA CountBacked ==
    ASSUME HistoryInv, NEW p \in Peers, NEW v \in Backed(p),
           NEW m \in Known, m \in Mail(p), m.type = "VOTE",
           Counts(p, v, m)
    PROVE  Count(v, m) \in Backed(p)
<1>1. /\ v \in Voting /\ v.seen \in SUBSET Peers /\ v.n_agrees \in Nat
      /\ v.aside \in Seq(Known)
      /\ v.n_agrees <= Cardinality(Supporters(p, v.block) \cap v.seen)
                         + InFavour(v.agree)
  BY DEF Backed, Voting
<1>2. /\ m \in sent /\ m.to = p /\ m.block = v.block /\ m.from \notin v.seen
      /\ m \in Message /\ m.from \in Peers /\ m.agree \in BOOLEAN
  BY MessageFields, LastOfBlock DEF Known, Mail, Counts
<1> DEFINE w == Count(v, m)
           S == Supporters(p, v.block)
<1>3. w \in Voting  BY <1>1, <1>2, CountType
<1>4. /\ w.seen = v.seen \cup {m.from} /\ w.block = v.block
      /\ w.aside = v.aside /\ w.n_peers = v.n_peers /\ w.agree = v.agree
      /\ w.n_agrees = IF m.agree THEN v.n_agrees + 1 ELSE v.n_agrees
  BY <1>1 DEF Count, Voting
<1> HIDE DEF w
<1>5. sent \subseteq Message  BY DEF HistoryInv
<1>6. w.seen \in SUBSET Peers  BY <1>1, <1>2, <1>4
<1>7. /\ IsFiniteSet(S \cap v.seen) /\ Cardinality(S \cap v.seen) \in Nat
      /\ IsFiniteSet(S \cap w.seen) /\ Cardinality(S \cap w.seen) \in Nat
  BY <1>1, <1>5, <1>6, SupportersFinite
<1>8. CASE m.agree
  <2>1. m.from \in S  BY <1>2, <1>8 DEF Supporters
  <2>2. S \cap w.seen = (S \cap v.seen) \cup {m.from}
        /\ m.from \notin S \cap v.seen
    BY <1>2, <1>4, <2>1
  <2>3. Cardinality(S \cap w.seen) = Cardinality(S \cap v.seen) + 1
    BY <1>7, <2>2, FS_AddElement
  <2>4. w.n_agrees <= Cardinality(S \cap w.seen) + InFavour(w.agree)
    BY <1>1, <1>4, <1>7, <1>8, <2>3, OneOrNone
  <2> QED  BY <1>1, <1>3, <1>4, <2>4 DEF Backed, w
<1>9. CASE ~m.agree
  <2>1. S \cap v.seen \subseteq S \cap w.seen  BY <1>4
  <2>2. Cardinality(S \cap v.seen) <= Cardinality(S \cap w.seen)
    BY <1>7, <2>1, FS_Subset
  <2>3. w.n_agrees <= Cardinality(S \cap w.seen) + InFavour(w.agree)
    BY <1>1, <1>4, <1>7, <1>9, <2>2, OneOrNone
  <2> QED  BY <1>1, <1>3, <1>4, <2>3 DEF Backed, w
<1> QED  BY <1>2, <1>8, <1>9

\* What is accepted is endorsed, by either of the two ways to accept.
LEMMA AcceptedEndorsed ==
    ASSUME HistoryInv, NEW p \in Peers, NEW v \in Backed(p),
           v \in Counted(p, Size(p)), Accepted(v)
    PROVE  EndorsedBlock(p, v.block, v.n_peers, v.agree)
<1>1. /\ v.seen \in SUBSET Peers /\ v.n_agrees \in Nat /\ v.n_disagrees \in Nat
      /\ v.n_peers \in Nat
      /\ v.n_agrees <= Cardinality(Supporters(p, v.block) \cap v.seen)
                         + InFavour(v.agree)
      /\ v.n_agrees + v.n_disagrees = Cardinality(v.seen) + 1
      /\ Cardinality(v.seen) + 1 <= v.n_peers
      /\ Cardinality(v.seen) \in Nat
  BY SeenFinite DEF Backed, Voting, Counted
<1>2. v.n_agrees > v.n_peers \div 2
  <2>1. CASE MoreThanHalfAgree(v)  BY <2>1 DEF MoreThanHalfAgree
  <2>2. CASE /\ AllVoted(v)
             /\ v.n_agrees > v.n_disagrees + v.n_peers
                               - (Cardinality(v.seen) + 1)
    <3>1. Cardinality(v.seen) + 1 = v.n_peers
      BY <1>1, <2>2 DEF AllVoted
    <3>2. v.n_agrees > v.n_disagrees /\ v.n_agrees + v.n_disagrees = v.n_peers
      BY <1>1, <2>2, <3>1
    <3> QED  BY <1>1, <3>2
  <2> QED  BY <2>1, <2>2 DEF Accepted
<1>3. sent \subseteq Message  BY DEF HistoryInv
<1>4. /\ Cardinality(Supporters(p, v.block) \cap v.seen)
           <= Cardinality(Supporters(p, v.block))
      /\ Cardinality(Supporters(p, v.block) \cap v.seen) \in Nat
      /\ Cardinality(Supporters(p, v.block)) \in Nat
  BY <1>1, <1>3, SupportersFinite
<1>5. Cardinality(Supporters(p, v.block)) + InFavour(v.agree) > v.n_peers \div 2
  BY <1>1, <1>2, <1>4, OneOrNone
<1> QED  BY <1>1, <1>5 DEF EndorsedBlock

----------------------------------------------------------------------------
(* The steps *)

\* The history of a step.
Recorded == /\ sent' = sent \cup {m \in net' : m.block # <<>>}
            /\ passed' = passed \cup {PassedBy(p) : p \in {q \in Peers : Passing(q)}}

\* What is accepted in a step is endorsed.
Deserved(p) ==
    Passing(p) => /\ votes[p] # <<>>
                  /\ EndorsedBlock(p, Innermost(p).block, Innermost(p).n_peers,
                                   Innermost(p).agree)

\* What p has, with the names that HistoryAtStep asks for.
LEMMA HistoryTypes ==
    ASSUME HistoryInv, NEW p \in Peers
    PROVE  /\ TypeOK /\ SafeInv /\ HistoryAt(p) /\ net \subseteq Known
           /\ inbox[p] \in Seq(Known) /\ aside[p] \in Seq(Known)
           /\ held[p] \in SUBSET Known
           /\ votes[p] \in Seq(Backed(p))
           /\ inbox = [inbox EXCEPT ![p] = inbox[p]]
           /\ aside = [aside EXCEPT ![p] = aside[p]]
           /\ held = [held EXCEPT ![p] = held[p]]
           /\ votes = [votes EXCEPT ![p] = votes[p]]
BY DEF HistoryInv, SafeInv, TypeInv, TypeOK, HistoryAt

\* Nothing passes in a step that adds no candidate.
LEMMA NonePassing ==
    ASSUME TypeOK, NEW p \in Peers,
           candidates'[p] = candidates[p] \/ candidates'[p] = <<>>
    PROVE  ~Passing(p)
<1>1. Len(candidates[p]) \in Nat /\ Len(<<>>) = 0
  BY LenProperties, EmptySeq DEF TypeOK
<1> QED  BY <1>1 DEF Passing

LEMMA TakeKnown ==
    ASSUME HistoryInv, NEW p \in Peers, inbox[p] # <<>>
    PROVE  /\ Oldest(p) \in Known /\ Oldest(p) \in Message
           /\ Oldest(p) \in Mail(p)
           /\ Tail(inbox[p]) \in Seq(Known)
           /\ Take(p) => \E s \in Seq(Known) : inbox' = [inbox EXCEPT ![p] = s]
<1>1. inbox[p] \in Seq(Known) /\ inbox[p] \in Seq(Mail(p))
  BY HistoryTypes DEF SafeInv, PeerInv, MailInv
<1>2. /\ Head(inbox[p]) \in Known /\ Tail(inbox[p]) \in Seq(Known)
      /\ Head(inbox[p]) \in Mail(p)
  BY <1>1, HeadTailProperties
<1> QED  BY <1>2 DEF Oldest, Take, Known

\* What a step adds to the history.
LEMMA HistoryGrows ==
    ASSUME HistoryInv, SafeInv', Recorded, \A p \in Peers : Deserved(p)
    PROVE  /\ TypeOK /\ TypeOK'
           /\ sent' \subseteq Message /\ net' \subseteq Known'
           /\ passed' \subseteq EndorsedVotes'
           /\ Known \subseteq Known'
           /\ \A p \in Peers : Backed(p) \subseteq Backed(p)'
<1>1. TypeOK /\ TypeOK' /\ sent \subseteq Message /\ passed \subseteq EndorsedVotes
  BY DEF HistoryInv, SafeInv, TypeInv
<1>2. sent \subseteq sent' /\ sent' \subseteq Message /\ net' \subseteq Known'
  BY <1>1 DEF Recorded, Known, TypeOK
<1>3. /\ Known \subseteq Known' /\ EndorsedVotes \subseteq EndorsedVotes'
      /\ \A p \in Peers : Backed(p) \subseteq Backed(p)'
  BY <1>2, BackedGrows
<1>4. ASSUME NEW p \in Peers, Passing(p) PROVE PassedBy(p) \in EndorsedVotes
  <2>1. /\ votes[p] \in Seq(Voting) /\ votes[p] # <<>>
        /\ EndorsedBlock(p, Innermost(p).block, Innermost(p).n_peers,
                         Innermost(p).agree)
    BY <1>1, <1>4 DEF TypeOK, Deserved
  <2>2. Innermost(p) \in Voting  BY <2>1, HeadTailProperties DEF Innermost
  <2>3. /\ Innermost(p).block \in Block /\ Innermost(p).n_peers \in Nat
        /\ Innermost(p).agree \in BOOLEAN
    BY <2>2 DEF Voting
  <2>4. PassedBy(p) \in Ended  BY <2>3 DEF PassedBy, Ended
  <2>5. /\ PassedBy(p).peer = p /\ PassedBy(p).block = Innermost(p).block
        /\ PassedBy(p).n_peers = Innermost(p).n_peers
        /\ PassedBy(p).agree = Innermost(p).agree
    BY DEF PassedBy
  <2> QED  BY <2>1, <2>4, <2>5 DEF EndorsedVotes
<1>5. passed' \subseteq EndorsedVotes  BY <1>1, <1>4 DEF Recorded
<1> QED  BY <1>1, <1>2, <1>3, <1>5

\* A step that disturbs one peer only and changes no peer list.
LEMMA HistoryAtStep ==
    ASSUME HistoryInv, SafeInv', Recorded, NEW p \in Peers,
           UNCHANGED <<netinfo, online>>,
           \E s \in Seq(Known) : inbox' = [inbox EXCEPT ![p] = s],
           \E s \in Seq(Known) : aside' = [aside EXCEPT ![p] = s],
           \E S \in SUBSET Known : held' = [held EXCEPT ![p] = S],
           \E s \in Seq(Backed(p)) : votes' = [votes EXCEPT ![p] = s],
           Deserved(p),
           UNCHANGED pc \/ online[p] \/ pc[p] # "Run",
           \A q \in Peers \ {p} : /\ pc'[q] = pc[q]
                                  /\ candidates'[q] = candidates[q]
    PROVE  HistoryInv'
<1>1. TypeOK  BY HistoryTypes
<1>2. \A q \in Peers : Deserved(q)  BY <1>1, NonePassing DEF Deserved
<1>3. /\ TypeOK' /\ sent' \subseteq Message /\ net' \subseteq Known'
      /\ passed' \subseteq EndorsedVotes' /\ Known \subseteq Known'
      /\ \A q \in Peers : Backed(q) \subseteq Backed(q)'
  BY <1>2, HistoryGrows
<1>4. ASSUME NEW q \in Peers PROVE HistoryAt(q)'
  <2>1. HistoryAt(q) /\ HistoryAt(p)  BY <1>4 DEF HistoryInv
  <2>2. /\ inbox'[q] \in Seq(Known) /\ aside'[q] \in Seq(Known)
        /\ held'[q] \subseteq Known /\ votes'[q] \in Seq(Backed(q))
    BY <1>1, <2>1 DEF TypeOK, HistoryAt
  <2>3. /\ inbox'[q] \in Seq(Known') /\ aside'[q] \in Seq(Known')
        /\ held'[q] \subseteq Known' /\ votes'[q] \in Seq(Backed(q)')
    BY <1>3, <2>2, SeqMonotonic
  <2>4. ListKnown(q)'  BY <2>1 DEF HistoryAt, ListKnown
  <2> QED  BY <2>3, <2>4 DEF HistoryAt
<1> QED  BY <1>3, <1>4 DEF HistoryInv

LEMMA HistoryReceive ==
    ASSUME HistoryInv, SafeInv', Recorded, NEW m \in net, Receive(m)
    PROVE  HistoryInv'
<1> DEFINE p == m.to
<1>1. m \in Known /\ p \in Peers
  BY MessageFields DEF HistoryInv, Known
<1>2. inbox' = [inbox EXCEPT ![p] = Append(inbox[p], m)]  BY DEF Receive
<1>3. UNCHANGED <<pc, held, votes, candidates, aside, netinfo, online>>
  BY DEF Receive, mainVars, trackerVars
<1> HIDE DEF p
<1>4. Append(inbox[p], m) \in Seq(Known)
  BY <1>1, HistoryTypes, AppendProperties
<1>5. /\ \E s \in Seq(Known) : inbox' = [inbox EXCEPT ![p] = s]
      /\ \E s \in Seq(Known) : aside' = [aside EXCEPT ![p] = s]
      /\ \E S \in SUBSET Known : held' = [held EXCEPT ![p] = S]
      /\ \E s \in Seq(Backed(p)) : votes' = [votes EXCEPT ![p] = s]
  BY <1>1, <1>2, <1>3, <1>4, HistoryTypes
<1>6. Deserved(p)  BY <1>1, <1>3, HistoryTypes, NonePassing DEF Deserved
<1> QED  BY <1>1, <1>3, <1>5, <1>6, HistoryAtStep

LEMMA HistoryReceiveNetinfo ==
    ASSUME HistoryInv, SafeInv', Recorded, NEW p \in Peers, ReceiveNetinfo(p)
    PROVE  HistoryInv'
<1>1. /\ UNCHANGED <<pc, held, votes, candidates, aside, inbox>>
      /\ netinfo'[p] \in Netinfos[p]
      /\ \A q \in Peers \ {p} : /\ netinfo'[q] = netinfo[q]
                               /\ online'[q] = online[q]
  BY HistoryTypes DEF ReceiveNetinfo, mainVars, TypeOK
<1>2. \A q \in Peers : Deserved(q)
  BY <1>1, HistoryTypes, NonePassing DEF Deserved
<1>3. /\ sent' \subseteq Message /\ net' \subseteq Known'
      /\ passed' \subseteq EndorsedVotes' /\ Known \subseteq Known'
      /\ \A q \in Peers : Backed(q) \subseteq Backed(q)'
  BY <1>2, HistoryGrows
<1>4. ASSUME NEW q \in Peers PROVE HistoryAt(q)'
  <2>1. HistoryAt(q)  BY DEF HistoryInv
  <2>2. /\ inbox'[q] \in Seq(Known') /\ aside'[q] \in Seq(Known')
        /\ held'[q] \subseteq Known' /\ votes'[q] \in Seq(Backed(q)')
    BY <1>1, <1>3, <2>1, SeqMonotonic DEF HistoryAt
  <2>3. ListKnown(q)'  BY <1>1, <2>1 DEF HistoryAt, ListKnown
  <2> QED  BY <2>2, <2>3 DEF HistoryAt
<1> QED  BY <1>3, <1>4 DEF HistoryInv

LEMMA HistoryRun ==
    ASSUME HistoryInv, SafeInv', Recorded, NEW p \in Peers, Run(p)
    PROVE  HistoryInv'
<1>1. TypeOK  BY HistoryTypes
<1>2. /\ UNCHANGED <<votes, candidates, aside, netinfo, online>>
      /\ online[p]
      /\ pc' \in {pc, [pc EXCEPT ![p] = "RequestBlockchain"]}
  BY DEF Run, RunRefresh, RunRequestBlock, RunAddRequest, RunFree,
         RunTransaction, RunNoMessages, CallRequestBlockchain, mainVars,
         trackerVars, Idle
<1>3. \E s \in Seq(Known) : inbox' = [inbox EXCEPT ![p] = s]
  <2>1. CASE UNCHANGED inbox  BY <2>1, HistoryTypes
  <2>2. CASE inbox[p] # <<>> /\ Take(p)  BY <2>2, TakeKnown
  <2> QED
    BY <2>1, <2>2
    DEF Run, RunRefresh, RunRequestBlock, RunAddRequest, RunFree,
        RunTransaction, RunNoMessages, Pending
<1>4. \E S \in SUBSET Known : held' = [held EXCEPT ![p] = S]
  <2>1. CASE UNCHANGED held  BY <2>1, HistoryTypes
  <2>2. CASE RunAddRequest(p)
    <3>1. inbox[p] # <<>> /\ held' = [held EXCEPT ![p] = {Oldest(p)}]
      BY <2>2 DEF RunAddRequest, Pending
    <3> QED  BY <3>1, TakeKnown
  <2> QED
    BY <2>1, <2>2
    DEF Run, RunRefresh, RunRequestBlock, RunFree, RunTransaction,
        RunNoMessages, mainVars
<1>5. /\ \E s \in Seq(Known) : aside' = [aside EXCEPT ![p] = s]
      /\ \E s \in Seq(Backed(p)) : votes' = [votes EXCEPT ![p] = s]
  BY <1>2, HistoryTypes
<1>6. \A q \in Peers \ {p} : pc'[q] = pc[q] /\ candidates'[q] = candidates[q]
  BY <1>1, <1>2 DEF TypeOK
<1>7. Deserved(p)  BY <1>1, <1>2, NonePassing DEF Deserved
<1> QED  BY <1>2, <1>3, <1>4, <1>5, <1>6, <1>7, HistoryAtStep

LEMMA HistoryRequestBlockchain ==
    ASSUME HistoryInv, SafeInv', Recorded, NEW p \in Peers,
           RequestBlockchain(p)
    PROVE  HistoryInv'
<1>1. TypeOK /\ inbox[p] \in Seq(Known) /\ aside[p] \in Seq(Known)
  BY HistoryTypes
<1>2. /\ pc[p] # "Run"
      /\ UNCHANGED <<held, votes, candidates, netinfo, online>>
  BY DEF RequestBlockchain, RequestBlock, AwaitNoBlock, AwaitBlock,
         AwaitRequestBlock, AwaitFree, AwaitTimeout, AwaitReturn, trackerVars
<1> Deserved(p)  BY <1>1, <1>2, NonePassing DEF Deserved
<1>3. CASE RequestBlock(p) \/ AwaitTimeout(p) \/ AwaitReturn(p)
  <2>1. /\ \E s \in Seq(Known) : inbox' = [inbox EXCEPT ![p] = s]
        /\ \E s \in Seq(Known) : aside' = [aside EXCEPT ![p] = s]
    <3>1. inbox[p] \o aside[p] \in Seq(Known) /\ <<>> \in Seq(Known)
      BY <1>1, ConcatProperties, EmptySeq
    <3> QED
      BY <1>3, <3>1, HistoryTypes DEF RequestBlock, AwaitTimeout, AwaitReturn
  <2>2. \A q \in Peers \ {p} : pc'[q] = pc[q]
    BY <1>1, <1>3 DEF RequestBlock, AwaitTimeout, AwaitReturn, TypeOK
  <2> QED  BY <1>2, <2>1, <2>2, HistoryTypes, HistoryAtStep
<1>4. ASSUME NEW r, NEW kept \in Seq(Known), Conclude(p, r, kept),
             inbox[p] # <<>>
      PROVE  HistoryInv'
  <2>1. Tail(inbox[p]) \o kept \in Seq(Known) /\ <<>> \in Seq(Known)
    BY <1>4, TakeKnown, ConcatProperties, EmptySeq
  <2>2. \/ \E l : LeaveRound(p, kept, l)
        \/ aside' = [aside EXCEPT ![p] = kept] /\ Take(p) /\ UNCHANGED pc
    BY <1>4, Zenon DEF Conclude
  <2>3. /\ \E s \in Seq(Known) : inbox' = [inbox EXCEPT ![p] = s]
        /\ \E s \in Seq(Known) : aside' = [aside EXCEPT ![p] = s]
    BY <1>4, <2>1, <2>2, TakeKnown DEF LeaveRound
  <2>4. \A q \in Peers \ {p} : pc'[q] = pc[q]
    BY <1>1, <2>2 DEF LeaveRound, TypeOK
  <2> QED  BY <1>2, <2>3, <2>4, HistoryTypes, HistoryAtStep
<1>5. CASE AwaitNoBlock(p) \/ AwaitBlock(p) \/ AwaitFree(p)
  <2>1. inbox[p] # <<>> /\ \E r : Conclude(p, r, aside[p])
    BY <1>5, Zenon DEF AwaitNoBlock, AwaitBlock, AwaitFree, Pending
  <2> QED  BY <1>1, <1>4, <2>1
<1>6. CASE AwaitRequestBlock(p)
  <2>1. /\ inbox[p] # <<>>
        /\ \E r : \/ Conclude(p, r, aside[p])
                  \/ Conclude(p, r, Append(aside[p], Oldest(p)))
    BY <1>6, Zenon DEF AwaitRequestBlock, Pending
  <2>2. Append(aside[p], Oldest(p)) \in Seq(Known)
    BY <1>1, <2>1, TakeKnown, AppendProperties
  <2> QED  BY <1>1, <1>4, <2>1, <2>2
<1> QED  BY <1>3, <1>5, <1>6 DEF RequestBlockchain

\* A step of p while it handles addition requests.
LEMMA HistoryInside ==
    ASSUME HistoryInv, SafeInv', Recorded, NEW p \in Peers, pc[p] # "Run",
           UNCHANGED <<netinfo, online>>,
           \E l \in Location : pc' = [pc EXCEPT ![p] = l],
           \E s \in Seq(Known) : inbox' = [inbox EXCEPT ![p] = s],
           \E s \in Seq(Known) : aside' = [aside EXCEPT ![p] = s],
           UNCHANGED held \/ held' = [held EXCEPT ![p] = {}],
           \E s \in Seq(Backed(p)) : votes' = [votes EXCEPT ![p] = s],
           \/ UNCHANGED candidates
           \/ /\ Deserved(p)
              /\ \E s : candidates' = [candidates EXCEPT ![p] = s]
    PROVE  HistoryInv'
<1>1. TypeOK  BY HistoryTypes
<1>2. \A q \in Peers \ {p} : pc'[q] = pc[q] /\ candidates'[q] = candidates[q]
  BY <1>1 DEF TypeOK
<1>3. \E S \in SUBSET Known : held' = [held EXCEPT ![p] = S]
  <2>1. CASE UNCHANGED held  BY <2>1, HistoryTypes
  <2>2. CASE held' = [held EXCEPT ![p] = {}]  BY <2>2
  <2> QED  BY <2>1, <2>2
<1>4. Deserved(p)  BY <1>1, NonePassing DEF Deserved
<1> QED  BY <1>2, <1>3, <1>4, HistoryAtStep

\* At first only the peer itself may have agreed, and is counted if it has.
LEMMA NewBacked ==
    ASSUME HistoryInv, NEW p \in Peers, NEW b \in Block,
           NEW own \in BOOLEAN, NEW agree \in BOOLEAN
    PROVE  NewVoting(p, b, own, agree) \in Backed(p)
<1> DEFINE v == NewVoting(p, b, own, agree)
<1>1. v \in Voting  BY HistoryTypes, NewVotingType
<1>2. /\ v.aside = <<>> /\ v.seen = {} /\ v.block = b
      /\ v.n_agrees = InFavour(v.agree)
  BY DEF NewVoting, InFavour
<1>3. <<>> \in Seq(Known)  BY EmptySeq
<1>4. sent \subseteq Message /\ v.seen \in SUBSET Peers  BY <1>2 DEF HistoryInv
<1> HIDE DEF v
<1>5. Cardinality(Supporters(p, v.block) \cap v.seen) \in Nat
  BY <1>4, SupportersFinite
<1>6. v.n_agrees <= Cardinality(Supporters(p, v.block) \cap v.seen)
                      + InFavour(v.agree)
  BY <1>2, <1>5, OneOrNone
<1>7. v.aside \in Seq(Known)  BY <1>2, <1>3, Zenon
<1>8. v \in Backed(p)  BY <1>1, <1>6, <1>7 DEF Backed
<1> QED  BY <1>8 DEF v

LEMMA HistoryHandle ==
    ASSUME HistoryInv, NEW p \in Peers, NEW m \in AddRequest,
           \/ HandleBlockAdditionRequest(p, m)
           \/ RefuseBlockAdditionRequest(p, m)
    PROVE  \E s \in Seq(Backed(p)) : votes' = [votes EXCEPT ![p] = s]
<1>1. votes[p] \in Seq(Backed(p)) /\ votes = [votes EXCEPT ![p] = votes[p]]
  BY HistoryTypes
<1>2. CASE HandleBlockAdditionRequest(p, m)
  <2> DEFINE v == NewVoting(p, m.block, FALSE, Vote(p, m))
  <2>1. m.block \in Block /\ Vote(p, m) \in BOOLEAN
    BY DEF AddRequest, MessageOf, Vote, Continues
  <2>2. v \in Backed(p)  BY <2>1, NewBacked
  <2>3. votes' = [votes EXCEPT ![p] = <<v>> \o @]
    BY <1>2 DEF HandleBlockAdditionRequest
  <2> HIDE DEF v
  <2>4. <<v>> \o votes[p] \in Seq(Backed(p))
    BY <1>1, <2>2, SingletonSeq, ConcatProperties
  <2> QED  BY <2>3, <2>4
<1>3. CASE RefuseBlockAdditionRequest(p, m)
  BY <1>1, <1>3 DEF RefuseBlockAdditionRequest
<1> QED  BY <1>2, <1>3

LEMMA HistoryAdditionRequests ==
    ASSUME HistoryInv, SafeInv', Recorded, NEW p \in Peers, AdditionRequests(p)
    PROVE  HistoryInv'
<1>1. /\ TypeOK /\ SafeInv
      /\ inbox[p] \in Seq(Known) /\ aside[p] \in Seq(Known)
      /\ held[p] \in SUBSET Known
      /\ votes[p] \in Seq(Backed(p))
      /\ inbox = [inbox EXCEPT ![p] = inbox[p]]
      /\ aside = [aside EXCEPT ![p] = aside[p]]
      /\ votes = [votes EXCEPT ![p] = votes[p]]
  BY HistoryTypes
<1>2. /\ pc[p] # "Run" /\ UNCHANGED <<netinfo, online>>
      /\ \E l \in Location : pc' = [pc EXCEPT ![p] = l]
  <2>1. pc = [pc EXCEPT ![p] = pc[p]] /\ pc[p] \in Location
        /\ {"Run", "HandleAll", "Finish"} \subseteq Location
    BY <1>1 DEF TypeOK, Location
  <2> QED
    BY <2>1
    DEF AdditionRequests, AddBlockToBlockchain, HandleHeldRequest,
        HandleAllRequest, HandleAllSetAside, HandleAllBreak, HandleAllFinish,
        HandlingAll, mainVars, trackerVars
<1>3. CASE AddBlockToBlockchain(p)
  <2> DEFINE b == SneakPeekBlock(p, Head(transactions[p]))
             v == NewVoting(p, b, TRUE, TRUE)
  <2>1. transactions[p] \in Seq(Data) /\ transactions[p] # <<>>
    BY <1>1, <1>3 DEF AddBlockToBlockchain, SafeInv, TypeInv, TypeOK,
                      TransactionAtHand, AtHand, Chain
  <2>2. b \in Block
    BY <1>1, <2>1, HeadTailProperties, SizeType, AppendBlock DEF SneakPeekBlock
  <2>3. votes' = [votes EXCEPT ![p] = <<v>>]
    BY <1>3 DEF AddBlockToBlockchain
  <2> HIDE DEF b
  <2>4. v \in Backed(p)  BY <2>2, NewBacked
  <2> HIDE DEF v
  <2>5. <<v>> \in Seq(Backed(p))  BY <2>4, SingletonSeq
  <2>6. UNCHANGED <<inbox, aside, held, candidates>>
    BY <1>3 DEF AddBlockToBlockchain
  <2> QED  BY <1>1, <1>2, <2>3, <2>5, <2>6, HistoryInside
<1>4. CASE HandleHeldRequest(p)
  <2>1. PICK m \in held[p] :
          \/ inbox' = [inbox EXCEPT ![p] = Append(@, m)] /\ UNCHANGED votes
          \/ HandleBlockAdditionRequest(p, m) /\ UNCHANGED inbox
    BY <1>4 DEF HandleHeldRequest
  <2>2. m \in AddRequest /\ m \in Known
    BY <1>1 DEF TypeOK
  <2>3. Append(inbox[p], m) \in Seq(Known)  BY <1>1, <2>2, AppendProperties
  <2>4. /\ \E s \in Seq(Backed(p)) : votes' = [votes EXCEPT ![p] = s]
        /\ \E s \in Seq(Known) : inbox' = [inbox EXCEPT ![p] = s]
    BY <1>1, <2>1, <2>2, <2>3, HistoryHandle
  <2>5. /\ UNCHANGED <<candidates, aside>>
        /\ held' = [held EXCEPT ![p] = {}]
    BY <1>4 DEF HandleHeldRequest
  <2> QED  BY <1>1, <1>2, <2>4, <2>5, HistoryInside
<1>5. CASE HandleAllRequest(p)
  <2>1. inbox[p] # <<>> /\ Take(p)  BY <1>5 DEF HandleAllRequest
  <2>2. Oldest(p) \in AddRequest
    BY <1>5, <2>1, TakeKnown, MessageFields DEF HandleAllRequest, ForTip
  <2>3. \E s \in Seq(Backed(p)) : votes' = [votes EXCEPT ![p] = s]
    BY <1>5, <2>2, HistoryHandle DEF HandleAllRequest
  <2>4. UNCHANGED <<candidates, aside, held>>
    BY <1>5 DEF HandleAllRequest, mainVars
  <2> QED  BY <1>1, <1>2, <2>1, <2>3, <2>4, TakeKnown, HistoryInside
<1>6. CASE HandleAllSetAside(p)
  <2>1. inbox[p] # <<>> /\ Take(p)  BY <1>6 DEF HandleAllSetAside
  <2>2. Append(aside[p], Oldest(p)) \in Seq(Known)
    BY <1>1, <2>1, TakeKnown, AppendProperties
  <2>3. /\ aside' = [aside EXCEPT ![p] = Append(aside[p], Oldest(p))]
        /\ UNCHANGED <<votes, candidates, held>>
    BY <1>6 DEF HandleAllSetAside, mainVars
  <2> QED  BY <1>1, <1>2, <2>1, <2>2, <2>3, TakeKnown, HistoryInside
<1>7. CASE HandleAllFinish(p)
  <2>1. /\ inbox' = [inbox EXCEPT ![p] = inbox[p] \o aside[p]]
        /\ aside' = [aside EXCEPT ![p] = <<>>]
        /\ candidates' = [candidates EXCEPT ![p] = <<>>]
        /\ UNCHANGED <<votes, held>>
    BY <1>7 DEF HandleAllFinish
  <2>2. <<>> \in Seq(Known) /\ inbox[p] \o aside[p] \in Seq(Known)
    BY <1>1, EmptySeq, ConcatProperties
  <2>3. Deserved(p)
    <3>1. candidates'[p] = <<>>  BY <1>1, <2>1 DEF TypeOK
    <3> QED  BY <1>1, <3>1, NonePassing DEF Deserved
  <2> QED  BY <1>1, <1>2, <2>1, <2>2, <2>3, HistoryInside
<1>8. CASE HandleAllBreak(p)
  <2>1. UNCHANGED <<inbox, aside, held, votes, candidates>>
    BY <1>8 DEF HandleAllBreak
  <2> QED  BY <1>1, <1>2, <2>1, HistoryInside
<1> QED  BY <1>3, <1>4, <1>5, <1>6, <1>7, <1>8 DEF AdditionRequests

\* The innermost activation is changed.
LEMMA HistorySet ==
    ASSUME HistoryInv, NEW p \in Peers, votes[p] # <<>>,
           NEW v \in Backed(p), SetVoting(p, v)
    PROVE  \E s \in Seq(Backed(p)) : votes' = [votes EXCEPT ![p] = s]
<1>1. votes[p] \in Seq(Backed(p))  BY HistoryTypes
<1>2. Tail(votes[p]) \in Seq(Backed(p))  BY <1>1, HeadTailProperties
<1>3. <<v>> \o Tail(votes[p]) \in Seq(Backed(p))
  BY <1>2, SingletonSeq, ConcatProperties
<1> QED  BY <1>3 DEF SetVoting

LEMMA HistoryCheckVotesForBlock ==
    ASSUME HistoryInv, SafeInv', Recorded, NEW p \in Peers,
           CheckVotesForBlock(p)
    PROVE  HistoryInv'
<1>1. /\ TypeOK /\ SafeInv
      /\ inbox[p] \in Seq(Known) /\ aside[p] \in Seq(Known)
      /\ held[p] \in SUBSET Known
      /\ votes[p] \in Seq(Backed(p))
      /\ inbox = [inbox EXCEPT ![p] = inbox[p]]
      /\ aside = [aside EXCEPT ![p] = aside[p]]
      /\ votes = [votes EXCEPT ![p] = votes[p]]
  BY HistoryTypes
<1>2. votes[p] # <<>> /\ UNCHANGED <<pc, held, aside, netinfo, online>>
  BY DEF CheckVotesForBlock, CheckVote, CheckSetAside, CheckRequestBlock,
         CheckAddRequest, CheckFree, CheckTimeout, CheckReturn, Collecting,
         mainVars, trackerVars
<1>3. pc[p] # "Run" /\ \E l \in Location : pc' = [pc EXCEPT ![p] = l]
  <2>1. pc = [pc EXCEPT ![p] = pc[p]] /\ pc[p] \in Location
    BY <1>1 DEF TypeOK
  <2>2. pc[p] = "HandleAll"  BY <1>1, <1>2 DEF SafeInv, PeerInv, PhaseInv
  <2> QED  BY <1>2, <2>1, <2>2
<1>4. /\ Innermost(p) \in Backed(p) /\ Innermost(p) \in Voting
      /\ Innermost(p) \in Counted(p, Size(p))
      /\ Innermost(p).aside \in Seq(Known)
      /\ Tail(votes[p]) \in Seq(Backed(p))
  <2>1. votes[p] \in Seq(Counted(p, Size(p)))
    BY <1>1 DEF SafeInv, PeerInv, VotingInv
  <2>2. Head(votes[p]) \in Counted(p, Size(p))
    BY <1>2, <2>1, HeadTailProperties
  <2>3. Head(votes[p]) \in Backed(p) /\ Tail(votes[p]) \in Seq(Backed(p))
    BY <1>1, <1>2, HeadTailProperties
  <2> QED  BY <2>2, <2>3 DEF Innermost, Backed
<1>5. ASSUME inbox[p] # <<>>, Take(p)
      PROVE  /\ Oldest(p) \in Known /\ Oldest(p) \in Message
             /\ Oldest(p) \in Mail(p)
             /\ \E s \in Seq(Known) : inbox' = [inbox EXCEPT ![p] = s]
  BY <1>5, TakeKnown
<1>6. CASE CheckVote(p)
  <2>1. inbox[p] # <<>> /\ Take(p) /\ Oldest(p).type = "VOTE"
    BY <1>6 DEF CheckVote, Pending
  <2>2. \E s \in Seq(Backed(p)) : votes' = [votes EXCEPT ![p] = s]
    <3>1. CASE Counts(p, Innermost(p), Oldest(p))
      BY <1>2, <1>4, <1>5, <1>6, <2>1, <3>1, CountBacked, HistorySet
      DEF CheckVote
    <3>2. CASE ~Counts(p, Innermost(p), Oldest(p))
      BY <1>1, <1>6, <3>2 DEF CheckVote
    <3> QED  BY <3>1, <3>2
  <2>3. UNCHANGED candidates  BY <1>6 DEF CheckVote
  <2> QED  BY <1>1, <1>2, <1>3, <1>5, <2>1, <2>2, <2>3, HistoryInside
<1>7. CASE CheckSetAside(p)
  <2> DEFINE v == [Innermost(p) EXCEPT !.aside = Append(@, Oldest(p))]
  <2>1. inbox[p] # <<>> /\ Take(p)  BY <1>7 DEF CheckSetAside, Pending
  <2>2. /\ Append(Innermost(p).aside, Oldest(p)) \in Seq(Known)
        /\ Append(Innermost(p).aside, Oldest(p)) \in Seq(Message)
    BY <1>4, <1>5, <2>1, AppendProperties DEF Voting
  <2>3. v \in Backed(p)  BY <1>4, <2>2 DEF Backed, Voting
  <2>4. SetVoting(p, v) /\ UNCHANGED candidates  BY <1>7 DEF CheckSetAside
  <2> HIDE DEF v
  <2> QED
    BY <1>1, <1>2, <1>3, <1>5, <2>1, <2>3, <2>4, HistorySet, HistoryInside
<1>8. CASE CheckRequestBlock(p) \/ CheckFree(p)
  <2>1. inbox[p] # <<>> /\ Take(p) /\ UNCHANGED <<votes, candidates>>
    BY <1>8 DEF CheckRequestBlock, CheckFree, Pending
  <2> QED  BY <1>1, <1>2, <1>3, <1>5, <2>1, HistoryInside
<1>9. CASE CheckAddRequest(p)
  <2>1. inbox[p] # <<>> /\ Take(p) /\ UNCHANGED candidates
    BY <1>9 DEF CheckAddRequest, Pending
  <2>2. Oldest(p) \in AddRequest
    BY <1>5, <1>9, <2>1, MessageFields DEF CheckAddRequest, Pending
  <2>3. \E s \in Seq(Backed(p)) : votes' = [votes EXCEPT ![p] = s]
    BY <1>9, <2>2, HistoryHandle DEF CheckAddRequest
  <2> QED  BY <1>1, <1>2, <1>3, <1>5, <2>1, <2>3, HistoryInside
<1>10. CASE CheckTimeout(p)
  <2> DEFINE v == [Innermost(p) EXCEPT !.status = "timed out"]
  <2>1. v \in Backed(p)  BY <1>4 DEF Backed, Voting
  <2>2. SetVoting(p, v) /\ UNCHANGED <<candidates, inbox>>
    BY <1>10 DEF CheckTimeout
  <2> HIDE DEF v
  <2>3. \E s \in Seq(Backed(p)) : votes' = [votes EXCEPT ![p] = s]
    BY <1>2, <2>1, <2>2, HistorySet
  <2> QED  BY <1>1, <1>2, <1>3, <2>2, <2>3, HistoryInside
<1>11. CASE CheckReturn(p)
  <2> DEFINE v == Innermost(p)
             outer == Tail(votes[p])
             c == [block |-> v.block, own |-> v.own]
  <2>1. \E s \in Seq(Known) : inbox' = [inbox EXCEPT ![p] = s]
    <3>1. inbox[p] \o v.aside \in Seq(Known)
      BY <1>1, <1>4, ConcatProperties
    <3>2. inbox' \in {[inbox EXCEPT ![p] = inbox[p] \o v.aside],
                      [inbox EXCEPT ![p] = inbox[p]]}
      BY <1>11 DEF CheckReturn
    <3> QED  BY <1>1, <3>1, <3>2
  <2>2. \E s \in Seq(Backed(p)) : votes' = [votes EXCEPT ![p] = s]
    <3>1. CASE outer # <<>>
      <4> DEFINE w == [Head(outer) EXCEPT !.status = "abandoned"]
      <4>1. Head(outer) \in Backed(p) /\ Tail(outer) \in Seq(Backed(p))
        BY <1>4, <3>1, HeadTailProperties
      <4>2. w \in Backed(p)  BY <4>1 DEF Backed, Voting
      <4>3. votes' \in {[votes EXCEPT ![p] = <<w>> \o Tail(outer)],
                        [votes EXCEPT ![p] = outer]}
        BY <1>11, <3>1 DEF CheckReturn
      <4> HIDE DEF w, outer
      <4>4. <<w>> \o Tail(outer) \in Seq(Backed(p))
        BY <4>1, <4>2, SingletonSeq, ConcatProperties
      <4>5. outer \in Seq(Backed(p))  BY <1>4 DEF outer
      <4> QED  BY <4>3, <4>4, <4>5
    <3>2. CASE outer = <<>>
      <4>1. votes' = [votes EXCEPT ![p] = outer]
        BY <1>11, <3>2 DEF CheckReturn
      <4> QED  BY <1>4, <4>1
    <3> QED  BY <3>1, <3>2
  <2>3. /\ Deserved(p)
        /\ \E s : candidates' = [candidates EXCEPT ![p] = s]
    <3>1. CASE Accepted(v)
      <4>1. EndorsedBlock(p, v.block, v.n_peers, v.agree)
        BY <1>4, <3>1, AcceptedEndorsed
      <4>2. candidates' = [candidates EXCEPT ![p] = Append(candidates[p], c)]
        BY <1>11, <3>1 DEF CheckReturn
      <4> QED  BY <1>2, <4>1, <4>2 DEF Deserved
    <3>2. CASE ~Accepted(v)
      <4>1. candidates' = [candidates EXCEPT ![p] = candidates[p]]
        BY <1>11, <3>2 DEF CheckReturn
      <4>2. candidates'[p] = candidates[p]  BY <1>1, <4>1 DEF TypeOK
      <4> QED  BY <1>1, <4>1, <4>2, NonePassing DEF Deserved
    <3> QED  BY <3>1, <3>2
  <2> QED  BY <1>1, <1>2, <1>3, <2>1, <2>2, <2>3, HistoryInside
<1> QED
  BY <1>6, <1>7, <1>8, <1>9, <1>10, <1>11 DEF CheckVotesForBlock

----------------------------------------------------------------------------
(* The theorem *)

LEMMA HistoryInitially == HistoryInit => HistoryInv
<1> SUFFICES ASSUME HistoryInit PROVE HistoryInv  OBVIOUS
<1>1. SafeInv  BY SafeInit DEF HistoryInit
<1>2. ASSUME NEW p \in Peers PROVE HistoryAt(p)
  BY EmptySeq DEF HistoryInit, Init, HistoryAt, ListKnown
<1> QED  BY <1>1, <1>2 DEF HistoryInv, HistoryInit, Init

LEMMA HistoryStep == HistoryInv /\ [HistoryNext]_<<vars, history>> => HistoryInv'
<1> SUFFICES ASSUME HistoryInv, [HistoryNext]_<<vars, history>>
             PROVE  HistoryInv'
  OBVIOUS
<1>1. SafeInv'
  BY SafeStep DEF HistoryInv, HistoryNext
<1>2. CASE HistoryNext
  <2>1. Recorded /\ Next  BY <1>2 DEF HistoryNext, Recorded
  <2> QED
    BY <1>1, <2>1, HistoryReceive, HistoryReceiveNetinfo, HistoryRun,
       HistoryRequestBlockchain, HistoryAdditionRequests,
       HistoryCheckVotesForBlock
    DEF Next
<1>3. CASE UNCHANGED <<vars, history>>
  <2>1. UNCHANGED <<sent, passed, net, pc, held, inbox, aside, votes, netinfo,
                    online>>
    BY <1>3 DEF vars, history, mainVars, trackerVars
  <2>2. Known' = Known /\ EndorsedVotes' = EndorsedVotes
    BY <2>1 DEF Known, EndorsedVotes, EndorsedBlock, Supporters
  <2>3. ASSUME NEW p \in Peers PROVE HistoryAt(p)'
    <3>1. Backed(p)' = Backed(p)  BY <2>1, <2>2 DEF Backed, Supporters
    <3> QED  BY <2>1, <2>2, <3>1 DEF HistoryInv, HistoryAt, ListKnown
  <2> QED  BY <1>1, <2>1, <2>2, <2>3 DEF HistoryInv
<1> QED  BY <1>2, <1>3

\* Every block that became a candidate (application.cc:592-626, 710, 738) had
\* a majority of votes in favour, of the peers that were asked: each of another
\* peer, which had cast it for this block, or of the peer itself, which counts
\* only if it was in favour, whatever has been delayed, duplicated, set aside
\* or taken off the peer lists meanwhile.
THEOREM CandidatesEndorsed == HistorySpec => []Endorsed
<1>1. HistoryInv => Endorsed  BY DEF HistoryInv, EndorsedVotes, Endorsed
<1> QED  BY <1>1, HistoryInitially, HistoryStep, PTL DEF HistorySpec
=============================================================================
