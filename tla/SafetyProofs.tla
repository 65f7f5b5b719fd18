---------------------------- MODULE SafetyProofs ----------------------------
(***************************************************************************)
(* The safety of the votes and of the rounds of Application, for all       *)
(* values of its constants: VotesCounted, RepliesCounted and               *)
(* CandidatesAreNext, from one inductive invariant.  With one more part of *)
(* it, no transaction is lost.                                             *)
(***************************************************************************)
EXTENDS ApplicationProofs

----------------------------------------------------------------------------
(* The inductive invariant *)

\* What can reach p: addressed to it by another peer, and a proposal or a
\* vote carries the index of its block.
Mail(p) == {m \in Message : /\ m.to = p /\ m.from # p
                            /\ m.type \in {"VOTE", "ADDREQUEST"}
                                 => Len(m.block) = m.index}

\* The activations of CheckVotesForBlock of p when its chain has size n: the
\* votes add up, and nobody, p itself included, agrees with another index.
Counted(p, n) ==
    {v \in Voting :
        /\ v.aside \in Seq(Mail(p))
        /\ v.n_agrees + v.n_disagrees = Cardinality(v.seen) + 1
        /\ Cardinality(v.seen) + 1 <= v.n_peers
        /\ p \notin v.seen
        /\ Len(v.block) # n => v.n_agrees = 0}

CandidateAt(n) == {c \in Candidate : Len(c.block) = n}

\* The rounds in which no peer counts twice.
Heard == {r \in Round : /\ Cardinality(r.seen) <= r.n_peers
                        /\ \A d \in Data :
                              r.no_block + r.found[d] <= Cardinality(r.seen)}

MailInv(p) == /\ inbox[p] \in Seq(Mail(p))
              /\ aside[p] \in Seq(Mail(p))
              /\ held[p] \subseteq Mail(p)
VotingInv(p) == votes[p] \in Seq(Counted(p, Size(p)))
CandidateInv(p) == candidates[p] \in Seq(CandidateAt(Size(p)))
PhaseInv(p) == /\ pc[p] # "HandleAll" => votes[p] = <<>>
               /\ pc[p] \notin {"HandleAll", "Finish"} => candidates[p] = <<>>
RoundInv(p) == /\ round[p] \in Heard
               /\ pc[p] = "AwaitBlock"
                    => Cardinality(round[p].seen) < round[p].n_peers

PeerInv(p) == /\ MailInv(p) /\ VotingInv(p) /\ CandidateInv(p)
              /\ PhaseInv(p) /\ RoundInv(p)
NetInv == \A m \in net : m \in Mail(m.to)
SafeInv == TypeInv /\ NetInv /\ \A p \in Peers : PeerInv(p)

----------------------------------------------------------------------------
(* Rounds *)

LEMMA SeenFinite ==
    ASSUME NEW S \in SUBSET Peers, NEW q \in Peers
    PROVE  /\ IsFiniteSet(S) /\ Cardinality(S) \in Nat
           /\ q \notin S => Cardinality(S \cup {q}) = Cardinality(S) + 1
           /\ q \in S => S \cup {q} = S
<1>1. IsFiniteSet(S)  BY PeersAssumption, FS_Subset
<1> QED  BY <1>1, FS_CardinalityType, FS_AddElement

LEMMA NoRoundHeard ==
    /\ NoRound \in Heard
    /\ \A n \in Nat : [NoRound EXCEPT !.n_peers = n] \in Heard
    /\ \A n \in Nat : LET r == [NoRound EXCEPT !.n_peers = n]
                      IN  Cardinality(r.seen) = 0 /\ r.n_peers = n
BY NoRoundType, FS_EmptySet DEF Heard, NoRound

LEMMA HeardKept ==
    ASSUME NEW p \in Peers, NEW r \in Heard,
           Cardinality(r.seen) < r.n_peers, NEW q \in Peers, NEW b
    PROVE  /\ Hear(r, q) \in Heard
           /\ HearNoBlock(r, q) \in Heard
           /\ HearBlock(p, r, q, b) \in Heard
<1> DEFINE h == Hear(r, q)
<1>1. /\ r \in Round /\ h \in Round
      /\ HearNoBlock(r, q) \in Round /\ HearBlock(p, r, q, b) \in Round
  BY HearType DEF Heard
<1>2. /\ r.seen \in SUBSET Peers /\ r.n_peers \in Nat /\ r.no_block \in Nat
      /\ r.found \in [Data -> Nat]
  BY <1>1 DEF Round
<1>3. \A d \in Data : r.no_block + r.found[d] <= Cardinality(r.seen)
  BY DEF Heard
<1>4. /\ h.seen = r.seen \cup {q} /\ h.n_peers = r.n_peers
      /\ h.no_block = r.no_block /\ h.found = r.found
  BY <1>1 DEF Hear, Round
<1>5. /\ Cardinality(r.seen) \in Nat
      /\ q \notin r.seen => Cardinality(h.seen) = Cardinality(r.seen) + 1
      /\ q \in r.seen => h.seen = r.seen
  BY <1>2, <1>4, SeenFinite
<1> HIDE DEF h
<1>6. Cardinality(h.seen) <= h.n_peers /\ Cardinality(h.seen) \in Nat
  <2>1. CASE q \in r.seen
    <3>1. h.seen = r.seen  BY <1>5, <2>1
    <3> QED  BY <1>2, <1>4, <1>5, <3>1
  <2>2. CASE q \notin r.seen
    <3>1. Cardinality(h.seen) = Cardinality(r.seen) + 1  BY <1>5, <2>2
    <3> QED  BY <1>2, <1>4, <1>5, <3>1
  <2> QED  BY <2>1, <2>2
<1>7. ASSUME NEW d \in Data
      PROVE  /\ r.no_block + r.found[d] <= Cardinality(h.seen)
             /\ q \notin r.seen =>
                   r.no_block + r.found[d] + 1 <= Cardinality(h.seen)
             /\ r.found[d] \in Nat
  <2>1. r.found[d] \in Nat /\ r.no_block + r.found[d] <= Cardinality(r.seen)
    BY <1>2, <1>3
  <2> QED  BY <1>2, <1>4, <1>5, <2>1
<1>8. h \in Heard  BY <1>1, <1>4, <1>6, <1>7 DEF Heard, h
<1>9. HearNoBlock(r, q) \in Heard
  <2>1. CASE q \in r.seen  BY <2>1 DEF HearNoBlock
  <2>2. CASE q \notin r.seen
    <3> DEFINE g == [h EXCEPT !.no_block = @ + 1]
    <3>1. /\ g.seen = h.seen /\ g.n_peers = h.n_peers /\ g.found = h.found
          /\ g.no_block = h.no_block + 1
      BY <1>1 DEF Round
    <3>2. \A d \in Data : g.no_block + g.found[d] <= Cardinality(g.seen)
      <4> SUFFICES ASSUME NEW d \in Data
                   PROVE  g.no_block + g.found[d] <= Cardinality(g.seen)
        OBVIOUS
      <4> HIDE DEF g
      <4> QED  BY <1>2, <1>4, <1>7, <2>2, <3>1
    <3>3. g = HearNoBlock(r, q)  BY <2>2 DEF HearNoBlock, h
    <3> HIDE DEF g
    <3> QED  BY <1>1, <1>6, <3>1, <3>2, <3>3 DEF Heard
  <2> QED  BY <2>1, <2>2
<1>10. HearBlock(p, r, q, b) \in Heard
  <2>1. CASE q \in r.seen  BY <2>1 DEF HearBlock
  <2>2. CASE q \notin r.seen /\ ~Continues(p, b)
    BY <1>8, <2>2 DEF HearBlock, h
  <2>3. CASE q \notin r.seen /\ Continues(p, b)
    <3> DEFINE g == [h EXCEPT !.found[Last(b)] = @ + 1]
    <3>1. g = HearBlock(p, r, q, b)  BY <2>3 DEF HearBlock, h
    <3>2. /\ g.seen = h.seen /\ g.n_peers = h.n_peers
          /\ g.no_block = h.no_block
          /\ g.found = [h.found EXCEPT ![Last(b)] = @ + 1]
      BY <1>1 DEF Round
    <3>3. \A d \in Data : g.found[d] \in {r.found[d], r.found[d] + 1}
      BY <1>2, <1>4, <3>2
    <3>4. \A d \in Data : g.no_block + g.found[d] <= Cardinality(g.seen)
      <4> SUFFICES ASSUME NEW d \in Data
                   PROVE  g.no_block + g.found[d] <= Cardinality(g.seen)
        OBVIOUS
      <4> HIDE DEF g
      <4>1. /\ g.no_block = r.no_block /\ g.seen = h.seen
            /\ r.no_block + r.found[d] + 1 <= Cardinality(h.seen)
            /\ r.no_block + r.found[d] <= Cardinality(h.seen)
        BY <1>4, <1>7, <2>3, <3>2
      <4>2. CASE g.found[d] = r.found[d]  BY <4>1, <4>2
      <4>3. CASE g.found[d] = r.found[d] + 1  BY <1>2, <1>7, <4>1, <4>3
      <4> QED  BY <3>3, <4>2, <4>3
    <3> HIDE DEF g
    <3> QED  BY <1>1, <1>6, <3>1, <3>2, <3>4 DEF Heard
  <2> QED  BY <2>1, <2>2, <2>3
<1> QED  BY <1>8, <1>9, <1>10 DEF h

\* A block found by a majority has been found at all.
LEMMA FoundByMajority ==
    ASSUME NEW r \in Heard, NEW d \in Data, MajorityForBlock(r, d)
    PROVE  r.found[d] > 0
<1>1. /\ r \in Round /\ r.seen \in SUBSET Peers /\ r.n_peers \in Nat
      /\ r.no_block \in Nat /\ r.found[d] \in Nat
      /\ Cardinality(r.seen) <= r.n_peers
  BY DEF Heard, Round
<1>2. Cardinality(r.seen) \in Nat
  BY <1>1, PeersAssumption, FS_Subset, FS_CardinalityType
<1> QED  BY <1>1, <1>2 DEF MajorityForBlock, Unheard

----------------------------------------------------------------------------
(* Messages *)

LEMMA MailFields ==
    ASSUME NEW p \in Peers, NEW m \in Mail(p)
    PROVE  /\ m \in Message /\ m.to = p /\ m.from # p /\ m.from \in Peers
           /\ m.index \in Nat \ {0}
           /\ m.type \in {"VOTE", "ADDREQUEST"} => Len(m.block) = m.index
BY MessageFields DEF Mail

LEMMA SentByAnswer ==
    ASSUME TypeOK, NEW p \in Peers, NEW m \in Mail(p)
    PROVE  SendBlockchain(p, m) \in Mail(SendBlockchain(p, m).to)
<1>1. m.from # p /\ m \in Message  BY MailFields
<1>2. SendBlockchain(p, m) \in Message  BY <1>1, SendBlockchainType
<1>3. /\ SendBlockchain(p, m).to = m.from /\ SendBlockchain(p, m).from = p
      /\ SendBlockchain(p, m).type \in {"BLOCK", "NOBLOCK"}
  BY DEF SendBlockchain
<1> QED  BY <1>1, <1>2, <1>3 DEF Mail

LEMMA SentByBroadcast ==
    ASSUME TypeOK, NEW p \in Peers, NEW t \in {"VOTE", "ADDREQUEST"},
           NEW b \in Block, NEW a \in BOOLEAN, NEW i, i = Len(b),
           NEW m \in Broadcast(p, t, i, b, a)
    PROVE  m \in Mail(m.to)
<1>1. i \in Nat \ {0}  BY LastOfBlock
<1>2. m \in Message  BY <1>1, BroadcastBlock
<1>3. m.from = p /\ m.to # p /\ m.index = i /\ m.block = b
  BY DEF Broadcast, Others
<1> QED  BY <1>2, <1>3 DEF Mail

LEMMA SentByRequest ==
    ASSUME TypeOK, NEW p \in Peers,
           NEW m \in Broadcast(p, "REQUESTBLOCK", Size(p), <<>>, FALSE)
    PROVE  m \in Mail(m.to)
<1>1. m \in Message  BY SizeType, BroadcastRequest
<1>2. m.from = p /\ m.to # p /\ m.type = "REQUESTBLOCK"
  BY DEF Broadcast, Others
<1> QED  BY <1>1, <1>2 DEF Mail

----------------------------------------------------------------------------
(* Activations of CheckVotesForBlock *)

LEMMA CountedFields ==
    ASSUME NEW p \in Peers, NEW n, NEW v \in Counted(p, n)
    PROVE  /\ v \in Voting /\ v.n_peers \in Nat /\ v.n_agrees \in Nat
           /\ v.n_disagrees \in Nat /\ v.seen \in SUBSET Peers
           /\ Cardinality(v.seen) \in Nat
           /\ v.aside \in Seq(Mail(p))
           /\ v.n_agrees + v.n_disagrees = Cardinality(v.seen) + 1
           /\ Cardinality(v.seen) + 1 <= v.n_peers
           /\ p \notin v.seen
           /\ Len(v.block) # n => v.n_agrees = 0
<1>1. v \in Voting  BY DEF Counted
<1>2. v.seen \in SUBSET Peers  BY <1>1 DEF Voting
<1> QED  BY <1>1, <1>2, SeenFinite DEF Counted, Voting

LEMMA NewCounted ==
    ASSUME TypeOK, NEW p \in Peers, NEW b \in Block, NEW own \in BOOLEAN,
           NEW agree \in BOOLEAN, agree => Len(b) = Size(p)
    PROVE  NewVoting(p, b, own, agree) \in Counted(p, Size(p))
<1> DEFINE v == NewVoting(p, b, own, agree)
<1>1. v \in Voting  BY NewVotingType
<1>2. Cardinality(Others(p)) \in Nat  BY OthersFinite
<1>3. Cardinality({}) = 0  BY FS_EmptySet
<1>4. /\ v.n_peers = Cardinality(Others(p)) + 1 /\ v.seen = {}
      /\ v.aside = <<>> /\ v.block = b
      /\ v.n_agrees = IF agree THEN 1 ELSE 0
      /\ v.n_disagrees = IF agree THEN 0 ELSE 1
  BY DEF NewVoting
<1>5. <<>> \in Seq(Mail(p))  BY EmptySeq
<1> HIDE DEF v
<1>6. v.n_agrees + v.n_disagrees = Cardinality(v.seen) + 1
  BY <1>3, <1>4
<1>7. Cardinality(v.seen) + 1 <= v.n_peers  BY <1>2, <1>3, <1>4
<1>8. v \in Counted(p, Size(p))  BY <1>1, <1>4, <1>5, <1>6, <1>7 DEF Counted
<1> QED  BY <1>8 DEF v

LEMMA CountKept ==
    ASSUME NEW p \in Peers, NEW v \in Counted(p, Size(p)), NEW m \in Mail(p),
           m.type = "VOTE", Counts(p, v, m), ~Decided(v)
    PROVE  Count(v, m) \in Counted(p, Size(p))
<1> DEFINE w == Count(v, m)
<1>1. /\ m \in Message /\ m.from \in Peers /\ m.from # p
      /\ m.from \notin v.seen /\ Len(v.block) = Size(p)
  BY MailFields DEF Counts
<1>2. v \in Voting /\ v.aside \in Seq(Mail(p)) /\ p \notin v.seen
      /\ v.seen \in SUBSET Peers
  BY CountedFields
<1>3. w \in Voting  BY <1>1, <1>2, CountType
<1>4. /\ w.n_peers = v.n_peers /\ w.block = v.block /\ w.aside = v.aside
      /\ w.seen = v.seen \cup {m.from}
      /\ w.n_agrees = IF m.agree THEN v.n_agrees + 1 ELSE v.n_agrees
      /\ w.n_disagrees = IF m.agree THEN v.n_disagrees ELSE v.n_disagrees + 1
  BY <1>2 DEF Count, Voting
<1> HIDE DEF w
<1>5. Cardinality(w.seen) = Cardinality(v.seen) + 1
  BY <1>1, <1>2, <1>4, SeenFinite
<1>6. /\ v.n_agrees \in Nat /\ v.n_disagrees \in Nat /\ v.n_peers \in Nat
      /\ Cardinality(v.seen) \in Nat
      /\ v.n_agrees + v.n_disagrees = Cardinality(v.seen) + 1
  BY CountedFields
<1>7. w.n_agrees + w.n_disagrees = Cardinality(w.seen) + 1
  <2>1. CASE m.agree
    <3>1. w.n_agrees = v.n_agrees + 1 /\ w.n_disagrees = v.n_disagrees
      BY <1>4, <2>1
    <3> QED  BY <1>5, <1>6, <3>1
  <2>2. CASE ~m.agree
    <3>1. w.n_agrees = v.n_agrees /\ w.n_disagrees = v.n_disagrees + 1
      BY <1>4, <2>2
    <3> QED  BY <1>5, <1>6, <3>1
  <2> QED  BY <2>1, <2>2
<1>8. ~(Cardinality(v.seen) + 1 >= v.n_peers)  BY DEF Decided, AllVoted
<1>9. Cardinality(w.seen) + 1 <= w.n_peers  BY <1>4, <1>5, <1>6, <1>8
<1>10. w \in Counted(p, Size(p))
  BY <1>1, <1>2, <1>3, <1>4, <1>7, <1>9 DEF Counted
<1> QED  BY <1>10 DEF w

LEMMA AsideKept ==
    ASSUME NEW p \in Peers, NEW n, NEW v \in Counted(p, n), NEW m \in Mail(p)
    PROVE  [v EXCEPT !.aside = Append(@, m)] \in Counted(p, n)
<1>1. v \in Voting /\ v.aside \in Seq(Mail(p))  BY CountedFields
<1>2. Append(v.aside, m) \in Seq(Mail(p))  BY <1>1, AppendProperties
<1>3. v.aside \in Seq(Message) /\ m \in Message  BY <1>1, MailFields DEF Voting
<1>4. Append(v.aside, m) \in Seq(Message)  BY <1>3, AppendProperties
<1>5. [v EXCEPT !.aside = Append(@, m)] \in Voting  BY <1>1, <1>4 DEF Voting
<1> DEFINE w == [v EXCEPT !.aside = Append(@, m)]
<1>6. /\ w.aside = Append(v.aside, m) /\ w.n_agrees = v.n_agrees
      /\ w.n_disagrees = v.n_disagrees /\ w.n_peers = v.n_peers
      /\ w.seen = v.seen /\ w.block = v.block
  BY <1>1 DEF Voting
<1> HIDE DEF w
<1>7. w \in Counted(p, n)
  <2>1. w \in Voting  BY <1>5 DEF w
  <2> QED  BY <1>2, <1>6, <2>1 DEF Counted
<1> QED  BY <1>7 DEF w

LEMMA StatusKept ==
    ASSUME NEW p \in Peers, NEW n, NEW v \in Counted(p, n),
           NEW s \in {"timed out", "abandoned"}
    PROVE  [v EXCEPT !.status = s] \in Counted(p, n)
<1> DEFINE w == [v EXCEPT !.status = s]
<1>1. v \in Voting  BY CountedFields
<1>2. w \in Voting  BY <1>1 DEF Voting
<1>3. /\ w.aside = v.aside /\ w.n_agrees = v.n_agrees
      /\ w.n_disagrees = v.n_disagrees /\ w.n_peers = v.n_peers
      /\ w.seen = v.seen /\ w.block = v.block
  BY <1>1 DEF Voting
<1> HIDE DEF w
<1>4. w \in Counted(p, n)  BY <1>2, <1>3 DEF Counted
<1> QED  BY <1>4 DEF w

\* Only a block of the current index is accepted.
LEMMA AcceptedAtSize ==
    ASSUME NEW p \in Peers, NEW n, NEW v \in Counted(p, n), Accepted(v)
    PROVE  Len(v.block) = n
<1>1. /\ v.n_peers \in Nat /\ v.n_agrees \in Nat /\ v.n_disagrees \in Nat
      /\ Cardinality(v.seen) \in Nat
      /\ Cardinality(v.seen) + 1 <= v.n_peers
      /\ Len(v.block) # n => v.n_agrees = 0
  BY CountedFields
<1>2. v.n_agrees # 0
  <2> SUFFICES ASSUME v.n_agrees = 0 PROVE FALSE  OBVIOUS
  <2>1. ~(v.n_agrees > v.n_peers \div 2)  BY <1>1
  <2>2. ~(v.n_agrees > v.n_disagrees + v.n_peers - (Cardinality(v.seen) + 1))
    BY <1>1
  <2> QED  BY <2>1, <2>2 DEF Accepted, MoreThanHalfAgree
<1> QED  BY <1>1, <1>2

----------------------------------------------------------------------------
(* The steps *)

\* All that PeerInv(p) is about.
Local(p) == <<bc[p], pc[p], held[p], round[p], votes[p], candidates[p],
              aside[p], inbox[p]>>

LEMMA SafeInit == Init => SafeInv
<1> SUFFICES ASSUME Init PROVE SafeInv  OBVIOUS
<1>1. TypeInv  BY TypeInit
<1>2. NetInv  BY DEF Init, NetInv
<1>3. ASSUME NEW p \in Peers PROVE PeerInv(p)
  <2>1. /\ inbox[p] = <<>> /\ aside[p] = <<>> /\ held[p] = {} /\ pc[p] = "Run"
        /\ votes[p] = <<>> /\ candidates[p] = <<>> /\ round[p] = NoRound
    BY DEF Init
  <2>2. MailInv(p)  BY <2>1, EmptySeq DEF MailInv
  <2>3. VotingInv(p) /\ CandidateInv(p)
    BY <2>1, EmptySeq DEF VotingInv, CandidateInv
  <2>4. PhaseInv(p) /\ RoundInv(p)
    BY <2>1, NoRoundHeard DEF PhaseInv, RoundInv
  <2> QED  BY <2>2, <2>3, <2>4 DEF PeerInv
<1> QED  BY <1>1, <1>2, <1>3 DEF SafeInv

\* A step that disturbs one peer only.
LEMMA SafeAt ==
    ASSUME SafeInv, TypeInv', NEW p \in Peers, NetInv', PeerInv(p)',
           \A q \in Peers \ {p} : UNCHANGED Local(q)
    PROVE  SafeInv'
<1> SUFFICES ASSUME NEW q \in Peers, q # p PROVE PeerInv(q)'
  BY DEF SafeInv
<1>1. PeerInv(q) /\ UNCHANGED Local(q)  BY DEF SafeInv
<1> QED
  BY <1>1 DEF PeerInv, Local, MailInv, VotingInv, CandidateInv, PhaseInv,
              RoundInv, Size

\* What a step of p that leaves all this alone has to establish.
LEMMA VotingKept ==
    ASSUME NEW p \in Peers, VotingInv(p), CandidateInv(p), PhaseInv(p),
           UNCHANGED <<bc, pc, votes, candidates>>
    PROVE  VotingInv(p)' /\ CandidateInv(p)' /\ PhaseInv(p)'
BY DEF VotingInv, CandidateInv, PhaseInv, Size

\* The oldest message of the inbox, and the inbox without it.
LEMMA TakeMail ==
    ASSUME TypeOK, NEW p \in Peers, MailInv(p), inbox[p] # <<>>
    PROVE  /\ Oldest(p) \in Mail(p)
           /\ Tail(inbox[p]) \in Seq(Mail(p))
           /\ Take(p) => inbox'[p] = Tail(inbox[p])
           /\ Take(p) => \A q \in Peers \ {p} : inbox'[q] = inbox[q]
<1>1. inbox[p] \in Seq(Mail(p))  BY DEF MailInv
<1>2. Head(inbox[p]) \in Mail(p) /\ Tail(inbox[p]) \in Seq(Mail(p))
  BY <1>1, HeadTailProperties
<1> QED  BY <1>2 DEF Oldest, Take, TypeOK

LEMMA SafeReceive ==
    ASSUME SafeInv, NEW m \in net, Receive(m)
    PROVE  SafeInv'
<1> DEFINE p == m.to
<1>1. TypeInv' /\ TypeOK /\ NetInv
  BY TypeReceive DEF SafeInv, TypeInv
<1>2. m \in Mail(p) /\ p \in Peers
  BY <1>1, MessageFields DEF NetInv, TypeOK
<1>3. NetInv'
  <2>1. net' \subseteq net  BY DEF Receive
  <2> QED  BY <1>1, <2>1 DEF NetInv, Mail
<1>4. /\ inbox'[p] = Append(inbox[p], m)
      /\ \A q \in Peers \ {p} : inbox'[q] = inbox[q]
      /\ UNCHANGED <<bc, pc, held, round, votes, candidates, aside>>
  BY <1>1, <1>2 DEF Receive, mainVars, TypeOK
<1> HIDE DEF p
<1>5. PeerInv(p)  BY <1>2 DEF SafeInv
<1>6. MailInv(p)'
  <2>1. Append(inbox[p], m) \in Seq(Mail(p))
    BY <1>2, <1>5, AppendProperties DEF PeerInv, MailInv
  <2> QED  BY <1>4, <1>5, <2>1 DEF PeerInv, MailInv, Mail
<1>7. PeerInv(p)'
  BY <1>2, <1>4, <1>5, <1>6, VotingKept DEF PeerInv, RoundInv
<1>8. \A q \in Peers \ {p} : UNCHANGED Local(q)  BY <1>4 DEF Local
<1> QED  BY <1>1, <1>2, <1>3, <1>7, <1>8, SafeAt

LEMMA SafeReceiveNetinfo ==
    ASSUME SafeInv, NEW p \in Peers, ReceiveNetinfo(p)
    PROVE  SafeInv'
<1>1. TypeInv'  BY TypeReceiveNetinfo DEF SafeInv
<1>2. UNCHANGED <<bc, pc, held, round, votes, candidates, aside, inbox, net>>
  BY DEF ReceiveNetinfo, mainVars
<1> QED
  BY <1>1, <1>2
  DEF SafeInv, NetInv, PeerInv, MailInv, VotingInv, CandidateInv, PhaseInv,
      RoundInv, Size

\* A step of p outside the votes, in which the main thread stays in Run or
\* moves on in RequestBlockchain, and the mail it has read stays mail.
LEMMA SafeOutside ==
    ASSUME SafeInv, TypeInv', NEW p \in Peers, NetInv',
           pc[p] \in {"Run", "RequestBlockchain", "AwaitBlock", "TimedOut"},
           RoundInv(p)',
           \E s \in Seq(Mail(p)) : inbox' = [inbox EXCEPT ![p] = s],
           \E s \in Seq(Mail(p)) : aside' = [aside EXCEPT ![p] = s],
           \E S \in SUBSET Mail(p) : held' = [held EXCEPT ![p] = S],
           UNCHANGED <<votes, candidates>>,
           \A q \in Peers \ {p} : /\ bc'[q] = bc[q] /\ pc'[q] = pc[q]
                                  /\ round'[q] = round[q]
    PROVE  SafeInv'
<1>1. TypeOK /\ PeerInv(p)  BY DEF SafeInv, TypeInv
<1>2. votes[p] = <<>> /\ candidates[p] = <<>>
  BY <1>1 DEF PeerInv, PhaseInv
<1>3. MailInv(p)'
  <2>1. /\ inbox'[p] \in Seq(Mail(p)) /\ aside'[p] \in Seq(Mail(p))
        /\ held'[p] \in SUBSET Mail(p)
    BY <1>1 DEF TypeOK
  <2> QED  BY <2>1 DEF MailInv, Mail
<1>4. VotingInv(p)' /\ CandidateInv(p)' /\ PhaseInv(p)'
  <2>1. votes'[p] = <<>> /\ candidates'[p] = <<>>  BY <1>2
  <2> QED  BY <2>1, EmptySeq DEF VotingInv, CandidateInv, PhaseInv
<1>5. PeerInv(p)'  BY <1>3, <1>4 DEF PeerInv
<1>6. \A q \in Peers \ {p} : UNCHANGED Local(q)
  BY <1>1 DEF Local, TypeOK
<1> QED  BY <1>5, <1>6, SafeAt

LEMMA SafeRun ==
    ASSUME SafeInv, NEW p \in Peers, Run(p)
    PROVE  SafeInv'
<1>1. /\ TypeInv' /\ TypeOK /\ NetInv /\ PeerInv(p) /\ MailInv(p) /\ RoundInv(p)
      /\ inbox[p] \in Seq(Mail(p)) /\ aside[p] \in Seq(Mail(p))
      /\ held[p] \in SUBSET Mail(p)
  BY TypeRun DEF SafeInv, TypeInv, PeerInv, MailInv
<1>2. pc[p] = "Run"
  BY DEF Run, RunRefresh, RunRequestBlock, RunAddRequest, RunFree,
         RunTransaction, RunNoMessages, Idle
<1>3. UNCHANGED <<bc, votes, candidates, aside>>
  BY DEF Run, RunRefresh, RunRequestBlock, RunAddRequest, RunFree,
         RunTransaction, RunNoMessages
<1>4. /\ UNCHANGED round
      /\ pc' \in {pc, [pc EXCEPT ![p] = "RequestBlockchain"]}
  BY DEF Run, RunRefresh, RunRequestBlock, RunAddRequest, RunFree,
         RunTransaction, RunNoMessages, CallRequestBlockchain, mainVars
<1>5. RoundInv(p)'
  <2>1. pc'[p] # "AwaitBlock"  BY <1>1, <1>2, <1>4 DEF TypeOK
  <2> QED  BY <1>1, <1>4, <2>1 DEF RoundInv
<1>6. \E s \in Seq(Mail(p)) : inbox' = [inbox EXCEPT ![p] = s]
  <2>1. CASE UNCHANGED inbox  BY <1>1, <2>1 DEF TypeOK
  <2>2. CASE inbox[p] # <<>> /\ Take(p)
    BY <1>1, <2>2, TakeMail DEF Take
  <2> QED
    BY <2>1, <2>2
    DEF Run, RunRefresh, RunRequestBlock, RunAddRequest, RunFree,
        RunTransaction, RunNoMessages, Pending
<1>7. \E S \in SUBSET Mail(p) : held' = [held EXCEPT ![p] = S]
  <2>1. CASE UNCHANGED held  BY <1>1, <2>1 DEF TypeOK
  <2>2. CASE inbox[p] # <<>> /\ held' = [held EXCEPT ![p] = {Oldest(p)}]
    BY <1>1, <2>2, TakeMail
  <2> QED
    BY <2>1, <2>2
    DEF Run, RunRefresh, RunRequestBlock, RunAddRequest, RunFree,
        RunTransaction, RunNoMessages, Pending, mainVars
<1>8. NetInv'
  <2>1. CASE UNCHANGED net  BY <1>1, <2>1 DEF NetInv, Mail
  <2>2. CASE inbox[p] # <<>> /\ net' = net \cup {SendBlockchain(p, Oldest(p))}
    <3>1. Oldest(p) \in Mail(p)  BY <1>1, <2>2, TakeMail
    <3> QED  BY <1>1, <2>2, <3>1, SentByAnswer DEF NetInv, Mail
  <2> QED
    BY <2>1, <2>2
    DEF Run, RunRefresh, RunRequestBlock, RunAddRequest, RunFree,
        RunTransaction, RunNoMessages, Pending
<1>9. \A q \in Peers \ {p} : /\ bc'[q] = bc[q] /\ pc'[q] = pc[q]
                             /\ round'[q] = round[q]
  BY <1>1, <1>3, <1>4 DEF TypeOK
<1>10. \E s \in Seq(Mail(p)) : aside' = [aside EXCEPT ![p] = s]
  BY <1>1, <1>3 DEF TypeOK
<1> QED
  BY <1>1, <1>2, <1>3, <1>5, <1>6, <1>7, <1>8, <1>9, <1>10, SafeOutside

LEMMA SafeConclude ==
    ASSUME SafeInv, TypeInv', NEW p \in Peers, pc[p] = "AwaitBlock",
           inbox[p] # <<>>, NEW r \in Heard, NEW kept \in Seq(Mail(p)),
           Conclude(p, r, kept), NetInv',
           UNCHANGED <<held, votes, candidates>>
    PROVE  SafeInv'
<1>1. /\ TypeOK /\ PeerInv(p) /\ MailInv(p)
      /\ aside[p] \in Seq(Mail(p)) /\ held[p] \in SUBSET Mail(p)
      /\ after[p] # "AwaitBlock"
  BY DEF SafeInv, TypeInv, TypeOK, PeerInv, MailInv
<1>2. Tail(inbox[p]) \in Seq(Mail(p))  BY <1>1, TakeMail
<1>3. Tail(inbox[p]) \o kept \in Seq(Mail(p)) /\ <<>> \in Seq(Mail(p))
  BY <1>2, ConcatProperties, EmptySeq
<1>4. \/ \E l \in {"RequestBlockchain", after[p]} : LeaveRound(p, kept, l)
      \/ /\ Cardinality(r.seen) < r.n_peers
         /\ round' = [round EXCEPT ![p] = r]
         /\ aside' = [aside EXCEPT ![p] = kept]
         /\ Take(p) /\ UNCHANGED pc
  <2>1. Cardinality(r.seen) \in Nat /\ r.n_peers \in Nat
    <3>1. r \in Round /\ r.seen \in SUBSET Peers  BY DEF Heard, Round
    <3> QED  BY <3>1, SeenFinite DEF Round
  <2> QED  BY <2>1 DEF Conclude
<1>5. (\E d \in Data : AddBlock(p, d)) \/ UNCHANGED bc
  BY Zenon DEF Conclude
<1>6. \A q \in Peers \ {p} : /\ bc'[q] = bc[q] /\ pc'[q] = pc[q]
                             /\ round'[q] = round[q]
  BY <1>1, <1>4, <1>5 DEF TypeOK, LeaveRound, AddBlock
<1>7. RoundInv(p)'
  <2>1. ASSUME NEW l \in {"RequestBlockchain", after[p]}, LeaveRound(p, kept, l)
        PROVE  RoundInv(p)'
    BY <1>1, <2>1, NoRoundHeard DEF TypeOK, LeaveRound, RoundInv
  <2>2. CASE Cardinality(r.seen) < r.n_peers /\ round' = [round EXCEPT ![p] = r]
    BY <1>1, <2>2 DEF TypeOK, RoundInv
  <2> QED  BY <1>4, <2>1, <2>2
<1>8. /\ \E s \in Seq(Mail(p)) : inbox' = [inbox EXCEPT ![p] = s]
      /\ \E s \in Seq(Mail(p)) : aside' = [aside EXCEPT ![p] = s]
  BY <1>2, <1>3, <1>4 DEF LeaveRound, Take
<1>9. \E S \in SUBSET Mail(p) : held' = [held EXCEPT ![p] = S]
  BY <1>1 DEF TypeOK
<1> QED  BY <1>6, <1>7, <1>8, <1>9, SafeOutside

LEMMA SafeRequestBlockchain ==
    ASSUME SafeInv, NEW p \in Peers, RequestBlockchain(p)
    PROVE  SafeInv'
<1>1. /\ TypeInv' /\ TypeOK /\ NetInv /\ PeerInv(p) /\ MailInv(p) /\ RoundInv(p)
      /\ inbox[p] \in Seq(Mail(p)) /\ aside[p] \in Seq(Mail(p))
      /\ held[p] \in SUBSET Mail(p) /\ round[p] \in Heard
  BY TypeRequestBlockchain DEF SafeInv, TypeInv, PeerInv, MailInv, RoundInv
<1>2. ASSUME pc[p] = "AwaitBlock"
      PROVE  Cardinality(round[p].seen) < round[p].n_peers
  BY <1>1, <1>2 DEF RoundInv
<1>3. ASSUME NEW types, Pending(p, types), UNCHANGED net
      PROVE  Oldest(p) \in Mail(p) /\ Oldest(p).from \in Peers /\ NetInv'
  BY <1>1, <1>3, TakeMail, MailFields DEF Pending, NetInv, Mail
<1>4. CASE RequestBlock(p)
  <2>1. NetInv'
    BY <1>1, <1>4, SentByRequest DEF RequestBlock, NetInv, Mail
  <2>2. pc[p] = "RequestBlockchain" /\ after[p] # "AwaitBlock"
    BY <1>1, <1>4 DEF RequestBlock, TypeOK
  <2>3. RoundInv(p)'
    <3>1. CASE Others(p) = {}
      BY <1>1, <1>4, <2>2, <3>1 DEF RequestBlock, RoundInv, TypeOK
    <3>2. CASE Others(p) # {}
      <4> DEFINE n == Cardinality(Others(p))
      <4>1. n \in Nat /\ n # 0  BY <1>1, <3>2, OthersFinite, FS_EmptySet
      <4>2. round'[p] = [NoRound EXCEPT !.n_peers = n]
        BY <1>1, <1>4, <3>2 DEF RequestBlock, TypeOK
      <4> HIDE DEF n
      <4>3. /\ round'[p] \in Heard /\ Cardinality(round'[p].seen) = 0
            /\ round'[p].n_peers = n
        BY <4>1, <4>2, NoRoundHeard
      <4> QED  BY <4>1, <4>3 DEF RoundInv
    <3> QED  BY <3>1, <3>2
  <2>4. \A q \in Peers \ {p} : /\ bc'[q] = bc[q] /\ pc'[q] = pc[q]
                               /\ round'[q] = round[q]
    BY <1>1, <1>4 DEF RequestBlock, TypeOK
  <2>5. /\ \E s \in Seq(Mail(p)) : inbox' = [inbox EXCEPT ![p] = s]
        /\ \E s \in Seq(Mail(p)) : aside' = [aside EXCEPT ![p] = s]
        /\ \E S \in SUBSET Mail(p) : held' = [held EXCEPT ![p] = S]
    BY <1>1, <1>4 DEF RequestBlock, TypeOK
  <2> QED
    BY <1>1, <1>4, <2>1, <2>2, <2>3, <2>4, <2>5, SafeOutside DEF RequestBlock
<1>5. CASE AwaitNoBlock(p)
  <2>1. HearNoBlock(round[p], Oldest(p).from) \in Heard
    BY <1>1, <1>2, <1>3, <1>5, HeardKept DEF AwaitNoBlock
  <2> QED
    BY <1>1, <1>3, <1>5, <2>1, SafeConclude DEF AwaitNoBlock, Pending
<1>6. CASE AwaitBlock(p)
  <2>1. HearBlock(p, round[p], Oldest(p).from, Oldest(p).block) \in Heard
    BY <1>1, <1>2, <1>3, <1>6, HeardKept DEF AwaitBlock
  <2> QED
    BY <1>1, <1>3, <1>6, <2>1, SafeConclude DEF AwaitBlock, Pending
<1>7. CASE AwaitRequestBlock(p)
  <2> DEFINE m == Oldest(p)
  <2>1. m \in Mail(p) /\ m.from \in Peers
    BY <1>1, <1>7, TakeMail, MailFields DEF AwaitRequestBlock, Pending
  <2>2. /\ Hear(round[p], m.from) \in Heard
        /\ Append(aside[p], m) \in Seq(Mail(p))
    BY <1>1, <1>2, <1>7, <2>1, HeardKept, AppendProperties DEF AwaitRequestBlock
  <2>3. /\ \E r \in {round[p], Hear(round[p], m.from)},
             kept \in {aside[p], Append(aside[p], m)} : Conclude(p, r, kept)
        /\ net' \in {net, net \cup {SendBlockchain(p, m)}}
    BY <1>7, Zenon DEF AwaitRequestBlock
  <2>4. NetInv'
    BY <1>1, <2>1, <2>3, SentByAnswer DEF NetInv, Mail
  <2> QED
    BY <1>1, <1>7, <2>2, <2>3, <2>4, SafeConclude DEF AwaitRequestBlock, Pending
<1>8. CASE AwaitFree(p)
  BY <1>1, <1>3, <1>8, SafeConclude DEF AwaitFree, Pending
<1>9. CASE AwaitTimeout(p)
  <2>1. NetInv'  BY <1>1, <1>9 DEF AwaitTimeout, NetInv, Mail
  <2>2. RoundInv(p)'
    BY <1>1, <1>9, NoRoundHeard DEF AwaitTimeout, RoundInv, TypeOK
  <2>3. \A q \in Peers \ {p} : /\ bc'[q] = bc[q] /\ pc'[q] = pc[q]
                               /\ round'[q] = round[q]
    BY <1>1, <1>9 DEF AwaitTimeout, TypeOK
  <2>4. /\ \E s \in Seq(Mail(p)) : inbox' = [inbox EXCEPT ![p] = s]
        /\ \E s \in Seq(Mail(p)) : aside' = [aside EXCEPT ![p] = s]
        /\ \E S \in SUBSET Mail(p) : held' = [held EXCEPT ![p] = S]
    BY <1>1, <1>9 DEF AwaitTimeout, TypeOK
  <2> QED
    BY <1>1, <1>9, <2>1, <2>2, <2>3, <2>4, SafeOutside DEF AwaitTimeout
<1>10. CASE AwaitReturn(p)
  <2>1. NetInv'  BY <1>1, <1>10 DEF AwaitReturn, NetInv, Mail
  <2>2. RoundInv(p)'
    BY <1>1, <1>10 DEF AwaitReturn, RoundInv, TypeOK
  <2>3. \A q \in Peers \ {p} : /\ bc'[q] = bc[q] /\ pc'[q] = pc[q]
                               /\ round'[q] = round[q]
    BY <1>1, <1>10 DEF AwaitReturn, TypeOK
  <2>4. inbox[p] \o aside[p] \in Seq(Mail(p)) /\ <<>> \in Seq(Mail(p))
    BY <1>1, EmptySeq, ConcatProperties
  <2>5. /\ \E s \in Seq(Mail(p)) : inbox' = [inbox EXCEPT ![p] = s]
        /\ \E s \in Seq(Mail(p)) : aside' = [aside EXCEPT ![p] = s]
        /\ \E S \in SUBSET Mail(p) : held' = [held EXCEPT ![p] = S]
    BY <1>1, <1>10, <2>4 DEF AwaitReturn, TypeOK
  <2> QED
    BY <1>1, <1>10, <2>1, <2>2, <2>3, <2>5, SafeOutside DEF AwaitReturn
<1> QED
  BY <1>4, <1>5, <1>6, <1>7, <1>8, <1>9, <1>10 DEF RequestBlockchain

----------------------------------------------------------------------------
(* The steps of the votes *)

\* Counted(p, Size(p)) stays the same when the chain of p does.
LEMMA CountedPrimed ==
    ASSUME NEW p \in Peers, bc'[p] = bc[p]
    PROVE  /\ Counted(p, Size(p))' = Counted(p, Size(p))
           /\ CandidateAt(Size(p))' = CandidateAt(Size(p))
           /\ Mail(p)' = Mail(p)
BY DEF Counted, CandidateAt, Mail, Size

\* A step of p in which the chain stays and the thread is, or comes to be,
\* in HandleAllBlockAdditionRequests or in a vote.
LEMMA SafeInside ==
    ASSUME SafeInv, TypeInv', NEW p \in Peers, NetInv',
           pc' \in {pc, [pc EXCEPT ![p] = "HandleAll"]}, pc'[p] = "HandleAll",
           UNCHANGED <<bc, round>>,
           held' \in {held, [held EXCEPT ![p] = {}]},
           \E s \in Seq(Mail(p)) : inbox' = [inbox EXCEPT ![p] = s],
           \E s \in Seq(Mail(p)) : aside' = [aside EXCEPT ![p] = s],
           \E s \in Seq(Counted(p, Size(p))) : votes' = [votes EXCEPT ![p] = s],
           \E s \in Seq(CandidateAt(Size(p))) :
              candidates' = [candidates EXCEPT ![p] = s]
    PROVE  SafeInv'
<1>1. TypeOK /\ PeerInv(p)  BY DEF SafeInv, TypeInv
<1>2. /\ inbox'[p] \in Seq(Mail(p)) /\ aside'[p] \in Seq(Mail(p))
      /\ held'[p] \subseteq Mail(p)
      /\ votes'[p] \in Seq(Counted(p, Size(p)))
      /\ candidates'[p] \in Seq(CandidateAt(Size(p)))
  BY <1>1 DEF TypeOK, PeerInv, MailInv
<1>3. MailInv(p)' /\ VotingInv(p)' /\ CandidateInv(p)'
  BY <1>2, CountedPrimed DEF MailInv, VotingInv, CandidateInv
<1>4. PhaseInv(p)' /\ RoundInv(p)'
  BY <1>1 DEF PeerInv, PhaseInv, RoundInv
<1>5. PeerInv(p)'  BY <1>3, <1>4 DEF PeerInv
<1>6. \A q \in Peers \ {p} : UNCHANGED Local(q)
  BY <1>1 DEF Local, TypeOK
<1> QED  BY <1>5, <1>6, SafeAt

\* What p has, to be named in SafeInside for what a step leaves alone.
LEMMA LocalTypes ==
    ASSUME SafeInv, NEW p \in Peers
    PROVE  /\ TypeOK /\ NetInv /\ MailInv(p)
           /\ inbox[p] \in Seq(Mail(p)) /\ aside[p] \in Seq(Mail(p))
           /\ held[p] \in SUBSET Mail(p)
           /\ votes[p] \in Seq(Counted(p, Size(p)))
           /\ candidates[p] \in Seq(CandidateAt(Size(p)))
           /\ inbox = [inbox EXCEPT ![p] = inbox[p]]
           /\ aside = [aside EXCEPT ![p] = aside[p]]
           /\ votes = [votes EXCEPT ![p] = votes[p]]
           /\ candidates = [candidates EXCEPT ![p] = candidates[p]]
BY DEF SafeInv, TypeInv, TypeOK, PeerInv, MailInv, VotingInv, CandidateInv

\* Both ways of handling a request of the mail that leaves no gap.
LEMMA SafeHandle ==
    ASSUME SafeInv, NEW p \in Peers, NEW m \in Mail(p), m \in AddRequest,
           \/ HandleBlockAdditionRequest(p, m)
           \/ RefuseBlockAdditionRequest(p, m)
    PROVE  /\ NetInv'
           /\ \E s \in Seq(Counted(p, Size(p))) : votes' = [votes EXCEPT ![p] = s]
<1>1. /\ TypeOK /\ NetInv /\ votes[p] \in Seq(Counted(p, Size(p)))
      /\ votes = [votes EXCEPT ![p] = votes[p]]
  BY LocalTypes
<1>2. /\ m.type = "ADDREQUEST" /\ m.block \in Block /\ m.index = Len(m.block)
  BY MailFields DEF AddRequest, MessageOf
<1>3. Vote(p, m) \in BOOLEAN  BY DEF Vote, Continues
<1>4. \E a \in BOOLEAN :
        net' = net \cup Broadcast(p, "VOTE", m.index, m.block, a)
  BY <1>3 DEF HandleBlockAdditionRequest, RefuseBlockAdditionRequest
<1>5. NetInv'  BY <1>1, <1>2, <1>4, SentByBroadcast DEF NetInv, Mail
<1>6. CASE HandleBlockAdditionRequest(p, m)
  <2> DEFINE v == NewVoting(p, m.block, FALSE, Vote(p, m))
  <2>1. Vote(p, m) => Len(m.block) = Size(p)  BY <1>2 DEF Vote
  <2>2. v \in Counted(p, Size(p))  BY <1>1, <1>2, <1>3, <2>1, NewCounted
  <2>3. votes' = [votes EXCEPT ![p] = <<v>> \o @]
    BY <1>6 DEF HandleBlockAdditionRequest
  <2> HIDE DEF v
  <2>4. <<v>> \o votes[p] \in Seq(Counted(p, Size(p)))
    BY <1>1, <2>2, SingletonSeq, ConcatProperties
  <2> QED  BY <1>5, <2>3, <2>4
<1>7. CASE RefuseBlockAdditionRequest(p, m)
  BY <1>1, <1>5, <1>7 DEF RefuseBlockAdditionRequest
<1> QED  BY <1>6, <1>7

LEMMA SafeAdditionRequests ==
    ASSUME SafeInv, NEW p \in Peers, AdditionRequests(p)
    PROVE  SafeInv'
<1>1. TypeInv'  BY TypeAdditionRequests DEF SafeInv
<1>2. /\ TypeOK /\ NetInv /\ MailInv(p)
      /\ inbox[p] \in Seq(Mail(p)) /\ aside[p] \in Seq(Mail(p))
      /\ held[p] \in SUBSET Mail(p)
      /\ candidates[p] \in Seq(CandidateAt(Size(p)))
      /\ inbox = [inbox EXCEPT ![p] = inbox[p]]
      /\ aside = [aside EXCEPT ![p] = aside[p]]
      /\ votes = [votes EXCEPT ![p] = votes[p]]
      /\ votes[p] \in Seq(Counted(p, Size(p)))
      /\ candidates = [candidates EXCEPT ![p] = candidates[p]]
  BY LocalTypes
<1>3. CASE AddBlockToBlockchain(p)
  <2> DEFINE b == SneakPeekBlock(p, Head(transactions[p]))
             v == NewVoting(p, b, TRUE, TRUE)
  <2>1. transactions[p] \in Seq(Data) /\ transactions[p] # <<>>
    BY <1>3 DEF AddBlockToBlockchain, SafeInv, TypeInv, TypeOK,
                TransactionAtHand, AtHand, Chain
  <2>2. Head(transactions[p]) \in Data  BY <2>1, HeadTailProperties
  <2>3. bc[p] \in Seq(Data)  BY <1>2 DEF TypeOK, Chain
  <2>4. b \in Block /\ Len(b) = Size(p)
    BY <2>2, <2>3, AppendBlock, AppendProperties DEF SneakPeekBlock, Size, Chain
  <2> HIDE DEF b
  <2>5. v \in Counted(p, Size(p))  BY <1>2, <2>4, NewCounted
  <2>6. /\ votes' = [votes EXCEPT ![p] = <<v>>]
        /\ net' = net \cup Broadcast(p, "ADDREQUEST", Size(p), b, FALSE)
    BY <1>3 DEF AddBlockToBlockchain, b
  <2> HIDE DEF v
  <2>7. <<v>> \in Seq(Counted(p, Size(p)))  BY <2>5, SingletonSeq
  <2>8. NetInv'
    <3>1. \A m \in Broadcast(p, "ADDREQUEST", Len(b), b, FALSE) : m \in Mail(m.to)
      BY <1>2, <2>4, SentByBroadcast
    <3>2. net' = net \cup Broadcast(p, "ADDREQUEST", Len(b), b, FALSE)
      BY <2>4, <2>6
    <3> QED  BY <1>2, <3>1, <3>2 DEF NetInv, Mail
  <2>9. UNCHANGED <<bc, round, held, inbox, aside, candidates>>
        /\ pc' = [pc EXCEPT ![p] = "HandleAll"] /\ pc'[p] = "HandleAll"
    BY <1>2, <1>3 DEF AddBlockToBlockchain, TypeOK
  <2> QED  BY <1>1, <1>2, <2>6, <2>7, <2>8, <2>9, SafeInside
<1>4. CASE HandleHeldRequest(p)
  <2>1. PICK m \in held[p] :
          \/ /\ inbox' = [inbox EXCEPT ![p] = Append(@, m)]
             /\ UNCHANGED <<net, votes>>
          \/ HandleBlockAdditionRequest(p, m) /\ UNCHANGED inbox
    BY <1>4 DEF HandleHeldRequest
  <2>2. m \in Mail(p) /\ m \in AddRequest  BY <1>2 DEF TypeOK
  <2>3. Append(inbox[p], m) \in Seq(Mail(p))  BY <1>2, <2>2, AppendProperties
  <2>4. NetInv' /\ \E s \in Seq(Counted(p, Size(p))) :
                      votes' = [votes EXCEPT ![p] = s]
    <3>1. CASE UNCHANGED <<net, votes>>  BY <1>2, <3>1 DEF NetInv, Mail
    <3>2. CASE HandleBlockAdditionRequest(p, m)  BY <2>2, <3>2, SafeHandle
    <3> QED  BY <2>1, <3>1, <3>2
  <2>5. \E s \in Seq(Mail(p)) : inbox' = [inbox EXCEPT ![p] = s]
    BY <1>2, <2>1, <2>3
  <2>6. /\ UNCHANGED <<bc, round, aside, candidates>>
        /\ held' = [held EXCEPT ![p] = {}]
        /\ pc' = [pc EXCEPT ![p] = "HandleAll"] /\ pc'[p] = "HandleAll"
    BY <1>2, <1>4 DEF HandleHeldRequest, TypeOK
  <2> QED  BY <1>1, <1>2, <2>4, <2>5, <2>6, SafeInside
<1>5. CASE HandleAllRequest(p)
  <2>1. /\ inbox[p] # <<>> /\ Oldest(p).type = "ADDREQUEST" /\ Take(p)
        /\ HandleBlockAdditionRequest(p, Oldest(p))
    BY <1>5 DEF HandleAllRequest, ForTip
  <2>2. Oldest(p) \in Mail(p) /\ Oldest(p) \in AddRequest
    BY <1>2, <2>1, TakeMail, OldestType, MessageFields
  <2>3. NetInv' /\ \E s \in Seq(Counted(p, Size(p))) :
                      votes' = [votes EXCEPT ![p] = s]
    BY <2>1, <2>2, SafeHandle
  <2>4. \E s \in Seq(Mail(p)) : inbox' = [inbox EXCEPT ![p] = s]
    BY <1>2, <2>1, TakeMail DEF Take
  <2>5. UNCHANGED <<bc, round, held, pc, aside, candidates>> /\ pc[p] = "HandleAll"
    BY <1>5 DEF HandleAllRequest, HandlingAll, mainVars
  <2> QED  BY <1>1, <1>2, <2>3, <2>4, <2>5, SafeInside
<1>6. CASE HandleAllSetAside(p)
  <2>1. Oldest(p) \in Mail(p) /\ Tail(inbox[p]) \in Seq(Mail(p))
    BY <1>2, <1>6, TakeMail DEF HandleAllSetAside
  <2>2. Append(aside[p], Oldest(p)) \in Seq(Mail(p))
    BY <1>2, <2>1, AppendProperties
  <2>3. /\ \E s \in Seq(Mail(p)) : inbox' = [inbox EXCEPT ![p] = s]
        /\ \E s \in Seq(Mail(p)) : aside' = [aside EXCEPT ![p] = s]
    BY <1>6, <2>1, <2>2 DEF HandleAllSetAside, Take
  <2>4. UNCHANGED <<bc, round, held, pc, votes, candidates, net>>
        /\ pc[p] = "HandleAll"
    BY <1>6 DEF HandleAllSetAside, HandlingAll, mainVars
  <2>5. NetInv'  BY <1>2, <2>4 DEF NetInv, Mail
  <2> QED  BY <1>1, <1>2, <2>3, <2>4, <2>5, SafeInside
<1>7. CASE HandleAllFinish(p)
  <2>1. /\ votes[p] = <<>> /\ UNCHANGED <<votes, net, held, round>>
        /\ candidates' = [candidates EXCEPT ![p] = <<>>]
        /\ inbox' = [inbox EXCEPT ![p] = inbox[p] \o aside[p]]
        /\ aside' = [aside EXCEPT ![p] = <<>>]
        /\ pc' = [pc EXCEPT ![p] = "Run"]
    BY <1>7 DEF HandleAllFinish, SafeInv, PeerInv, PhaseInv
  <2>2. \A q \in Peers \ {p} : bc'[q] = bc[q]
    BY <1>2, <1>7 DEF HandleAllFinish, AddBlock, TypeOK
  <2>3. /\ votes'[p] = <<>> /\ candidates'[p] = <<>>
        /\ inbox'[p] = inbox[p] \o aside[p]
        /\ aside'[p] = <<>> /\ pc'[p] = "Run" /\ held'[p] = held[p]
        /\ round'[p] = round[p]
        /\ inbox[p] \o aside[p] \in Seq(Mail(p))
    BY <1>2, <2>1, ConcatProperties DEF TypeOK
  <2>4. MailInv(p)'  BY <1>2, <2>3, EmptySeq DEF MailInv, Mail
  <2>5. VotingInv(p)' /\ CandidateInv(p)' /\ PhaseInv(p)'
    BY <2>3, EmptySeq DEF VotingInv, CandidateInv, PhaseInv
  <2>6. RoundInv(p)'
    BY <2>3 DEF SafeInv, PeerInv, RoundInv
  <2>7. NetInv'  BY <1>2, <2>1 DEF NetInv, Mail
  <2>8. \A q \in Peers \ {p} : UNCHANGED Local(q)
    BY <1>2, <2>1, <2>2 DEF Local, TypeOK
  <2> QED  BY <1>1, <2>4, <2>5, <2>6, <2>7, <2>8, SafeAt DEF PeerInv
<1>8. CASE HandleAllBreak(p)
  <2>1. /\ votes[p] = <<>> /\ pc'[p] = "Finish"
        /\ UNCHANGED <<bc, votes, net, held, round, candidates, inbox, aside>>
        /\ \A q \in Peers \ {p} : pc'[q] = pc[q]
    BY <1>2, <1>8 DEF HandleAllBreak, HandlingAll, TypeOK
  <2>2. PeerInv(p)  BY DEF SafeInv
  <2>3. MailInv(p)' /\ VotingInv(p)' /\ CandidateInv(p)'
    BY <2>1, <2>2, CountedPrimed
    DEF PeerInv, MailInv, VotingInv, CandidateInv
  <2>4. PhaseInv(p)' /\ RoundInv(p)'
    BY <2>1, <2>2 DEF PeerInv, PhaseInv, RoundInv
  <2>5. NetInv'  BY <1>2, <2>1 DEF NetInv, Mail
  <2>6. \A q \in Peers \ {p} : UNCHANGED Local(q)
    BY <2>1 DEF Local
  <2> QED  BY <1>1, <2>3, <2>4, <2>5, <2>6, SafeAt DEF PeerInv
<1> QED
  BY <1>3, <1>4, <1>5, <1>6, <1>7, <1>8 DEF AdditionRequests

\* A step of CheckVotesForBlock.
LEMMA SafeCheckVotesForBlock ==
    ASSUME SafeInv, NEW p \in Peers, CheckVotesForBlock(p)
    PROVE  SafeInv'
<1>1. TypeInv'  BY TypeCheckVotesForBlock DEF SafeInv
<1>2. /\ TypeOK /\ NetInv /\ MailInv(p)
      /\ inbox[p] \in Seq(Mail(p)) /\ aside[p] \in Seq(Mail(p))
      /\ held[p] \in SUBSET Mail(p)
      /\ votes[p] \in Seq(Counted(p, Size(p)))
      /\ candidates[p] \in Seq(CandidateAt(Size(p)))
      /\ inbox = [inbox EXCEPT ![p] = inbox[p]]
      /\ aside = [aside EXCEPT ![p] = aside[p]]
      /\ votes = [votes EXCEPT ![p] = votes[p]]
      /\ candidates = [candidates EXCEPT ![p] = candidates[p]]
  BY LocalTypes
<1>3. votes[p] # <<>> /\ UNCHANGED <<bc, pc, held, round, aside>>
  BY DEF CheckVotesForBlock, CheckVote, CheckSetAside, CheckRequestBlock,
         CheckAddRequest, CheckFree, CheckTimeout, CheckReturn, Collecting,
         mainVars
<1>4. pc[p] = "HandleAll"  BY <1>3 DEF SafeInv, PeerInv, PhaseInv
<1> DEFINE v == Innermost(p)
           outer == Tail(votes[p])
<1>5. v \in Counted(p, Size(p)) /\ outer \in Seq(Counted(p, Size(p)))
  BY <1>2, <1>3, HeadTailProperties DEF Innermost
<1>6. ASSUME NEW w \in Counted(p, Size(p)), SetVoting(p, w)
      PROVE  \E s \in Seq(Counted(p, Size(p))) : votes' = [votes EXCEPT ![p] = s]
  <2>1. <<w>> \o outer \in Seq(Counted(p, Size(p)))
    BY <1>5, SingletonSeq, ConcatProperties
  <2> QED  BY <1>6, <2>1 DEF SetVoting
<1>7. ASSUME NEW types, Pending(p, types), Take(p)
      PROVE  /\ Oldest(p) \in Mail(p)
             /\ \E s \in Seq(Mail(p)) : inbox' = [inbox EXCEPT ![p] = s]
  BY <1>2, <1>7, TakeMail DEF Pending, Take
<1>8. ASSUME UNCHANGED net PROVE NetInv'
  BY <1>2, <1>8 DEF NetInv, Mail
<1> HIDE DEF v, outer
<1>9. CASE CheckVote(p)
  <2>1. Oldest(p) \in Mail(p) /\ Oldest(p).type = "VOTE"
    BY <1>7, <1>9 DEF CheckVote, Pending
  <2>2. \E s \in Seq(Counted(p, Size(p))) : votes' = [votes EXCEPT ![p] = s]
    <3>1. CASE UNCHANGED votes  BY <1>2, <3>1
    <3>2. CASE Counts(p, v, Oldest(p)) /\ SetVoting(p, Count(v, Oldest(p)))
      <4>1. ~Decided(v)  BY <1>9 DEF CheckVote, Collecting, v
      <4>2. Count(v, Oldest(p)) \in Counted(p, Size(p))
        BY <1>5, <2>1, <3>2, <4>1, CountKept
      <4> QED  BY <1>6, <3>2, <4>2
    <3> QED  BY <1>9, <3>1, <3>2 DEF CheckVote, v
  <2>3. UNCHANGED <<candidates, net>>  BY <1>9 DEF CheckVote
  <2>4. \E s \in Seq(Mail(p)) : inbox' = [inbox EXCEPT ![p] = s]
    BY <1>7, <1>9 DEF CheckVote
  <2> QED
    BY <1>1, <1>2, <1>3, <1>4, <1>8, <2>2, <2>3, <2>4, SafeInside
<1>10. CASE CheckSetAside(p)
  <2>1. Oldest(p) \in Mail(p) /\ \E s \in Seq(Mail(p)) :
                                    inbox' = [inbox EXCEPT ![p] = s]
    BY <1>7, <1>10 DEF CheckSetAside
  <2>2. [v EXCEPT !.aside = Append(@, Oldest(p))] \in Counted(p, Size(p))
    BY <1>5, <2>1, AsideKept
  <2>3. \E s \in Seq(Counted(p, Size(p))) : votes' = [votes EXCEPT ![p] = s]
    BY <1>6, <1>10, <2>2 DEF CheckSetAside, v
  <2>4. UNCHANGED <<candidates, net>>  BY <1>10 DEF CheckSetAside
  <2> QED
    BY <1>1, <1>2, <1>3, <1>4, <1>8, <2>1, <2>3, <2>4, SafeInside
<1>11. CASE CheckRequestBlock(p)
  <2>1. Oldest(p) \in Mail(p) /\ \E s \in Seq(Mail(p)) :
                                    inbox' = [inbox EXCEPT ![p] = s]
    BY <1>7, <1>11 DEF CheckRequestBlock
  <2>2. NetInv'
    BY <1>2, <1>11, <2>1, SentByAnswer DEF CheckRequestBlock, NetInv, Mail
  <2> QED
    BY <1>1, <1>2, <1>3, <1>4, <1>11, <2>1, <2>2, SafeInside
    DEF CheckRequestBlock
<1>12. CASE CheckAddRequest(p)
  <2>1. Oldest(p) \in Mail(p) /\ \E s \in Seq(Mail(p)) :
                                    inbox' = [inbox EXCEPT ![p] = s]
    BY <1>7, <1>12 DEF CheckAddRequest
  <2>2. Oldest(p) \in AddRequest
    BY <2>1, <1>12, MessageFields DEF CheckAddRequest, Pending, Mail
  <2>3. NetInv' /\ \E s \in Seq(Counted(p, Size(p))) :
                      votes' = [votes EXCEPT ![p] = s]
    BY <1>12, <2>1, <2>2, SafeHandle DEF CheckAddRequest
  <2>4. UNCHANGED candidates  BY <1>12 DEF CheckAddRequest
  <2> QED
    BY <1>1, <1>2, <1>3, <1>4, <2>1, <2>3, <2>4, SafeInside
<1>13. CASE CheckFree(p)
  BY <1>1, <1>2, <1>3, <1>4, <1>7, <1>8, <1>13, SafeInside DEF CheckFree
<1>14. CASE CheckTimeout(p)
  <2>1. [v EXCEPT !.status = "timed out"] \in Counted(p, Size(p))
    BY <1>5, StatusKept
  <2>2. \E s \in Seq(Counted(p, Size(p))) : votes' = [votes EXCEPT ![p] = s]
    BY <1>6, <1>14, <2>1 DEF CheckTimeout, v
  <2> QED
    BY <1>1, <1>2, <1>3, <1>4, <1>8, <1>14, <2>2, SafeInside DEF CheckTimeout
<1>15. CASE CheckReturn(p)
  <2>1. /\ v \in Voting /\ v.block \in Block /\ v.own \in BOOLEAN
        /\ v.aside \in Seq(Mail(p))
    <3>1. v \in Voting /\ v.aside \in Seq(Mail(p))  BY <1>5, CountedFields
    <3>2. v.block \in Block /\ v.own \in BOOLEAN  BY <3>1 DEF Voting
    <3> QED  BY <3>1, <3>2
  <2>2. \E s \in Seq(Mail(p)) : inbox' = [inbox EXCEPT ![p] = s]
    <3>1. inbox[p] \o v.aside \in Seq(Mail(p))  BY <1>2, <2>1, ConcatProperties
    <3> QED  BY <1>2, <1>15, <3>1 DEF CheckReturn, v
  <2>3. \E s \in Seq(CandidateAt(Size(p))) :
           candidates' = [candidates EXCEPT ![p] = s]
    <3> DEFINE c == [block |-> v.block, own |-> v.own]
    <3>1. CASE Accepted(v)
      <4>1. Len(v.block) = Size(p)  BY <1>5, <3>1, AcceptedAtSize
      <4>2. c \in CandidateAt(Size(p))
        BY <2>1, <4>1 DEF CandidateAt, Candidate
      <4>3. Append(candidates[p], c) \in Seq(CandidateAt(Size(p)))
        BY <1>2, <4>2, AppendProperties
      <4> QED  BY <1>15, <3>1, <4>3 DEF CheckReturn, v
    <3>2. CASE ~Accepted(v)
      BY <1>2, <1>15, <3>2 DEF CheckReturn, v
    <3> QED  BY <3>1, <3>2
  <2>4. NetInv'
    <3>1. CASE UNCHANGED net  BY <1>8, <3>1
    <3>2. CASE net' = net \cup Broadcast(p, "VOTE", Len(v.block), v.block,
                                         Accepted(v))
      <4>1. Accepted(v) \in BOOLEAN  BY DEF Accepted
      <4>2. \A m \in Broadcast(p, "VOTE", Len(v.block), v.block, Accepted(v)) :
               m \in Mail(m.to)
        BY <1>2, <2>1, <4>1, SentByBroadcast
      <4> QED  BY <1>2, <3>2, <4>2 DEF NetInv, Mail
    <3> QED  BY <1>15, <3>1, <3>2 DEF CheckReturn, v
  <2>5. \E s \in Seq(Counted(p, Size(p))) : votes' = [votes EXCEPT ![p] = s]
    <3>1. CASE votes' = [votes EXCEPT ![p] = outer]  BY <1>5, <3>1
    <3>2. CASE /\ outer # <<>>
               /\ votes' = [votes EXCEPT ![p] =
                     <<[Head(outer) EXCEPT !.status = "abandoned"]>>
                       \o Tail(outer)]
      <4>1. Head(outer) \in Counted(p, Size(p))
            /\ Tail(outer) \in Seq(Counted(p, Size(p)))
        BY <1>5, <3>2, HeadTailProperties
      <4> DEFINE w == [Head(outer) EXCEPT !.status = "abandoned"]
      <4>2. w \in Counted(p, Size(p))  BY <4>1, StatusKept
      <4> HIDE DEF w
      <4>3. <<w>> \o Tail(outer) \in Seq(Counted(p, Size(p)))
        BY <4>1, <4>2, SingletonSeq, ConcatProperties
      <4> QED  BY <3>2, <4>3 DEF w
    <3> QED  BY <1>15, <3>1, <3>2 DEF CheckReturn, outer
  <2> QED
    BY <1>1, <1>2, <1>3, <1>4, <2>2, <2>3, <2>4, <2>5, SafeInside
<1> QED
  BY <1>9, <1>10, <1>11, <1>12, <1>13, <1>14, <1>15 DEF CheckVotesForBlock

LEMMA SafeStep == SafeInv /\ [Next]_vars => SafeInv'
<1> SUFFICES ASSUME SafeInv, [Next]_vars PROVE SafeInv'  OBVIOUS
<1>1. CASE \E m \in net : Receive(m)  BY <1>1, SafeReceive
<1>2. CASE \E p \in Peers : ReceiveNetinfo(p)  BY <1>2, SafeReceiveNetinfo
<1>3. CASE \E p \in Peers : Run(p)  BY <1>3, SafeRun
<1>4. CASE \E p \in Peers : RequestBlockchain(p)  BY <1>4, SafeRequestBlockchain
<1>5. CASE \E p \in Peers : AdditionRequests(p)  BY <1>5, SafeAdditionRequests
<1>6. CASE \E p \in Peers : CheckVotesForBlock(p)
  BY <1>6, SafeCheckVotesForBlock
<1>7. CASE UNCHANGED vars
  <2>1. TypeInv'  BY <1>7, TypeStep DEF SafeInv
  <2> QED
    BY <1>7, <2>1
    DEF SafeInv, NetInv, PeerInv, MailInv, VotingInv, CandidateInv, PhaseInv,
        RoundInv, Size, Mail, vars, mainVars
<1> QED  BY <1>1, <1>2, <1>3, <1>4, <1>5, <1>6, <1>7 DEF Next

LEMMA Safe == Spec => []SafeInv
BY SafeInit, SafeStep, PTL DEF Spec

----------------------------------------------------------------------------
(* The theorems *)

\* The votes of CheckVotesForBlock (application.cc:592-626) are the caller's
\* and one of each other peer seen, never more than the peers asked.
THEOREM VotesAddUp == Spec => []VotesCounted
<1>1. SafeInv => VotesCounted
  <2> SUFFICES ASSUME SafeInv, NEW p \in Peers, NEW i \in DOMAIN votes[p]
               PROVE  votes[p][i] \in Counted(p, Size(p))
    BY CountedFields DEF VotesCounted
  <2>1. votes[p] \in Seq(Counted(p, Size(p)))
    BY DEF SafeInv, PeerInv, VotingInv
  <2> QED  BY <2>1, ElementOfSeq, LenProperties
<1> QED  BY <1>1, Safe, PTL

\* No peer is heard twice in a round (application.cc:316-374), so that the
\* unsigned n_peers - i of checkMajority (application.cc:260) never wraps.
THEOREM RepliesAddUp == Spec => []RepliesCounted
<1>1. SafeInv => RepliesCounted
  BY DEF SafeInv, PeerInv, RoundInv, Heard, RepliesCounted
<1> QED  BY <1>1, Safe, PTL

\* Only blocks of the current index become candidates for the chain
\* (application.cc:571-572, 808), whatever has become of the request since.
THEOREM CandidatesNext == Spec => []CandidatesAreNext
<1>1. SafeInv => CandidatesAreNext
  <2> SUFFICES ASSUME SafeInv, NEW p \in Peers
               PROVE  /\ \A i \in DOMAIN candidates[p] :
                            Len(candidates[p][i].block) = Size(p)
                      /\ \A i \in DOMAIN votes[p] :
                            Accepted(votes[p][i]) =>
                               Len(votes[p][i].block) = Size(p)
    BY DEF CandidatesAreNext
  <2>1. /\ votes[p] \in Seq(Counted(p, Size(p)))
        /\ candidates[p] \in Seq(CandidateAt(Size(p)))
    BY DEF SafeInv, PeerInv, VotingInv, CandidateInv
  <2>2. ASSUME NEW i \in DOMAIN candidates[p]
        PROVE  candidates[p][i] \in CandidateAt(Size(p))
    BY <2>1, ElementOfSeq, LenProperties
  <2>3. ASSUME NEW i \in DOMAIN votes[p]
        PROVE  votes[p][i] \in Counted(p, Size(p))
    BY <2>1, ElementOfSeq, LenProperties
  <2> QED  BY <2>2, <2>3, AcceptedAtSize DEF CandidateAt
<1> QED  BY <1>1, Safe, PTL

----------------------------------------------------------------------------
(* Transactions: the inductive invariant *)

\* The block that p builds on its chain for the first of its transactions.
OwnBlock(p, b) ==
    transactions[p] # <<>> /\ b = SneakPeekBlock(p, Head(transactions[p]))

\* Activations and candidates of which those of p itself have that block.
OwnVotings(p) == {v \in Voting : v.own => OwnBlock(p, v.block)}
OwnCandidates(p) == {c \in Candidate : c.own => OwnBlock(p, c.block)}

OwnAt(p) == /\ votes[p] \in Seq(OwnVotings(p))
            /\ candidates[p] \in Seq(OwnCandidates(p))
OwnInv == \A p \in Peers : OwnAt(p)
TransactionInv == SafeInv /\ OwnInv

----------------------------------------------------------------------------
(* The operators that are involved *)

LEMMA RemoveHead ==
    ASSUME NEW S, NEW s \in Seq(S), s # <<>>
    PROVE  RemoveAt(s, 1) = Tail(s)
<1>1. SubSeq(s, 1, 0) = <<>> /\ SubSeq(s, 2, Len(s)) = Tail(s)
  BY SubSeqEmpty, TailIsSubSeq
<1>2. 1 - 1 = 0 /\ 1 + 1 = 2  OBVIOUS
<1>3. RemoveAt(s, 1) = <<>> \o Tail(s)  BY <1>1, <1>2, Zenon DEF RemoveAt
<1>4. Tail(s) \in Seq(S)  BY HeadTailProperties
<1> QED  BY <1>3, <1>4, ConcatEmptySeq

LEMMA LastOfAppend ==
    ASSUME NEW S, NEW s \in Seq(S), NEW e \in S
    PROVE  Last(Append(s, e)) = e
BY AppendProperties DEF Last

\* There is one best candidate, whatever HashLeq is.
LEMMA BestIsUnique ==
    ASSUME NEW c, NEW S, c \in Seq(S), NEW i \in DOMAIN c, NEW j \in DOMAIN c,
           Best(c, i), Best(c, j)
    PROVE  i = j
<1>1. i \in Nat /\ j \in Nat  BY LenProperties
<1>2. ~(i < j) /\ ~(j < i)  BY <1>1 DEF Best
<1> QED  BY <1>1, <1>2

----------------------------------------------------------------------------
(* The steps *)

\* A step that disturbs one peer only.
LEMMA OwnElsewhere ==
    ASSUME OwnInv, NEW p \in Peers, OwnAt(p)',
           \A q \in Peers \ {p} :
              UNCHANGED <<bc[q], transactions[q], votes[q], candidates[q]>>
    PROVE  OwnInv'
<1> SUFFICES ASSUME NEW q \in Peers, q # p PROVE OwnAt(q)'
  BY DEF OwnInv
<1>1. OwnAt(q)  BY DEF OwnInv
<1>2. /\ bc'[q] = bc[q] /\ transactions'[q] = transactions[q]
      /\ votes'[q] = votes[q] /\ candidates'[q] = candidates[q]
  OBVIOUS
<1>3. OwnVotings(q)' = OwnVotings(q) /\ OwnCandidates(q)' = OwnCandidates(q)
  BY <1>2 DEF OwnVotings, OwnCandidates, OwnBlock, SneakPeekBlock
<1> QED  BY <1>1, <1>2, <1>3 DEF OwnAt

\* A step outside the votes: the chain may grow, but nothing waits for it.
LEMMA OwnOutside ==
    ASSUME TransactionInv, NEW p \in Peers,
           pc[p] \notin {"HandleAll", "Finish"},
           UNCHANGED <<transactions, votes, candidates>>,
           \A q \in Peers \ {p} : bc'[q] = bc[q]
    PROVE  OwnInv'
<1>1. votes[p] = <<>> /\ candidates[p] = <<>>
  BY DEF TransactionInv, SafeInv, PeerInv, PhaseInv
<1>2. OwnAt(p)'  BY <1>1, EmptySeq DEF OwnAt
<1> QED  BY <1>2, OwnElsewhere DEF TransactionInv

\* A step that leaves the chains and the transactions alone.
LEMMA OwnInside ==
    ASSUME TransactionInv, NEW p \in Peers, UNCHANGED <<bc, transactions>>,
           NEW s \in Seq(OwnVotings(p)), votes' = [votes EXCEPT ![p] = s],
           NEW c \in Seq(OwnCandidates(p)),
           candidates' = [candidates EXCEPT ![p] = c]
    PROVE  OwnInv'
<1>1. votes \in [Peers -> Seq(Voting)] /\ candidates \in [Peers -> Seq(Candidate)]
  BY DEF TransactionInv, SafeInv, TypeInv, TypeOK
<1>2. OwnVotings(p)' = OwnVotings(p) /\ OwnCandidates(p)' = OwnCandidates(p)
  BY DEF OwnVotings, OwnCandidates, OwnBlock, SneakPeekBlock
<1>3. OwnAt(p)'  BY <1>1, <1>2 DEF OwnAt
<1> QED  BY <1>1, <1>3, OwnElsewhere DEF TransactionInv

\* What p has, to be named in OwnInside for what a step leaves alone.
LEMMA OwnTypes ==
    ASSUME TransactionInv, NEW p \in Peers
    PROVE  /\ TypeOK
           /\ votes[p] \in Seq(OwnVotings(p))
           /\ candidates[p] \in Seq(OwnCandidates(p))
           /\ votes = [votes EXCEPT ![p] = votes[p]]
           /\ candidates = [candidates EXCEPT ![p] = candidates[p]]
BY DEF TransactionInv, SafeInv, TypeInv, TypeOK, OwnInv, OwnAt

\* A request of another peer is not one's own.
LEMMA OwnHandle ==
    ASSUME TransactionInv, NEW p \in Peers, NEW m \in AddRequest,
           HandleBlockAdditionRequest(p, m) \/ RefuseBlockAdditionRequest(p, m)
    PROVE  \E s \in Seq(OwnVotings(p)) : votes' = [votes EXCEPT ![p] = s]
<1>1. /\ TypeOK /\ votes[p] \in Seq(OwnVotings(p))
      /\ votes = [votes EXCEPT ![p] = votes[p]]
  BY OwnTypes
<1>2. CASE HandleBlockAdditionRequest(p, m)
  <2> DEFINE v == NewVoting(p, m.block, FALSE, Vote(p, m))
  <2>1. m.block \in Block /\ Vote(p, m) \in BOOLEAN
    BY DEF AddRequest, MessageOf, Vote, Continues
  <2>2. v \in Voting  BY <1>1, <2>1, NewVotingType
  <2>3. v \in OwnVotings(p)  BY <2>2 DEF OwnVotings, NewVoting
  <2>4. votes' = [votes EXCEPT ![p] = <<v>> \o @]
    BY <1>2 DEF HandleBlockAdditionRequest
  <2> HIDE DEF v
  <2>5. <<v>> \o votes[p] \in Seq(OwnVotings(p))
    BY <1>1, <2>3, SingletonSeq, ConcatProperties
  <2> QED  BY <2>4, <2>5
<1>3. CASE RefuseBlockAdditionRequest(p, m)
  BY <1>1, <1>3 DEF RefuseBlockAdditionRequest
<1> QED  BY <1>2, <1>3
LEMMA OwnAdditionRequests ==
    ASSUME TransactionInv, NEW p \in Peers, AdditionRequests(p)
    PROVE  OwnInv'
<1>1. /\ TypeOK /\ votes[p] \in Seq(OwnVotings(p))
      /\ candidates[p] \in Seq(OwnCandidates(p))
      /\ votes = [votes EXCEPT ![p] = votes[p]]
      /\ candidates = [candidates EXCEPT ![p] = candidates[p]]
  BY OwnTypes
<1>2. CASE AddBlockToBlockchain(p)
  <2> DEFINE b == SneakPeekBlock(p, Head(transactions[p]))
             v == NewVoting(p, b, TRUE, TRUE)
  <2>1. transactions[p] \in Seq(Data) /\ transactions[p] # <<>>
    BY <1>2 DEF AddBlockToBlockchain, TransactionInv, SafeInv, TypeInv, TypeOK,
                TransactionAtHand, AtHand, Chain
  <2>2. Head(transactions[p]) \in Data  BY <2>1, HeadTailProperties
  <2>3. b \in Block  BY <1>1, <2>2, SizeType, AppendBlock DEF SneakPeekBlock
  <2>4. OwnBlock(p, b)  BY <2>1 DEF OwnBlock
  <2> HIDE DEF b
  <2>5. v \in Voting /\ v.block = b  BY <1>1, <2>3, NewVotingType DEF NewVoting
  <2>6. v \in OwnVotings(p)  BY <2>4, <2>5 DEF OwnVotings
  <2>7. votes' = [votes EXCEPT ![p] = <<v>>]
    BY <1>2 DEF AddBlockToBlockchain, b
  <2> HIDE DEF v
  <2>8. <<v>> \in Seq(OwnVotings(p))  BY <2>6, SingletonSeq
  <2> QED  BY <1>1, <1>2, <2>7, <2>8, OwnInside DEF AddBlockToBlockchain
<1>3. CASE HandleHeldRequest(p)
  <2>1. PICK m \in held[p] :
          UNCHANGED votes \/ HandleBlockAdditionRequest(p, m)
    BY <1>3 DEF HandleHeldRequest
  <2>2. m \in AddRequest  BY <1>1 DEF TypeOK
  <2>3. \E s \in Seq(OwnVotings(p)) : votes' = [votes EXCEPT ![p] = s]
    BY <1>1, <2>1, <2>2, OwnHandle
  <2> QED  BY <1>1, <1>3, <2>3, OwnInside DEF HandleHeldRequest
<1>4. CASE HandleAllRequest(p)
  <2>1. Oldest(p) \in AddRequest
    BY <1>1, <1>4, OldestType, MessageFields DEF HandleAllRequest, ForTip
  <2>2. \E s \in Seq(OwnVotings(p)) : votes' = [votes EXCEPT ![p] = s]
    BY <1>4, <2>1, OwnHandle DEF HandleAllRequest
  <2> QED  BY <1>1, <1>4, <2>2, OwnInside DEF HandleAllRequest
<1>5. CASE HandleAllSetAside(p)
  BY <1>1, <1>5, OwnInside DEF HandleAllSetAside
<1>6. CASE HandleAllFinish(p)
  <2>1. /\ votes'[p] = <<>> /\ candidates'[p] = <<>>
        /\ \A q \in Peers \ {p} :
              UNCHANGED <<bc[q], transactions[q], votes[q], candidates[q]>>
    BY <1>1, <1>6
    DEF HandleAllFinish, AddBlock, TypeOK, TransactionInv, SafeInv, PeerInv,
        PhaseInv
  <2>2. OwnAt(p)'  BY <2>1, EmptySeq DEF OwnAt
  <2> QED  BY <2>1, <2>2, OwnElsewhere DEF TransactionInv
<1>7. CASE HandleAllBreak(p)
  BY <1>1, <1>7, OwnInside DEF HandleAllBreak
<1> QED  BY <1>2, <1>3, <1>4, <1>5, <1>6, <1>7 DEF AdditionRequests

\* An activation keeps its block and whose it is.
LEMMA OwnSet ==
    ASSUME TransactionInv, NEW p \in Peers, votes[p] # <<>>,
           NEW v \in Voting, SetVoting(p, v),
           v.block = Innermost(p).block, v.own = Innermost(p).own
    PROVE  \E s \in Seq(OwnVotings(p)) : votes' = [votes EXCEPT ![p] = s]
<1>1. votes[p] \in Seq(OwnVotings(p))  BY OwnTypes
<1>2. Innermost(p) \in OwnVotings(p) /\ Tail(votes[p]) \in Seq(OwnVotings(p))
  BY <1>1, HeadTailProperties DEF Innermost
<1>3. v \in OwnVotings(p)  BY <1>2 DEF OwnVotings
<1>4. <<v>> \o Tail(votes[p]) \in Seq(OwnVotings(p))
  BY <1>2, <1>3, SingletonSeq, ConcatProperties
<1> QED  BY <1>4 DEF SetVoting

LEMMA OwnCheckVotesForBlock ==
    ASSUME TransactionInv, NEW p \in Peers, CheckVotesForBlock(p)
    PROVE  OwnInv'
<1>1. /\ TypeOK /\ votes[p] \in Seq(OwnVotings(p))
      /\ candidates[p] \in Seq(OwnCandidates(p))
      /\ votes = [votes EXCEPT ![p] = votes[p]]
      /\ candidates = [candidates EXCEPT ![p] = candidates[p]]
  BY OwnTypes
<1>2. UNCHANGED <<bc, transactions>>
  BY DEF CheckVotesForBlock, CheckVote, CheckSetAside, CheckRequestBlock,
         CheckAddRequest, CheckFree, CheckTimeout, CheckReturn
<1>3. votes[p] # <<>> /\ Innermost(p) \in Voting
  BY <1>1, InnermostType
  DEF CheckVotesForBlock, CheckVote, CheckSetAside, CheckRequestBlock,
      CheckAddRequest, CheckFree, CheckTimeout, CheckReturn, Collecting
<1>4. CASE CheckVote(p) \/ CheckSetAside(p) \/ CheckTimeout(p)
  <2>1. \/ UNCHANGED votes
        \/ \E v \in Voting : /\ SetVoting(p, v)
                             /\ v.block = Innermost(p).block
                             /\ v.own = Innermost(p).own
    <3>1. CASE CheckVote(p)
      <4> DEFINE v == Count(Innermost(p), Oldest(p))
      <4>1. Oldest(p) \in Message
        BY <1>1, <3>1, OldestType DEF CheckVote, Pending
      <4>2. v \in Voting  BY <1>3, <4>1, CountType
      <4>3. v.block = Innermost(p).block /\ v.own = Innermost(p).own
        BY <1>3 DEF Count, Voting
      <4>4. UNCHANGED votes \/ SetVoting(p, v)  BY <3>1 DEF CheckVote
      <4> HIDE DEF v
      <4> QED  BY <4>2, <4>3, <4>4
    <3>2. CASE CheckSetAside(p)
      <4> DEFINE v == [Innermost(p) EXCEPT !.aside = Append(@, Oldest(p))]
      <4>1. Oldest(p) \in Message
        BY <1>1, <3>2, OldestType DEF CheckSetAside, Pending
      <4>2. Append(Innermost(p).aside, Oldest(p)) \in Seq(Message)
        BY <1>3, <4>1, AppendProperties DEF Voting
      <4>3. /\ v \in Voting
            /\ v.block = Innermost(p).block /\ v.own = Innermost(p).own
        BY <1>3, <4>2 DEF Voting
      <4>4. SetVoting(p, v)  BY <3>2 DEF CheckSetAside
      <4> HIDE DEF v
      <4> QED  BY <4>3, <4>4
    <3>3. CASE CheckTimeout(p)
      <4> DEFINE v == [Innermost(p) EXCEPT !.status = "timed out"]
      <4>1. /\ v \in Voting
            /\ v.block = Innermost(p).block /\ v.own = Innermost(p).own
        BY <1>3 DEF Voting
      <4>2. SetVoting(p, v)  BY <3>3 DEF CheckTimeout
      <4> HIDE DEF v
      <4> QED  BY <4>1, <4>2
    <3> QED  BY <1>4, <3>1, <3>2, <3>3
  <2>2. \E s \in Seq(OwnVotings(p)) : votes' = [votes EXCEPT ![p] = s]
    BY <1>1, <1>3, <2>1, OwnSet
  <2>3. UNCHANGED candidates
    BY <1>4 DEF CheckVote, CheckSetAside, CheckTimeout
  <2> QED  BY <1>1, <1>2, <2>2, <2>3, OwnInside
<1>5. CASE CheckRequestBlock(p) \/ CheckFree(p)
  BY <1>1, <1>2, <1>5, OwnInside DEF CheckRequestBlock, CheckFree
<1>6. CASE CheckAddRequest(p)
  <2>1. Oldest(p) \in AddRequest
    BY <1>1, <1>6, OldestType, MessageFields DEF CheckAddRequest, Pending
  <2>2. \E s \in Seq(OwnVotings(p)) : votes' = [votes EXCEPT ![p] = s]
    BY <1>6, <2>1, OwnHandle DEF CheckAddRequest
  <2> QED  BY <1>1, <1>2, <1>6, <2>2, OwnInside DEF CheckAddRequest
<1>7. CASE CheckReturn(p)
  <2> DEFINE v == Innermost(p)
             outer == Tail(votes[p])
             c == [block |-> v.block, own |-> v.own]
  <2>1. v \in OwnVotings(p) /\ outer \in Seq(OwnVotings(p))
    BY <1>1, <1>3, HeadTailProperties DEF Innermost
  <2>2. \E s \in Seq(OwnVotings(p)) : votes' = [votes EXCEPT ![p] = s]
    <3>1. CASE outer # <<>>
      <4> DEFINE w == [Head(outer) EXCEPT !.status = "abandoned"]
      <4>1. Head(outer) \in OwnVotings(p) /\ Tail(outer) \in Seq(OwnVotings(p))
        BY <2>1, <3>1, HeadTailProperties
      <4>2. w \in OwnVotings(p)  BY <4>1 DEF OwnVotings, Voting
      <4>3. votes' \in {[votes EXCEPT ![p] = <<w>> \o Tail(outer)],
                        [votes EXCEPT ![p] = outer]}
        BY <1>7, <3>1 DEF CheckReturn
      <4> HIDE DEF w, outer
      <4>4. <<w>> \o Tail(outer) \in Seq(OwnVotings(p))
        BY <4>1, <4>2, SingletonSeq, ConcatProperties
      <4> QED  BY <2>1, <4>3, <4>4
    <3>2. CASE outer = <<>>
      <4>1. votes' = [votes EXCEPT ![p] = outer]  BY <1>7, <3>2 DEF CheckReturn
      <4> QED  BY <2>1, <4>1
    <3> QED  BY <3>1, <3>2
  <2>3. \E s \in Seq(OwnCandidates(p)) :
           candidates' = [candidates EXCEPT ![p] = s]
    <3>1. c \in OwnCandidates(p)
      BY <2>1 DEF OwnVotings, OwnCandidates, Voting, Candidate
    <3>2. Append(candidates[p], c) \in Seq(OwnCandidates(p))
      BY <1>1, <3>1, AppendProperties
    <3>3. candidates' \in {[candidates EXCEPT ![p] = Append(candidates[p], c)],
                           [candidates EXCEPT ![p] = candidates[p]]}
      BY <1>7 DEF CheckReturn
    <3> HIDE DEF c
    <3> QED  BY <1>1, <3>2, <3>3
  <2> QED  BY <1>2, <2>2, <2>3, OwnInside
<1> QED  BY <1>4, <1>5, <1>6, <1>7 DEF CheckVotesForBlock

LEMMA OwnRequestBlockchain ==
    ASSUME TransactionInv, NEW p \in Peers, RequestBlockchain(p)
    PROVE  OwnInv'
<1>1. /\ pc[p] \notin {"HandleAll", "Finish"}
      /\ UNCHANGED <<transactions, votes, candidates>>
  BY DEF RequestBlockchain, RequestBlock, AwaitNoBlock, AwaitBlock,
         AwaitRequestBlock, AwaitFree, AwaitTimeout, AwaitReturn
<1>2. UNCHANGED bc \/ \E d \in Data : AddBlock(p, d)
  <2>1. CASE RequestBlock(p) \/ AwaitTimeout(p) \/ AwaitReturn(p)
    BY <2>1 DEF RequestBlock, AwaitTimeout, AwaitReturn
  <2>2. CASE \E r, kept : Conclude(p, r, kept)
    BY <2>2, Zenon DEF Conclude
  <2> QED
    BY <2>1, <2>2, Zenon
    DEF RequestBlockchain, AwaitNoBlock, AwaitBlock, AwaitRequestBlock, AwaitFree
<1>3. bc \in [Peers -> Chain]  BY OwnTypes DEF TypeOK
<1>4. \A q \in Peers \ {p} : bc'[q] = bc[q]  BY <1>2, <1>3 DEF AddBlock
<1> QED  BY <1>1, <1>4, OwnOutside

LEMMA OwnInit == Init => OwnInv
BY EmptySeq DEF Init, OwnInv, OwnAt

LEMMA TransactionStep == TransactionInv /\ [Next]_vars => TransactionInv'
<1> SUFFICES ASSUME TransactionInv, [Next]_vars PROVE OwnInv'
  BY SafeStep DEF TransactionInv
<1>1. CASE UNCHANGED <<bc, transactions, votes, candidates>>
  <2> SUFFICES ASSUME NEW p \in Peers PROVE OwnAt(p)'  BY DEF OwnInv
  <2>1. OwnAt(p)  BY DEF TransactionInv, OwnInv
  <2> QED
    BY <1>1, <2>1
    DEF OwnAt, OwnVotings, OwnCandidates, OwnBlock, SneakPeekBlock
<1>2. CASE \E m \in net : Receive(m)
  BY <1>1, <1>2 DEF Receive
<1>3. CASE \E p \in Peers : ReceiveNetinfo(p)
  BY <1>1, <1>3 DEF ReceiveNetinfo
<1>4. CASE \E p \in Peers : Run(p)
  BY <1>1, <1>4
  DEF Run, RunRefresh, RunRequestBlock, RunAddRequest, RunFree, RunTransaction,
      RunNoMessages
<1>5. CASE \E p \in Peers : RequestBlockchain(p)  BY <1>5, OwnRequestBlockchain
<1>6. CASE \E p \in Peers : AdditionRequests(p)  BY <1>6, OwnAdditionRequests
<1>7. CASE \E p \in Peers : CheckVotesForBlock(p)
  BY <1>7, OwnCheckVotesForBlock
<1>8. CASE UNCHANGED vars  BY <1>1, <1>8 DEF vars
<1> QED  BY <1>2, <1>3, <1>4, <1>5, <1>6, <1>7, <1>8 DEF Next

----------------------------------------------------------------------------
(* The theorem *)

\* The step that removes a transaction adds the block that was made of it: the
\* best candidate is the peer's own, and there is one best.
LEMMA RemovedIsAdded ==
    ASSUME TransactionInv, NEW p \in Peers, HandleAllFinish(p)
    PROVE  /\ \A q \in Peers \ {p} : transactions'[q] = transactions[q]
           /\ transactions'[p] # transactions[p] =>
                 /\ transactions[p] # <<>>
                 /\ transactions'[p] = Tail(transactions[p])
                 /\ bc'[p] = Append(bc[p], Head(transactions[p]))
<1> DEFINE c == candidates[p]
<1>1. /\ TypeOK /\ c \in Seq(OwnCandidates(p))
      /\ transactions \in [Peers -> Seq(Data)] /\ bc \in [Peers -> Seq(Data)]
  BY OwnTypes DEF TypeOK, Chain
<1>2. \A q \in Peers \ {p} : transactions'[q] = transactions[q]
  BY <1>1 DEF HandleAllFinish
<1>3. CASE ~OwnAdded(c)
  BY <1>1, <1>2, <1>3 DEF HandleAllFinish
<1>4. CASE OwnAdded(c)
  <2>1. PICK i \in DOMAIN c : Best(c, i) /\ c[i].own  BY <1>4 DEF OwnAdded
  <2>2. c # <<>>  BY <2>1
  <2>3. PICK j \in DOMAIN c : Best(c, j) /\ AddBlock(p, Last(c[j].block))
    BY <2>2, Zenon DEF HandleAllFinish
  <2>4. i = j  BY <1>1, <2>1, <2>3, BestIsUnique
  <2>5. c[i] \in OwnCandidates(p)  BY <1>1, ElementOfSeq, LenProperties
  <2>6. /\ transactions[p] # <<>>
        /\ c[i].block = Append(bc[p], Head(transactions[p]))
    BY <2>1, <2>5 DEF OwnCandidates, OwnBlock, SneakPeekBlock
  <2>7. Head(transactions[p]) \in Data  BY <1>1, <2>6, HeadTailProperties
  <2>8. Last(c[i].block) = Head(transactions[p])
    BY <1>1, <2>6, <2>7, LastOfAppend
  <2>9. bc'[p] = Append(bc[p], Head(transactions[p]))
    BY <1>1, <2>3, <2>4, <2>8 DEF AddBlock
  <2>10. transactions'[p] = RemoveAt(transactions[p], 1)
    BY <1>1, <1>4 DEF HandleAllFinish
  <2>11. RemoveAt(transactions[p], 1) = Tail(transactions[p])
    BY <1>1, <2>6, RemoveHead
  <2> QED  BY <1>2, <2>6, <2>9, <2>10, <2>11
<1> QED  BY <1>3, <1>4

\* A transaction leaves the list (application.cc:938-940) only in the step in
\* which its data enters the peer's own chain, for any order of the hashes and
\* whatever votes have been lost, repeated, nested or given up.
THEOREM TransactionsKept == Spec => NoTransactionLost
<1> DEFINE Kept == \A p \in Peers : transactions'[p] # transactions[p] =>
                      /\ transactions'[p] = Tail(transactions[p])
                      /\ bc'[p] = Append(bc[p], Head(transactions[p]))
<1>1. Init => TransactionInv  BY SafeInit, OwnInit DEF TransactionInv
<1>2. TransactionInv /\ [Next]_vars => [Kept]_vars
  <2> SUFFICES ASSUME TransactionInv, Next PROVE Kept  OBVIOUS
  <2>1. CASE UNCHANGED transactions  BY <2>1
  <2>2. CASE \E p \in Peers : HandleAllFinish(p)
    <3>1. PICK p \in Peers : HandleAllFinish(p)  BY <2>2
    <3>2. /\ \A q \in Peers \ {p} : transactions'[q] = transactions[q]
          /\ transactions'[p] # transactions[p] =>
                /\ transactions'[p] = Tail(transactions[p])
                /\ bc'[p] = Append(bc[p], Head(transactions[p]))
      BY <3>1, RemovedIsAdded
    <3> QED  BY <3>2
  <2> QED
    BY <2>1, <2>2
    DEF Next, Receive, ReceiveNetinfo, Run, RunRefresh, RunRequestBlock,
        RunAddRequest, RunFree, RunTransaction, RunNoMessages,
        RequestBlockchain, RequestBlock, AwaitNoBlock, AwaitBlock,
        AwaitRequestBlock, AwaitFree, AwaitTimeout, AwaitReturn,
        AdditionRequests, AddBlockToBlockchain, HandleHeldRequest,
        HandleAllRequest, HandleAllSetAside, HandleAllBreak, CheckVotesForBlock, CheckVote, CheckSetAside,
        CheckRequestBlock, CheckAddRequest, CheckFree, CheckTimeout, CheckReturn
<1> QED  BY <1>1, <1>2, TransactionStep, PTL DEF Spec, NoTransactionLost
=============================================================================
