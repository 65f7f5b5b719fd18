------------------------- MODULE ApplicationProofs -------------------------
(***************************************************************************)
(* What is proved of Application for all values of its constants.          *)
(***************************************************************************)
EXTENDS Application, SequenceTheorems, FiniteSetTheorems, TLAPS

----------------------------------------------------------------------------
(* The operators that Application is built from *)

\* A message put together by broadcast or SendBlockchain has its type.
LEMMA MessageWithBlock ==
    ASSUME NEW t \in {"BLOCK", "VOTE", "ADDREQUEST"}, NEW p \in Peers,
           NEW q \in Peers, NEW i \in Nat \ {0}, NEW b \in Block,
           NEW a \in BOOLEAN
    PROVE  [type |-> t, from |-> p, to |-> q, index |-> i, block |-> b,
            agree |-> a] \in Message
BY DEF Message, MessageOf

LEMMA MessageWithoutBlock ==
    ASSUME NEW t \in {"REQUESTBLOCK", "NOBLOCK"}, NEW p \in Peers,
           NEW q \in Peers, NEW i \in Nat \ {0}, NEW a \in BOOLEAN
    PROVE  [type |-> t, from |-> p, to |-> q, index |-> i, block |-> <<>>,
            agree |-> a] \in Message
BY DEF Message, MessageOf

LEMMA MessageFields ==
    ASSUME NEW m \in Message
    PROVE  /\ m.from \in Peers /\ m.to \in Peers /\ m.index \in Nat \ {0}
           /\ m.block \in Chain /\ m.agree \in BOOLEAN
           /\ m.type \in {"BLOCK", "VOTE", "ADDREQUEST"} => m.block \in Block
           /\ m.type = "ADDREQUEST" => m \in AddRequest
<1>1. <<>> \in Chain  BY EmptySeq DEF Chain
<1>2. CASE m \in MessageOf({"BLOCK", "VOTE", "ADDREQUEST"}, Block)
  BY <1>2 DEF MessageOf, AddRequest, Block
<1>3. CASE m \in MessageOf({"REQUESTBLOCK", "NOBLOCK"}, {<<>>})
  BY <1>1, <1>3 DEF MessageOf
<1> QED  BY <1>2, <1>3 DEF Message

LEMMA OthersFinite ==
    ASSUME TypeOK, NEW p \in Peers
    PROVE  /\ Others(p) \subseteq Peers
           /\ IsFiniteSet(Others(p))
           /\ Cardinality(Others(p)) \in Nat
<1>1. Others(p) \subseteq Peers  BY DEF TypeOK, Others
<1> QED  BY <1>1, PeersAssumption, FS_Subset, FS_CardinalityType

LEMMA BroadcastBlock ==
    ASSUME TypeOK, NEW p \in Peers, NEW t \in {"VOTE", "ADDREQUEST"},
           NEW i \in Nat \ {0}, NEW b \in Block, NEW a \in BOOLEAN
    PROVE  Broadcast(p, t, i, b, a) \subseteq Message
<1>1. Others(p) \subseteq Peers  BY OthersFinite
<1> QED  BY <1>1, MessageWithBlock DEF Broadcast

LEMMA BroadcastRequest ==
    ASSUME TypeOK, NEW p \in Peers, NEW i \in Nat \ {0}
    PROVE  Broadcast(p, "REQUESTBLOCK", i, <<>>, FALSE) \subseteq Message
<1>1. Others(p) \subseteq Peers  BY OthersFinite
<1> QED  BY <1>1, MessageWithoutBlock DEF Broadcast

LEMMA SizeType ==
    ASSUME TypeOK, NEW p \in Peers
    PROVE  Size(p) \in Nat \ {0} /\ bc[p] \in Chain /\ Len(bc[p]) \in Nat
<1>1. bc[p] \in Seq(Data)  BY DEF TypeOK, Chain
<1> QED  BY <1>1, LenProperties DEF Size, Chain

LEMMA AppendBlock ==
    ASSUME NEW c \in Chain, NEW d \in Data
    PROVE  Append(c, d) \in Block
BY AppendProperties DEF Chain, Block

LEMMA LastOfBlock ==
    ASSUME NEW b \in Block
    PROVE  Last(b) \in Data /\ Len(b) \in Nat \ {0}
<1>1. b \in Seq(Data) /\ b # <<>>  BY DEF Block, Chain
<1>2. Len(b) \in Nat \ {0}  BY <1>1, EmptySeq
<1>3. Len(b) \in 1..Len(b)  BY <1>2
<1> QED  BY <1>1, <1>2, <1>3, ElementOfSeq DEF Last

LEMMA SendBlockchainType ==
    ASSUME TypeOK, NEW p \in Peers, NEW m \in Message
    PROVE  SendBlockchain(p, m) \in Message
<1>1. m.from \in Peers /\ m.index \in Nat \ {0}  BY MessageFields
<1>2. CASE m.index < Size(p)
  <2>1. bc[p] \in Seq(Data) /\ Len(bc[p]) \in Nat  BY SizeType DEF Chain
  <2>2. \A i \in 1..m.index : bc[p][i] \in Data
    BY <1>1, <1>2, <2>1, ElementOfSeq DEF Size
  <2>3. /\ SubSeq(bc[p], 1, m.index) \in Seq(Data)
        /\ Len(SubSeq(bc[p], 1, m.index)) = m.index
    BY <1>1, <2>2, SubSeqProperties
  <2>4. SubSeq(bc[p], 1, m.index) \in Block
    BY <1>1, <2>3, EmptySeq DEF Block, Chain
  <2> QED  BY <1>1, <1>2, <2>4, MessageWithBlock DEF SendBlockchain
<1>3. CASE ~(m.index < Size(p))
  BY <1>1, <1>3, MessageWithoutBlock DEF SendBlockchain
<1> QED  BY <1>2, <1>3

LEMMA SingletonSeq ==
    ASSUME NEW S, NEW e \in S
    PROVE  <<e>> \in Seq(S)
OBVIOUS

LEMMA RemoveAtOne ==
    ASSUME NEW S, NEW s \in Seq(S)
    PROVE  RemoveAt(s, 1) \in Seq(S)
<1>1. Len(s) \in Nat  BY LenProperties
<1>2. \A i \in 1..0 : s[i] \in S  OBVIOUS
<1>3. \A i \in 2..Len(s) : s[i] \in S  BY <1>1, ElementOfSeq
<1>4. SubSeq(s, 1, 0) \in Seq(S)  BY <1>2, SubSeqProperties
<1>5. SubSeq(s, 2, Len(s)) \in Seq(S)  BY <1>1, <1>3, SubSeqProperties
<1>6. 1 - 1 = 0 /\ 1 + 1 = 2  OBVIOUS
<1>7. RemoveAt(s, 1) = SubSeq(s, 1, 0) \o SubSeq(s, 2, Len(s))
  BY <1>6, Zenon DEF RemoveAt
<1> QED  BY <1>4, <1>5, <1>7, ConcatProperties

LEMMA HearType ==
    ASSUME NEW p \in Peers, NEW r \in Round, NEW q \in Peers, NEW b
    PROVE  /\ Hear(r, q) \in Round
           /\ HearNoBlock(r, q) \in Round
           /\ HearBlock(p, r, q, b) \in Round
<1>1. Hear(r, q) \in Round  BY DEF Hear, Round
<1>2. HearNoBlock(r, q) \in Round
  <2> DEFINE h == Hear(r, q)
  <2>1. h.no_block + 1 \in Nat  BY <1>1 DEF Round
  <2> HIDE DEF h
  <2>2. [h EXCEPT !.no_block = @ + 1] \in Round  BY <1>1, <2>1 DEF Round, h
  <2> QED  BY <2>2 DEF HearNoBlock, h
<1>3. [Hear(r, q) EXCEPT !.found[Last(b)] = @ + 1] \in Round
  <2> DEFINE h == Hear(r, q)
  <2>1. h.found \in [Data -> Nat]  BY <1>1 DEF Round
  <2> HIDE DEF h
  <2>2. [h.found EXCEPT ![Last(b)] = @ + 1] \in [Data -> Nat]
    <3> DEFINE f == h.found
    <3>1. f \in [Data -> Nat]  BY <2>1
    <3> HIDE DEF f
    <3>2. \A d \in Data : f[d] + 1 \in Nat  BY <3>1
    <3>3. [f EXCEPT ![Last(b)] = @ + 1] \in [Data -> Nat]  BY <3>1, <3>2
    <3> QED  BY <3>3 DEF f
  <2>3. [h EXCEPT !.found[Last(b)] = @ + 1]
          = [h EXCEPT !.found = [h.found EXCEPT ![Last(b)] = @ + 1]]
    OBVIOUS
  <2> QED  BY <1>1, <2>2, <2>3 DEF Round
<1> QED  BY <1>1, <1>2, <1>3 DEF HearBlock

LEMMA NoRoundType ==
    /\ NoRound \in Round
    /\ \A n \in Nat : [NoRound EXCEPT !.n_peers = n] \in Round
BY DEF NoRound, Round

LEMMA NewVotingType ==
    ASSUME TypeOK, NEW p \in Peers, NEW b \in Block, NEW own \in BOOLEAN,
           NEW agree \in BOOLEAN
    PROVE  NewVoting(p, b, own, agree) \in Voting
<1>1. Cardinality(Others(p)) + 1 \in Nat  BY OthersFinite
<1>2. <<>> \in Seq(Message)  BY EmptySeq
<1> QED  BY <1>1, <1>2 DEF NewVoting, Voting

LEMMA CountType ==
    ASSUME NEW v \in Voting, NEW m \in Message
    PROVE  Count(v, m) \in Voting
<1>1. m.from \in Peers /\ m.agree \in BOOLEAN  BY MessageFields
<1>2. ASSUME NEW s \in SUBSET Peers, NEW x \in Nat, NEW y \in Nat
      PROVE  [v EXCEPT !.seen = s, !.n_agrees = x, !.n_disagrees = y] \in Voting
  BY DEF Voting
<1> DEFINE s == v.seen \cup {m.from}
           x == IF m.agree THEN v.n_agrees + 1 ELSE v.n_agrees
           y == IF m.agree THEN v.n_disagrees ELSE v.n_disagrees + 1
<1>3. s \in SUBSET Peers /\ x \in Nat /\ y \in Nat
  <2>1. v.seen \in SUBSET Peers /\ v.n_agrees \in Nat /\ v.n_disagrees \in Nat
    BY DEF Voting
  <2>2. s \in SUBSET Peers  BY <1>1, <2>1
  <2>3. CASE m.agree  BY <2>1, <2>2, <2>3
  <2>4. CASE ~m.agree  BY <2>1, <2>2, <2>4
  <2> QED  BY <2>3, <2>4
<1>4. Count(v, m) = [v EXCEPT !.seen = s, !.n_agrees = x, !.n_disagrees = y]
  BY DEF Count
<1> HIDE DEF s, x, y
<1> QED  BY <1>2, <1>3, <1>4

\* The first of a non-empty inbox, and what is left without it.
LEMMA OldestType ==
    ASSUME TypeOK, NEW p \in Peers, inbox[p] # <<>>
    PROVE  /\ Oldest(p) \in Message
           /\ Tail(inbox[p]) \in Seq(Message)
           /\ Take(p) => inbox' \in [Peers -> Seq(Message)]
<1>1. inbox \in [Peers -> Seq(Message)]  BY DEF TypeOK
<1>2. Head(inbox[p]) \in Message /\ Tail(inbox[p]) \in Seq(Message)
  BY <1>1, HeadTailProperties
<1> QED  BY <1>1, <1>2 DEF Oldest, Take

\* The innermost of the activations of CheckVotesForBlock.
LEMMA InnermostType ==
    ASSUME TypeOK, NEW p \in Peers, votes[p] # <<>>
    PROVE  /\ Innermost(p) \in Voting
           /\ Tail(votes[p]) \in Seq(Voting)
           /\ \A v \in Voting : SetVoting(p, v) => votes' \in [Peers -> Seq(Voting)]
<1>1. votes \in [Peers -> Seq(Voting)]  BY DEF TypeOK
<1>2. Head(votes[p]) \in Voting /\ Tail(votes[p]) \in Seq(Voting)
  BY <1>1, HeadTailProperties
<1>3. ASSUME NEW v \in Voting, SetVoting(p, v)
      PROVE  votes' \in [Peers -> Seq(Voting)]
  <2>1. <<v>> \in Seq(Voting)  OBVIOUS
  <2>2. <<v>> \o Tail(votes[p]) \in Seq(Voting)
    BY <1>2, <2>1, ConcatProperties
  <2> QED  BY <1>1, <1>3, <2>2 DEF SetVoting
<1> QED  BY <1>2, <1>3 DEF Innermost

LEMMA SpendType ==
    ASSUME TypeOK, NEW e \in Efforts, Spend(e)
    PROVE  spent' \in [Efforts -> Nat]
<1>1. spent \in [Efforts -> Nat]  BY DEF TypeOK
<1>2. CASE spent' = spent  BY <1>1, <1>2
<1>3. CASE spent' = [spent EXCEPT ![e] = @ + 1]
  <2>1. spent[e] + 1 \in Nat  BY <1>1
  <2> QED  BY <1>1, <1>3, <2>1
<1> QED  BY <1>2, <1>3 DEF Spend

LEMMA AddBlockType ==
    ASSUME TypeOK, NEW p \in Peers, NEW d \in Data, AddBlock(p, d)
    PROVE  bc' \in [Peers -> Chain]
<1>1. bc \in [Peers -> Chain]  BY DEF TypeOK
<1>2. Append(bc[p], d) \in Chain  BY <1>1, AppendBlock DEF Block
<1> QED  BY <1>1, <1>2 DEF AddBlock

\* Both ways of handling an addition request.
LEMMA HandleType ==
    ASSUME TypeOK, NEW p \in Peers, NEW m \in AddRequest,
           \/ HandleBlockAdditionRequest(p, m)
           \/ RefuseBlockAdditionRequest(p, m)
    PROVE  net' \subseteq Message /\ votes' \in [Peers -> Seq(Voting)]
<1>1. /\ m.index \in Nat \ {0} /\ m.block \in Block
  BY DEF AddRequest, MessageOf
<1>2. Vote(p, m) \in BOOLEAN  BY DEF Vote, Continues
<1>3. /\ Broadcast(p, "VOTE", m.index, m.block, Vote(p, m)) \subseteq Message
      /\ Broadcast(p, "VOTE", m.index, m.block, FALSE) \subseteq Message
  BY <1>1, <1>2, BroadcastBlock
<1>4. net \subseteq Message /\ votes \in [Peers -> Seq(Voting)]  BY DEF TypeOK
<1>5. CASE HandleBlockAdditionRequest(p, m)
  <2> DEFINE v == NewVoting(p, m.block, FALSE, Vote(p, m))
  <2>1. v \in Voting  BY <1>1, <1>2, NewVotingType
  <2> HIDE DEF v
  <2>2. <<v>> \in Seq(Voting)  BY <2>1, SingletonSeq
  <2>3. <<v>> \o votes[p] \in Seq(Voting)  BY <1>4, <2>2, ConcatProperties
  <2>4. votes' = [votes EXCEPT ![p] = <<v>> \o @]
    BY <1>5 DEF HandleBlockAdditionRequest, v
  <2>5. votes' \in [Peers -> Seq(Voting)]  BY <1>4, <2>3, <2>4
  <2>6. net' \subseteq Message  BY <1>3, <1>4, <1>5 DEF HandleBlockAdditionRequest
  <2> QED  BY <2>5, <2>6
<1>6. CASE RefuseBlockAdditionRequest(p, m)
  BY <1>3, <1>4, <1>6 DEF RefuseBlockAdditionRequest
<1> QED  BY <1>5, <1>6

\* What follows the handling of a message in a round.
LEMMA ConcludeType ==
    ASSUME TypeOK, NEW p \in Peers, inbox[p] # <<>>, NEW r \in Round,
           NEW kept \in Seq(Message), Conclude(p, r, kept)
    PROVE  /\ bc' \in [Peers -> Chain]
           /\ pc' \in [Peers -> Location]
           /\ round' \in [Peers -> Round]
           /\ aside' \in [Peers -> Seq(Message)]
           /\ inbox' \in [Peers -> Seq(Message)]
<1>1. /\ inbox \in [Peers -> Seq(Message)] /\ aside \in [Peers -> Seq(Message)]
      /\ pc \in [Peers -> Location] /\ round \in [Peers -> Round]
      /\ bc \in [Peers -> Chain]
      /\ after[p] \in Location
  BY DEF TypeOK, Location
<1>2. /\ Tail(inbox[p]) \in Seq(Message)
      /\ Take(p) => inbox' \in [Peers -> Seq(Message)]
  BY OldestType
<1>3. Tail(inbox[p]) \o kept \in Seq(Message)  BY <1>2, ConcatProperties
<1>4. <<>> \in Seq(Message) /\ NoRound \in Round  BY EmptySeq, NoRoundType
<1>5. ASSUME NEW l \in Location, LeaveRound(p, kept, l)
      PROVE  /\ pc' \in [Peers -> Location] /\ round' \in [Peers -> Round]
             /\ aside' \in [Peers -> Seq(Message)]
             /\ inbox' \in [Peers -> Seq(Message)]
  BY <1>1, <1>3, <1>4, <1>5 DEF LeaveRound
<1>6. CASE \E d \in Data :
             AddBlock(p, d) /\ LeaveRound(p, kept, "RequestBlockchain")
  BY <1>5, <1>6, AddBlockType DEF Location
<1>7. CASE LeaveRound(p, kept, after[p]) /\ UNCHANGED bc
  BY <1>1, <1>5, <1>7
<1>8. CASE LeaveRound(p, kept, "RequestBlockchain") /\ UNCHANGED bc
  BY <1>1, <1>5, <1>8 DEF Location
<1>9. CASE /\ round' = [round EXCEPT ![p] = r]
           /\ aside' = [aside EXCEPT ![p] = kept]
           /\ Take(p)
           /\ UNCHANGED <<bc, pc>>
  BY <1>1, <1>2, <1>9
<1> QED  BY <1>6, <1>7, <1>8, <1>9, Zenon DEF Conclude

LEMMA AddRequestIsMessage == AddRequest \subseteq Message
BY DEF AddRequest, Message, MessageOf

----------------------------------------------------------------------------
(* Beginnings of a chain *)

Beginnings(w) == {b \in Chain : /\ Len(b) <= Len(w)
                                /\ \A i \in 1..Len(b) : b[i] = w[i]}

LEMMA PrefixIs ==
    ASSUME NEW s \in Chain, NEW t \in Chain
    PROVE  IsPrefix(s, t) <=> s \in Beginnings(t)
<1>1. /\ Len(s) \in Nat /\ Len(t) \in Nat
      /\ s \in Seq(Data) /\ t \in Seq(Data)
  BY LenProperties DEF Chain
<1>2. SubSeq(s, 1, Len(s)) = s  BY <1>1, SubSeqFull
<1>3. CASE Len(s) <= Len(t)
  <2> DEFINE u == SubSeq(t, 1, Len(s))
  <2>1. \A i \in 1..Len(s) : t[i] \in Data  BY <1>1, <1>3, ElementOfSeq
  <2>2. u \in Seq(Data) /\ Len(u) = Len(s) /\ \A i \in 1..Len(s) : u[i] = t[i]
    BY <1>1, <2>1, SubSeqProperties
  <2> HIDE DEF u
  <2>3. s = u <=> \A i \in 1..Len(s) : s[i] = t[i]
    BY <1>1, <2>2, SeqEqual
  <2>4. IsPrefix(s, t) <=> s = u  BY <1>2, <1>3, Zenon DEF IsPrefix, u
  <2> QED  BY <1>3, <2>3, <2>4 DEF Beginnings
<1>4. CASE ~(Len(s) <= Len(t))  BY <1>4 DEF IsPrefix, Beginnings
<1> QED  BY <1>3, <1>4

LEMMA BeginningFields ==
    ASSUME NEW w \in Chain, NEW b \in Beginnings(w)
    PROVE  /\ b \in Chain /\ Len(b) \in Nat /\ Len(w) \in Nat
           /\ Len(b) <= Len(w)
           /\ \A i \in 1..Len(b) : b[i] = w[i]
BY LenProperties DEF Beginnings, Chain

LEMMA WholeIsBeginning ==
    ASSUME NEW w \in Chain
    PROVE  w \in Beginnings(w) /\ <<>> \in Beginnings(w)
<1>1. Len(w) \in Nat /\ Len(<<>>) = 0 /\ <<>> \in Chain
  BY LenProperties, EmptySeq DEF Chain
<1> QED  BY <1>1 DEF Beginnings

LEMMA ShorterBeginning ==
    ASSUME NEW w \in Chain, NEW b \in Beginnings(w), NEW n \in Nat, n <= Len(b)
    PROVE  SubSeq(b, 1, n) \in Beginnings(w)
<1> DEFINE u == SubSeq(b, 1, n)
<1>1. /\ b \in Seq(Data) /\ Len(b) \in Nat /\ Len(w) \in Nat
      /\ Len(b) <= Len(w) /\ \A i \in 1..Len(b) : b[i] = w[i]
  BY BeginningFields DEF Chain
<1>2. \A i \in 1..n : b[i] \in Data  BY <1>1, ElementOfSeq
<1>3. u \in Seq(Data) /\ Len(u) = n /\ \A i \in 1..n : u[i] = b[i]
  BY <1>2, SubSeqProperties
<1> HIDE DEF u
<1>4. u \in Beginnings(w)  BY <1>1, <1>3 DEF Beginnings, Chain
<1> QED  BY <1>4 DEF u

LEMMA SameBeginning ==
    ASSUME NEW w \in Chain, NEW b \in Beginnings(w), NEW c \in Beginnings(w),
           Len(b) = Len(c)
    PROVE  b = c
BY BeginningFields, SeqEqual DEF Chain

\* Two beginnings, one longer by one, differ in the last entry.
LEMMA NextBeginning ==
    ASSUME NEW w \in Chain, NEW b \in Beginnings(w), NEW c \in Beginnings(w),
           Len(b) = Len(c) + 1
    PROVE  Append(c, Last(b)) = b
<1>1. /\ b \in Seq(Data) /\ c \in Seq(Data) /\ Len(c) \in Nat
      /\ \A i \in 1..Len(c) : c[i] = b[i]
  BY BeginningFields DEF Chain
<1>2. Last(b) = b[Len(c) + 1] /\ Last(b) \in Data
  BY <1>1, ElementOfSeq DEF Last
<1> DEFINE u == Append(c, Last(b))
<1>3. /\ u \in Seq(Data) /\ Len(u) = Len(b)
      /\ \A i \in 1..Len(c) : u[i] = c[i] /\ u[Len(c) + 1] = b[Len(c) + 1]
      /\ u[Len(c) + 1] = b[Len(c) + 1]
  BY <1>1, <1>2, AppendProperties
<1> HIDE DEF u
<1>4. \A i \in 1..Len(u) : u[i] = b[i]  BY <1>1, <1>3
<1>5. u = b  BY <1>1, <1>3, <1>4, SeqEqual
<1> QED  BY <1>5 DEF u

LEMMA BeginningsGrow ==
    ASSUME NEW v \in Chain, NEW w \in Beginnings(v)
    PROVE  Beginnings(w) \subseteq Beginnings(v)
<1> SUFFICES ASSUME NEW b \in Beginnings(w) PROVE b \in Beginnings(v)
  OBVIOUS
<1>1. w \in Chain  BY BeginningFields
<1> QED  BY <1>1, BeginningFields DEF Beginnings

\* Of two beginnings the shorter one is a beginning of the other.
LEMMA PartOfBeginning ==
    ASSUME NEW w \in Chain, NEW b \in Beginnings(w), NEW c \in Beginnings(w),
           Len(b) <= Len(c)
    PROVE  b \in Beginnings(c) /\ b = SubSeq(c, 1, Len(b))
<1>1. /\ b \in Chain /\ c \in Seq(Data) /\ Len(b) \in Nat /\ Len(c) \in Nat
      /\ \A i \in 1..Len(b) : b[i] = c[i]
  BY BeginningFields DEF Chain
<1>2. b \in Beginnings(c)  BY <1>1 DEF Beginnings
<1>3. SubSeq(c, 1, Len(b)) \in Beginnings(w)  BY <1>1, ShorterBeginning
<1>4. \A i \in 1..Len(b) : c[i] \in Data  BY <1>1, ElementOfSeq
<1>5. Len(SubSeq(c, 1, Len(b))) = Len(b)  BY <1>1, <1>4, SubSeqProperties
<1> QED  BY <1>2, <1>3, <1>5, SameBeginning

\* The front of a block is one shorter.
LEMMA FrontLength ==
    ASSUME NEW b \in Block
    PROVE  Len(b) = Len(Front(b)) + 1
<1>1. b \in Seq(Data) /\ Len(b) \in Nat \ {0}  BY LastOfBlock DEF Block, Chain
<1>2. \A i \in 1..(Len(b) - 1) : b[i] \in Data  BY <1>1, ElementOfSeq
<1> DEFINE n == Len(b) - 1
<1>3. Front(b) = SubSeq(b, 1, n)  BY DEF Front
<1>4. n \in Nat /\ Len(b) = n + 1 /\ n - 1 + 1 = n  BY <1>1
<1>5. \A i \in 1..n : b[i] \in Data  BY <1>2
<1> HIDE DEF n
<1>6. Len(SubSeq(b, 1, n)) = n  BY <1>4, <1>5, SubSeqProperties
<1>7. Len(Front(b)) = n  BY <1>3, <1>6
<1> QED  BY <1>4, <1>7

LEMMA FrontOfBlock ==
    ASSUME NEW b \in Block
    PROVE  /\ Front(b) \in Beginnings(b) /\ Front(b) \in Chain
           /\ Append(Front(b), Last(b)) = b
<1>1. b \in Chain /\ b \in Seq(Data) /\ Len(b) \in Nat \ {0}
  BY LastOfBlock DEF Block, Chain
<1>2. b \in Beginnings(b)  BY <1>1, WholeIsBeginning
<1> DEFINE n == Len(b) - 1
<1>3. n \in Nat /\ n <= Len(b)  BY <1>1
<1>4. Front(b) = SubSeq(b, 1, n)  BY DEF Front
<1> HIDE DEF n
<1>5. Front(b) \in Beginnings(b)  BY <1>1, <1>2, <1>3, <1>4, ShorterBeginning
<1>6. Front(b) \in Chain  BY <1>1, <1>5, BeginningFields
<1>7. Len(b) = Len(Front(b)) + 1  BY FrontLength
<1>8. Append(Front(b), Last(b)) = b  BY <1>1, <1>2, <1>5, <1>7, NextBeginning
<1> QED  BY <1>5, <1>6, <1>8

LEMMA BlockOfAppend ==
    ASSUME NEW c \in Chain, NEW d \in Data
    PROVE  /\ Append(c, d) \in Block /\ Append(c, d) \in Chain
           /\ Len(Append(c, d)) = Len(c) + 1 /\ Len(c) \in Nat
           /\ Front(Append(c, d)) = c
           /\ c \in Beginnings(Append(c, d))
<1> DEFINE b == Append(c, d)
<1>1. /\ c \in Seq(Data) /\ Len(c) \in Nat
      /\ b \in Seq(Data) /\ Len(b) = Len(c) + 1
      /\ \A i \in 1..Len(c) : b[i] = c[i]
  BY AppendProperties, LenProperties DEF Chain
<1>2. b \in Block  BY AppendBlock
<1>3. b \in Chain /\ c \in Beginnings(b)  BY <1>1 DEF Beginnings, Chain
<1> HIDE DEF b
<1>4. Front(b) \in Beginnings(b) /\ Len(b) = Len(Front(b)) + 1
  BY <1>2, FrontOfBlock, FrontLength
<1>5. Len(Front(b)) = Len(c)  BY <1>1, <1>3, <1>4, BeginningFields
<1>6. Front(b) = c  BY <1>3, <1>4, <1>5, SameBeginning
<1> QED  BY <1>1, <1>2, <1>3, <1>6 DEF b

----------------------------------------------------------------------------
(* Type correctness *)

\* TypeOK is not inductive: AddBlockToBlockchain takes the head of the
\* transactions, so a peer on its way there must have one.
AtHand(p) ==
    (\/ pc[p] = "Propose"
     \/ /\ after[p] = "Propose"
        /\ pc[p] \in {"RequestBlockchain", "AwaitBlock", "TimedOut"})
    => transactions[p] # <<>>
TransactionAtHand == \A p \in Peers : AtHand(p)
TypeInv == TypeOK /\ TransactionAtHand

LEMMA TypeInit == Init => TypeInv
<1> SUFFICES ASSUME Init PROVE TypeInv  OBVIOUS
<1>1. <<>> \in Chain /\ <<>> \in Seq(Message) /\ <<>> \in Seq(Voting)
      /\ <<>> \in Seq(Candidate)
  BY EmptySeq DEF Chain
<1>2. \A p \in Peers : InitialChain(p) \in Chain /\ InitialTransactions(p) \in Chain
  BY <1>1, TraceAssumption DEF InitialChain, InitialTransactions, Chain
<1>3. NoRound \in Round  BY NoRoundType
<1>4. TypeOK  BY <1>1, <1>2, <1>3 DEF Init, TypeOK, Location
<1>5. TransactionAtHand  BY DEF Init, TransactionAtHand, AtHand
<1> QED  BY <1>4, <1>5 DEF TypeInv

\* A step that leaves the transactions alone and, at p, moves the main thread
\* along the call of RequestBlockchain.
LEMMA AtHandKept ==
    ASSUME TypeInv, NEW p \in Peers,
           UNCHANGED <<transactions, after>>,
           NEW l \in {"RequestBlockchain", "AwaitBlock", "TimedOut", after[p]},
           pc[p] \in {"RequestBlockchain", "AwaitBlock", "TimedOut"},
           pc' = [pc EXCEPT ![p] = l] \/ UNCHANGED pc
    PROVE  TransactionAtHand'
BY DEF TypeInv, TypeOK, TransactionAtHand, AtHand

\* RequestBlockchain is called with a transaction at hand if it is to return
\* to AddBlockToBlockchain.
LEMMA AtHandCalled ==
    ASSUME TypeInv, NEW p \in Peers, UNCHANGED transactions,
           NEW l \in {"Run", "Propose", "HandleRequest"},
           l = "Propose" => transactions[p] # <<>>,
           CallRequestBlockchain(p, l)
    PROVE  /\ TransactionAtHand'
           /\ pc' \in [Peers -> Location]
           /\ after' \in [Peers -> {"Run", "Propose", "HandleRequest"}]
           /\ UNCHANGED round
BY DEF TypeInv, TypeOK, TransactionAtHand, AtHand, CallRequestBlockchain, Location

LEMMA AtHandUnchanged ==
    ASSUME TypeInv, UNCHANGED <<transactions, pc, after>>
    PROVE  TransactionAtHand'
BY DEF TypeInv, TransactionAtHand, AtHand

\* The main thread leaves for a location where nothing is needed.
LEMMA AtHandLeft ==
    ASSUME TypeInv, NEW p \in Peers, NEW l \in {"Run", "HandleAll", "Finish"},
           UNCHANGED after, pc' = [pc EXCEPT ![p] = l],
           \A q \in Peers \ {p} : transactions'[q] = transactions[q]
    PROVE  TransactionAtHand'
BY DEF TypeInv, TypeOK, TransactionAtHand, AtHand

LEMMA TypeReceive ==
    ASSUME TypeInv, NEW m \in net, Receive(m)
    PROVE  TypeInv'
<1>1. TypeOK /\ m \in Message /\ m.to \in Peers
  BY MessageFields DEF TypeInv, TypeOK
<1>2. inbox \in [Peers -> Seq(Message)] /\ inbox[m.to] \in Seq(Message)
  BY <1>1 DEF TypeOK
<1>3. Append(inbox[m.to], m) \in Seq(Message)  BY <1>1, <1>2, AppendProperties
<1>4. inbox' \in [Peers -> Seq(Message)]  BY <1>1, <1>2, <1>3 DEF Receive
<1>5. net' \in SUBSET Message  BY <1>1 DEF Receive, TypeOK
<1>6. spent' \in [Efforts -> Nat]
  BY <1>1, SpendType DEF Receive, TypeOK, Efforts
<1>7. TypeOK'
  BY <1>1, <1>4, <1>5, <1>6 DEF Receive, TypeOK, mainVars, trackerVars
<1> QED  BY <1>7, AtHandUnchanged DEF Receive, mainVars, TypeInv

LEMMA TypeReceiveNetinfo ==
    ASSUME TypeInv, NEW p \in Peers, ReceiveNetinfo(p)
    PROVE  TypeInv'
<1>1. PICK S \in Netinfos[p] :
        /\ netinfo' = [netinfo EXCEPT ![p] = S]
        /\ online' = [online EXCEPT ![p] = p \in S]
        /\ wasOffline' \in {wasOffline, [wasOffline EXCEPT ![p] = TRUE]}
  BY DEF ReceiveNetinfo
<1>2. S \in SUBSET Peers  BY NetinfosAssumption
<1>3. netinfo' \in [Peers -> SUBSET Peers]
  BY <1>1, <1>2 DEF TypeInv, TypeOK
<1>4. online' \in [Peers -> BOOLEAN]
  <2>1. (p \in S) \in BOOLEAN  OBVIOUS
  <2> DEFINE o == p \in S
  <2> HIDE DEF o
  <2>2. [online EXCEPT ![p] = o] \in [Peers -> BOOLEAN]
    BY <2>1 DEF TypeInv, TypeOK, o
  <2> QED  BY <1>1, <2>2 DEF o
<1>5. wasOffline' \in [Peers -> BOOLEAN]  BY <1>1 DEF TypeInv, TypeOK
<1>6. TypeOK'
  BY <1>3, <1>4, <1>5 DEF ReceiveNetinfo, TypeInv, TypeOK, mainVars
<1> QED  BY <1>6, AtHandUnchanged DEF ReceiveNetinfo, mainVars, TypeInv

LEMMA TypeRun ==
    ASSUME TypeInv, NEW p \in Peers, Run(p)
    PROVE  TypeInv'
<1>1. TypeOK  BY DEF TypeInv
<1>2. CASE RunRefresh(p)
  <2>1. CallRequestBlockchain(p, "Run") /\ UNCHANGED transactions
    BY <1>2 DEF RunRefresh
  <2>2. wasOffline' \in [Peers -> BOOLEAN]  BY <1>1, <1>2 DEF RunRefresh, TypeOK
  <2>3. TypeOK'
    BY <1>1, <1>2, <2>1, <2>2, AtHandCalled DEF RunRefresh, TypeOK
  <2> QED  BY <2>1, <2>3, AtHandCalled DEF TypeInv
<1>3. CASE RunRequestBlock(p)
  <2>1. Oldest(p) \in Message /\ inbox' \in [Peers -> Seq(Message)]
    BY <1>1, <1>3, OldestType DEF RunRequestBlock, Pending
  <2>2. SendBlockchain(p, Oldest(p)) \in Message
    BY <1>1, <2>1, SendBlockchainType
  <2>3. TypeOK'
    BY <1>1, <1>3, <2>1, <2>2 DEF RunRequestBlock, TypeOK, mainVars, trackerVars
  <2> QED  BY <1>3, <2>3, AtHandUnchanged DEF RunRequestBlock, mainVars, TypeInv
<1>4. CASE RunAddRequest(p)
  <2>1. CallRequestBlockchain(p, "HandleRequest") /\ UNCHANGED transactions
    BY <1>4 DEF RunAddRequest
  <2>2. Oldest(p) \in AddRequest /\ inbox' \in [Peers -> Seq(Message)]
    BY <1>1, <1>4, OldestType, MessageFields DEF RunAddRequest, Pending
  <2>3. held' \in [Peers -> SUBSET AddRequest]
    BY <1>1, <1>4, <2>2 DEF RunAddRequest, TypeOK
  <2>4. TypeOK'
    BY <1>1, <1>4, <2>1, <2>2, <2>3, AtHandCalled
    DEF RunAddRequest, TypeOK, trackerVars
  <2> QED  BY <2>1, <2>4, AtHandCalled DEF TypeInv
<1>5. CASE RunFree(p)
  <2>1. inbox' \in [Peers -> Seq(Message)]
    BY <1>1, <1>5, OldestType DEF RunFree, Pending
  <2>2. TypeOK'  BY <1>1, <1>5, <2>1 DEF RunFree, TypeOK, mainVars, trackerVars
  <2> QED  BY <1>5, <2>2, AtHandUnchanged DEF RunFree, mainVars, TypeInv
<1>6. CASE RunTransaction(p)
  <2>1. /\ CallRequestBlockchain(p, "Propose") /\ UNCHANGED transactions
        /\ transactions[p] # <<>>
    BY <1>6 DEF RunTransaction
  <2>2. spent' \in [Efforts -> Nat]
    BY <1>1, <1>6, SpendType DEF RunTransaction, Efforts
  <2>3. TypeOK'
    BY <1>1, <1>6, <2>1, <2>2, AtHandCalled
    DEF RunTransaction, TypeOK, trackerVars
  <2> QED  BY <2>1, <2>3, AtHandCalled DEF TypeInv
<1>7. CASE RunNoMessages(p)
  <2>1. CallRequestBlockchain(p, "Run") /\ UNCHANGED transactions
    BY <1>7 DEF RunNoMessages
  <2>2. spent' \in [Efforts -> Nat]
    BY <1>1, <1>7, SpendType DEF RunNoMessages, Efforts
  <2>3. TypeOK'
    BY <1>1, <1>7, <2>1, <2>2, AtHandCalled
    DEF RunNoMessages, TypeOK, trackerVars
  <2> QED  BY <2>1, <2>3, AtHandCalled DEF TypeInv
<1> QED  BY <1>2, <1>3, <1>4, <1>5, <1>6, <1>7 DEF Run

\* A message handled in a round, and the rest of the state left alone.
LEMMA TypeConclude ==
    ASSUME TypeInv, NEW p \in Peers, pc[p] = "AwaitBlock", inbox[p] # <<>>,
           NEW r \in Round, NEW kept \in Seq(Message), Conclude(p, r, kept),
           net' \subseteq Message,
           UNCHANGED <<transactions, after, held, votes, candidates,
                       trackerVars, spent>>
    PROVE  TypeInv'
<1>1. TypeOK  BY DEF TypeInv
<1>2. TypeOK'  BY <1>1, ConcludeType DEF TypeOK, trackerVars
<1>3. PICK l \in {"RequestBlockchain", "AwaitBlock", after[p]} :
        pc' = [pc EXCEPT ![p] = l] \/ UNCHANGED pc
  BY Zenon DEF Conclude, LeaveRound
<1> QED  BY <1>2, <1>3, AtHandKept DEF TypeInv

LEMMA TypeRequestBlockchain ==
    ASSUME TypeInv, NEW p \in Peers, RequestBlockchain(p)
    PROVE  TypeInv'
<1>1. TypeOK /\ net \subseteq Message  BY DEF TypeInv, TypeOK
<1>2. round[p] \in Round /\ aside[p] \in Seq(Message)  BY <1>1 DEF TypeOK
<1>3. CASE RequestBlock(p)
  <2>1. Broadcast(p, "REQUESTBLOCK", Size(p), <<>>, FALSE) \subseteq Message
    BY <1>1, SizeType, BroadcastRequest
  <2>2. [NoRound EXCEPT !.n_peers = Cardinality(Others(p))] \in Round
    BY <1>1, OthersFinite, NoRoundType
  <2>3. PICK l \in {"AwaitBlock", after[p]} : pc' = [pc EXCEPT ![p] = l]
    BY <1>3 DEF RequestBlock
  <2>4. pc' \in [Peers -> Location]  BY <1>1, <2>3 DEF TypeOK, Location
  <2>5. round' \in [Peers -> Round]  BY <1>1, <1>3, <2>2 DEF RequestBlock, TypeOK
  <2>6. TypeOK'
    BY <1>1, <1>3, <2>1, <2>4, <2>5 DEF RequestBlock, TypeOK, trackerVars
  <2> QED  BY <1>3, <2>3, <2>6, AtHandKept DEF RequestBlock, TypeInv
<1>4. CASE AwaitNoBlock(p)
  <2>1. Oldest(p).from \in Peers
    BY <1>1, <1>4, OldestType, MessageFields DEF AwaitNoBlock, Pending
  <2>2. HearNoBlock(round[p], Oldest(p).from) \in Round  BY <1>2, <2>1, HearType
  <2> QED  BY <1>1, <1>2, <1>4, <2>2, TypeConclude DEF AwaitNoBlock, Pending
<1>5. CASE AwaitBlock(p)
  <2>1. Oldest(p).from \in Peers
    BY <1>1, <1>5, OldestType, MessageFields DEF AwaitBlock, Pending
  <2>2. HearBlock(p, round[p], Oldest(p).from, Oldest(p).block) \in Round
    BY <1>2, <2>1, HearType
  <2> QED  BY <1>1, <1>2, <1>5, <2>2, TypeConclude DEF AwaitBlock, Pending
<1>6. CASE AwaitRequestBlock(p)
  <2> DEFINE m == Oldest(p)
  <2>1. m \in Message /\ m.from \in Peers
    BY <1>1, <1>6, OldestType, MessageFields DEF AwaitRequestBlock, Pending
  <2>2. /\ Hear(round[p], m.from) \in Round
        /\ Append(aside[p], m) \in Seq(Message)
        /\ SendBlockchain(p, m) \in Message
    BY <1>1, <1>2, <2>1, HearType, AppendProperties, SendBlockchainType
  <2>3. /\ net' \subseteq Message
        /\ \E r \in {round[p], Hear(round[p], m.from)},
             kept \in {aside[p], Append(aside[p], m)} : Conclude(p, r, kept)
    BY <1>1, <1>6, <2>2, Zenon DEF AwaitRequestBlock
  <2> QED  BY <1>2, <1>6, <2>2, <2>3, TypeConclude DEF AwaitRequestBlock, Pending
<1>7. CASE AwaitFree(p)
  BY <1>1, <1>2, <1>7, TypeConclude DEF AwaitFree, Pending
<1>8. CASE AwaitTimeout(p)
  <2>1. spent' \in [Efforts -> Nat]
    BY <1>1, <1>8, SpendType DEF AwaitTimeout, Efforts
  <2>2. NoRound \in Round  BY NoRoundType
  <2>3. TypeOK'
    BY <1>1, <1>2, <1>8, <2>1, <2>2 DEF AwaitTimeout, TypeOK, Location, trackerVars
  <2> QED  BY <1>8, <2>3, AtHandKept DEF AwaitTimeout, TypeInv
<1>9. CASE AwaitReturn(p)
  <2>1. inbox[p] \o aside[p] \in Seq(Message) /\ <<>> \in Seq(Message)
    BY <1>1, EmptySeq, ConcatProperties DEF TypeOK
  <2>2. TypeOK'
    BY <1>1, <1>9, <2>1 DEF AwaitReturn, TypeOK, Location, trackerVars
  <2> QED  BY <1>9, <2>2, AtHandKept DEF AwaitReturn, TypeInv
<1> QED  BY <1>3, <1>4, <1>5, <1>6, <1>7, <1>8, <1>9 DEF RequestBlockchain

LEMMA TypeAdditionRequests ==
    ASSUME TypeInv, NEW p \in Peers, AdditionRequests(p)
    PROVE  TypeInv'
<1>1. /\ TypeOK /\ net \subseteq Message
      /\ inbox \in [Peers -> Seq(Message)] /\ aside \in [Peers -> Seq(Message)]
      /\ pc \in [Peers -> Location] /\ votes \in [Peers -> Seq(Voting)]
  BY DEF TypeInv, TypeOK
<1>2. {"HandleAll", "Finish", "Run"} \subseteq Location  BY DEF Location
<1>3. CASE AddBlockToBlockchain(p)
  <2> DEFINE b == SneakPeekBlock(p, Head(transactions[p]))
             v == NewVoting(p, b, TRUE, TRUE)
  <2>1. transactions[p] \in Seq(Data) /\ transactions[p] # <<>>
    BY <1>3 DEF AddBlockToBlockchain, TypeInv, TypeOK, TransactionAtHand, AtHand, Chain
  <2>2. Head(transactions[p]) \in Data  BY <2>1, HeadTailProperties
  <2>3. b \in Block  BY <1>1, <2>2, SizeType, AppendBlock DEF SneakPeekBlock
  <2> HIDE DEF b
  <2>4. v \in Voting  BY <1>1, <2>3, NewVotingType
  <2>5. Broadcast(p, "ADDREQUEST", Size(p), b, FALSE) \subseteq Message
    BY <1>1, <2>3, SizeType, BroadcastBlock
  <2> HIDE DEF v
  <2>6. <<v>> \in Seq(Voting)  BY <2>4, SingletonSeq
  <2>7. /\ votes' = [votes EXCEPT ![p] = <<v>>]
        /\ net' = net \cup Broadcast(p, "ADDREQUEST", Size(p), b, FALSE)
    BY <1>3 DEF AddBlockToBlockchain, b, v
  <2>8. TypeOK'
    BY <1>1, <1>2, <1>3, <2>5, <2>6, <2>7
    DEF AddBlockToBlockchain, TypeOK, trackerVars
  <2> QED  BY <1>3, <2>8, AtHandLeft DEF AddBlockToBlockchain, TypeInv
<1>4. CASE HandleHeldRequest(p)
  <2>1. PICK m \in held[p] :
          \/ /\ inbox' = [inbox EXCEPT ![p] = Append(@, m)]
             /\ UNCHANGED <<net, votes>>
          \/ HandleBlockAdditionRequest(p, m) /\ UNCHANGED inbox
    BY <1>4 DEF HandleHeldRequest
  <2>2. m \in AddRequest /\ m \in Message
    BY <1>1, AddRequestIsMessage DEF TypeOK
  <2>3. Append(inbox[p], m) \in Seq(Message)  BY <1>1, <2>2, AppendProperties
  <2>4. /\ inbox' \in [Peers -> Seq(Message)]
        /\ net' \subseteq Message /\ votes' \in [Peers -> Seq(Voting)]
    BY <1>1, <2>1, <2>2, <2>3, HandleType
  <2>5. TypeOK'
    BY <1>1, <1>2, <1>4, <2>4 DEF HandleHeldRequest, TypeOK, trackerVars
  <2> QED  BY <1>4, <2>5, AtHandLeft DEF HandleHeldRequest, TypeInv
<1>5. CASE HandleAllRequest(p)
  <2>1. Oldest(p) \in AddRequest /\ inbox' \in [Peers -> Seq(Message)]
    BY <1>1, <1>5, OldestType, MessageFields DEF HandleAllRequest, ForTip
  <2>2. net' \subseteq Message /\ votes' \in [Peers -> Seq(Voting)]
    BY <1>1, <1>5, <2>1, HandleType DEF HandleAllRequest
  <2>3. TypeOK'
    BY <1>1, <1>5, <2>1, <2>2 DEF HandleAllRequest, TypeOK, mainVars, trackerVars
  <2> QED  BY <1>5, <2>3, AtHandUnchanged DEF HandleAllRequest, mainVars, TypeInv
<1>6. CASE HandleAllSetAside(p)
  <2>1. Oldest(p) \in Message /\ inbox' \in [Peers -> Seq(Message)]
    BY <1>1, <1>6, OldestType DEF HandleAllSetAside
  <2>2. Append(aside[p], Oldest(p)) \in Seq(Message)
    BY <1>1, <2>1, AppendProperties
  <2>3. TypeOK'
    BY <1>1, <1>6, <2>1, <2>2 DEF HandleAllSetAside, TypeOK, mainVars, trackerVars
  <2> QED  BY <1>6, <2>3, AtHandUnchanged DEF HandleAllSetAside, mainVars, TypeInv
<1>7. CASE HandleAllFinish(p)
  <2>1. bc' \in [Peers -> Chain]
    <3>1. CASE UNCHANGED bc  BY <1>1, <3>1 DEF TypeOK
    <3>2. ASSUME NEW i \in DOMAIN candidates[p],
                 AddBlock(p, Last(candidates[p][i].block))
          PROVE  bc' \in [Peers -> Chain]
      <4>1. candidates[p] \in Seq(Candidate)  BY <1>1 DEF TypeOK
      <4>2. candidates[p][i] \in Candidate
        BY <4>1, <3>2, ElementOfSeq, LenProperties
      <4>3. Last(candidates[p][i].block) \in Data
        BY <4>2, LastOfBlock DEF Candidate
      <4> QED  BY <1>1, <3>2, <4>3, AddBlockType
    <3> QED  BY <1>7, <3>1, <3>2 DEF HandleAllFinish
  <2>2. transactions' \in [Peers -> Chain]
    <3>1. transactions \in [Peers -> Seq(Data)]  BY <1>1 DEF TypeOK, Chain
    <3>2. RemoveAt(transactions[p], 1) \in Seq(Data)  BY <3>1, RemoveAtOne
    <3> QED  BY <1>7, <3>1, <3>2 DEF HandleAllFinish, Chain
  <2>3. /\ <<>> \in Seq(Message) /\ <<>> \in Seq(Candidate)
        /\ inbox[p] \o aside[p] \in Seq(Message)
    BY <1>1, EmptySeq, ConcatProperties
  <2>4. TypeOK'
    BY <1>1, <1>2, <1>7, <2>1, <2>2, <2>3
    DEF HandleAllFinish, TypeOK, trackerVars
  <2>5. \A q \in Peers \ {p} : transactions'[q] = transactions[q]
    BY <1>1, <1>7 DEF HandleAllFinish, TypeOK
  <2> QED  BY <1>7, <2>4, <2>5, AtHandLeft DEF HandleAllFinish, TypeInv
<1>8. CASE HandleAllBreak(p)
  <2>1. TypeOK'
    BY <1>1, <1>2, <1>8 DEF HandleAllBreak, TypeOK, trackerVars
  <2> QED  BY <1>8, <2>1, AtHandLeft DEF HandleAllBreak, TypeInv
<1> QED
  BY <1>3, <1>4, <1>5, <1>6, <1>7, <1>8 DEF AdditionRequests

\* What CheckReturn leaves of the activations below the one that returns.
LEMMA ReturnType ==
    ASSUME NEW outer \in Seq(Voting), NEW agree \in BOOLEAN
    PROVE  (IF outer # <<>> /\ agree
            THEN <<[Head(outer) EXCEPT !.status = "abandoned"]>> \o Tail(outer)
            ELSE outer) \in Seq(Voting)
<1>1. CASE outer # <<>>
  <2>1. Head(outer) \in Voting /\ Tail(outer) \in Seq(Voting)
    BY <1>1, HeadTailProperties
  <2> DEFINE v == [Head(outer) EXCEPT !.status = "abandoned"]
  <2>2. v \in Voting  BY <2>1 DEF Voting
  <2> HIDE DEF v
  <2>3. <<v>> \o Tail(outer) \in Seq(Voting)
    BY <2>1, <2>2, SingletonSeq, ConcatProperties
  <2> QED  BY <2>3 DEF v
<1> QED  BY <1>1

LEMMA TypeCheckVotesForBlock ==
    ASSUME TypeInv, NEW p \in Peers, CheckVotesForBlock(p)
    PROVE  TypeInv'
<1>1. /\ TypeOK /\ net \subseteq Message /\ votes \in [Peers -> Seq(Voting)]
      /\ inbox \in [Peers -> Seq(Message)]
  BY DEF TypeInv, TypeOK
<1>2. CASE CheckVote(p)
  <2>1. Oldest(p) \in Message /\ inbox' \in [Peers -> Seq(Message)]
    BY <1>1, <1>2, OldestType DEF CheckVote, Pending
  <2>2. Innermost(p) \in Voting
    BY <1>1, <1>2, InnermostType DEF CheckVote, Collecting
  <2>3. Count(Innermost(p), Oldest(p)) \in Voting  BY <2>1, <2>2, CountType
  <2>4. votes' \in [Peers -> Seq(Voting)]
    BY <1>1, <1>2, <2>3, InnermostType DEF CheckVote, Collecting
  <2>5. TypeOK'
    BY <1>1, <1>2, <2>1, <2>4 DEF CheckVote, TypeOK, mainVars, trackerVars
  <2> QED  BY <1>2, <2>5, AtHandUnchanged DEF CheckVote, mainVars, TypeInv
<1>3. CASE CheckSetAside(p)
  <2>1. Oldest(p) \in Message /\ inbox' \in [Peers -> Seq(Message)]
    BY <1>1, <1>3, OldestType DEF CheckSetAside, Pending
  <2>2. Innermost(p) \in Voting
    BY <1>1, <1>3, InnermostType DEF CheckSetAside, Collecting
  <2>3. Append(Innermost(p).aside, Oldest(p)) \in Seq(Message)
    BY <2>1, <2>2, AppendProperties DEF Voting
  <2>4. [Innermost(p) EXCEPT !.aside = Append(@, Oldest(p))] \in Voting
    BY <2>2, <2>3 DEF Voting
  <2>5. votes' \in [Peers -> Seq(Voting)]
    BY <1>1, <1>3, <2>4, InnermostType DEF CheckSetAside, Collecting
  <2>6. TypeOK'
    BY <1>1, <1>3, <2>1, <2>5 DEF CheckSetAside, TypeOK, mainVars, trackerVars
  <2> QED  BY <1>3, <2>6, AtHandUnchanged DEF CheckSetAside, mainVars, TypeInv
<1>4. CASE CheckRequestBlock(p)
  <2>1. Oldest(p) \in Message /\ inbox' \in [Peers -> Seq(Message)]
    BY <1>1, <1>4, OldestType DEF CheckRequestBlock, Pending
  <2>2. SendBlockchain(p, Oldest(p)) \in Message
    BY <1>1, <2>1, SendBlockchainType
  <2>3. TypeOK'
    BY <1>1, <1>4, <2>1, <2>2 DEF CheckRequestBlock, TypeOK, mainVars, trackerVars
  <2> QED  BY <1>4, <2>3, AtHandUnchanged DEF CheckRequestBlock, mainVars, TypeInv
<1>5. CASE CheckAddRequest(p)
  <2>1. Oldest(p) \in AddRequest /\ inbox' \in [Peers -> Seq(Message)]
    BY <1>1, <1>5, OldestType, MessageFields DEF CheckAddRequest, Pending
  <2>2. net' \subseteq Message /\ votes' \in [Peers -> Seq(Voting)]
    BY <1>1, <1>5, <2>1, HandleType DEF CheckAddRequest
  <2>3. TypeOK'
    BY <1>1, <1>5, <2>1, <2>2 DEF CheckAddRequest, TypeOK, mainVars, trackerVars
  <2> QED  BY <1>5, <2>3, AtHandUnchanged DEF CheckAddRequest, mainVars, TypeInv
<1>6. CASE CheckFree(p)
  <2>1. inbox' \in [Peers -> Seq(Message)]
    BY <1>1, <1>6, OldestType DEF CheckFree, Pending
  <2>2. TypeOK'  BY <1>1, <1>6, <2>1 DEF CheckFree, TypeOK, mainVars, trackerVars
  <2> QED  BY <1>6, <2>2, AtHandUnchanged DEF CheckFree, mainVars, TypeInv
<1>7. CASE CheckTimeout(p)
  <2>1. Innermost(p) \in Voting
    BY <1>1, <1>7, InnermostType DEF CheckTimeout, Collecting
  <2>2. [Innermost(p) EXCEPT !.status = "timed out"] \in Voting
    BY <2>1 DEF Voting
  <2>3. votes' \in [Peers -> Seq(Voting)]
    BY <1>1, <1>7, <2>2, InnermostType DEF CheckTimeout, Collecting
  <2>4. spent' \in [Efforts -> Nat]
    BY <1>1, <1>7, SpendType DEF CheckTimeout, Efforts
  <2>5. TypeOK'
    BY <1>1, <1>7, <2>3, <2>4 DEF CheckTimeout, TypeOK, mainVars, trackerVars
  <2> QED  BY <1>7, <2>5, AtHandUnchanged DEF CheckTimeout, mainVars, TypeInv
<1>8. CASE CheckReturn(p)
  <2> DEFINE v == Innermost(p)
             outer == Tail(votes[p])
  <2>1. /\ v \in Voting /\ outer \in Seq(Voting)
        /\ v.block \in Block /\ v.aside \in Seq(Message)
        /\ v.own \in BOOLEAN /\ v.agree \in BOOLEAN
    BY <1>1, <1>8, InnermostType DEF CheckReturn, Voting
  <2>2. inbox' \in [Peers -> Seq(Message)]
    <3>1. inbox[p] \o v.aside \in Seq(Message)  BY <1>1, <2>1, ConcatProperties
    <3>2. PICK s \in Seq(Message) : inbox' = [inbox EXCEPT ![p] = s]
      BY <1>1, <1>8, <3>1 DEF CheckReturn
    <3> QED  BY <1>1, <3>2
  <2>3. candidates' \in [Peers -> Seq(Candidate)]
    <3>1. candidates \in [Peers -> Seq(Candidate)]  BY <1>1 DEF TypeOK
    <3>2. [block |-> v.block, own |-> v.own] \in Candidate
      BY <2>1 DEF Candidate
    <3>3. Append(candidates[p], [block |-> v.block, own |-> v.own])
            \in Seq(Candidate)
      BY <3>1, <3>2, AppendProperties
    <3>4. PICK s \in Seq(Candidate) : candidates' = [candidates EXCEPT ![p] = s]
      BY <1>8, <3>1, <3>3 DEF CheckReturn
    <3> QED  BY <3>1, <3>4
  <2>4. net' \subseteq Message
    <3>1. Accepted(v) \in BOOLEAN /\ Len(v.block) \in Nat \ {0}
      BY <2>1, LastOfBlock DEF Accepted
    <3>2. Broadcast(p, "VOTE", Len(v.block), v.block, Accepted(v)) \subseteq Message
      BY <1>1, <2>1, <3>1, BroadcastBlock
    <3> QED  BY <1>1, <1>8, <3>2 DEF CheckReturn
  <2>5. votes' \in [Peers -> Seq(Voting)]
    <3>1. PICK s \in Seq(Voting) : votes' = [votes EXCEPT ![p] = s]
      BY <1>8, <2>1, ReturnType DEF CheckReturn
    <3> QED  BY <1>1, <3>1
  <2>6. TypeOK'
    BY <1>1, <1>8, <2>2, <2>3, <2>4, <2>5
    DEF CheckReturn, TypeOK, mainVars, trackerVars
  <2> QED  BY <1>8, <2>6, AtHandUnchanged DEF CheckReturn, mainVars, TypeInv
<1> QED
  BY <1>2, <1>3, <1>4, <1>5, <1>6, <1>7, <1>8 DEF CheckVotesForBlock

LEMMA TypeStep == TypeInv /\ [Next]_vars => TypeInv'
<1> SUFFICES ASSUME TypeInv, [Next]_vars PROVE TypeInv'  OBVIOUS
<1>1. CASE \E m \in net : Receive(m)  BY <1>1, TypeReceive
<1>2. CASE \E p \in Peers : ReceiveNetinfo(p)  BY <1>2, TypeReceiveNetinfo
<1>3. CASE \E p \in Peers : Run(p)  BY <1>3, TypeRun
<1>4. CASE \E p \in Peers : RequestBlockchain(p)  BY <1>4, TypeRequestBlockchain
<1>5. CASE \E p \in Peers : AdditionRequests(p)  BY <1>5, TypeAdditionRequests
<1>6. CASE \E p \in Peers : CheckVotesForBlock(p)
  BY <1>6, TypeCheckVotesForBlock
<1>7. CASE UNCHANGED vars
  BY <1>7
  DEF TypeInv, TypeOK, TransactionAtHand, AtHand, vars, mainVars, trackerVars
<1> QED  BY <1>1, <1>2, <1>3, <1>4, <1>5, <1>6, <1>7 DEF Next

\* Every value that the threads of every peer leave is one the code can hold:
\* messages of the declared types with an index after genesis, block requests
\* held by Run, activations of CheckVotesForBlock and so on, for any number of
\* peers, any traces, any peer lists and any bounds.
THEOREM TypeCorrect == Spec => []TypeOK
<1>1. TypeInv => TypeOK  BY DEF TypeInv
<1> QED  BY <1>1, TypeInit, TypeStep, PTL DEF Spec
=============================================================================
