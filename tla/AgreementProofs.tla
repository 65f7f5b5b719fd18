-------------------------- MODULE AgreementProofs --------------------------
(***************************************************************************)
(* The chains of all peers agree when one peer proposes all blocks, for    *)
(* any number of peers and any faults of the network, and every step of    *)
(* the peers is a step of the one ledger that they share.                  *)
(***************************************************************************)
EXTENDS SingleSource, SafetyProofs

----------------------------------------------------------------------------
(* The inductive invariant *)

\* A chain and the block that its holder can propose next.
WholeOf(c, t) == IF t = <<>> THEN c ELSE Append(c, Head(t))

\* The chain of the source and the one block that it may have proposed and
\* not yet added, which is always made of its first transaction.  All that is
\* ever sent, voted on or added is a beginning of it.
Whole == WholeOf(bc[Source], transactions[Source])
OnLedger == Beginnings(Whole)

Carried == {m \in Message : m.block \in OnLedger}
LedgerVotings == {v \in Voting : v.block \in OnLedger /\ v.aside \in Seq(Carried)}
LedgerCandidates == {c \in Candidate : c.block \in OnLedger}

\* What has been found in round r of p continues its chain.
Fitting(p, r) == \A d \in Data : r.found[d] > 0 => Append(bc[p], d) \in OnLedger

LedgerAt(p) ==
    /\ bc[p] \in OnLedger
    /\ p # Source => transactions[p] = <<>>
    /\ inbox[p] \in Seq(Carried)
    /\ aside[p] \in Seq(Carried)
    /\ held[p] \subseteq Carried
    /\ votes[p] \in Seq(LedgerVotings)
    /\ candidates[p] \in Seq(LedgerCandidates)
    /\ pc[p] = "AwaitBlock" => Fitting(p, round[p])

LedgerInv == /\ TransactionInv
             /\ net \subseteq Carried
             /\ \A p \in Peers : LedgerAt(p)

----------------------------------------------------------------------------
(* A chain and its next block *)

LEMMA WholeOfType ==
    ASSUME NEW c \in Chain, NEW t \in Chain
    PROVE  /\ WholeOf(c, t) \in Chain
           /\ c \in Beginnings(WholeOf(c, t))
           /\ Len(WholeOf(c, t)) <= Len(c) + 1
<1>1. c \in Seq(Data) /\ Len(c) \in Nat  BY LenProperties DEF Chain
<1>2. CASE t = <<>>
  BY <1>1, <1>2, WholeIsBeginning DEF WholeOf
<1>3. CASE t # <<>>
  <2>1. Head(t) \in Data  BY <1>3, HeadTailProperties DEF Chain
  <2> DEFINE w == Append(c, Head(t))
  <2>2. /\ w \in Seq(Data) /\ Len(w) = Len(c) + 1
        /\ \A i \in 1..Len(c) : w[i] = c[i]
    BY <1>1, <2>1, AppendProperties
  <2>3. WholeOf(c, t) = w  BY <1>3 DEF WholeOf
  <2> HIDE DEF w
  <2> QED  BY <1>1, <2>2, <2>3 DEF Beginnings, Chain
<1> QED  BY <1>2, <1>3

----------------------------------------------------------------------------
(* The ledger *)

LEMMA WholeType ==
    ASSUME TypeOK
    PROVE  /\ Whole \in Chain
           /\ bc[Source] \in OnLedger
           /\ Len(Whole) <= Len(bc[Source]) + 1
BY WholeOfType, SourceAssumption DEF TypeOK, Whole, OnLedger

\* The ledger changes only by growing.
LEMMA LedgerGrows ==
    ASSUME TypeOK, TypeOK',
           \/ UNCHANGED <<bc[Source], transactions[Source]>>
           \/ bc'[Source] \in OnLedger /\ Len(bc'[Source]) = Len(bc[Source]) + 1
    PROVE  OnLedger \subseteq OnLedger'
<1>1. CASE UNCHANGED <<bc[Source], transactions[Source]>>
  BY <1>1 DEF OnLedger, Whole
<1>2. CASE bc'[Source] \in OnLedger /\ Len(bc'[Source]) = Len(bc[Source]) + 1
  <2>1. /\ Whole \in Chain /\ Whole \in OnLedger
        /\ Len(Whole) <= Len(bc[Source]) + 1
    BY WholeType, WholeIsBeginning DEF OnLedger
  <2>2. Len(bc'[Source]) = Len(Whole)
    BY <1>2, <2>1, SizeType, SourceAssumption, BeginningFields DEF OnLedger
  <2>3. bc'[Source] = Whole  BY <1>2, <2>1, <2>2, SameBeginning DEF OnLedger
  <2>4. bc'[Source] \in Chain /\ transactions'[Source] \in Chain
    BY SourceAssumption DEF TypeOK
  <2>5. OnLedger' = Beginnings(WholeOf(bc'[Source], transactions'[Source]))
    BY DEF OnLedger, Whole
  <2>6. /\ WholeOf(bc'[Source], transactions'[Source]) \in Chain
        /\ bc'[Source] \in Beginnings(WholeOf(bc'[Source], transactions'[Source]))
    BY <2>4, WholeOfType
  <2> QED  BY <2>3, <2>5, <2>6, BeginningsGrow DEF OnLedger
<1> QED  BY <1>1, <1>2
----------------------------------------------------------------------------
(* What is carried *)

\* What p has, with the names that LedgerAtStep asks for.
LEMMA LedgerTypes ==
    ASSUME LedgerInv, NEW p \in Peers
    PROVE  /\ TypeOK /\ SafeInv /\ TransactionInv /\ LedgerAt(p)
           /\ Whole \in Chain /\ OnLedger = Beginnings(Whole)
           /\ net \subseteq Carried
           /\ inbox[p] \in Seq(Carried) /\ aside[p] \in Seq(Carried)
           /\ held[p] \in SUBSET Carried
           /\ votes[p] \in Seq(LedgerVotings)
           /\ candidates[p] \in Seq(LedgerCandidates)
           /\ inbox = [inbox EXCEPT ![p] = inbox[p]]
           /\ aside = [aside EXCEPT ![p] = aside[p]]
           /\ held = [held EXCEPT ![p] = held[p]]
           /\ votes = [votes EXCEPT ![p] = votes[p]]
           /\ candidates = [candidates EXCEPT ![p] = candidates[p]]
BY WholeType DEF LedgerInv, TransactionInv, SafeInv, TypeInv, TypeOK, LedgerAt, OnLedger

LEMMA TakeCarried ==
    ASSUME LedgerInv, NEW p \in Peers, inbox[p] # <<>>
    PROVE  /\ Oldest(p) \in Carried /\ Oldest(p) \in Message
           /\ Oldest(p).block \in OnLedger
           /\ Tail(inbox[p]) \in Seq(Carried)
           /\ Take(p) => \E s \in Seq(Carried) : inbox' = [inbox EXCEPT ![p] = s]
<1>1. inbox[p] \in Seq(Carried)  BY LedgerTypes
<1>2. Head(inbox[p]) \in Carried /\ Tail(inbox[p]) \in Seq(Carried)
  BY <1>1, HeadTailProperties
<1> QED  BY <1>2 DEF Oldest, Take, Carried

\* An answer is a beginning of the chain, or none.
LEMMA CarriedAnswer ==
    ASSUME LedgerInv, NEW p \in Peers, NEW m \in Message
    PROVE  SendBlockchain(p, m) \in Carried
<1>1. /\ TypeOK /\ Whole \in Chain /\ OnLedger = Beginnings(Whole)
      /\ bc[p] \in Beginnings(Whole)
  BY LedgerTypes DEF LedgerAt
<1>2. SendBlockchain(p, m) \in Message /\ m.index \in Nat
  BY <1>1, SendBlockchainType, MessageFields
<1>3. SendBlockchain(p, m).block
        = IF m.index < Size(p) THEN SubSeq(bc[p], 1, m.index) ELSE <<>>
  BY DEF SendBlockchain
<1>4. CASE m.index < Size(p)
  <2>1. m.index <= Len(bc[p])  BY <1>1, <1>2, <1>4, SizeType DEF Size
  <2>2. SubSeq(bc[p], 1, m.index) \in Beginnings(Whole)
    BY <1>1, <1>2, <2>1, ShorterBeginning
  <2> QED  BY <1>1, <1>2, <1>3, <1>4, <2>2 DEF Carried
<1>5. CASE ~(m.index < Size(p))
  BY <1>1, <1>2, <1>3, <1>5, WholeIsBeginning DEF Carried
<1> QED  BY <1>4, <1>5

LEMMA CarriedBroadcast ==
    ASSUME LedgerInv, NEW p \in Peers, NEW t \in {"VOTE", "ADDREQUEST"},
           NEW i \in Nat \ {0}, NEW b \in Block, b \in OnLedger,
           NEW a \in BOOLEAN
    PROVE  Broadcast(p, t, i, b, a) \subseteq Carried
<1>1. Broadcast(p, t, i, b, a) \subseteq Message
  BY LedgerTypes, BroadcastBlock
<1>2. \A m \in Broadcast(p, t, i, b, a) : m.block = b  BY DEF Broadcast
<1> QED  BY <1>1, <1>2 DEF Carried

LEMMA CarriedRequest ==
    ASSUME LedgerInv, NEW p \in Peers
    PROVE  Broadcast(p, "REQUESTBLOCK", Size(p), <<>>, FALSE) \subseteq Carried
<1>1. /\ TypeOK /\ <<>> \in OnLedger /\ Size(p) \in Nat \ {0}
  BY LedgerTypes, WholeIsBeginning, SizeType
<1>2. Broadcast(p, "REQUESTBLOCK", Size(p), <<>>, FALSE) \subseteq Message
  BY <1>1, BroadcastRequest
<1>3. \A m \in Broadcast(p, "REQUESTBLOCK", Size(p), <<>>, FALSE) :
        m.block = <<>>
  BY DEF Broadcast
<1> QED  BY <1>1, <1>2, <1>3 DEF Carried

----------------------------------------------------------------------------
(* The steps *)

\* The chain of p stays as it is or grows along the ledger.
Along(p) ==
    \/ UNCHANGED <<bc[p], transactions[p]>>
    \/ /\ bc'[p] \in OnLedger
       /\ Len(bc'[p]) = Len(bc[p]) + 1
       /\ p # Source => transactions'[p] = <<>>

\* A step that disturbs one peer only.
LEMMA LedgerAtStep ==
    ASSUME LedgerInv, TransactionInv', NEW p \in Peers,
           Along(p),
           net' \subseteq Carried,
           \E s \in Seq(Carried) : inbox' = [inbox EXCEPT ![p] = s],
           \E s \in Seq(Carried) : aside' = [aside EXCEPT ![p] = s],
           \E S \in SUBSET Carried : held' = [held EXCEPT ![p] = S],
           \E s \in Seq(LedgerVotings) : votes' = [votes EXCEPT ![p] = s],
           \E s \in Seq(LedgerCandidates) :
              candidates' = [candidates EXCEPT ![p] = s],
           pc'[p] = "AwaitBlock" => bc'[p] = bc[p] /\ Fitting(p, round'[p]),
           \A q \in Peers \ {p} : /\ bc'[q] = bc[q] /\ pc'[q] = pc[q]
                                  /\ transactions'[q] = transactions[q]
                                  /\ round'[q] = round[q]
    PROVE  LedgerInv'
<1>1. TypeOK /\ TypeOK' /\ Source \in Peers
  BY LedgerTypes, SourceAssumption DEF TransactionInv, SafeInv, TypeInv
<1>2. OnLedger \subseteq OnLedger'
  <2>1. CASE p = Source  BY <1>1, <2>1, LedgerGrows DEF Along
  <2>2. CASE p # Source  BY <1>1, <2>2, LedgerGrows
  <2> QED  BY <2>1, <2>2
<1>3. Carried \subseteq Carried'  BY <1>2 DEF Carried
<1>4. /\ LedgerVotings \subseteq LedgerVotings'
      /\ LedgerCandidates \subseteq LedgerCandidates'
  <2>1. \A s \in Seq(Carried) : s \in Seq(Carried')  BY <1>3, SeqMonotonic
  <2> QED  BY <1>2, <2>1 DEF LedgerVotings, LedgerCandidates
<1>5. ASSUME NEW q \in Peers PROVE LedgerAt(q)'
  <2>1. LedgerAt(q) /\ LedgerAt(p)  BY <1>5 DEF LedgerInv
  <2>2. /\ inbox'[q] \in Seq(Carried) /\ aside'[q] \in Seq(Carried)
        /\ held'[q] \subseteq Carried
    BY <1>1, <2>1 DEF TypeOK, LedgerAt
  <2>3. /\ votes'[q] \in Seq(LedgerVotings)
        /\ candidates'[q] \in Seq(LedgerCandidates)
    BY <1>1, <2>1 DEF TypeOK, LedgerAt
  <2>4. /\ inbox'[q] \in Seq(Carried') /\ aside'[q] \in Seq(Carried')
        /\ held'[q] \subseteq Carried'
        /\ votes'[q] \in Seq(LedgerVotings')
        /\ candidates'[q] \in Seq(LedgerCandidates')
    BY <1>3, <1>4, <2>2, <2>3, SeqMonotonic
  <2>5. bc'[q] \in OnLedger /\ (q # Source => transactions'[q] = <<>>)
    BY <2>1 DEF Along, LedgerAt
  <2>6. pc'[q] = "AwaitBlock" => bc'[q] = bc[q] /\ Fitting(q, round'[q])
    BY <2>1 DEF LedgerAt
  <2>7. pc'[q] = "AwaitBlock" =>
           \A d \in Data : round'[q].found[d] > 0 =>
              Append(bc'[q], d) \in OnLedger'
    BY <1>2, <2>6 DEF Fitting
  <2> QED  BY <1>2, <2>4, <2>5, <2>7 DEF LedgerAt, Fitting
<1> QED  BY <1>3, <1>5 DEF LedgerInv

LEMMA LedgerReceive ==
    ASSUME LedgerInv, TransactionInv', NEW m \in net, Receive(m)
    PROVE  LedgerInv'
<1> DEFINE p == m.to
<1>1. m \in Carried /\ p \in Peers
  BY MessageFields DEF LedgerInv, Carried
<1>2. net' \subseteq Carried  BY DEF Receive, LedgerInv
<1>3. inbox' = [inbox EXCEPT ![p] = Append(inbox[p], m)]  BY DEF Receive
<1>4. UNCHANGED <<bc, transactions, pc, round, votes, candidates, aside, held>>
  BY DEF Receive, mainVars
<1> HIDE DEF p
<1>5. inbox[p] \in Seq(Carried)  BY <1>1, LedgerTypes
<1>6. Append(inbox[p], m) \in Seq(Carried)  BY <1>1, <1>5, AppendProperties
<1>7. /\ \E s \in Seq(Carried) : inbox' = [inbox EXCEPT ![p] = s]
      /\ \E s \in Seq(Carried) : aside' = [aside EXCEPT ![p] = s]
      /\ \E S \in SUBSET Carried : held' = [held EXCEPT ![p] = S]
      /\ \E s \in Seq(LedgerVotings) : votes' = [votes EXCEPT ![p] = s]
      /\ \E s \in Seq(LedgerCandidates) :
            candidates' = [candidates EXCEPT ![p] = s]
  BY <1>1, <1>3, <1>4, <1>6, LedgerTypes
<1>8. Along(p)  BY <1>4 DEF Along
<1>9. pc'[p] = "AwaitBlock" => bc'[p] = bc[p] /\ Fitting(p, round'[p])
  BY <1>1, <1>4 DEF LedgerInv, LedgerAt
<1> QED  BY <1>1, <1>2, <1>4, <1>7, <1>8, <1>9, LedgerAtStep

LEMMA LedgerReceiveNetinfo ==
    ASSUME LedgerInv, TransactionInv', NEW p \in Peers, ReceiveNetinfo(p)
    PROVE  LedgerInv'
<1>1. UNCHANGED <<bc, transactions, pc, held, round, votes, candidates, aside,
                  inbox, net>>
  BY DEF ReceiveNetinfo, mainVars
<1> QED
  BY <1>1
  DEF LedgerInv, LedgerAt, Fitting, LedgerVotings, LedgerCandidates, Carried,
      OnLedger, Whole

LEMMA LedgerRun ==
    ASSUME LedgerInv, TransactionInv', NEW p \in Peers, Run(p)
    PROVE  LedgerInv'
<1>1. TypeOK /\ net \subseteq Carried  BY LedgerTypes
<1>2. /\ UNCHANGED <<bc, transactions, votes, candidates, aside, round>>
      /\ pc[p] = "Run"
      /\ pc' \in {pc, [pc EXCEPT ![p] = "RequestBlockchain"]}
  BY DEF Run, RunRefresh, RunRequestBlock, RunAddRequest, RunFree,
         RunTransaction, RunNoMessages, CallRequestBlockchain, mainVars, Idle
<1>3. \E s \in Seq(Carried) : inbox' = [inbox EXCEPT ![p] = s]
  <2>1. CASE UNCHANGED inbox  BY <2>1, LedgerTypes
  <2>2. CASE inbox[p] # <<>> /\ Take(p)  BY <2>2, TakeCarried
  <2> QED
    BY <2>1, <2>2
    DEF Run, RunRefresh, RunRequestBlock, RunAddRequest, RunFree,
        RunTransaction, RunNoMessages, Pending
<1>4. \E S \in SUBSET Carried : held' = [held EXCEPT ![p] = S]
  <2>1. CASE UNCHANGED held  BY <2>1, LedgerTypes
  <2>2. CASE inbox[p] # <<>> /\ held' = [held EXCEPT ![p] = {Oldest(p)}]
    BY <2>2, TakeCarried
  <2> QED
    BY <2>1, <2>2
    DEF Run, RunRefresh, RunRequestBlock, RunAddRequest, RunFree,
        RunTransaction, RunNoMessages, Pending, mainVars
<1>5. net' \subseteq Carried
  <2>1. CASE UNCHANGED net  BY <1>1, <2>1
  <2>2. CASE inbox[p] # <<>> /\ net' = net \cup {SendBlockchain(p, Oldest(p))}
    BY <1>1, <2>2, TakeCarried, CarriedAnswer
  <2> QED
    BY <2>1, <2>2
    DEF Run, RunRefresh, RunRequestBlock, RunAddRequest, RunFree,
        RunTransaction, RunNoMessages, Pending
<1>6. Along(p) /\ pc'[p] # "AwaitBlock"  BY <1>1, <1>2 DEF Along, TypeOK
<1>7. /\ \E s \in Seq(Carried) : aside' = [aside EXCEPT ![p] = s]
      /\ \E s \in Seq(LedgerVotings) : votes' = [votes EXCEPT ![p] = s]
      /\ \E s \in Seq(LedgerCandidates) :
            candidates' = [candidates EXCEPT ![p] = s]
  BY <1>2, LedgerTypes
<1>8. \A q \in Peers \ {p} : /\ bc'[q] = bc[q] /\ pc'[q] = pc[q]
                             /\ transactions'[q] = transactions[q]
                             /\ round'[q] = round[q]
  BY <1>1, <1>2 DEF TypeOK
<1> QED  BY <1>3, <1>4, <1>5, <1>6, <1>7, <1>8, LedgerAtStep

----------------------------------------------------------------------------
(* The steps of a round *)

\* What a round hears still continues the chain.
LEMMA HearFitting ==
    ASSUME LedgerInv, NEW p \in Peers, NEW r \in Round, Fitting(p, r),
           NEW q \in Peers, NEW b \in Block, b \in OnLedger
    PROVE  /\ Fitting(p, Hear(r, q))
           /\ Fitting(p, HearNoBlock(r, q))
           /\ Fitting(p, HearBlock(p, r, q, b))
<1>1. r.found \in [Data -> Nat]  BY DEF Round
<1>2. Hear(r, q).found = r.found  BY DEF Hear, Round
<1>3. HearNoBlock(r, q).found = r.found
  BY <1>2, HearType DEF HearNoBlock, Round
<1>4. HearBlock(p, r, q, b).found
        \in {r.found, [r.found EXCEPT ![Last(b)] = @ + 1]}
  <2> DEFINE h == Hear(r, q)
  <2>1. h \in Round /\ h.found = r.found  BY <1>2, HearType
  <2> HIDE DEF h
  <2>2. [h EXCEPT !.found[Last(b)] = @ + 1].found
          = [h.found EXCEPT ![Last(b)] = @ + 1]
    BY <2>1 DEF Round
  <2> QED  BY <2>1, <2>2 DEF HearBlock, h
<1>5. Continues(p, b) => Append(bc[p], Last(b)) = b
  <2> SUFFICES ASSUME Continues(p, b) PROVE Append(bc[p], Last(b)) = b
    OBVIOUS
  <2>1. Len(b) = Len(bc[p]) + 1
    BY FrontLength DEF Continues, TopHash
  <2>2. /\ Whole \in Chain /\ b \in Beginnings(Whole)
        /\ bc[p] \in Beginnings(Whole)
    BY LedgerTypes DEF LedgerAt
  <2> QED  BY <2>1, <2>2, NextBeginning
<1>6. ~Continues(p, b) => HearBlock(p, r, q, b).found = r.found
  BY <1>2 DEF HearBlock
<1>7. Fitting(p, HearBlock(p, r, q, b))
  <2> DEFINE f == HearBlock(p, r, q, b).found
  <2> SUFFICES ASSUME NEW d \in Data, f[d] > 0
               PROVE  Append(bc[p], d) \in OnLedger
    BY DEF Fitting
  <2>1. CASE f = r.found  BY <2>1 DEF Fitting
  <2>2. CASE f = [r.found EXCEPT ![Last(b)] = @ + 1] /\ Continues(p, b)
    <3>1. CASE d = Last(b)  BY <1>5, <2>2, <3>1
    <3>2. CASE d # Last(b)
      <4>1. f[d] = r.found[d]  BY <1>1, <2>2, <3>2
      <4> QED  BY <4>1 DEF Fitting
    <3> QED  BY <3>1, <3>2
  <2> QED  BY <1>4, <1>6, <2>1, <2>2
<1> QED  BY <1>2, <1>3, <1>7 DEF Fitting

LEMMA LedgerConclude ==
    ASSUME LedgerInv, TransactionInv', NEW p \in Peers, pc[p] = "AwaitBlock",
           inbox[p] # <<>>, NEW r \in Heard, Fitting(p, r),
           NEW kept \in Seq(Carried), Conclude(p, r, kept),
           net' \subseteq Carried,
           UNCHANGED <<held, votes, candidates, transactions>>
    PROVE  LedgerInv'
<1>1. /\ TypeOK /\ LedgerAt(p)
      /\ after[p] # "AwaitBlock"
      /\ bc[p] \in Chain /\ bc[p] \in Seq(Data)
  BY LedgerTypes DEF TypeOK, Chain
<1>2. Tail(inbox[p]) \o kept \in Seq(Carried) /\ <<>> \in Seq(Carried)
  BY TakeCarried, ConcatProperties, EmptySeq
<1>3. \/ \E l \in {"RequestBlockchain", after[p]} : LeaveRound(p, kept, l)
      \/ /\ round' = [round EXCEPT ![p] = r]
         /\ aside' = [aside EXCEPT ![p] = kept]
         /\ Take(p) /\ UNCHANGED <<bc, pc>>
  BY Zenon DEF Conclude
<1>4. UNCHANGED bc \/ \E d \in Data : MajorityForBlock(r, d) /\ AddBlock(p, d)
  BY Zenon DEF Conclude
<1>5. Along(p) /\ \A q \in Peers \ {p} : bc'[q] = bc[q]
  <2>1. CASE UNCHANGED bc  BY <2>1 DEF Along
  <2>2. CASE \E d \in Data : MajorityForBlock(r, d) /\ AddBlock(p, d)
    <3>1. PICK d \in Data : MajorityForBlock(r, d) /\ AddBlock(p, d)
      BY <2>2
    <3>2. Append(bc[p], d) \in OnLedger  BY <3>1, FoundByMajority DEF Fitting
    <3>3. bc' = [bc EXCEPT ![p] = Append(bc[p], d)]  BY <3>1 DEF AddBlock
    <3>4. Len(Append(bc[p], d)) = Len(bc[p]) + 1  BY <1>1, AppendProperties
    <3> QED  BY <1>1, <3>2, <3>3, <3>4 DEF Along, TypeOK, LedgerAt
  <2> QED  BY <1>4, <2>1, <2>2
<1>6. /\ \E s \in Seq(Carried) : inbox' = [inbox EXCEPT ![p] = s]
      /\ \E s \in Seq(Carried) : aside' = [aside EXCEPT ![p] = s]
  BY <1>2, <1>3, TakeCarried DEF LeaveRound
<1>7. pc'[p] = "AwaitBlock" => bc'[p] = bc[p] /\ Fitting(p, round'[p])
  <2>1. ASSUME NEW l \in {"RequestBlockchain", after[p]}, LeaveRound(p, kept, l)
        PROVE  pc'[p] # "AwaitBlock"
    BY <1>1, <2>1 DEF LeaveRound, TypeOK
  <2>2. CASE round' = [round EXCEPT ![p] = r] /\ UNCHANGED <<bc, pc>>
    BY <1>1, <2>2 DEF TypeOK
  <2> QED  BY <1>3, <2>1, <2>2
<1>8. \A q \in Peers \ {p} : /\ bc'[q] = bc[q] /\ pc'[q] = pc[q]
                             /\ transactions'[q] = transactions[q]
                             /\ round'[q] = round[q]
  BY <1>1, <1>3, <1>5 DEF TypeOK, LeaveRound
<1>9. /\ \E S \in SUBSET Carried : held' = [held EXCEPT ![p] = S]
      /\ \E s \in Seq(LedgerVotings) : votes' = [votes EXCEPT ![p] = s]
      /\ \E s \in Seq(LedgerCandidates) :
            candidates' = [candidates EXCEPT ![p] = s]
  BY LedgerTypes
<1> QED  BY <1>5, <1>6, <1>7, <1>8, <1>9, LedgerAtStep

LEMMA LedgerRequestBlockchain ==
    ASSUME LedgerInv, TransactionInv', NEW p \in Peers, RequestBlockchain(p)
    PROVE  LedgerInv'
<1>1. /\ TypeOK /\ LedgerAt(p) /\ net \subseteq Carried
      /\ aside[p] \in Seq(Carried)
      /\ SafeInv /\ round[p] \in Heard /\ round[p] \in Round
  BY LedgerTypes DEF SafeInv, PeerInv, RoundInv, TypeOK
<1>2. ASSUME pc[p] = "AwaitBlock"
      PROVE  /\ Cardinality(round[p].seen) < round[p].n_peers
             /\ Fitting(p, round[p])
  BY <1>1, <1>2 DEF SafeInv, PeerInv, RoundInv, LedgerAt
<1>3. ASSUME NEW types, Pending(p, types)
      PROVE  /\ Oldest(p) \in Carried /\ Oldest(p) \in Message
             /\ Oldest(p).from \in Peers /\ Oldest(p).block \in OnLedger
             /\ inbox[p] # <<>>
  BY <1>3, TakeCarried, MessageFields DEF Pending
<1>4. CASE RequestBlock(p)
  <2>1. net' \subseteq Carried
    BY <1>1, <1>4, CarriedRequest DEF RequestBlock
  <2>2. pc'[p] = "AwaitBlock" => bc'[p] = bc[p] /\ Fitting(p, round'[p])
    <3>1. CASE Others(p) = {}
      <4>1. after[p] # "AwaitBlock"  BY <1>1 DEF TypeOK
      <4> QED  BY <1>1, <1>4, <3>1, <4>1 DEF RequestBlock, TypeOK
    <3>2. CASE Others(p) # {}
      <4> DEFINE n == Cardinality(Others(p))
      <4>1. round'[p] = [NoRound EXCEPT !.n_peers = n]
        BY <1>1, <1>4, <3>2 DEF RequestBlock, TypeOK
      <4> HIDE DEF n
      <4>2. \A d \in Data : round'[p].found[d] = 0  BY <4>1 DEF NoRound
      <4> QED  BY <1>4, <4>2 DEF RequestBlock, Fitting
    <3> QED  BY <3>1, <3>2
  <2>3. \A q \in Peers \ {p} : /\ bc'[q] = bc[q] /\ pc'[q] = pc[q]
                               /\ transactions'[q] = transactions[q]
                               /\ round'[q] = round[q]
    BY <1>1, <1>4 DEF RequestBlock, TypeOK
  <2>4. Along(p)  BY <1>4 DEF RequestBlock, Along
  <2>5. /\ \E s \in Seq(Carried) : inbox' = [inbox EXCEPT ![p] = s]
        /\ \E s \in Seq(Carried) : aside' = [aside EXCEPT ![p] = s]
        /\ \E S \in SUBSET Carried : held' = [held EXCEPT ![p] = S]
        /\ \E s \in Seq(LedgerVotings) : votes' = [votes EXCEPT ![p] = s]
        /\ \E s \in Seq(LedgerCandidates) :
              candidates' = [candidates EXCEPT ![p] = s]
    BY <1>4, LedgerTypes DEF RequestBlock
  <2> QED  BY <2>1, <2>2, <2>3, <2>4, <2>5, LedgerAtStep
<1>5. CASE AwaitNoBlock(p)
  <2> DEFINE r == HearNoBlock(round[p], Oldest(p).from)
  <2>1. r \in Heard  BY <1>1, <1>2, <1>3, <1>5, HeardKept DEF AwaitNoBlock
  <2>2. r.found = round[p].found
    BY <1>1, HearType DEF HearNoBlock, Hear, Round
  <2>3. Fitting(p, r)  BY <1>2, <1>5, <2>2 DEF AwaitNoBlock, Fitting
  <2> HIDE DEF r
  <2> QED
    BY <1>1, <1>3, <1>5, <2>1, <2>3, LedgerConclude DEF AwaitNoBlock, r
<1>6. CASE AwaitBlock(p)
  <2> DEFINE m == Oldest(p)
             r == HearBlock(p, round[p], m.from, m.block)
  <2>1. r \in Heard  BY <1>1, <1>2, <1>3, <1>6, HeardKept DEF AwaitBlock
  <2>2. m.block \in Block
    BY <1>3, <1>6, MessageFields DEF AwaitBlock, Pending
  <2>3. Fitting(p, r)
    BY <1>1, <1>2, <1>3, <1>6, <2>2, HearFitting DEF AwaitBlock
  <2>4. Conclude(p, r, aside[p])  BY <1>6 DEF AwaitBlock
  <2> HIDE DEF r
  <2> QED
    BY <1>1, <1>3, <1>6, <2>1, <2>3, <2>4, LedgerConclude DEF AwaitBlock
<1>7. CASE AwaitRequestBlock(p)
  <2> DEFINE m == Oldest(p)
  <2>1. /\ m \in Carried /\ m \in Message /\ m.from \in Peers /\ inbox[p] # <<>>
    BY <1>3, <1>7 DEF AwaitRequestBlock
  <2>2. /\ Hear(round[p], m.from) \in Heard
        /\ Append(aside[p], m) \in Seq(Carried)
    BY <1>1, <1>2, <1>7, <2>1, HeardKept, AppendProperties DEF AwaitRequestBlock
  <2>3. Hear(round[p], m.from).found = round[p].found
    BY <1>1 DEF Hear, Round
  <2>4. Fitting(p, round[p]) /\ Fitting(p, Hear(round[p], m.from))
    BY <1>2, <1>7, <2>3 DEF AwaitRequestBlock, Fitting
  <2>5. /\ \E r \in {round[p], Hear(round[p], m.from)},
             kept \in {aside[p], Append(aside[p], m)} : Conclude(p, r, kept)
        /\ net' \in {net, net \cup {SendBlockchain(p, m)}}
    BY <1>7, Zenon DEF AwaitRequestBlock
  <2>6. net' \subseteq Carried  BY <1>1, <2>1, <2>5, CarriedAnswer
  <2>7. pc[p] = "AwaitBlock" /\ UNCHANGED <<held, votes, candidates, transactions>>
    BY <1>7 DEF AwaitRequestBlock
  <2> HIDE DEF m
  <2> QED
    BY <1>1, <2>1, <2>2, <2>4, <2>5, <2>6, <2>7, LedgerConclude
<1>8. CASE AwaitFree(p)
  BY <1>1, <1>2, <1>3, <1>8, LedgerConclude DEF AwaitFree
<1>9. CASE AwaitTimeout(p)
  <2>1. pc'[p] # "AwaitBlock" /\ Along(p) /\ net' \subseteq Carried
    BY <1>1, <1>9 DEF AwaitTimeout, TypeOK, Along
  <2>2. \A q \in Peers \ {p} : /\ bc'[q] = bc[q] /\ pc'[q] = pc[q]
                               /\ transactions'[q] = transactions[q]
                               /\ round'[q] = round[q]
    BY <1>1, <1>9 DEF AwaitTimeout, TypeOK
  <2>3. /\ \E s \in Seq(Carried) : inbox' = [inbox EXCEPT ![p] = s]
        /\ \E s \in Seq(Carried) : aside' = [aside EXCEPT ![p] = s]
        /\ \E S \in SUBSET Carried : held' = [held EXCEPT ![p] = S]
        /\ \E s \in Seq(LedgerVotings) : votes' = [votes EXCEPT ![p] = s]
        /\ \E s \in Seq(LedgerCandidates) :
              candidates' = [candidates EXCEPT ![p] = s]
    BY <1>9, LedgerTypes DEF AwaitTimeout
  <2> QED  BY <2>1, <2>2, <2>3, LedgerAtStep
<1>10. CASE AwaitReturn(p)
  <2>1. pc'[p] # "AwaitBlock" /\ Along(p) /\ net' \subseteq Carried
    BY <1>1, <1>10 DEF AwaitReturn, TypeOK, Along
  <2>2. \A q \in Peers \ {p} : /\ bc'[q] = bc[q] /\ pc'[q] = pc[q]
                               /\ transactions'[q] = transactions[q]
                               /\ round'[q] = round[q]
    BY <1>1, <1>10 DEF AwaitReturn, TypeOK
  <2>3. inbox[p] \o aside[p] \in Seq(Carried) /\ <<>> \in Seq(Carried)
    BY LedgerTypes, EmptySeq, ConcatProperties
  <2>4. /\ \E s \in Seq(Carried) : inbox' = [inbox EXCEPT ![p] = s]
        /\ \E s \in Seq(Carried) : aside' = [aside EXCEPT ![p] = s]
        /\ \E S \in SUBSET Carried : held' = [held EXCEPT ![p] = S]
        /\ \E s \in Seq(LedgerVotings) : votes' = [votes EXCEPT ![p] = s]
        /\ \E s \in Seq(LedgerCandidates) :
              candidates' = [candidates EXCEPT ![p] = s]
    BY <1>10, <2>3, LedgerTypes DEF AwaitReturn
  <2> QED  BY <2>1, <2>2, <2>4, LedgerAtStep
<1> QED
  BY <1>4, <1>5, <1>6, <1>7, <1>8, <1>9, <1>10 DEF RequestBlockchain

----------------------------------------------------------------------------
(* The steps of the votes *)

\* A step that leaves the chains, the transactions and the rounds alone and
\* whose main thread is not in a round after it.
LEMMA LedgerInside ==
    ASSUME LedgerInv, TransactionInv', NEW p \in Peers,
           UNCHANGED <<bc, transactions, round>>,
           pc' \in {pc, [pc EXCEPT ![p] = "HandleAll"], [pc EXCEPT ![p] = "Finish"]},
           held' \in {held, [held EXCEPT ![p] = {}]},
           net' \subseteq Carried,
           \E s \in Seq(Carried) : inbox' = [inbox EXCEPT ![p] = s],
           \E s \in Seq(Carried) : aside' = [aside EXCEPT ![p] = s],
           \E s \in Seq(LedgerVotings) : votes' = [votes EXCEPT ![p] = s],
           \E s \in Seq(LedgerCandidates) :
              candidates' = [candidates EXCEPT ![p] = s]
    PROVE  LedgerInv'
<1>1. TypeOK /\ LedgerAt(p)  BY LedgerTypes
<1>2. Along(p)  BY DEF Along
<1>3. \E S \in SUBSET Carried : held' = [held EXCEPT ![p] = S]
  <2>1. held[p] \in SUBSET Carried /\ held = [held EXCEPT ![p] = held[p]]
    BY LedgerTypes
  <2>2. held' \in {[held EXCEPT ![p] = held[p]], [held EXCEPT ![p] = {}]}
    BY <2>1
  <2> QED  BY <2>1, <2>2
<1>4. pc'[p] = "AwaitBlock" => bc'[p] = bc[p] /\ Fitting(p, round'[p])
  BY <1>1 DEF TypeOK, LedgerAt
<1>5. \A q \in Peers \ {p} : /\ bc'[q] = bc[q] /\ pc'[q] = pc[q]
                             /\ transactions'[q] = transactions[q]
                             /\ round'[q] = round[q]
  BY <1>1 DEF TypeOK
<1> QED  BY <1>2, <1>3, <1>4, <1>5, LedgerAtStep

\* A new activation for a block of the ledger.
LEMMA LedgerNewVoting ==
    ASSUME LedgerInv, NEW p \in Peers, NEW b \in Block, b \in OnLedger,
           NEW own \in BOOLEAN, NEW agree \in BOOLEAN
    PROVE  NewVoting(p, b, own, agree) \in LedgerVotings
<1>1. NewVoting(p, b, own, agree) \in Voting  BY LedgerTypes, NewVotingType
<1>2. <<>> \in Seq(Carried)  BY EmptySeq
<1> QED  BY <1>1, <1>2 DEF LedgerVotings, NewVoting

\* Both ways of handling an addition request.
LEMMA LedgerHandle ==
    ASSUME LedgerInv, NEW p \in Peers, NEW m \in AddRequest, m \in Carried,
           \/ HandleBlockAdditionRequest(p, m)
           \/ RefuseBlockAdditionRequest(p, m)
    PROVE  /\ net' \subseteq Carried
           /\ \E s \in Seq(LedgerVotings) : votes' = [votes EXCEPT ![p] = s]
<1>1. /\ net \subseteq Carried /\ votes[p] \in Seq(LedgerVotings)
      /\ votes = [votes EXCEPT ![p] = votes[p]]
  BY LedgerTypes
<1>2. m.block \in Block /\ m.block \in OnLedger /\ m.index \in Nat \ {0}
  BY DEF AddRequest, MessageOf, Carried
<1>3. Vote(p, m) \in BOOLEAN  BY DEF Vote, Continues
<1>4. \E a \in BOOLEAN :
        net' = net \cup Broadcast(p, "VOTE", m.index, m.block, a)
  BY <1>3 DEF HandleBlockAdditionRequest, RefuseBlockAdditionRequest
<1>5. net' \subseteq Carried  BY <1>1, <1>2, <1>4, CarriedBroadcast
<1>6. CASE HandleBlockAdditionRequest(p, m)
  <2> DEFINE v == NewVoting(p, m.block, FALSE, Vote(p, m))
  <2>1. v \in LedgerVotings  BY <1>2, <1>3, LedgerNewVoting
  <2>2. votes' = [votes EXCEPT ![p] = <<v>> \o @]
    BY <1>6 DEF HandleBlockAdditionRequest
  <2> HIDE DEF v
  <2>3. <<v>> \o votes[p] \in Seq(LedgerVotings)
    BY <1>1, <2>1, SingletonSeq, ConcatProperties
  <2> QED  BY <1>5, <2>2, <2>3
<1>7. CASE RefuseBlockAdditionRequest(p, m)
  BY <1>1, <1>5, <1>7 DEF RefuseBlockAdditionRequest
<1> QED  BY <1>6, <1>7

LEMMA LedgerAdditionRequests ==
    ASSUME LedgerInv, TransactionInv', NEW p \in Peers, AdditionRequests(p)
    PROVE  LedgerInv'
<1>1. /\ TypeOK /\ SafeInv /\ TransactionInv /\ LedgerAt(p)
      /\ Whole \in Chain /\ OnLedger = Beginnings(Whole)
      /\ net \subseteq Carried /\ held[p] \in SUBSET Carried
      /\ inbox[p] \in Seq(Carried) /\ aside[p] \in Seq(Carried)
      /\ votes[p] \in Seq(LedgerVotings)
      /\ candidates[p] \in Seq(LedgerCandidates)
      /\ inbox = [inbox EXCEPT ![p] = inbox[p]]
      /\ aside = [aside EXCEPT ![p] = aside[p]]
      /\ votes = [votes EXCEPT ![p] = votes[p]]
      /\ candidates = [candidates EXCEPT ![p] = candidates[p]]
  BY LedgerTypes
<1>2. CASE AddBlockToBlockchain(p)
  <2> DEFINE b == SneakPeekBlock(p, Head(transactions[p]))
             v == NewVoting(p, b, TRUE, TRUE)
  <2>1. transactions[p] \in Seq(Data) /\ transactions[p] # <<>>
    BY <1>1, <1>2 DEF AddBlockToBlockchain, SafeInv, TypeInv, TypeOK,
                      TransactionAtHand, AtHand, Chain
  <2>2. p = Source  BY <1>1, <2>1 DEF LedgerAt
  <2>3. b = Whole  BY <2>1, <2>2 DEF SneakPeekBlock, Whole, WholeOf
  <2>4. b \in OnLedger  BY <1>1, <2>3, WholeIsBeginning
  <2>5. b \in Block
    BY <1>1, <2>1, HeadTailProperties, SizeType, AppendBlock DEF SneakPeekBlock
  <2>6. votes' = [votes EXCEPT ![p] = <<v>>] /\ Size(p) \in Nat \ {0}
    BY <1>1, <1>2, SizeType DEF AddBlockToBlockchain
  <2>7. net' = net \cup Broadcast(p, "ADDREQUEST", Size(p), b, FALSE)
    BY <1>2 DEF AddBlockToBlockchain
  <2> HIDE DEF b
  <2>8. v \in LedgerVotings  BY <2>4, <2>5, LedgerNewVoting
  <2> HIDE DEF v
  <2>9. <<v>> \in Seq(LedgerVotings)  BY <2>8, SingletonSeq
  <2>10. net' \subseteq Carried
    BY <1>1, <2>4, <2>5, <2>6, <2>7, CarriedBroadcast
  <2>11. UNCHANGED <<bc, transactions, round, held, inbox, aside, candidates>>
    BY <1>2 DEF AddBlockToBlockchain
  <2>12. pc' = [pc EXCEPT ![p] = "HandleAll"]
    BY <1>2 DEF AddBlockToBlockchain
  <2> QED  BY <1>1, <2>6, <2>9, <2>10, <2>11, <2>12, LedgerInside
<1>3. CASE HandleHeldRequest(p)
  <2>1. PICK m \in held[p] :
          \/ inbox' = [inbox EXCEPT ![p] = Append(@, m)] /\ UNCHANGED <<net, votes>>
          \/ HandleBlockAdditionRequest(p, m) /\ UNCHANGED inbox
    BY <1>3 DEF HandleHeldRequest
  <2>2. m \in AddRequest /\ m \in Carried  BY <1>1 DEF TypeOK
  <2>3. Append(inbox[p], m) \in Seq(Carried)
    BY <1>1, <2>2, AppendProperties
  <2>4. /\ net' \subseteq Carried
        /\ \E s \in Seq(LedgerVotings) : votes' = [votes EXCEPT ![p] = s]
        /\ \E s \in Seq(Carried) : inbox' = [inbox EXCEPT ![p] = s]
    <3>1. CASE HandleBlockAdditionRequest(p, m) /\ UNCHANGED inbox
      BY <1>1, <2>2, <3>1, LedgerHandle
    <3>2. CASE /\ inbox' = [inbox EXCEPT ![p] = Append(@, m)]
               /\ UNCHANGED <<net, votes>>
      BY <1>1, <2>3, <3>2
    <3> QED  BY <2>1, <3>1, <3>2
  <2>5. /\ UNCHANGED <<bc, transactions, round, candidates, aside>>
        /\ pc' = [pc EXCEPT ![p] = "HandleAll"]
        /\ held' = [held EXCEPT ![p] = {}]
    BY <1>3 DEF HandleHeldRequest
  <2> QED  BY <1>1, <2>4, <2>5, LedgerInside
<1>4. CASE HandleAllRequest(p)
  <2>1. inbox[p] # <<>> /\ Take(p)  BY <1>4 DEF HandleAllRequest
  <2>2. Oldest(p) \in AddRequest /\ Oldest(p) \in Carried
    BY <1>4, <2>1, TakeCarried, MessageFields DEF HandleAllRequest, ForTip
  <2>3. /\ net' \subseteq Carried
        /\ \E s \in Seq(LedgerVotings) : votes' = [votes EXCEPT ![p] = s]
    BY <1>4, <2>2, LedgerHandle DEF HandleAllRequest
  <2>4. UNCHANGED <<bc, transactions, pc, held, round, candidates, aside>>
    BY <1>4 DEF HandleAllRequest, mainVars
  <2> QED  BY <1>1, <2>1, <2>3, <2>4, TakeCarried, LedgerInside
<1>5. CASE HandleAllSetAside(p)
  <2>1. inbox[p] # <<>> /\ Take(p)  BY <1>5 DEF HandleAllSetAside
  <2>2. Append(aside[p], Oldest(p)) \in Seq(Carried)
    BY <1>1, <2>1, TakeCarried, AppendProperties
  <2>3. aside' = [aside EXCEPT ![p] = Append(aside[p], Oldest(p))]
    BY <1>5 DEF HandleAllSetAside
  <2>4. UNCHANGED <<bc, transactions, pc, held, round, votes, candidates, net>>
    BY <1>5 DEF HandleAllSetAside, mainVars
  <2> QED  BY <1>1, <2>1, <2>2, <2>3, <2>4, TakeCarried, LedgerInside
<1>6. CASE HandleAllFinish(p)
  <2> DEFINE c == candidates[p]
  <2>1. Along(p) /\ \A q \in Peers \ {p} : bc'[q] = bc[q]
    <3>1. CASE c = <<>>
      <4>1. UNCHANGED bc  BY <1>6, <3>1 DEF HandleAllFinish
      <4>2. UNCHANGED transactions
        <5>1. ~OwnAdded(c)  BY <3>1 DEF OwnAdded
        <5> QED  BY <1>1, <1>6, <5>1 DEF HandleAllFinish, TypeOK
      <4> QED  BY <4>1, <4>2 DEF Along
    <3>2. CASE c # <<>>
      <4>1. PICK i \in DOMAIN c : AddBlock(p, Last(c[i].block))
        BY <1>6, <3>2 DEF HandleAllFinish
      <4>2. c \in Seq(CandidateAt(Size(p)))
        BY <1>1, LocalTypes
      <4>3. c[i] \in CandidateAt(Size(p)) /\ c[i] \in LedgerCandidates
        BY <1>1, <4>2, ElementOfSeq, LenProperties
      <4> DEFINE b == c[i].block
      <4>4. Len(b) = Len(bc[p]) + 1 /\ b \in OnLedger
        BY <4>3 DEF CandidateAt, Size, LedgerCandidates
      <4>5. Append(bc[p], Last(b)) = b
        BY <1>1, <4>4, NextBeginning DEF LedgerAt
      <4>6. bc' = [bc EXCEPT ![p] = Append(bc[p], Last(b))]
        BY <4>1 DEF AddBlock
      <4> HIDE DEF b
      <4>7. bc' = [bc EXCEPT ![p] = b]  BY <4>5, <4>6
      <4>8. p # Source => transactions'[p] = <<>>
        BY <1>1, <1>6, RemovedIsAdded DEF LedgerAt
      <4> QED  BY <1>1, <4>4, <4>7, <4>8 DEF Along, TypeOK
    <3> QED  BY <3>1, <3>2
  <2>2. /\ net' \subseteq Carried /\ pc'[p] # "AwaitBlock"
        /\ \A q \in Peers \ {p} : /\ pc'[q] = pc[q] /\ round'[q] = round[q]
                                  /\ transactions'[q] = transactions[q]
    BY <1>1, <1>6 DEF HandleAllFinish, TypeOK
  <2>3. inbox[p] \o aside[p] \in Seq(Carried) /\ <<>> \in Seq(Carried)
    BY LedgerTypes, EmptySeq, ConcatProperties
  <2>4. /\ \E s \in Seq(Carried) : inbox' = [inbox EXCEPT ![p] = s]
        /\ \E s \in Seq(Carried) : aside' = [aside EXCEPT ![p] = s]
        /\ \E s \in Seq(LedgerVotings) : votes' = [votes EXCEPT ![p] = s]
        /\ \E s \in Seq(LedgerCandidates) :
              candidates' = [candidates EXCEPT ![p] = s]
    BY <1>1, <1>6, <2>3, EmptySeq DEF HandleAllFinish
  <2>5. \E S \in SUBSET Carried : held' = [held EXCEPT ![p] = S]
    BY <1>6, LedgerTypes DEF HandleAllFinish
  <2> QED  BY <2>1, <2>2, <2>4, <2>5, LedgerAtStep
<1>7. CASE HandleAllBreak(p)
  <2>1. UNCHANGED <<bc, transactions, held, round, votes, candidates, inbox,
                    aside, net>>
        /\ pc' = [pc EXCEPT ![p] = "Finish"]
    BY <1>7 DEF HandleAllBreak
  <2> QED  BY <1>1, <2>1, LedgerInside
<1> QED  BY <1>2, <1>3, <1>4, <1>5, <1>6, <1>7 DEF AdditionRequests

\* An activation keeps its block, and sets aside what is carried.
LEMMA LedgerSet ==
    ASSUME LedgerInv, NEW p \in Peers, votes[p] # <<>>,
           NEW v \in LedgerVotings, SetVoting(p, v)
    PROVE  \E s \in Seq(LedgerVotings) : votes' = [votes EXCEPT ![p] = s]
<1>1. votes[p] \in Seq(LedgerVotings)  BY LedgerTypes
<1>2. Tail(votes[p]) \in Seq(LedgerVotings)  BY <1>1, HeadTailProperties
<1>3. <<v>> \o Tail(votes[p]) \in Seq(LedgerVotings)
  BY <1>2, SingletonSeq, ConcatProperties
<1> QED  BY <1>3 DEF SetVoting

LEMMA LedgerCheckVotesForBlock ==
    ASSUME LedgerInv, TransactionInv', NEW p \in Peers, CheckVotesForBlock(p)
    PROVE  LedgerInv'
<1>1. /\ TypeOK /\ net \subseteq Carried
      /\ inbox[p] \in Seq(Carried) /\ aside[p] \in Seq(Carried)
      /\ votes[p] \in Seq(LedgerVotings)
      /\ candidates[p] \in Seq(LedgerCandidates)
      /\ inbox = [inbox EXCEPT ![p] = inbox[p]]
      /\ aside = [aside EXCEPT ![p] = aside[p]]
      /\ votes = [votes EXCEPT ![p] = votes[p]]
      /\ candidates = [candidates EXCEPT ![p] = candidates[p]]
  BY LedgerTypes
<1>2. UNCHANGED <<bc, transactions, round, pc, held, aside>>
  BY DEF CheckVotesForBlock, CheckVote, CheckSetAside, CheckRequestBlock,
         CheckAddRequest, CheckFree, CheckTimeout, CheckReturn, mainVars
<1>3. /\ votes[p] # <<>> /\ Innermost(p) \in LedgerVotings
      /\ Tail(votes[p]) \in Seq(LedgerVotings)
      /\ Innermost(p) \in Voting /\ Innermost(p).block \in OnLedger
      /\ Innermost(p).aside \in Seq(Carried)
  <2>1. votes[p] # <<>>
    BY DEF CheckVotesForBlock, CheckVote, CheckSetAside, CheckRequestBlock,
           CheckAddRequest, CheckFree, CheckTimeout, CheckReturn, Collecting
  <2>2. Head(votes[p]) \in LedgerVotings /\ Tail(votes[p]) \in Seq(LedgerVotings)
    BY <1>1, <2>1, HeadTailProperties
  <2> QED  BY <2>1, <2>2 DEF Innermost, LedgerVotings
<1>4. ASSUME inbox[p] # <<>>, Take(p)
      PROVE  /\ Oldest(p) \in Carried /\ Oldest(p) \in Message
             /\ \E s \in Seq(Carried) : inbox' = [inbox EXCEPT ![p] = s]
  BY <1>4, TakeCarried
<1>5. CASE CheckVote(p)
  <2> DEFINE v == Count(Innermost(p), Oldest(p))
  <2>1. inbox[p] # <<>> /\ Take(p)  BY <1>5 DEF CheckVote, Pending
  <2>2. v \in Voting  BY <1>3, <1>4, <2>1, CountType
  <2>3. v.block = Innermost(p).block /\ v.aside = Innermost(p).aside
    BY <1>3 DEF Count, Voting
  <2>4. UNCHANGED votes \/ SetVoting(p, v)  BY <1>5 DEF CheckVote
  <2> HIDE DEF v
  <2>5. v \in LedgerVotings  BY <1>3, <2>2, <2>3 DEF LedgerVotings
  <2>6. \E s \in Seq(LedgerVotings) : votes' = [votes EXCEPT ![p] = s]
    BY <1>1, <1>3, <2>4, <2>5, LedgerSet
  <2>7. UNCHANGED <<net, candidates>>  BY <1>5 DEF CheckVote
  <2> QED  BY <1>1, <1>2, <1>4, <2>1, <2>6, <2>7, LedgerInside
<1>6. CASE CheckSetAside(p)
  <2> DEFINE v == [Innermost(p) EXCEPT !.aside = Append(@, Oldest(p))]
  <2>1. inbox[p] # <<>> /\ Take(p)  BY <1>6 DEF CheckSetAside, Pending
  <2>2. /\ Append(Innermost(p).aside, Oldest(p)) \in Seq(Carried)
        /\ Append(Innermost(p).aside, Oldest(p)) \in Seq(Message)
    BY <1>3, <1>4, <2>1, AppendProperties DEF Voting
  <2>3. v \in LedgerVotings  BY <1>3, <2>2 DEF LedgerVotings, Voting
  <2>4. SetVoting(p, v)  BY <1>6 DEF CheckSetAside
  <2> HIDE DEF v
  <2>5. \E s \in Seq(LedgerVotings) : votes' = [votes EXCEPT ![p] = s]
    BY <1>3, <2>3, <2>4, LedgerSet
  <2>6. UNCHANGED <<net, candidates>>  BY <1>6 DEF CheckSetAside
  <2> QED  BY <1>1, <1>2, <1>4, <2>1, <2>5, <2>6, LedgerInside
<1>7. CASE CheckRequestBlock(p)
  <2>1. inbox[p] # <<>> /\ Take(p)  BY <1>7 DEF CheckRequestBlock, Pending
  <2>2. SendBlockchain(p, Oldest(p)) \in Carried
    BY <1>4, <2>1, CarriedAnswer
  <2>3. net' \subseteq Carried /\ UNCHANGED <<votes, candidates>>
    BY <1>1, <1>7, <2>2 DEF CheckRequestBlock
  <2> QED  BY <1>1, <1>2, <1>4, <2>1, <2>3, LedgerInside
<1>8. CASE CheckAddRequest(p)
  <2>1. inbox[p] # <<>> /\ Take(p)  BY <1>8 DEF CheckAddRequest, Pending
  <2>2. Oldest(p) \in AddRequest /\ Oldest(p) \in Carried
    BY <1>4, <1>8, <2>1, MessageFields DEF CheckAddRequest, Pending
  <2>3. /\ net' \subseteq Carried
        /\ \E s \in Seq(LedgerVotings) : votes' = [votes EXCEPT ![p] = s]
    BY <1>8, <2>2, LedgerHandle DEF CheckAddRequest
  <2>4. UNCHANGED candidates  BY <1>8 DEF CheckAddRequest
  <2> QED  BY <1>1, <1>2, <1>4, <2>1, <2>3, <2>4, LedgerInside
<1>9. CASE CheckFree(p)
  <2>1. inbox[p] # <<>> /\ Take(p) /\ UNCHANGED <<net, votes, candidates>>
    BY <1>9 DEF CheckFree, Pending
  <2> QED  BY <1>1, <1>2, <1>4, <2>1, LedgerInside
<1>10. CASE CheckTimeout(p)
  <2> DEFINE v == [Innermost(p) EXCEPT !.status = "timed out"]
  <2>1. v \in LedgerVotings  BY <1>3 DEF LedgerVotings, Voting
  <2>2. SetVoting(p, v)  BY <1>10 DEF CheckTimeout
  <2> HIDE DEF v
  <2>3. \E s \in Seq(LedgerVotings) : votes' = [votes EXCEPT ![p] = s]
    BY <1>3, <2>1, <2>2, LedgerSet
  <2>4. UNCHANGED <<net, candidates, inbox>>  BY <1>10 DEF CheckTimeout
  <2> QED  BY <1>1, <1>2, <2>3, <2>4, LedgerInside
<1>11. CASE CheckReturn(p)
  <2> DEFINE v == Innermost(p)
             outer == Tail(votes[p])
             c == [block |-> v.block, own |-> v.own]
  <2>1. \E s \in Seq(Carried) : inbox' = [inbox EXCEPT ![p] = s]
    <3>1. inbox[p] \o v.aside \in Seq(Carried)
      BY <1>1, <1>3, ConcatProperties
    <3>2. inbox' \in {[inbox EXCEPT ![p] = inbox[p] \o v.aside],
                      [inbox EXCEPT ![p] = inbox[p]]}
      BY <1>11 DEF CheckReturn
    <3> QED  BY <1>1, <3>1, <3>2
  <2>2. \E s \in Seq(LedgerVotings) : votes' = [votes EXCEPT ![p] = s]
    <3>1. CASE outer # <<>>
      <4> DEFINE w == [Head(outer) EXCEPT !.status = "abandoned"]
      <4>1. Head(outer) \in LedgerVotings /\ Tail(outer) \in Seq(LedgerVotings)
        BY <1>3, <3>1, HeadTailProperties
      <4>2. w \in LedgerVotings  BY <4>1 DEF LedgerVotings, Voting
      <4>3. votes' \in {[votes EXCEPT ![p] = <<w>> \o Tail(outer)],
                        [votes EXCEPT ![p] = outer]}
        BY <1>11, <3>1 DEF CheckReturn
      <4> HIDE DEF w, outer
      <4>4. <<w>> \o Tail(outer) \in Seq(LedgerVotings)
        BY <4>1, <4>2, SingletonSeq, ConcatProperties
      <4>5. outer \in Seq(LedgerVotings)  BY <1>3 DEF outer
      <4> QED  BY <4>3, <4>4, <4>5
    <3>2. CASE outer = <<>>
      <4>1. votes' = [votes EXCEPT ![p] = outer]  BY <1>11, <3>2 DEF CheckReturn
      <4> QED  BY <1>3, <4>1
    <3> QED  BY <3>1, <3>2
  <2>3. \E s \in Seq(LedgerCandidates) :
           candidates' = [candidates EXCEPT ![p] = s]
    <3>1. c \in LedgerCandidates
      BY <1>3 DEF LedgerCandidates, Voting, Candidate
    <3>2. Append(candidates[p], c) \in Seq(LedgerCandidates)
      BY <1>1, <3>1, AppendProperties
    <3>3. candidates' \in {[candidates EXCEPT ![p] = Append(candidates[p], c)],
                           [candidates EXCEPT ![p] = candidates[p]]}
      BY <1>11 DEF CheckReturn
    <3> HIDE DEF c
    <3> QED  BY <1>1, <3>2, <3>3
  <2>4. net' \subseteq Carried
    <3>1. v.block \in Block /\ Accepted(v) \in BOOLEAN
      BY <1>3 DEF Voting, Accepted
    <3>2. Len(v.block) \in Nat \ {0}  BY <3>1, LastOfBlock
    <3>3. Broadcast(p, "VOTE", Len(v.block), v.block, Accepted(v))
            \subseteq Carried
      BY <1>3, <3>1, <3>2, CarriedBroadcast
    <3> QED  BY <1>1, <1>11, <3>3 DEF CheckReturn
  <2> QED  BY <1>1, <1>2, <2>1, <2>2, <2>3, <2>4, LedgerInside
<1> QED
  BY <1>5, <1>6, <1>7, <1>8, <1>9, <1>10, <1>11 DEF CheckVotesForBlock

----------------------------------------------------------------------------
(* The theorems *)

LEMMA LedgerInit == Init => LedgerInv
<1> SUFFICES ASSUME Init PROVE LedgerInv  OBVIOUS
<1>1. TransactionInv /\ TypeOK
  BY SafeInit, OwnInit DEF TransactionInv, SafeInv, TypeInv
<1>2. /\ Whole \in Chain /\ bc[Source] \in Beginnings(Whole)
      /\ Source \in Peers /\ \A p \in Peers : bc[p] \in Chain
  BY <1>1, WholeType, SourceAssumption DEF TypeOK, OnLedger
<1>3. net \subseteq Carried  BY DEF Init
<1>4. ASSUME NEW p \in Peers PROVE LedgerAt(p)
  <2>1. IsPrefix(bc[p], bc[Source])  BY SourceAssumption DEF Init
  <2>2. bc[p] \in Beginnings(bc[Source])  BY <1>2, <2>1, PrefixIs
  <2>3. bc[p] \in OnLedger  BY <1>2, <2>2, BeginningsGrow DEF OnLedger
  <2>4. p # Source => transactions[p] = <<>>  BY SourceAssumption DEF Init
  <2>5. /\ inbox[p] = <<>> /\ aside[p] = <<>> /\ held[p] = {}
        /\ votes[p] = <<>> /\ candidates[p] = <<>> /\ pc[p] = "Run"
    BY DEF Init
  <2> QED  BY <2>3, <2>4, <2>5, EmptySeq DEF LedgerAt
<1> QED  BY <1>1, <1>3, <1>4 DEF LedgerInv

LEMMA LedgerStep == LedgerInv /\ [Next]_vars => LedgerInv'
<1> SUFFICES ASSUME LedgerInv, [Next]_vars PROVE LedgerInv'  OBVIOUS
<1>1. TransactionInv'  BY TransactionStep DEF LedgerInv
<1>2. CASE \E m \in net : Receive(m)  BY <1>1, <1>2, LedgerReceive
<1>3. CASE \E p \in Peers : ReceiveNetinfo(p)
  BY <1>1, <1>3, LedgerReceiveNetinfo
<1>4. CASE \E p \in Peers : Run(p)  BY <1>1, <1>4, LedgerRun
<1>5. CASE \E p \in Peers : RequestBlockchain(p)
  BY <1>1, <1>5, LedgerRequestBlockchain
<1>6. CASE \E p \in Peers : AdditionRequests(p)
  BY <1>1, <1>6, LedgerAdditionRequests
<1>7. CASE \E p \in Peers : CheckVotesForBlock(p)
  BY <1>1, <1>7, LedgerCheckVotesForBlock
<1>8. CASE UNCHANGED vars
  BY <1>1, <1>8
  DEF LedgerInv, LedgerAt, Fitting, LedgerVotings, LedgerCandidates, Carried,
      OnLedger, Whole, vars, mainVars
<1> QED  BY <1>2, <1>3, <1>4, <1>5, <1>6, <1>7, <1>8 DEF Next

LEMMA OnOneLedger == Spec => []LedgerInv
BY LedgerInit, LedgerStep, PTL DEF Spec

\* Of any two chains one is a prefix of the other when one peer proposes all
\* blocks (application.cc:439-460, 813-866, 928-951), for any number of peers
\* and transactions, and any number of timeouts, duplicates and lost messages.
THEOREM Agrees == Spec => []Agreement
<1>1. LedgerInv => Agreement
  <2> SUFFICES ASSUME LedgerInv, NEW p \in Peers, NEW q \in Peers
               PROVE  IsPrefix(bc[p], bc[q]) \/ IsPrefix(bc[q], bc[p])
    BY DEF Agreement, ChainsAgree
  <2>1. /\ Whole \in Chain /\ bc[p] \in Beginnings(Whole)
        /\ bc[q] \in Beginnings(Whole)
    BY LedgerTypes DEF LedgerAt
  <2>2. /\ Len(bc[p]) \in Nat /\ Len(bc[q]) \in Nat
        /\ bc[p] \in Chain /\ bc[q] \in Chain
    BY <2>1, BeginningFields
  <2>3. CASE Len(bc[p]) <= Len(bc[q])  BY <2>1, <2>2, <2>3, PartOfBeginning, PrefixIs
  <2>4. CASE Len(bc[q]) <= Len(bc[p])  BY <2>1, <2>2, <2>4, PartOfBeginning, PrefixIs
  <2> QED  BY <2>2, <2>3, <2>4
<1> QED  BY <1>1, OnOneLedger, PTL

\* The longest chain is the ledger.  It is the chain of the source, or one that
\* holds the block proposed by the source, which has not added it yet.
SomeLedger == \E p \in Peers : OneLedger!IsLedger(bc[p])

LEMMA LongestIsLedger == LedgerInv => SomeLedger
<1> SUFFICES ASSUME LedgerInv PROVE SomeLedger  OBVIOUS
<1>1. /\ Source \in Peers /\ Whole \in Chain
      /\ Len(Whole) <= Len(bc[Source]) + 1
  BY LedgerTypes, WholeType, SourceAssumption
<1>2. \A p \in Peers : /\ bc[p] \in Beginnings(Whole)
                       /\ Len(bc[p]) \in Nat /\ Len(Whole) \in Nat
                       /\ Len(bc[p]) <= Len(Whole)
  BY <1>1, BeginningFields DEF LedgerInv, LedgerAt, OnLedger
<1>3. \E q \in Peers : \A p \in Peers : Len(bc[p]) <= Len(bc[q])
  <2>1. CASE \A p \in Peers : Len(bc[p]) <= Len(bc[Source])  BY <1>1, <2>1
  <2>2. CASE \E q \in Peers : ~(Len(bc[q]) <= Len(bc[Source]))
    <3>1. PICK q \in Peers : ~(Len(bc[q]) <= Len(bc[Source]))  BY <2>2
    <3>2. Len(Whole) <= Len(bc[q])  BY <1>1, <1>2, <3>1
    <3>3. \A p \in Peers : Len(bc[p]) <= Len(bc[q])  BY <1>2, <3>2
    <3> QED  BY <3>3
  <2> QED  BY <2>1, <2>2
<1>4. PICK q \in Peers : \A p \in Peers : Len(bc[p]) <= Len(bc[q])  BY <1>3
<1>5. OneLedger!IsLedger(bc[q])
  BY <1>1, <1>2, <1>4, PartOfBeginning DEF OneLedger!IsLedger
<1> QED  BY <1>5 DEF SomeLedger

\* Every step of the peers is a step of the ledger or leaves it alone: what
\* RequestBlockchainBlock, a vote or a proposal adds to a chain
\* (application.cc:456, 906, 937) is the next entry of the one ledger.
THEOREM Implements == Spec => ImplementsLedger
<1>1. LedgerInv => bc \in [Peers -> Seq(Data)]
  BY DEF LedgerInv, TransactionInv, SafeInv, TypeInv, TypeOK, Chain
<1>2. Init => OneLedger!Init
  BY <1>1, LedgerInit, LongestIsLedger DEF OneLedger!Init, SomeLedger
<1>3. LedgerInv /\ [Next]_vars =>
        UNCHANGED bc \/ \E p \in Peers, d \in Data :
                           bc' = [bc EXCEPT ![p] = Append(@, d)]
  <2> SUFFICES ASSUME LedgerInv, Next
               PROVE  UNCHANGED bc \/ \E p \in Peers, d \in Data : AddBlock(p, d)
    BY DEF vars, AddBlock
  <2>1. CASE \E p \in Peers : HandleAllFinish(p)
    <3>1. PICK p \in Peers : HandleAllFinish(p)  BY <2>1
    <3>2. candidates[p] \in Seq(Candidate)
      BY <3>1, LedgerTypes DEF TypeOK
    <3>3. ASSUME NEW i \in DOMAIN candidates[p]
          PROVE  Last(candidates[p][i].block) \in Data
      <4>1. candidates[p][i] \in Candidate
        BY <3>2, ElementOfSeq, LenProperties
      <4> QED  BY <4>1, LastOfBlock DEF Candidate
    <3> QED  BY <3>1, <3>3, Zenon DEF HandleAllFinish
  <2>2. CASE \E p \in Peers : \E r, kept : Conclude(p, r, kept)
    BY <2>2, Zenon DEF Conclude
  <2>3. CASE UNCHANGED bc  BY <2>3
  <2>4. CASE \E p \in Peers : RequestBlockchain(p)
    <3>1. PICK p \in Peers : RequestBlockchain(p)  BY <2>4
    <3>2. (\E r, kept : Conclude(p, r, kept)) \/ UNCHANGED bc
      BY <3>1, Zenon
      DEF RequestBlockchain, RequestBlock, AwaitNoBlock, AwaitBlock,
          AwaitRequestBlock, AwaitFree, AwaitTimeout, AwaitReturn
    <3> QED  BY <2>2, <2>3, <3>2
  <2> QED
    BY <2>1, <2>3, <2>4
    DEF Next, Receive, ReceiveNetinfo, Run, RunRefresh, RunRequestBlock,
        RunAddRequest, RunFree, RunTransaction, RunNoMessages,
        AdditionRequests, AddBlockToBlockchain, HandleHeldRequest,
        HandleAllRequest, HandleAllSetAside, HandleAllBreak, CheckVotesForBlock,
        CheckVote, CheckSetAside, CheckRequestBlock, CheckAddRequest, CheckFree,
        CheckTimeout, CheckReturn
<1>4. LedgerInv' => SomeLedger'  BY LongestIsLedger, PTL
<1>5. LedgerInv /\ LedgerInv' /\ [Next]_vars => [OneLedger!Next]_bc
  BY <1>3, <1>4 DEF OneLedger!Next, OneLedger!Learn, SomeLedger
<1> QED
  BY <1>2, <1>5, OnOneLedger, PTL DEF Spec, ImplementsLedger, OneLedger!Spec
=============================================================================
