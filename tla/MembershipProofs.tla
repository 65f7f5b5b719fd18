-------------------------- MODULE MembershipProofs --------------------------
(***************************************************************************)
(* Theorems about the tracker, its queue and the registration of peers,    *)
(* for any number of peers and threads and any size of the ring.           *)
(***************************************************************************)
EXTENDS Membership, FiniteSetTheorems, SequenceTheorems, TLAPS

----------------------------------------------------------------------------
(* The ring *)

\* The slots of a ring, reached from inside and from one turn above it.
LEMMA ModOfSlot ==
  ASSUME NEW m \in Nat \ {0}, NEW x \in 0..(m - 1)
  PROVE  x % m = x /\ (x + m) % m = x
<1>1. x % m = x  BY SMT
<1>2. (x + m) % m = x  BY SMT
<1> QED  BY <1>1, <1>2

\* Where the place i before the slot top is.
LEMMA PlaceInRing ==
  ASSUME NEW m \in Nat \ {0}, NEW top \in 0..(m - 1), NEW i \in 1..m
  PROVE  (top - i + m) % m = IF i <= top THEN top - i ELSE top - i + m
<1>1. CASE i <= top
  <2>1. top - i \in 0..(m - 1)  BY <1>1
  <2>2. ((top - i) + m) % m = top - i  BY <2>1, ModOfSlot
  <2> QED  BY <1>1, <2>2
<1>2. CASE i > top
  <2>1. top - i + m \in 0..(m - 1)  BY <1>2
  <2>2. (top - i + m) % m = top - i + m  BY <2>1, ModOfSlot
  <2> QED  BY <1>2, <2>2
<1> QED  BY <1>1, <1>2

\* The slot after top.
LEMMA NextInRing ==
  ASSUME NEW m \in Nat \ {0}, NEW top \in 0..(m - 1)
  PROVE  (top + 1) % m = IF top + 1 < m THEN top + 1 ELSE 0
<1>1. CASE top + 1 < m
  BY <1>1, ModOfSlot
<1>2. CASE top + 1 = m
  <2>1. (0 + m) % m = 0  BY ModOfSlot
  <2> QED  BY <1>2, <2>1
<1> QED  BY <1>1, <1>2

RequestQueue == Queue(Request \cup {NoRequest})

LEMMA QueueParts ==
  ASSUME NEW q \in RequestQueue
  PROVE  /\ q.data \in [Slots -> Request \cup {NoRequest}]
         /\ q.top \in 0..(MaxSize - 1)
         /\ q.size \in 0..MaxSize
         /\ q = [data |-> q.data, top |-> q.top, size |-> q.size]
         /\ MaxSize \in Nat \ {0}
  BY MaxSizeAssumption DEF RequestQueue, Queue, Slots

\* Every place of the queue is a slot.
LEMMA BackInSlots ==
  ASSUME NEW q \in RequestQueue, NEW i \in 1..q.size
  PROVE  /\ (q.top - i + MaxSize) % MaxSize \in Slots
         /\ Back(q, i) \in Request \cup {NoRequest}
<1>1. i \in 1..MaxSize  BY QueueParts
<1>2. (q.top - i + MaxSize) % MaxSize \in Slots
  BY <1>1, QueueParts, PlaceInRing DEF Slots
<1> QED  BY <1>2, QueueParts DEF Back

LEMMA EnqueueKeepsQueue ==
  ASSUME NEW q \in RequestQueue, NEW x \in Request, ~IsFull(q)
  PROVE  Enqueue(q, x) \in RequestQueue
<1>1. (q.top + 1) % MaxSize \in Slots
  BY QueueParts, NextInRing DEF Slots
<1>2. q.size + 1 \in 0..MaxSize
  BY QueueParts DEF IsFull
<1>3. [q.data EXCEPT ![q.top] = x] \in [Slots -> Request \cup {NoRequest}]
  BY QueueParts
<1> QED  BY <1>1, <1>2, <1>3 DEF RequestQueue, Queue, Enqueue

\* queue_dequeue takes the oldest item away and moves no other.
LEMMA DequeueKeepsBack ==
  ASSUME NEW q \in RequestQueue, ~IsEmpty(q)
  PROVE  /\ Dequeue(q) \in RequestQueue
         /\ Dequeue(q).size = q.size - 1
         /\ \A i \in 1..(q.size - 1) : Back(Dequeue(q), i) = Back(q, i)
         /\ q.size \in 1..q.size
<1>1. Dequeue(q) = [data |-> q.data, top |-> q.top, size |-> q.size - 1]
  BY QueueParts DEF Dequeue
<1>2. q.size - 1 \in 0..MaxSize /\ q.size \in 1..q.size
  BY QueueParts DEF IsEmpty
<1> QED
  BY <1>1, <1>2, QueueParts DEF RequestQueue, Queue, Back, Slots

\* queue_enqueue puts the new item one place back and every other item one
\* place further.
LEMMA EnqueueMovesBack ==
  ASSUME NEW q \in RequestQueue, NEW x \in Request, ~IsFull(q)
  PROVE  /\ Enqueue(q, x).size = q.size + 1
         /\ Back(Enqueue(q, x), 1) = x
         /\ \A i \in 1..q.size : Back(Enqueue(q, x), i + 1) = Back(q, i)
<1> DEFINE e == Enqueue(q, x)
<1>1. /\ e.size = q.size + 1
      /\ e.top = (q.top + 1) % MaxSize
      /\ e.data = [q.data EXCEPT ![q.top] = x]
  BY DEF Enqueue
<1>2. e.top = IF q.top + 1 < MaxSize THEN q.top + 1 ELSE 0
  BY <1>1, QueueParts, NextInRing
<1> HIDE DEF e
<1>3. Back(e, 1) = x
  <2>1. e.top \in 0..(MaxSize - 1) /\ 1 \in 1..MaxSize
    BY <1>2, QueueParts
  <2>2. (e.top - 1 + MaxSize) % MaxSize
          = IF 1 <= e.top THEN e.top - 1 ELSE e.top - 1 + MaxSize
    BY <2>1, QueueParts, PlaceInRing
  <2>3. (e.top - 1 + MaxSize) % MaxSize = q.top
    BY <1>2, <2>2, QueueParts
  <2> QED  BY <1>1, <2>3, QueueParts DEF Back, Slots
<1>4. ASSUME NEW i \in 1..q.size
      PROVE  Back(e, i + 1) = Back(q, i)
  <2>1. /\ e.top \in 0..(MaxSize - 1)
        /\ i \in 1..MaxSize /\ i + 1 \in 1..MaxSize /\ i < MaxSize
    BY <1>2, QueueParts DEF IsFull
  <2>2. (q.top - i + MaxSize) % MaxSize
          = IF i <= q.top THEN q.top - i ELSE q.top - i + MaxSize
    BY <2>1, QueueParts, PlaceInRing
  <2>3. (e.top - (i + 1) + MaxSize) % MaxSize
          = IF i + 1 <= e.top THEN e.top - (i + 1)
                              ELSE e.top - (i + 1) + MaxSize
    BY <2>1, QueueParts, PlaceInRing
  <2>4. (e.top - (i + 1) + MaxSize) % MaxSize = (q.top - i + MaxSize) % MaxSize
    BY <1>2, <2>1, <2>2, <2>3, QueueParts
  <2>5. (q.top - i + MaxSize) % MaxSize \in Slots
    BY BackInSlots
  <2>6. q.top - i # q.top /\ q.top - i + MaxSize # q.top
    BY <2>1, QueueParts
  <2> QED  BY <1>1, <2>2, <2>4, <2>5, <2>6, QueueParts DEF Back
<1> QED  BY <1>1, <1>3, <1>4 DEF e

\* The queue as a sequence, oldest item first.
LEMMA ContentsOfEnqueue ==
  ASSUME NEW q \in RequestQueue, NEW x \in Request, ~IsFull(q)
  PROVE  Contents(Enqueue(q, x)) = Append(Contents(q), x)
<1> DEFINE e == Enqueue(q, x)
<1>1. /\ e.size = q.size + 1 /\ q.size \in Nat
      /\ Back(e, 1) = x
      /\ \A i \in 1..q.size : Back(e, i + 1) = Back(q, i)
  BY EnqueueMovesBack, QueueParts
<1> HIDE DEF e
<1>2. Contents(e) = [i \in 1..(q.size + 1) |-> Back(e, q.size + 1 - i + 1)]
  BY <1>1 DEF Contents
<1>3. Append(Contents(q), x)
        = [i \in 1..(q.size + 1) |-> IF i = q.size + 1 THEN x
                                     ELSE Back(q, q.size - i + 1)]
  <2>1. Contents(q) \in Seq(Request \cup {NoRequest})
        /\ Len(Contents(q)) = q.size
    BY <1>1, BackInSlots DEF Contents
  <2> QED  BY <1>1, <2>1 DEF Contents
<1>4. ASSUME NEW i \in 1..(q.size + 1)
      PROVE  Back(e, q.size + 1 - i + 1)
               = IF i = q.size + 1 THEN x ELSE Back(q, q.size - i + 1)
  <2>1. CASE i = q.size + 1
    <3>1. q.size + 1 - i + 1 = 1  BY <1>1, <2>1
    <3> QED  BY <1>1, <2>1, <3>1
  <2>2. CASE i # q.size + 1
    <3>1. q.size - i + 1 \in 1..q.size
          /\ q.size + 1 - i + 1 = (q.size - i + 1) + 1
      BY <1>1, <2>2
    <3> QED  BY <1>1, <2>2, <3>1
  <2> QED  BY <2>1, <2>2
<1> QED  BY <1>2, <1>3, <1>4 DEF e

LEMMA ContentsOfDequeue ==
  ASSUME NEW q \in RequestQueue, ~IsEmpty(q)
  PROVE  /\ Contents(q) # <<>>
         /\ Head(Contents(q)) = Oldest(q)
         /\ Contents(Dequeue(q)) = Tail(Contents(q))
<1> DEFINE d == Dequeue(q)
<1>1. /\ d.size = q.size - 1 /\ q.size \in Nat /\ q.size > 0
      /\ \A i \in 1..(q.size - 1) : Back(d, i) = Back(q, i)
  BY DequeueKeepsBack, QueueParts DEF IsEmpty
<1> HIDE DEF d
<1>2. Contents(q) \in Seq(Request \cup {NoRequest})
      /\ Len(Contents(q)) = q.size
  BY <1>1, BackInSlots DEF Contents
<1>3. Head(Contents(q)) = Oldest(q) /\ Contents(q) # <<>>
  <2>1. Contents(q)[1] = Back(q, q.size - 1 + 1)  BY <1>1 DEF Contents
  <2>2. q.size - 1 + 1 = q.size  BY <1>1
  <2> QED  BY <1>1, <1>2, <2>1, <2>2 DEF Oldest
<1>4. /\ Contents(d) \in Seq(Request \cup {NoRequest})
      /\ Len(Contents(d)) = q.size - 1
  <2>1. d \in RequestQueue  BY DequeueKeepsBack DEF d
  <2> QED  BY <1>1, <2>1, BackInSlots DEF Contents
<1>5. /\ Tail(Contents(q)) \in Seq(Request \cup {NoRequest})
      /\ Len(Tail(Contents(q))) = q.size - 1
      /\ \A i \in 1..(q.size - 1) : Tail(Contents(q))[i] = Contents(q)[i + 1]
  BY <1>1, <1>2, <1>3, HeadTailProperties
<1>6. ASSUME NEW i \in 1..(q.size - 1)
      PROVE  Contents(q)[i + 1] = Contents(d)[i]
  <2>1. i + 1 \in 1..q.size /\ i \in 1..d.size  BY <1>1
  <2>2. Contents(q)[i + 1] = Back(q, q.size - (i + 1) + 1)
    BY <2>1 DEF Contents
  <2>3. Contents(d)[i] = Back(d, d.size - i + 1)  BY <2>1 DEF Contents
  <2>4. q.size - (i + 1) + 1 = d.size - i + 1
        /\ d.size - i + 1 \in 1..(q.size - 1)
    BY <1>1
  <2> QED  BY <1>1, <2>2, <2>3, <2>4
<1>7. Contents(d) = Tail(Contents(q))
  BY <1>4, <1>5, <1>6, SeqEqual
<1> QED  BY <1>3, <1>7 DEF d

----------------------------------------------------------------------------
(* Types *)

\* Only requests are queued and handled: NoRequest fills the other slots.
QueuedRequests == \A i \in 1..ql.size : Back(ql, i) \in Request
BusyThreads ==
    \A t \in Threads : threads[t].stage # "free"
                          => threads[t].request \in Request

TypeInv == TypeOK /\ QueuedRequests /\ BusyThreads

LEMMA TypeInit == Init => TypeInv
<1> SUFFICES ASSUME Init PROVE TypeInv
  OBVIOUS
<1> USE DEF Init, WireInit, TrackerInit, PeerInit
<1>1. ql \in RequestQueue /\ ql.size = 0
  BY MaxSizeAssumption DEF QueueInit, RequestQueue, Queue, Slots
<1>2. TrackerTypeOK
  BY <1>1, MaxRequestsAssumption, MaxExpiriesAssumption
  DEF TrackerTypeOK, RequestQueue, Thread, NoThread
<1>3. PeerTypeOK  BY DEF PeerTypeOK
<1> QED
  BY <1>1, <1>2, <1>3
  DEF TypeInv, TypeOK, QueuedRequests, BusyThreads, NoThread

\* The statements of a handler change its own entry only.
LEMMA ThreadsType ==
  ASSUME TypeInv, NEW t \in Threads
  PROVE  /\ ql \in RequestQueue
         /\ threads[t] \in Thread
         /\ \A stage \in {"update", "exists", "insert", "select"} :
              [threads EXCEPT ![t].stage = stage] \in [Threads -> Thread]
         /\ [threads EXCEPT ![t] = NoThread] \in [Threads -> Thread]
         /\ threads[t].stage # "free" => Of(t) \in Peers
<1>1. /\ ql \in RequestQueue /\ threads \in [Threads -> Thread]
  BY DEF TypeInv, TypeOK, TrackerTypeOK, RequestQueue
<1>2. NoThread \in Thread  BY DEF NoThread, Thread
<1>3. threads[t].stage # "free" => Of(t) \in Peers
  BY DEF TypeInv, BusyThreads, Request, Of
<1> QED  BY <1>1, <1>2, <1>3 DEF Thread

LEMMA SendType ==
  ASSUME TypeInv, NEW r \in Request
  PROVE  /\ Take(r) => requests' \in [Request -> 0..MaxRequests]
         /\ CanSend(r) /\ Send(r) => requests' \in [Request -> 0..MaxRequests]
  BY MaxRequestsAssumption
  DEF TypeInv, TypeOK, TrackerTypeOK, Take, CanSend, Send

LEMMA MailboxType ==
  ASSUME TypeInv, NEW r \in Request, Mailbox(r), UNCHANGED peerVars
  PROVE  TypeInv'
<1>1. requests' \in [Request -> 0..MaxRequests]  BY SendType DEF Mailbox
<1>2. found' \in BOOLEAN
  BY DEF Mailbox, Queued, TypeInv, TypeOK, TrackerTypeOK
<1> QED
  BY <1>1, <1>2
  DEF Mailbox, TypeInv, TypeOK, TrackerTypeOK, PeerTypeOK, QueuedRequests,
      BusyThreads, peerVars, Back, Of

LEMMA PushType ==
  ASSUME TypeInv, Push, UNCHANGED peerVars
  PROVE  TypeInv'
<1>1. ql \in RequestQueue /\ item \in Request
  BY DEF TypeInv, TypeOK, TrackerTypeOK, RequestQueue, Push
<1>2. ql' \in RequestQueue /\ QueuedRequests'
  <2>1. CASE ql' = ql
    BY <2>1, <1>1 DEF TypeInv, QueuedRequests, Back
  <2>2. CASE ~IsFull(ql) /\ ql' = Enqueue(ql, item)
    <3>1. ql' \in RequestQueue  BY <1>1, <2>2, EnqueueKeepsQueue
    <3>2. /\ ql'.size = ql.size + 1 /\ ql.size \in Nat
          /\ Back(ql', 1) = item
          /\ \A i \in 1..ql.size : Back(ql', i + 1) = Back(ql, i)
      BY <1>1, <2>2, EnqueueMovesBack, QueueParts
    <3>3. ASSUME NEW i \in 1..ql'.size
          PROVE  Back(ql', i) \in Request
      <4>1. CASE i = 1  BY <4>1, <3>2, <1>1
      <4>2. CASE i # 1
        <5>1. i - 1 \in 1..ql.size /\ (i - 1) + 1 = i  BY <3>2, <4>2
        <5>2. Back(ql', i) = Back(ql, i - 1)  BY <3>2, <5>1
        <5> QED  BY <5>1, <5>2 DEF TypeInv, QueuedRequests
      <4> QED  BY <4>1, <4>2
    <3>4. QueuedRequests'  BY <3>3 DEF QueuedRequests, Back
    <3> QED  BY <3>1, <3>4
  <2> QED  BY <2>1, <2>2 DEF Push
<1> QED
  BY <1>2
  DEF Push, TypeInv, TypeOK, TrackerTypeOK, PeerTypeOK, RequestQueue,
      BusyThreads, peerVars, wireVars

LEMMA HandleRequestType ==
  ASSUME TypeInv, NEW t \in Threads, HandleRequest(t), UNCHANGED peerVars
  PROVE  TypeInv'
<1>1. ql \in RequestQueue  BY ThreadsType
<1>2. /\ ql' \in RequestQueue
      /\ ql'.size = ql.size - 1 /\ ql.size \in Nat
      /\ \A i \in 1..(ql.size - 1) : Back(ql', i) = Back(ql, i)
      /\ ql.size \in 1..ql.size
  BY <1>1, DequeueKeepsBack, QueueParts DEF HandleRequest
<1>3. Oldest(ql) \in Request
  BY <1>2 DEF TypeInv, QueuedRequests, Oldest
<1>4. QueuedRequests'
  <2>1. \A i \in 1..ql'.size : Back(ql', i) \in Request
    BY <1>2 DEF TypeInv, QueuedRequests
  <2> QED  BY <2>1 DEF QueuedRequests, Back
<1>5. threads' \in [Threads -> Thread] /\ BusyThreads'
  BY <1>3
  DEF TypeInv, TypeOK, TrackerTypeOK, HandleRequest, FirstStage, Thread,
      BusyThreads
<1> QED
  BY <1>2, <1>4, <1>5
  DEF HandleRequest, TypeInv, TypeOK, TrackerTypeOK, PeerTypeOK, RequestQueue,
      peerVars, wireVars, mailboxVars

LEMMA HandleType ==
  ASSUME TypeInv, NEW t \in Threads, Handle(t) \/ Update(t), UNCHANGED peerVars
  PROVE  TypeInv'
<1>1. /\ threads' \in [Threads -> Thread]
      /\ BusyThreads'
  <2>1. CASE Count(t)
    <3>1. Cardinality(OnlinePeers) \in Nat
      BY PeersAssumption, FS_Subset, FS_CardinalityType DEF OnlinePeers
    <3> QED
      BY <2>1, <3>1
      DEF Count, At, TypeInv, TypeOK, TrackerTypeOK, Thread, BusyThreads
  <2>2. CASE \E stage \in {"update", "exists", "insert", "select"} :
               threads[t].stage # "free" /\ Goto(t, stage)
    BY <2>2, ThreadsType
    DEF Goto, TypeInv, TypeOK, TrackerTypeOK, Thread, BusyThreads
  <2>3. CASE Exit(t)
    BY <2>3, ThreadsType
    DEF Exit, NoThread, TypeInv, TypeOK, TrackerTypeOK, Thread, BusyThreads
  <2> QED
    BY <2>1, <2>2, <2>3
    DEF Handle, HandleHeartbeat, HandleAcknowledgeNetinfo, Select, Exists,
        Update, Registered, Insert, At
<1>2. answers' \subseteq Netinfo
  <2>1. CASE Select(t)
    <3>1. PICK L \in SUBSET Peers : Answer(Of(t), L)
      BY <2>1 DEF Select, Lists
    <3>2. Of(t) \in Peers  BY <2>1, ThreadsType DEF Select, At
    <3> QED
      BY <3>1, <3>2 DEF Answer, Netinfo, TypeInv, TypeOK, TrackerTypeOK
  <2>2. CASE UNCHANGED answers
    BY <2>2 DEF TypeInv, TypeOK, TrackerTypeOK
  <2> QED
    BY <2>1, <2>2
    DEF Handle, HandleHeartbeat, HandleAcknowledgeNetinfo, Count, Exists,
        Update, Registered, Insert, wireVars
<1>3. db' \in [Peers -> {"absent", "fresh", "stale"}] /\ running' \in BOOLEAN
  <2>1. CASE Select(t)
    BY <2>1 DEF Select, TypeInv, TypeOK, TrackerTypeOK
  <2>2. CASE Count(t) \/ Exists(t) \/ Update(t) \/ Registered(t) \/ Insert(t)
    BY <2>2, ThreadsType
    DEF Count, Exists, Update, Registered, Insert, TypeInv, TypeOK,
        TrackerTypeOK, At
  <2> QED
    BY <2>1, <2>2 DEF Handle, HandleHeartbeat, HandleAcknowledgeNetinfo
<1>4. UNCHANGED <<requests, ql, mailboxVars, expiries>>
  BY DEF Handle, HandleHeartbeat, HandleAcknowledgeNetinfo, Count, Select,
         Exists, Update, Registered, Insert, wireVars, mailboxVars
<1> QED
  BY <1>1, <1>2, <1>3, <1>4
  DEF TypeInv, TypeOK, TrackerTypeOK, PeerTypeOK, QueuedRequests, Back,
      peerVars, mailboxVars

LEMMA ExpireType ==
  ASSUME TypeInv, NEW p \in Peers, Expire(p), UNCHANGED peerVars
  PROVE  TypeInv'
  BY MaxExpiriesAssumption
  DEF Expire, TypeInv, TypeOK, TrackerTypeOK, PeerTypeOK, QueuedRequests, Back,
      BusyThreads, peerVars, wireVars, mailboxVars

LEMMA PeerStepType ==
  ASSUME TypeInv, NEW p \in Peers, Beat(p) \/ Learn(p)
  PROVE  TypeInv'
<1>1. Heartbeat(p) \in Request /\ Acknowledge(p) \in Request
  BY DEF Heartbeat, Acknowledge, Request
<1>2. requests' \in [Request -> 0..MaxRequests]
  BY <1>1, SendType
  DEF Beat, Learn, SendHeartbeat, ReceiveNetinfo, TypeInv, TypeOK,
      TrackerTypeOK
<1>3. answers' \subseteq Netinfo /\ PeerTypeOK'
  <2>1. CASE Beat(p)
    BY <2>1
    DEF Beat, SendHeartbeat, TypeInv, TypeOK, TrackerTypeOK, PeerTypeOK,
        peerVars
  <2>2. CASE Learn(p)
    <3>1. PICK a \in answers : \E list \in {netinfo[p], a.list} :
             /\ answers' = answers \ {a}
             /\ netinfo' = [netinfo EXCEPT ![p] = list]
             /\ \/ online' = [online EXCEPT ![p] = TRUE]
                \/ online' = [online EXCEPT ![p] = FALSE]
      BY <2>2 DEF Learn, ReceiveNetinfo
    <3>2. {netinfo[p], a.list} \subseteq SUBSET Peers
      BY DEF TypeInv, TypeOK, TrackerTypeOK, PeerTypeOK, Netinfo
    <3> QED
      BY <3>1, <3>2 DEF TypeInv, TypeOK, TrackerTypeOK, PeerTypeOK
  <2> QED  BY <2>1, <2>2
<1> QED
  BY <1>2, <1>3
  DEF Beat, Learn, TypeInv, TypeOK, TrackerTypeOK, QueuedRequests, Back,
      BusyThreads, trackerVars, mailboxVars

LEMMA LoseType ==
  ASSUME TypeInv, Lose, UNCHANGED <<trackerVars, peerVars>>
  PROVE  TypeInv'
<1>1. requests' \in [Request -> 0..MaxRequests] /\ answers' \subseteq Netinfo
  BY SendType DEF Lose, TypeInv, TypeOK, TrackerTypeOK
<1> QED
  BY <1>1
  DEF TypeInv, TypeOK, TrackerTypeOK, PeerTypeOK, QueuedRequests, Back,
      BusyThreads, trackerVars, peerVars, mailboxVars

LEMMA TypeStep == TypeInv /\ [Next]_vars => TypeInv'
<1> SUFFICES ASSUME TypeInv, [Next]_vars PROVE TypeInv'
  OBVIOUS
<1>1. CASE UNCHANGED vars
  BY <1>1
  DEF vars, wireVars, trackerVars, mailboxVars, peerVars, TypeInv, TypeOK,
      TrackerTypeOK, PeerTypeOK, QueuedRequests, Back, BusyThreads
<1>2. CASE TrackerNext /\ UNCHANGED peerVars
  BY <1>2, MailboxType, PushType, HandleRequestType, HandleType, ExpireType
  DEF TrackerNext
<1>3. CASE \E p \in Peers : Beat(p) \/ Learn(p)
  BY <1>3, PeerStepType
<1>4. CASE Lose /\ UNCHANGED <<trackerVars, peerVars>>
  BY <1>4, LoseType
<1> QED  BY <1>1, <1>2, <1>3, <1>4 DEF Next

\* The types of the tracker's and the peers' state hold in every reachable
\* state; only requests are ever queued or handled.
THEOREM TypeCorrect == Spec => []TypeOK
<1>1. TypeInv => TypeOK  BY DEF TypeInv
<1> QED  BY <1>1, TypeInit, TypeStep, PTL DEF Spec

----------------------------------------------------------------------------
(* One heartbeat of each peer *)

\* What the scan has found is still true at the push: only the mailbox adds
\* to the queue.
ScanHolds ==
    item \in Request /\ item.type = "HEARTBEAT" /\ ~found
      => \A i \in 1..ql.size : Back(ql, i) # item

HeartbeatInv == TypeInv /\ ScanHolds /\ OneHeartbeatQueued

LEMMA HeartbeatInit == Init => HeartbeatInv
<1> SUFFICES ASSUME Init PROVE HeartbeatInv
  OBVIOUS
<1>1. ql.size = 0  BY DEF Init, TrackerInit, QueueInit
<1> QED
  BY <1>1, TypeInit DEF HeartbeatInv, ScanHolds, OneHeartbeatQueued

LEMMA PushHeartbeat ==
  ASSUME HeartbeatInv, Push
  PROVE  ScanHolds' /\ OneHeartbeatQueued'
<1>1. /\ ql \in RequestQueue /\ item \in Request /\ item' = NoRequest
      /\ NoRequest \notin Request
  BY NoRequestAssumption
  DEF HeartbeatInv, TypeInv, TypeOK, TrackerTypeOK, RequestQueue, Push
<1>2. ScanHolds'  BY <1>1 DEF ScanHolds
<1>3. CASE ql' = ql
  BY <1>2, <1>3 DEF HeartbeatInv, OneHeartbeatQueued, Back
<1>4. CASE ~found /\ ~IsFull(ql) /\ ql' = Enqueue(ql, item)
  <2>1. /\ ql'.size = ql.size + 1 /\ ql.size \in Nat
        /\ Back(ql', 1) = item
        /\ \A i \in 1..ql.size : Back(ql', i + 1) = Back(ql, i)
    BY <1>1, <1>4, EnqueueMovesBack, QueueParts
  <2>2. ASSUME NEW i \in 1..ql'.size, i # 1
        PROVE  i - 1 \in 1..ql.size /\ Back(ql', i) = Back(ql, i - 1)
    <3>1. i - 1 \in 1..ql.size /\ (i - 1) + 1 = i  BY <2>1, <2>2
    <3> QED  BY <2>1, <3>1
  <2>3. ASSUME NEW i \in 1..ql'.size, i # 1, item.type = "HEARTBEAT"
        PROVE  Back(ql', i) # item
    BY <1>1, <1>4, <2>2, <2>3 DEF HeartbeatInv, ScanHolds
  <2>4. ASSUME NEW i \in 1..ql'.size, NEW j \in 1..ql'.size,
               Back(ql', i) = Back(ql', j), Back(ql', i).type = "HEARTBEAT"
        PROVE  i = j
    <3>1. CASE i = 1 \/ j = 1
      BY <3>1, <2>1, <2>3, <2>4
    <3>2. CASE i # 1 /\ j # 1
      <4>1. i - 1 = j - 1
        BY <3>2, <2>2, <2>4 DEF HeartbeatInv, OneHeartbeatQueued
      <4> QED  BY <4>1
    <3> QED  BY <3>1, <3>2
  <2>5. OneHeartbeatQueued'  BY <2>4 DEF OneHeartbeatQueued, Back
  <2> QED  BY <1>2, <2>5
<1> QED  BY <1>3, <1>4 DEF Push

LEMMA DequeueHeartbeat ==
  ASSUME HeartbeatInv, NEW t \in Threads, HandleRequest(t)
  PROVE  ScanHolds' /\ OneHeartbeatQueued'
<1>1. ql \in RequestQueue  BY ThreadsType DEF HeartbeatInv
<1>2. /\ ql'.size = ql.size - 1 /\ ql.size \in Nat
      /\ \A i \in 1..(ql.size - 1) : Back(ql', i) = Back(ql, i)
      /\ UNCHANGED <<item, found>>
  BY <1>1, DequeueKeepsBack, QueueParts DEF HandleRequest, mailboxVars
<1>3. 1..ql'.size \subseteq 1..ql.size  BY <1>2
<1>4. \A i \in 1..ql'.size : Back(ql', i) = Back(ql, i)  BY <1>2
<1>5. ASSUME item \in Request, item.type = "HEARTBEAT", ~found,
             NEW i \in 1..ql'.size
      PROVE  Back(ql', i) # item
  BY <1>3, <1>4, <1>5 DEF HeartbeatInv, ScanHolds
<1>6. ASSUME NEW i \in 1..ql'.size, NEW j \in 1..ql'.size,
             Back(ql', i) = Back(ql', j), Back(ql', i).type = "HEARTBEAT"
      PROVE  i = j
  BY <1>3, <1>4, <1>6 DEF HeartbeatInv, OneHeartbeatQueued
<1> QED  BY <1>2, <1>5, <1>6 DEF ScanHolds, OneHeartbeatQueued, Back

LEMMA HeartbeatStep == HeartbeatInv /\ [Next]_vars => HeartbeatInv'
<1> SUFFICES ASSUME HeartbeatInv, [Next]_vars
             PROVE  ScanHolds' /\ OneHeartbeatQueued'
  BY TypeStep DEF HeartbeatInv
<1>1. ASSUME NEW r \in Request, Mailbox(r)
      PROVE  ScanHolds' /\ OneHeartbeatQueued'
  BY <1>1
  DEF Mailbox, Queued, HeartbeatInv, ScanHolds, OneHeartbeatQueued, Back
<1>2. CASE Push  BY <1>2, PushHeartbeat
<1>3. CASE \E t \in Threads : HandleRequest(t)  BY <1>3, DequeueHeartbeat
<1>4. CASE UNCHANGED <<ql, mailboxVars>>
  BY <1>4
  DEF mailboxVars, HeartbeatInv, ScanHolds, OneHeartbeatQueued, Back
<1> QED
  BY <1>1, <1>2, <1>3, <1>4
  DEF Next, TrackerNext, Handle, HandleHeartbeat, HandleAcknowledgeNetinfo,
      Count, Select, Exists, Update, Registered, Insert, Expire, Beat, Learn,
      vars, wireVars, trackerVars, mailboxVars

\* handle_mailbox (tracker.c:186-216) never queues a heartbeat of a peer
\* twice, although the main thread empties the queue while it scans.
THEOREM HeartbeatsOnce == Spec => []OneHeartbeatQueued
<1>1. HeartbeatInv => OneHeartbeatQueued  BY DEF HeartbeatInv
<1> QED  BY <1>1, HeartbeatInit, HeartbeatStep, PTL DEF Spec

----------------------------------------------------------------------------
(* The tracker implements a first-in first-out queue *)

LEMMA FifoInit == Init => Accepted!Init
<1> SUFFICES ASSUME Init PROVE Accepted!Init
  OBVIOUS
<1>1. ql.size = 0  BY DEF Init, TrackerInit, QueueInit
<1>2. Contents(ql) = <<>>
  BY <1>1 DEF Contents
<1>3. Handling = [t \in Threads |-> NoRequest]
  BY DEF Init, TrackerInit, NoThread, Handling
<1> QED  BY <1>2, <1>3 DEF Accepted!Init

LEMMA PushAccepts ==
  ASSUME TypeInv, Push
  PROVE  \/ \E x \in Request : Accepted!Accept(x)
         \/ UNCHANGED <<Contents(ql), Handling>>
<1>1. ql \in RequestQueue /\ item \in Request /\ UNCHANGED threads
  BY DEF TypeInv, TypeOK, TrackerTypeOK, RequestQueue, Push
<1>2. UNCHANGED Handling  BY <1>1 DEF Handling
<1>3. CASE ql' = ql
  BY <1>2, <1>3 DEF Contents, Back
<1>4. CASE ~IsFull(ql) /\ ql' = Enqueue(ql, item)
  <2>1. Contents(ql)' = Append(Contents(ql), item)
    <3>1. Contents(ql)' = Contents(ql')  BY DEF Contents, Back
    <3> QED  BY <1>1, <1>4, <3>1, ContentsOfEnqueue
  <2>2. Len(Contents(ql)) = ql.size /\ ql.size < MaxSize
    BY <1>1, <1>4, QueueParts DEF Contents, IsFull
  <2> QED  BY <1>1, <1>2, <2>1, <2>2 DEF Accepted!Accept
<1> QED  BY <1>3, <1>4 DEF Push

LEMMA HandleRequestHandles ==
  ASSUME TypeInv, NEW t \in Threads, HandleRequest(t)
  PROVE  Accepted!Handle(t)
<1>1. ql \in RequestQueue /\ ~IsEmpty(ql) /\ ql' = Dequeue(ql)
  BY ThreadsType DEF HandleRequest
<1>2. /\ Contents(ql) # <<>>
      /\ Head(Contents(ql)) = Oldest(ql)
      /\ Contents(ql)' = Tail(Contents(ql))
  <2>1. Contents(ql)' = Contents(ql')  BY DEF Contents, Back
  <2> QED  BY <1>1, <2>1, ContentsOfDequeue
<1>3. /\ Handling[t] = NoRequest
      /\ Handling' = [Handling EXCEPT ![t] = Oldest(ql)]
  BY DEF HandleRequest, Handling, FirstStage, TypeInv, TypeOK, TrackerTypeOK
<1> QED  BY <1>2, <1>3 DEF Accepted!Handle

LEMMA HandlerFinishes ==
  ASSUME TypeInv, NEW t \in Threads, Handle(t) \/ Update(t)
  PROVE  Accepted!Finish(t) \/ UNCHANGED <<Contents(ql), Handling>>
<1>1. UNCHANGED ql /\ threads[t].stage # "free"
  BY DEF Handle, HandleHeartbeat, HandleAcknowledgeNetinfo, Count, Select,
         Exists, Update, Registered, Insert, At
<1>2. UNCHANGED Contents(ql)  BY <1>1 DEF Contents, Back
<1>3. Handling[t] # NoRequest
  BY <1>1, NoRequestAssumption DEF Handling, TypeInv, BusyThreads
<1>4. CASE Exit(t)
  <2>1. Handling' = [Handling EXCEPT ![t] = NoRequest]
    BY <1>4 DEF Exit, NoThread, Handling, TypeInv, TypeOK, TrackerTypeOK
  <2> QED  BY <1>2, <1>3, <2>1 DEF Accepted!Finish
<1>5. CASE \/ Count(t)
           \/ \E stage \in {"update", "exists", "insert"} : Goto(t, stage)
  <2>1. UNCHANGED Handling
    BY <1>1, <1>5
    DEF Count, At, Goto, Handling, TypeInv, TypeOK, TrackerTypeOK, Thread
  <2> QED  BY <1>2, <2>1
<1> QED
  BY <1>4, <1>5
  DEF Handle, HandleHeartbeat, HandleAcknowledgeNetinfo, Select, Exists,
      Update, Registered, Insert

LEMMA FifoStep ==
  TypeInv /\ [Next]_vars => [Accepted!Next]_<<Contents(ql), Handling>>
<1> SUFFICES ASSUME TypeInv, [Next]_vars
             PROVE  Accepted!Next \/ UNCHANGED <<Contents(ql), Handling>>
  OBVIOUS
<1>1. CASE Push  BY <1>1, PushAccepts DEF Accepted!Next
<1>2. CASE \E t \in Threads : HandleRequest(t)
  BY <1>2, HandleRequestHandles DEF Accepted!Next
<1>3. CASE \E t \in Threads : Handle(t) \/ Update(t)
  BY <1>3, HandlerFinishes DEF Accepted!Next
<1>4. CASE UNCHANGED <<ql, threads>>
  BY <1>4 DEF Contents, Back, Handling
<1> QED
  BY <1>1, <1>2, <1>3, <1>4
  DEF Next, TrackerNext, Handle, Mailbox, Expire, Beat, Learn, vars,
      trackerVars

\* The ring and the threads started from it (queue.c:22-78,
\* tracker.c:120-145) implement a first-in first-out queue of the accepted
\* requests, each of which is handled once.
THEOREM ImplementsAccepted == Spec => ImplementsFifo
<1>1. Init => TypeInv /\ Accepted!Init  BY TypeInit, FifoInit
<1>2. TypeInv /\ [Next]_vars => TypeInv'  BY TypeStep
<1> QED
  BY <1>1, <1>2, FifoStep, PTL DEF Spec, ImplementsFifo, Accepted!Spec

----------------------------------------------------------------------------
(* Registration: when the network and the tracker keep up with all peers,  *)
(* check-then-insert never inserts a second row.                           *)

\* Where the exchange of p with the tracker may stand that its heartbeat has
\* begun: at x, a datagram, an item of the queue, a handler or an answer.  A
\* handler that only has to look for the row or to update it no longer counts.
Stands(p, where, x) ==
    \/ where = "wire" /\ x \in Request /\ x.peer = p /\ requests[x] > 0
    \/ where = "item" /\ x = item /\ item \in Request /\ item.peer = p
    \/ where = "queue" /\ x \in 1..ql.size /\ Back(ql, x).peer = p
    \/ /\ where = "thread" /\ x \in Threads /\ Of(x) = p
       /\ threads[x].stage \in {"count", "select", "registered", "insert"}
    \/ where = "answer" /\ x \in answers /\ x.to = p

\* It stands at one place.
OneExchange ==
    \A p \in Timely : \A v, w, x, y :
        Stands(p, v, x) /\ Stands(p, w, y) => v = w /\ x = y

OneRequest == \A r \in Request : r.peer \in Timely => requests[r] <= 1

AbsentAtInsert ==
    \A t \in Threads : threads[t].stage = "insert" /\ Of(t) \in Timely
                         => db[Of(t)] = "absent"

RegistrationInv == TypeInv /\ OneExchange /\ OneRequest /\ AbsentAtInsert

\* The exchange of p moves on from x to y; what p stands for otherwise, stays.
MovesOn(p, v, x, w, y) ==
    /\ Stands(p, v, x)
    /\ \A k, z : Stands(p, k, z)' => \/ Stands(p, k, z) /\ ~(k = v /\ z = x)
                                     \/ k = w /\ z = y

StaysOrEnds(p) == \A k, z : Stands(p, k, z)' => Stands(p, k, z)

LEMMA StaysOne ==
  ASSUME OneExchange,
         \A p \in Timely : \/ StaysOrEnds(p)
                            \/ \E v, x, w, y : MovesOn(p, v, x, w, y)
  PROVE  OneExchange'
<1> SUFFICES ASSUME NEW p \in Timely, NEW k, NEW l, NEW a, NEW b,
                    Stands(p, k, a)', Stands(p, l, b)'
             PROVE  k = l /\ a = b
  BY Zenon DEF OneExchange
<1>1. CASE StaysOrEnds(p)
  <2>1. Stands(p, k, a) /\ Stands(p, l, b)  BY <1>1, Zenon DEF StaysOrEnds
  <2> QED  BY <2>1, Zenon DEF OneExchange
<1>2. CASE \E v, x, w, y : MovesOn(p, v, x, w, y)
  <2>1. PICK v, x, w, y : MovesOn(p, v, x, w, y)  BY <1>2, Zenon
  <2>2. \A m, z : Stands(p, m, z) => m = v /\ z = x
    BY <2>1, Zenon DEF OneExchange, MovesOn
  <2>3. k = w /\ a = y  BY <2>1, <2>2, Zenon DEF MovesOn
  <2>4. l = w /\ b = y  BY <2>1, <2>2, Zenon DEF MovesOn
  <2> QED  BY <2>3, <2>4
<1> QED  BY <1>1, <1>2, Zenon

LEMMA RegistrationInit == Init => RegistrationInv
<1> SUFFICES ASSUME Init PROVE RegistrationInv
  OBVIOUS
<1> USE DEF Init, WireInit, TrackerInit, PeerInit
<1>1. /\ ql.size = 0 /\ item \notin Request /\ answers = {}
      /\ \A t \in Threads : threads[t].stage = "free"
      /\ \A r \in Request : requests[r] = 0
  BY NoRequestAssumption DEF QueueInit, NoThread
<1>2. \A p, where, x : ~Stands(p, where, x)
  BY <1>1 DEF Stands
<1>3. OneExchange  BY <1>2, Zenon DEF OneExchange
<1>4. OneRequest /\ AbsentAtInsert
  BY <1>1 DEF OneRequest, AbsentAtInsert
<1> QED  BY <1>3, <1>4, TypeInit DEF RegistrationInv

LEMMA MailboxOnce ==
  ASSUME RegistrationInv, NEW r \in Request, Mailbox(r)
  PROVE  OneExchange' /\ OneRequest' /\ AbsentAtInsert'
<1>1. /\ requests \in [Request -> 0..MaxRequests] /\ requests[r] > 0
      /\ requests' = [requests EXCEPT ![r] = @ - 1]
      /\ item \notin Request /\ item' = r
      /\ UNCHANGED <<answers, db, ql, threads>>
  BY NoRequestAssumption
  DEF RegistrationInv, TypeInv, TypeOK, TrackerTypeOK, Mailbox, Take
<1>2. ASSUME NEW p \in Timely, p # r.peer
      PROVE  StaysOrEnds(p)
  BY <1>1, <1>2 DEF StaysOrEnds, Stands, Back, Of
<1>3. ASSUME r.peer \in Timely
      PROVE  MovesOn(r.peer, "wire", r, "item", r)
  <2>1. requests'[r] = 0
    BY <1>1, <1>3 DEF RegistrationInv, OneRequest
  <2> QED  BY <1>1, <2>1 DEF MovesOn, Stands, Back, Of
<1>4. OneExchange'
  BY <1>2, <1>3, StaysOne DEF RegistrationInv
<1>5. OneRequest' /\ AbsentAtInsert'
  BY <1>1 DEF RegistrationInv, OneRequest, AbsentAtInsert, Of
<1> QED  BY <1>4, <1>5

LEMMA PushOnce ==
  ASSUME RegistrationInv, Push
  PROVE  OneExchange' /\ OneRequest' /\ AbsentAtInsert'
<1>1. /\ ql \in RequestQueue /\ item \in Request /\ item' \notin Request
      /\ UNCHANGED <<requests, answers, db, threads>>
  BY NoRequestAssumption
  DEF RegistrationInv, TypeInv, TypeOK, TrackerTypeOK, RequestQueue, Push,
      wireVars
<1>2. ASSUME ql' = ql
      PROVE  OneExchange'
  <2>1. ASSUME NEW p \in Timely PROVE StaysOrEnds(p)
    BY <1>1, <1>2 DEF StaysOrEnds, Stands, Back, Of
  <2> QED  BY <2>1, StaysOne DEF RegistrationInv
<1>3. ASSUME ~IsFull(ql), ql' = Enqueue(ql, item)
      PROVE  OneExchange'
  <2>1. /\ ql'.size = ql.size + 1 /\ ql.size \in Nat
        /\ Back(ql', 1) = item
        /\ \A i \in 1..ql.size : Back(ql', i + 1) = Back(ql, i)
    BY <1>1, <1>3, EnqueueMovesBack, QueueParts
  <2>2. ASSUME NEW i \in 1..ql'.size, i # 1
        PROVE  i - 1 \in 1..ql.size /\ Back(ql', i) = Back(ql, i - 1)
    <3>1. i - 1 \in 1..ql.size /\ (i - 1) + 1 = i  BY <2>1, <2>2
    <3> QED  BY <2>1, <3>1
  <2>3. ASSUME NEW p \in Timely
        PROVE  \/ StaysOrEnds(p)
               \/ \E v, x, w, y : MovesOn(p, v, x, w, y)
    <3>1. CASE item.peer = p
      <4>1. Stands(p, "item", item)  BY <1>1, <3>1 DEF Stands
      <4>2. ASSUME NEW k, NEW z, Stands(p, k, z)'
            PROVE  \/ Stands(p, k, z) /\ ~(k = "item" /\ z = item)
                   \/ k = "queue" /\ z = 1
        <5>1. CASE k = "queue"
          <6>1. z \in 1..ql'.size /\ Back(ql', z).peer = p
            BY <4>2, <5>1 DEF Stands, Back
          <6>2. CASE z # 1
            <7>1. Stands(p, "queue", z - 1)
              BY <2>2, <6>1, <6>2 DEF Stands
            <7> QED  BY <4>1, <7>1 DEF RegistrationInv, OneExchange
          <6> QED  BY <5>1, <6>2
        <5>2. CASE k # "queue"
          BY <1>1, <4>2, <5>2 DEF Stands, Of
        <5> QED  BY <5>1, <5>2
      <4>3. MovesOn(p, "item", item, "queue", 1)
        BY <4>1, <4>2, Zenon DEF MovesOn
      <4> QED  BY <4>3
    <3>2. CASE item.peer # p /\ \E i : Stands(p, "queue", i)
      <4>1. PICK i : Stands(p, "queue", i)  BY <3>2
      <4>2. ASSUME NEW k, NEW z, Stands(p, k, z)'
            PROVE  \/ Stands(p, k, z) /\ ~(k = "queue" /\ z = i)
                   \/ k = "queue" /\ z = i + 1
        <5>1. CASE k = "queue"
          <6>1. z \in 1..ql'.size /\ Back(ql', z).peer = p
            BY <4>2, <5>1 DEF Stands, Back
          <6>2. z # 1  BY <2>1, <3>2, <6>1
          <6>3. Stands(p, "queue", z - 1)
            BY <2>2, <6>1, <6>2 DEF Stands
          <6>4. z - 1 = i
            BY <4>1, <6>3 DEF RegistrationInv, OneExchange
          <6> QED  BY <2>1, <5>1, <6>1, <6>4
        <5>2. CASE k # "queue"
          BY <1>1, <4>2, <5>2 DEF Stands, Of
        <5> QED  BY <5>1, <5>2
      <4>3. MovesOn(p, "queue", i, "queue", i + 1)
        BY <4>1, <4>2, Zenon DEF MovesOn
      <4> QED  BY <4>3
    <3>3. CASE item.peer # p /\ ~\E i : Stands(p, "queue", i)
      <4>1. ASSUME NEW k, NEW z, Stands(p, k, z)'
            PROVE  Stands(p, k, z)
        <5>1. CASE k = "queue"
          <6>1. z \in 1..ql'.size /\ Back(ql', z).peer = p
            BY <4>1, <5>1 DEF Stands, Back
          <6>2. z # 1  BY <2>1, <3>3, <6>1
          <6>3. Stands(p, "queue", z - 1)
            BY <2>2, <6>1, <6>2 DEF Stands
          <6> QED  BY <3>3, <6>3
        <5>2. CASE k # "queue"
          BY <1>1, <4>1, <5>2 DEF Stands, Of
        <5> QED  BY <5>1, <5>2
      <4> QED  BY <4>1, Zenon DEF StaysOrEnds
    <3> QED  BY <3>1, <3>2, <3>3
  <2> QED  BY <2>3, StaysOne DEF RegistrationInv
<1>4. OneRequest' /\ AbsentAtInsert'
  BY <1>1 DEF RegistrationInv, OneRequest, AbsentAtInsert, Of
<1> QED  BY <1>2, <1>3, <1>4 DEF Push

LEMMA HandleRequestOnce ==
  ASSUME RegistrationInv, NEW t \in Threads, HandleRequest(t)
  PROVE  OneExchange' /\ OneRequest' /\ AbsentAtInsert'
<1>1. /\ ql \in RequestQueue /\ threads \in [Threads -> Thread]
      /\ threads[t].stage = "free"
      /\ threads' = [threads EXCEPT ![t] = [stage |-> FirstStage(Oldest(ql)),
                                            request |-> Oldest(ql), n |-> 0]]
      /\ UNCHANGED <<requests, answers, db, item>>
  BY DEF RegistrationInv, TypeInv, TypeOK, TrackerTypeOK, RequestQueue,
         HandleRequest, wireVars, mailboxVars
<1>2. /\ ql'.size = ql.size - 1 /\ ql.size \in Nat
      /\ \A i \in 1..(ql.size - 1) : Back(ql', i) = Back(ql, i)
      /\ ql.size \in 1..ql.size
  BY <1>1, DequeueKeepsBack, QueueParts DEF HandleRequest
<1> DEFINE q == Oldest(ql).peer
<1>3. ASSUME NEW p \in Timely, NEW k, NEW z, Stands(p, k, z)'
      PROVE  \/ Stands(p, k, z) /\ ~(p = q /\ k = "queue" /\ z = ql.size)
             \/ p = q /\ k = "thread" /\ z = t
  <2>1. CASE k = "queue"
    <3>1. z \in 1..(ql.size - 1) /\ Back(ql', z).peer = p
      BY <1>2, <1>3, <2>1 DEF Stands, Back
    <3> QED  BY <1>2, <2>1, <3>1 DEF Stands
  <2>2. CASE k # "queue"
    BY <1>1, <1>3, <2>2 DEF Stands, Of
  <2> QED  BY <2>1, <2>2
<1>4. Stands(q, "queue", ql.size)
  BY <1>2 DEF Stands, Oldest
<1>5. ASSUME NEW p \in Timely
      PROVE  StaysOrEnds(p) \/ MovesOn(p, "queue", ql.size, "thread", t)
  <2> HIDE DEF q
  <2>1. CASE p = q
    <3>1. ASSUME NEW k, NEW z, Stands(p, k, z)'
          PROVE  \/ Stands(p, k, z) /\ ~(k = "queue" /\ z = ql.size)
                 \/ k = "thread" /\ z = t
      BY <1>3, <2>1, <3>1
    <3>2. Stands(p, "queue", ql.size)  BY <1>4, <2>1
    <3> QED  BY <3>1, <3>2, Zenon DEF MovesOn
  <2>2. CASE p # q
    BY <1>3, <2>2, Zenon DEF StaysOrEnds
  <2> QED  BY <2>1, <2>2
<1>6. OneExchange'  BY <1>5, StaysOne DEF RegistrationInv
<1>7. OneRequest' /\ AbsentAtInsert'
  BY <1>1
  DEF RegistrationInv, OneRequest, AbsentAtInsert, Of, FirstStage
<1> QED  BY <1>6, <1>7

\* The handlers: the exchange moves from a handler to an answer, or stays, or
\* ends.
LEMMA SelectOnce ==
  ASSUME RegistrationInv, NEW t \in Threads, Select(t)
  PROVE  OneExchange' /\ OneRequest' /\ AbsentAtInsert'
<1>1. PICK L \in SUBSET Peers : Answer(Of(t), L)
  BY DEF Select, Lists
<1> DEFINE a == [to |-> Of(t), list |-> L]
<1>2. /\ threads \in [Threads -> Thread] /\ threads[t].stage = "select"
      /\ threads' = [threads EXCEPT ![t].stage = "exists"]
      /\ answers' = answers \cup {a}
      /\ UNCHANGED <<requests, db, ql, item>>
  BY <1>1
  DEF Select, At, Goto, Answer, RegistrationInv, TypeInv, TypeOK,
      TrackerTypeOK, mailboxVars
<1>3. \A s \in Threads : /\ Of(s)' = Of(s)
                         /\ threads'[s].stage = IF s = t THEN "exists"
                                                ELSE threads[s].stage
  BY <1>2 DEF Of, Thread
<1>4. ASSUME NEW p \in Timely
      PROVE  StaysOrEnds(p) \/ MovesOn(p, "thread", t, "answer", a)
  <2>1. CASE p = Of(t)
    <3>1. MovesOn(p, "thread", t, "answer", a)
      BY <1>2, <1>3, <2>1 DEF MovesOn, Stands, Back
    <3> QED  BY <3>1
  <2>2. CASE p # Of(t)
    BY <1>2, <1>3, <2>2 DEF StaysOrEnds, Stands, Back
  <2> QED  BY <2>1, <2>2
<1>5. OneExchange'  BY <1>4, StaysOne DEF RegistrationInv
<1>6. OneRequest' /\ AbsentAtInsert'
  BY <1>2, <1>3 DEF RegistrationInv, OneRequest, AbsentAtInsert
<1> QED  BY <1>5, <1>6

LEMMA HandlerStays ==
  ASSUME RegistrationInv, NEW t \in Threads,
         Count(t) \/ Exists(t) \/ Update(t) \/ Registered(t) \/ Insert(t)
  PROVE  OneExchange' /\ OneRequest'
<1>1. /\ threads \in [Threads -> Thread]
      /\ UNCHANGED <<requests, answers, ql, item>>
  BY DEF Count, Exists, Update, Registered, Insert, RegistrationInv, TypeInv,
         TypeOK, TrackerTypeOK, wireVars, mailboxVars
<1>2. \A s \in Threads : s # t => threads'[s] = threads[s]
  BY <1>1
  DEF Count, Exists, Update, Registered, Insert, Goto, Exit
<1>3. \/ threads'[t].stage \notin {"count", "select", "registered", "insert"}
      \/ /\ threads[t].stage \in {"count", "registered"}
         /\ Of(t)' = Of(t)
  BY <1>1
  DEF Count, Exists, Update, Registered, Insert, Goto, Exit, NoThread, At, Of,
      Thread
<1>4. ASSUME NEW p \in Timely PROVE StaysOrEnds(p)
  BY <1>1, <1>2, <1>3 DEF StaysOrEnds, Stands, Back, Of
<1>5. OneExchange'  BY <1>4, StaysOne DEF RegistrationInv
<1>6. OneRequest'  BY <1>1 DEF RegistrationInv, OneRequest
<1> QED  BY <1>5, <1>6

\* A row appears only by Insert, and while a handler is about to insert the
\* row of a timely peer, no other one is.
LEMMA HandlerKeepsAbsent ==
  ASSUME RegistrationInv, NEW t \in Threads,
         Count(t) \/ Exists(t) \/ Update(t) \/ Registered(t) \/ Insert(t)
  PROVE  AbsentAtInsert'
<1> SUFFICES ASSUME NEW s \in Threads, threads'[s].stage = "insert",
                    Of(s)' \in Timely
             PROVE  db'[Of(s)'] = "absent"
  BY DEF AbsentAtInsert, Of
<1>1. /\ threads \in [Threads -> Thread] /\ threads[t] \in Thread
      /\ db \in [Peers -> {"absent", "fresh", "stale"}]
  BY DEF RegistrationInv, TypeInv, TypeOK, TrackerTypeOK
<1>2. CASE Registered(t) /\ s = t
  BY <1>1, <1>2 DEF Registered, At, Goto, Of, PeerExists, Thread
<1>3. CASE s # t
  <2>1. threads'[s] = threads[s] /\ Of(s)' = Of(s)
    BY <1>1, <1>3
    DEF Count, Exists, Update, Registered, Insert, Goto, Exit, Of
  <2>2. db[Of(s)] = "absent"
    BY <2>1 DEF RegistrationInv, AbsentAtInsert
  <2>3. CASE UNCHANGED db  BY <2>1, <2>2, <2>3
  <2>4. CASE Update(t)
    BY <1>1, <2>1, <2>2, <2>4 DEF Update, PeerExists
  <2>5. CASE Insert(t)
    <3>1. Of(t) # Of(s)
      <4> SUFFICES ASSUME Of(t) = Of(s) PROVE FALSE
        OBVIOUS
      <4>1. Stands(Of(s), "thread", s) /\ Stands(Of(s), "thread", t)
        BY <2>1, <2>5 DEF Insert, At, Stands
      <4> QED  BY <1>3, <2>1, <4>1 DEF RegistrationInv, OneExchange
    <3>2. Of(s) \in Peers  BY <2>1, TimelyAssumption
    <3> QED  BY <1>1, <2>1, <2>2, <2>5, <3>1, <3>2 DEF Insert
  <2> QED
    BY <2>3, <2>4, <2>5 DEF Count, Exists, Registered
<1>4. CASE s = t /\ ~Registered(t)
  BY <1>1, <1>4
  DEF Count, Exists, Update, Insert, Goto, Exit, NoThread, At, Thread
<1> QED  BY <1>2, <1>3, <1>4

LEMMA ExpireOnce ==
  ASSUME RegistrationInv, NEW q \in Peers, Expire(q)
  PROVE  OneExchange' /\ OneRequest' /\ AbsentAtInsert'
<1>1. ASSUME NEW p \in Timely PROVE StaysOrEnds(p)
  BY DEF Expire, wireVars, mailboxVars, StaysOrEnds, Stands, Back, Of
<1>2. OneExchange'  BY <1>1, StaysOne DEF RegistrationInv
<1>3. OneRequest' /\ AbsentAtInsert'
  BY DEF Expire, wireVars, RegistrationInv, OneRequest, AbsentAtInsert, Of,
         TypeInv, TypeOK, TrackerTypeOK
<1> QED  BY <1>2, <1>3

LEMMA LoseOnce ==
  ASSUME RegistrationInv, Lose, UNCHANGED <<trackerVars, peerVars>>
  PROVE  OneExchange' /\ OneRequest' /\ AbsentAtInsert'
<1>1. /\ requests \in [Request -> 0..MaxRequests]
      /\ answers' \subseteq answers
      /\ \A r \in Request : requests'[r] <= requests[r] /\ requests'[r] \in Nat
      /\ UNCHANGED <<db, ql, item, threads>>
  BY MaxRequestsAssumption
  DEF Lose, Take, RegistrationInv, TypeInv, TypeOK, TrackerTypeOK, trackerVars,
      mailboxVars
<1>2. ASSUME NEW p \in Timely PROVE StaysOrEnds(p)
  BY <1>1 DEF StaysOrEnds, Stands, Back, Of
<1>3. OneExchange'  BY <1>2, StaysOne DEF RegistrationInv
<1>4. OneRequest' /\ AbsentAtInsert'
  BY <1>1 DEF RegistrationInv, OneRequest, AbsentAtInsert, Of
<1> QED  BY <1>3, <1>4

\* Only a peer of which nothing is on its way sends a heartbeat.
LEMMA BeatOnce ==
  ASSUME RegistrationInv, NEW q \in Peers, Beat(q)
  PROVE  OneExchange' /\ OneRequest' /\ AbsentAtInsert'
<1> DEFINE r == Heartbeat(q)
<1>1. /\ r \in Request /\ r.peer = q
      /\ requests \in [Request -> 0..MaxRequests]
      /\ requests' = [requests EXCEPT ![r] = @ + 1]
      /\ UNCHANGED <<answers, db, ql, item, threads>>
  BY DEF Heartbeat, Request, Beat, SendHeartbeat, Send, RegistrationInv,
         TypeInv, TypeOK, TrackerTypeOK, trackerVars, mailboxVars
<1> HIDE DEF r
<1>2. ASSUME q \in Timely
      PROVE  (\A k, z : ~Stands(q, k, z)) /\ requests[r] = 0
  <2>1. ~Underway(q)  BY <1>2 DEF Beat
  <2>2. /\ \A s \in Request : s.peer = q => ~(requests[s] > 0)
        /\ ~(item # NoRequest /\ item.peer = q)
        /\ \A i \in 1..ql.size : Back(ql, i).peer # q
        /\ \A t \in Threads : threads[t].stage # "free" => Of(t) # q
        /\ \A a \in answers : a.to # q
    BY <2>1, Zenon DEF Underway
  <2>3. requests[r] = 0  BY <1>1, <2>2
  <2>4. \A k, z : ~Stands(q, k, z)
    BY <2>2, NoRequestAssumption DEF Stands
  <2> QED  BY <2>3, <2>4
<1>3. \A p \in Timely : p # q => StaysOrEnds(p)
  BY <1>1 DEF StaysOrEnds, Stands, Back, Of
<1>4. ASSUME q \in Timely, NEW k, NEW z, Stands(q, k, z)'
      PROVE  k = "wire" /\ z = r
  BY <1>1, <1>2, <1>4 DEF Stands, Back, Of
<1>5. OneExchange'
  <2> SUFFICES ASSUME NEW p \in Timely, NEW k, NEW l, NEW a, NEW b,
                      Stands(p, k, a)', Stands(p, l, b)'
               PROVE  k = l /\ a = b
    BY Zenon DEF OneExchange
  <2>1. CASE p = q  BY <1>4, <2>1
  <2>2. CASE p # q
    <3>1. Stands(p, k, a) /\ Stands(p, l, b)
      BY <1>3, <2>2, Zenon DEF StaysOrEnds
    <3> QED  BY <3>1, Zenon DEF RegistrationInv, OneExchange
  <2> QED  BY <2>1, <2>2
<1>6. OneRequest' /\ AbsentAtInsert'
  BY <1>1, <1>2 DEF RegistrationInv, OneRequest, AbsentAtInsert, Of
<1> QED  BY <1>5, <1>6

\* An answer becomes an acknowledgement, or ends the exchange.
LEMMA LearnOnce ==
  ASSUME RegistrationInv, NEW q \in Peers, Learn(q)
  PROVE  OneExchange' /\ OneRequest' /\ AbsentAtInsert'
<1> DEFINE r == Acknowledge(q)
<1>1. PICK a \in answers :
         /\ a.to = q
         /\ answers' = answers \ {a}
         /\ UNCHANGED requests \/ Send(Acknowledge(q))
  BY DEF Learn, ReceiveNetinfo
<1>2. /\ r \in Request /\ r.peer = q
      /\ requests \in [Request -> 0..MaxRequests]
      /\ \/ UNCHANGED requests
         \/ requests' = [requests EXCEPT ![r] = @ + 1]
      /\ UNCHANGED <<db, ql, item, threads>>
  BY <1>1
  DEF Acknowledge, Request, Learn, Send, RegistrationInv, TypeInv, TypeOK,
      TrackerTypeOK, trackerVars, mailboxVars
<1> HIDE DEF r
<1>3. Stands(q, "answer", a)  BY <1>1 DEF Stands
<1>4. ASSUME q \in Timely PROVE requests[r] = 0
  <2>1. ~Stands(q, "wire", r)
    BY <1>3, <1>4 DEF RegistrationInv, OneExchange
  <2> QED  BY <1>2, <2>1 DEF Stands
<1>5. ASSUME NEW p \in Timely
      PROVE  StaysOrEnds(p) \/ MovesOn(p, "answer", a, "wire", r)
  <2>1. CASE p = q
    <3>1. MovesOn(p, "answer", a, "wire", r)
      BY <1>1, <1>2, <1>3, <2>1 DEF MovesOn, Stands, Back, Of
    <3> QED  BY <3>1
  <2>2. CASE p # q
    BY <1>1, <1>2, <2>2 DEF StaysOrEnds, Stands, Back, Of
  <2> QED  BY <2>1, <2>2
<1>6. OneExchange'  BY <1>5, StaysOne DEF RegistrationInv
<1>7. OneRequest' /\ AbsentAtInsert'
  BY <1>2, <1>4 DEF RegistrationInv, OneRequest, AbsentAtInsert, Of
<1> QED  BY <1>6, <1>7

LEMMA RegistrationStep == RegistrationInv /\ [Next]_vars => RegistrationInv'
<1> SUFFICES ASSUME RegistrationInv, [Next]_vars
             PROVE  OneExchange' /\ OneRequest' /\ AbsentAtInsert'
  BY TypeStep DEF RegistrationInv
<1>1. CASE UNCHANGED vars
  <2>1. ASSUME NEW p \in Timely PROVE StaysOrEnds(p)
    BY <1>1
    DEF vars, wireVars, trackerVars, mailboxVars, StaysOrEnds, Stands, Back, Of
  <2>2. OneExchange'  BY <2>1, StaysOne DEF RegistrationInv
  <2> QED
    BY <1>1, <2>2
    DEF vars, wireVars, trackerVars, RegistrationInv, OneRequest,
        AbsentAtInsert, Of
<1>2. CASE TrackerNext
  BY <1>2, MailboxOnce, PushOnce, HandleRequestOnce, SelectOnce, HandlerStays,
     HandlerKeepsAbsent, ExpireOnce
  DEF TrackerNext, Handle, HandleHeartbeat, HandleAcknowledgeNetinfo
<1>3. CASE \E p \in Peers : Beat(p) \/ Learn(p)
  BY <1>3, BeatOnce, LearnOnce
<1>4. CASE Lose /\ UNCHANGED <<trackerVars, peerVars>>
  BY <1>4, LoseOnce
<1> QED  BY <1>1, <1>2, <1>3, <1>4 DEF Next

\* When the exchange of every peer ends before its next heartbeat, the rows
\* that handle_acknowledge_netinfo (tracker.c:72-78) inserts are missing, so
\* that the tracker does not exit on the primary key: however many handlers
\* run, and whatever is lost or arrives garbled.
THEOREM NewPeersInserted ==
  ASSUME Timely = Peers
  PROVE  Spec => []InsertsNewPeers
<1>1. RegistrationInv => InsertsNewPeers
  <2> SUFFICES ASSUME RegistrationInv, NEW t \in Threads, At(t, "insert")
               PROVE  db[Of(t)] = "absent"
    BY DEF InsertsNewPeers
  <2>1. threads[t].stage = "insert" /\ Of(t) \in Timely
    BY ThreadsType DEF RegistrationInv, At
  <2> QED  BY <2>1 DEF RegistrationInv, AbsentAtInsert
<1> QED  BY <1>1, RegistrationInit, RegistrationStep, PTL DEF Spec
=============================================================================
