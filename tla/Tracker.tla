------------------------------ MODULE Tracker ------------------------------
(***************************************************************************)
(* The tracker: the mailbox thread, which reads requests and queues them,  *)
(* the main thread, which starts a thread for each request in the queue,   *)
(* these threads, and the database that they share.  Every SQL statement   *)
(* is one step: sqlite3 serialises the statements of one connection.       *)
(***************************************************************************)
EXTENDS Wire, Queue

CONSTANTS
    NoRequest,      \* the mailbox waits for a datagram
    Threads,        \* the handler threads that run at once, at most
    MinRoom,        \* the entries for which every array has room
    MaxExpiries     \* bound: how often a row expires

ASSUME NoRequestAssumption == NoRequest \notin Request
ASSUME ThreadsAssumption == IsFiniteSet(Threads)
ASSUME MinRoomAssumption == MinRoom \in Nat
ASSUME MaxExpiriesAssumption == MaxExpiries \in Nat

VARIABLES
    db,             \* PeerInfo: no row, a row, or one past TIMEOUT_THRESHOLD
    ql,             \* the queue
    item,           \* the request that the mailbox is about to queue
    found,          \* the mailbox's flag, not initialised by the code
    threads,        \* the handler threads
    running,        \* the tracker has not exited
    expiries

mailboxVars == <<item, found>>
trackerVars == <<db, ql, mailboxVars, threads, running, expiries>>

\* A handler between two of its statements; n is n_items.
Thread == [stage: {"free", "count", "select", "exists", "update",
                   "registered", "insert"},
           request: Request \cup {NoRequest}, n: Nat]
NoThread == [stage |-> "free", request |-> NoRequest, n |-> 0]

TrackerTypeOK ==
    /\ requests \in [Request -> 0..MaxRequests]
    /\ answers \subseteq Netinfo
    /\ db \in [Peers -> {"absent", "fresh", "stale"}]
    /\ ql \in Queue(Request \cup {NoRequest})
    /\ item \in Request \cup {NoRequest}
    /\ found \in BOOLEAN
    /\ threads \in [Threads -> Thread]
    /\ running \in BOOLEAN
    /\ expiries \in 0..MaxExpiries

TrackerInit ==
    /\ db = [p \in Peers |-> "absent"]
    /\ ql = QueueInit(NoRequest)
    /\ item = NoRequest
    /\ found \in BOOLEAN
    /\ threads = [t \in Threads |-> NoThread]
    /\ running = TRUE
    /\ expiries = 0

----------------------------------------------------------------------------
(* The mailbox thread *)

\* Mutant: the scan does not reach the oldest item.
QueuedButOldest(r) == \E i \in 1..(ql.size - 1) : Back(ql, i) = r

\* The scan of the queue, newest item first, for a request like r.
Queued(r) == \E i \in 1..ql.size : Back(ql, i) = r

\* A request is read; for a heartbeat the queue is scanned under its lock.
\* found keeps its value for every other request.
Mailbox(r) ==
    /\ running /\ item = NoRequest
    /\ Take(r)
    /\ item' = r
    /\ found' = IF r.type = "HEARTBEAT" THEN Queued(r) ELSE found
    /\ UNCHANGED <<answers, db, ql, threads, running, expiries>>

\* Only this thread adds to the queue, so that a place seen to be free before
\* the lock is taken is free after it.
Push ==
    /\ running /\ item # NoRequest
    /\ ql' = IF ~found /\ ~IsFull(ql) THEN Enqueue(ql, item) ELSE ql
    /\ item' = NoRequest
    /\ UNCHANGED <<wireVars, db, found, threads, running, expiries>>

----------------------------------------------------------------------------
(* The main thread *)

FirstStage(r) == IF r.type = "HEARTBEAT" THEN "count" ELSE "registered"

\* Mutant: the newest item is taken.
HandleNewest(t) ==
    /\ running /\ ~IsEmpty(ql) /\ threads[t].stage = "free"
    /\ threads' = [threads EXCEPT ![t] =
         [stage |-> FirstStage(Back(ql, 1)), request |-> Back(ql, 1), n |-> 0]]
    /\ ql' = Dequeue(ql)
    /\ UNCHANGED <<wireVars, db, mailboxVars, running, expiries>>

HandleRequest(t) ==
    /\ running /\ ~IsEmpty(ql) /\ threads[t].stage = "free"
    /\ threads' = [threads EXCEPT ![t] =
         [stage |-> FirstStage(Oldest(ql)), request |-> Oldest(ql), n |-> 0]]
    /\ ql' = Dequeue(ql)
    /\ UNCHANGED <<wireVars, db, mailboxVars, running, expiries>>

----------------------------------------------------------------------------
(* The handler threads *)

At(t, stage) == running /\ threads[t].stage = stage
Of(t) == threads[t].request.peer
Goto(t, stage) == threads' = [threads EXCEPT ![t].stage = stage]
Exit(t) == threads' = [threads EXCEPT ![t] = NoThread]

OnlinePeers == {p \in Peers : db[p] = "fresh"}

\* handle_heartbeat, db_get_all_peer_addresses: the number of rows.
Count(t) ==
    /\ At(t, "count")
    /\ threads' = [threads EXCEPT ![t].stage = "select",
                                  ![t].n = Cardinality(OnlinePeers)]
    /\ UNCHANGED <<wireVars, db, ql, mailboxVars, running, expiries>>

\* The lists that n entries may be when the rows are S: entries without a row
\* are uninitialised, rows without an entry are written past the array's end.
Lists(n, S) ==
    {L \in SUBSET Peers : \/ S \subseteq L /\ Cardinality(L) <= n
                          \/ L \subseteq S /\ Cardinality(L) = n}

\* Rows past the room that malloc leaves corrupt the heap: the tracker may
\* go on or abort.
Overflows(n, S) == Cardinality(S) > n /\ Cardinality(S) > MinRoom

\* The rows themselves, which are sent as n entries.
Select(t) ==
    /\ At(t, "select")
    /\ \E L \in Lists(threads[t].n, OnlinePeers) : Answer(Of(t), L)
    /\ running' \in IF Overflows(threads[t].n, OnlinePeers)
                    THEN BOOLEAN ELSE {TRUE}
    /\ Goto(t, "exists")
    /\ UNCHANGED <<requests, db, ql, mailboxVars, expiries>>

PeerExists(p) == db[p] # "absent"

\* The end of handle_heartbeat.
Exists(t) ==
    /\ At(t, "exists")
    /\ IF PeerExists(Of(t)) THEN Goto(t, "update") ELSE Exit(t)
    /\ UNCHANGED <<wireVars, db, ql, mailboxVars, running, expiries>>

\* Mutant: the row keeps its old heartbeat.
UpdateNothing(t) ==
    /\ At(t, "update")
    /\ Exit(t)
    /\ UNCHANGED <<wireVars, db, ql, mailboxVars, running, expiries>>

\* db_update_peer_heartbeat, of either handler; without a row it does nothing.
Update(t) ==
    /\ At(t, "update")
    /\ db' = IF PeerExists(Of(t)) THEN [db EXCEPT ![Of(t)] = "fresh"] ELSE db
    /\ Exit(t)
    /\ UNCHANGED <<wireVars, ql, mailboxVars, running, expiries>>

\* Mutant: the row is not looked for.
RegisteredOrNot(t) ==
    /\ At(t, "registered")
    /\ Goto(t, "insert")
    /\ UNCHANGED <<wireVars, db, ql, mailboxVars, running, expiries>>

\* handle_acknowledge_netinfo: is there a row?
Registered(t) ==
    /\ At(t, "registered")
    /\ Goto(t, IF PeerExists(Of(t)) THEN "update" ELSE "insert")
    /\ UNCHANGED <<wireVars, db, ql, mailboxVars, running, expiries>>

\* db_insert_peer; a second row of one peer violates the primary key, and
\* the tracker exits.
Insert(t) ==
    /\ At(t, "insert")
    /\ \/ /\ ~PeerExists(Of(t))
          /\ db' = [db EXCEPT ![Of(t)] = "fresh"]
          /\ UNCHANGED running
       \/ PeerExists(Of(t)) /\ running' = FALSE /\ UNCHANGED db
    /\ Exit(t)
    /\ UNCHANGED <<wireVars, ql, mailboxVars, expiries>>

HandleHeartbeat(t) == Count(t) \/ Select(t) \/ Exists(t)
HandleAcknowledgeNetinfo(t) == Registered(t) \/ Insert(t)
Handle(t) == HandleHeartbeat(t) \/ HandleAcknowledgeNetinfo(t) \/ Update(t)

\* Time passes and the last heartbeat of a row is too old.
Expire(p) ==
    /\ db[p] = "fresh" /\ expiries < MaxExpiries
    /\ db' = [db EXCEPT ![p] = "stale"]
    /\ expiries' = expiries + 1
    /\ UNCHANGED <<wireVars, ql, mailboxVars, threads, running>>

TrackerNext ==
    \/ \E r \in Request : Mailbox(r)
    \/ Push
    \/ \E t \in Threads : HandleRequest(t) \/ Handle(t)
    \/ \E p \in Peers : Expire(p)
=============================================================================
