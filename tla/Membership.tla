----------------------------- MODULE Membership -----------------------------
(***************************************************************************)
(* The tracker and the tracker threads of the peers, over the wire.        *)
(***************************************************************************)
EXTENDS Tracker, Peer

CONSTANT Timely     \* the peers that the network and the tracker keep up with

ASSUME TimelyAssumption == Timely \subseteq Peers

vars == <<wireVars, trackerVars, peerVars>>

Init == WireInit /\ TrackerInit /\ PeerInit

\* Some request of p is not yet dealt with, or an answer is on its way.
Underway(p) ==
    \/ \E r \in Request : r.peer = p /\ requests[r] > 0
    \/ item # NoRequest /\ item.peer = p
    \/ \E i \in 1..ql.size : Back(ql, i).peer = p
    \/ \E t \in Threads : threads[t].stage # "free" /\ Of(t) = p
    \/ \E a \in answers : a.to = p

\* A tracker that keeps up has dealt with a peer's requests when the peer
\* sends the next heartbeat.
Beat(p) ==
    /\ p \in Timely => ~Underway(p)
    /\ SendHeartbeat(p)
    /\ UNCHANGED trackerVars

Learn(p) == ReceiveNetinfo(p) /\ UNCHANGED trackerVars

Next ==
    \/ TrackerNext /\ UNCHANGED peerVars
    \/ \E p \in Peers : Beat(p) \/ Learn(p)
    \/ Lose /\ UNCHANGED <<trackerVars, peerVars>>

Spec == Init /\ [][Next]_vars

\* Every thread runs.  The socket hands datagrams over in their order of
\* arrival, so that none is passed over for ever.
Fairness ==
    /\ \A p \in Peers : WF_vars(Beat(p)) /\ WF_vars(Learn(p))
    /\ \A r \in Request : SF_vars(Mailbox(r) /\ UNCHANGED peerVars)
    /\ WF_vars(Push /\ UNCHANGED peerVars)
    /\ WF_vars(\E t \in Threads : HandleRequest(t) /\ UNCHANGED peerVars)
    /\ \A t \in Threads : WF_vars(Handle(t) /\ UNCHANGED peerVars)

FairSpec == Spec /\ Fairness

----------------------------------------------------------------------------
(* Properties *)

TypeOK == TrackerTypeOK /\ PeerTypeOK

\* The scan (tracker.c:186-213) leaves at most one heartbeat of each peer in
\* the queue, although the queue moves on between the scan and the push.
OneHeartbeatQueued ==
    \A i, j \in 1..ql.size :
        Back(ql, i) = Back(ql, j) /\ Back(ql, i).type = "HEARTBEAT" => i = j

\* The ring (queue.c:22-78) and the threads that are started from it
\* (tracker.c:120-145) handle the accepted requests in order, each once.
Handling == [t \in Threads |-> IF threads[t].stage = "free" THEN NoRequest
                               ELSE threads[t].request]
Accepted == INSTANCE Fifo WITH
    Items <- Request, Workers <- Threads, Idle <- NoRequest,
    waiting <- Contents(ql), handling <- Handling
ImplementsFifo == Accepted!Spec

\* tracker.c:72 "If the peer does not exist, insert it, otherwise update the
\* heartbeat": a row is inserted only for a peer that has none, and so the
\* tracker never exits on the primary key (db.c:81, 209-225).
InsertsNewPeers ==
    \A t \in Threads : At(t, "insert") => db[Of(t)] = "absent"

\* A peer whose row was missing or has expired registers and then stays in
\* its own peer list, as long as it and the tracker keep exchanging messages
\* (tracker.c:30-80, peer.c:209-246).
StaysOnline == \A p \in Peers : <>[]online[p]

----------------------------------------------------------------------------
(* What a comment of the source says, and the code does not do *)

\* tracker.c:212-213 "Push queue item to queue if it does not create a
\* duplicate heartbeat item": an acknowledgement never does.
AcknowledgementsPushed ==
    [][item # NoRequest /\ item.type = "ACKNOWLEDGENETINFO" /\ ~IsFull(ql)
          /\ item' = NoRequest
       => ql' = Enqueue(ql, item)]_vars
=============================================================================
