-------------------------------- MODULE Peer --------------------------------
(***************************************************************************)
(* The part of a peer that talks to the tracker: the thread that runs      *)
(* tracker_communication.  The flag was_offline, which it sets for the     *)
(* main thread, is in Application.                                         *)
(***************************************************************************)
EXTENDS Wire

VARIABLES
    netinfo,        \* the peer list, network_info and n_peers
    online          \* is_online

peerVars == <<netinfo, online>>

PeerTypeOK ==
    /\ netinfo \in [Peers -> SUBSET Peers]
    /\ online \in [Peers -> BOOLEAN]

PeerInit ==
    /\ netinfo = [p \in Peers |-> {}]
    /\ online = [p \in Peers |-> FALSE]

Heartbeat(p) == [type |-> "HEARTBEAT", peer |-> p]
Acknowledge(p) == [type |-> "ACKNOWLEDGENETINFO", peer |-> p]

\* Every HEARTBEAT_PERIOD seconds, whatever has been answered.
SendHeartbeat(p) ==
    /\ CanSend(Heartbeat(p)) /\ Send(Heartbeat(p))
    /\ UNCHANGED <<answers, peerVars>>

Present(p, list) == p \in list

\* receive_netinfo: a list with a wrong checksum leaves the old one in place.
\* A peer that is not in the list it then has was forgotten: it asks to be
\* registered.
ReceiveNetinfo(p) ==
    \E a \in answers : \E list \in {a.list} \cup (IF Lossy THEN {netinfo[p]} ELSE {}) :
        /\ a.to = p
        /\ answers' = answers \ {a}
        /\ netinfo' = [netinfo EXCEPT ![p] = list]
        /\ \/ /\ Present(p, list)
              /\ online' = [online EXCEPT ![p] = TRUE]
              /\ UNCHANGED requests
           \/ /\ ~Present(p, list)
              /\ online' = [online EXCEPT ![p] = FALSE]
              /\ CanSend(Acknowledge(p)) /\ Send(Acknowledge(p))
=============================================================================
