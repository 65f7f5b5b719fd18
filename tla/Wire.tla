-------------------------------- MODULE Wire --------------------------------
(***************************************************************************)
(* The datagrams between the peers and the tracker.  UDP delivers them in  *)
(* any order, if at all.  No program of the repository sends EXIT.         *)
(***************************************************************************)
EXTENDS Integers, FiniteSets

CONSTANTS
    Peers,
    MaxRequests,    \* bound: the equal requests that are in flight at once
    MaxAnswers,     \* bound: the answers in flight to one peer
    Lossy           \* whether datagrams are lost, or arrive garbled

ASSUME PeersAssumption == IsFiniteSet(Peers)
ASSUME MaxRequestsAssumption == MaxRequests \in Nat
ASSUME MaxAnswersAssumption == MaxAnswers \in Nat
ASSUME LossyAssumption == Lossy \in BOOLEAN

VARIABLES
    requests,       \* how many of each request are in flight
    answers         \* the NETINFO messages in flight

wireVars == <<requests, answers>>

\* A peer_address_header.
Request == [type: {"HEARTBEAT", "ACKNOWLEDGENETINFO"}, peer: Peers]
Netinfo == [to: Peers, list: SUBSET Peers]

WireInit == requests = [r \in Request |-> 0] /\ answers = {}

CanSend(r) == requests[r] < MaxRequests
Send(r) == requests' = [requests EXCEPT ![r] = @ + 1]
Take(r) == /\ requests[r] > 0
           /\ requests' = [requests EXCEPT ![r] = @ - 1]

Answer(p, L) ==
    /\ Cardinality({a \in answers : a.to = p}) < MaxAnswers
    /\ answers' = answers \cup {[to |-> p, list |-> L]}

\* The network loses a datagram.
Lose ==
    /\ Lossy
    /\ \/ \E r \in Request : Take(r) /\ UNCHANGED answers
       \/ \E a \in answers : answers' = answers \ {a} /\ UNCHANGED requests
=============================================================================
