---------------------------- MODULE SingleSource ----------------------------
(***************************************************************************)
(* The deployment of the measurements: one peer reads the trace and        *)
(* proposes every block, all others start with an empty trace, or every    *)
(* initialized peer has loaded a part of the same trace.                   *)
(***************************************************************************)
EXTENDS Application

CONSTANT Source     \* the only peer with transactions to add

ASSUME SourceAssumption ==
    /\ Source \in Peers
    /\ \A p \in Peers \ {Source} : InitialTransactions(p) = <<>>
    /\ \A p \in Peers : IsPrefix(InitialChain(p), InitialChain(Source))

\* The chains of all peers agree: of any two, one is a prefix of the other.
\* Votes that time out at some peers and not at others, late blocks, peers
\* that join and proposals that are repeated (application.cc:439-460,
\* 813-866, 928-951) do not make them diverge.
Agreement == ChainsAgree

\* The same promise step by step: every change of a chain (application.cc:456,
\* 906, 937) adds to one peer's copy the next entry of one common ledger.
OneLedger == INSTANCE Ledger WITH copy <- bc
ImplementsLedger == OneLedger!Spec

\* A peer that joins holds the whole chain in the end, for good, although late
\* and repeated replies end its refreshes early (application.cc:266-270,
\* 361-364), as long as it goes on refreshing when it is idle (944-948).
CatchesUp == <>[](\A p \in Peers : bc[p] = bc[Source])
=============================================================================
