------------------------------- MODULE Ledger -------------------------------
(***************************************************************************)
(* What the peers promise together: one ledger, of which each peer holds a *)
(* prefix.  A peer learns one more entry of it at a time, or, when it      *)
(* already holds the whole ledger, makes the next entry; entries are never *)
(* changed or forgotten.                                                   *)
(***************************************************************************)
EXTENDS Naturals, Sequences

CONSTANTS Peers, Data

VARIABLE copy       \* the copy of the ledger that each peer holds

IsLedger(l) == \A p \in Peers : /\ Len(copy[p]) <= Len(l)
                                /\ copy[p] = SubSeq(l, 1, Len(copy[p]))

Init == /\ copy \in [Peers -> Seq(Data)]
        /\ \E p \in Peers : IsLedger(copy[p])

\* Peer p, which held a prefix of every longer copy, still does.
Learn(p) ==
    \E d \in Data :
        /\ copy' = [copy EXCEPT ![p] = Append(@, d)]
        /\ \E q \in Peers : IsLedger(copy[q])'

Next == \E p \in Peers : Learn(p)

Spec == Init /\ [][Next]_copy
=============================================================================
