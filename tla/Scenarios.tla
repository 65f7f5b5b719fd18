----------------------------- MODULE Scenarios -----------------------------
(***************************************************************************)
(* What the small networks of the MC modules have in common.               *)
(***************************************************************************)
EXTENDS Naturals, Sequences, TLC

\* An order on hashes: by length, then lexicographic in integer data.
LexLeq(a, b) ==
    \/ Len(a) < Len(b)
    \/ a = b
    \/ /\ Len(a) = Len(b)
       /\ \E i \in 1..Len(a) : /\ a[i] < b[i]
                               /\ \A j \in 1..(i - 1) : a[j] = b[j]

\* The limits of the efforts of Application.
Limits(i, p, f) == "idle" :> i @@ "propose" :> p @@ "fault" :> f
=============================================================================
