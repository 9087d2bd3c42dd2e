----------------------------- MODULE MCSessions -----------------------------
(***************************************************************************)
(* Small instances of Sessions for TLC: two ticks a second, and durations  *)
(* that are no whole seconds.                                              *)
(***************************************************************************)
EXTENDS Sessions, FiniteSets, TLC

Symmetry == Permutations(Requests)

(* Requests overlap up to this time, while no copy has been taken.         *)
OverlapTime == 3

Bounded ==
    \/ Cardinality({r \in Requests : req[r].pc # "idle"}) <= 1
    \/ copy = None /\ now <= OverlapTime

=============================================================================
