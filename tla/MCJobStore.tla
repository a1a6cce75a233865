----------------------------- MODULE MCJobStore -----------------------------
(* JobStore on a small instance.                                           *)
EXTENDS JobStore, TLC

(* Bound: one job alone is followed through MaxVersion changes, two jobs   *)
(* together through three each.                                            *)
PairBound ==
    \/ Cardinality({j \in JobIds : Exists(j)}) <= 1
    \/ \A j \in JobIds : jobs[j].version <= 3

JobOwnerSymmetry == Permutations(JobIds) \cup Permutations(Owners)
=============================================================================
