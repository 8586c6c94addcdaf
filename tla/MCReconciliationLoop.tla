------------------------ MODULE MCReconciliationLoop ------------------------
(* Instances of the reconciliation loop small enough for TLC. *)
EXTENDS ReconciliationLoop, TLC

CONSTANTS s1, s2, t1, t2, a1

Symmetry == Permutations(Ticks)
=============================================================================
