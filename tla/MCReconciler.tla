---------------------------- MODULE MCReconciler ----------------------------
EXTENDS ReconcilerInvariant, TLC
Symmetry == Permutations(Paths \ Links)
=============================================================================
