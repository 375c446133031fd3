-------------------------- MODULE MCReconcilerView --------------------------
EXTENDS ReconcilerView, TLC
Symmetry == Permutations(Paths \ Links)
=============================================================================
