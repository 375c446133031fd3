---------------------------- MODULE MCStoreLock ----------------------------
EXTENDS StoreLock, TLC
Symmetry == Permutations(Procs)
=============================================================================
