---------------------------- MODULE MCDurability ----------------------------
EXTENDS Durability, TLC
PathSymmetry == Permutations(Paths)
=============================================================================
