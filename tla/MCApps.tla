------------------------------- MODULE MCApps -------------------------------
EXTENDS Apps, TLC

Symmetry == Permutations(People) \cup Permutations(Texts)
=============================================================================
