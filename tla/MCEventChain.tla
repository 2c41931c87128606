---------------------------- MODULE MCEventChain ----------------------------
EXTENDS EventChain, TLC

Symmetry == Permutations(Writer) \cup Permutations(Data)
=============================================================================
