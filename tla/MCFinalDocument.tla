--------------------------- MODULE MCFinalDocument ---------------------------
EXTENDS FinalDocument, TLC

Symmetry == Permutations(Bytes) \cup Permutations(Job) \cup Permutations(Retry)
=============================================================================
