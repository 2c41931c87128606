------------------------- MODULE MCProviderConverge -------------------------
EXTENDS ProviderConverge, TLC

Symmetry == Permutations(Bytes) \cup Permutations(Worker) \cup Permutations(Completer)
=============================================================================
