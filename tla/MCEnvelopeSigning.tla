------------------------- MODULE MCEnvelopeSigning -------------------------
EXTENDS EnvelopeSigning, TLC

Symmetry == Permutations(Token) \cup Permutations(Request)
============================================================================
