-------------------------- MODULE MCProviderSession --------------------------
EXTENDS ProviderSession, TLC

Symmetry == Permutations(Doc) \cup Permutations(Sender)
=============================================================================
