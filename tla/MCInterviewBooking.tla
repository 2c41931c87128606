------------------------- MODULE MCInterviewBooking -------------------------
EXTENDS InterviewBooking, TLC

Starts == 1 .. 4

Symmetry == Permutations(Booker) \cup Permutations(Mover)
=============================================================================
