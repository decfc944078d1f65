---------------------------- MODULE MCRequestPath ----------------------------
EXTENDS RequestPath, TLC
Symmetry == Permutations(Requests) \cup Permutations(Workers)
=============================================================================
