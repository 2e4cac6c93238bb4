----------------------------- MODULE MCSessions -----------------------------
EXTENDS Sessions, TLC

Symmetry == Permutations(Requests) \cup Permutations(Sids) \cup Permutations(Users)
=============================================================================
