--------------------------- MODULE NearbyList_MC ----------------------------
EXTENDS NearbyList, TLC

Symmetric == Permutations(MACs) \cup Permutations(Callers)
=============================================================================
