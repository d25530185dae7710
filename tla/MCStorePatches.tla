--------------------------- MODULE MCStorePatches ---------------------------
EXTENDS StorePatches

Symmetry == Permutations(Owners) \cup Permutations(Slots) \cup Permutations(Calls)
=============================================================================
