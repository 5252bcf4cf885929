--------------------------- MODULE MC_StoreTable ---------------------------
(* Instances of StoreTable for TLC. *)
EXTENDS StoreTable, TLC

Symmetry == Permutations(Entries) \cup Permutations(Clients)
=============================================================================
