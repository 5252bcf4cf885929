------------------------------ MODULE MC_Aufs -------------------------------
(* Instances of Aufs for TLC. *)
EXTENDS Aufs, TLC

Symmetry == Permutations(Threads) \cup Permutations(Requests)
            \cup Permutations(Sios) \cup Permutations(Fds)
=============================================================================
