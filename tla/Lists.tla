------------------------------- MODULE Lists --------------------------------
(* The linked lists of the program (tools.c) as sequences.                   *)
EXTENDS Naturals, Sequences, FiniteSets

(* The elements of a list that are in K, in their order: the n-th is the one *)
(* that has n - 1 of them before it.                                         *)
Kept(s, K) ==
    LET at == {i \in DOMAIN s : s[i] \in K}
    IN  [n \in 1..Cardinality(at) |->
            s[CHOOSE i \in at : Cardinality({j \in at : j < i}) = n - 1]]
=============================================================================
