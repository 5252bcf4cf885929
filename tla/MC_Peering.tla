----------------------------- MODULE MC_Peering -----------------------------
(* Instances of Peering for TLC. *)
EXTENDS Peering, TLC

CONSTANTS r1, r2, p1, p2

\* Two requests that share a parent, and one that has a parent and a sibling.
Shared == {[peers |-> {p1}, requests |-> {r1, r2}],
           [peers |-> {p1, p2}, requests |-> {r1}]}
=============================================================================
