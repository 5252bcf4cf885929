------------------------------ MODULE MC_Aiops ------------------------------
(* Instances of Aiops for TLC. *)
EXTENDS Aiops, TLC
=============================================================================
