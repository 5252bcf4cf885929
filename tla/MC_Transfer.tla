---------------------------- MODULE MC_Transfer -----------------------------
(* Instances of Transfer for TLC. *)
EXTENDS Transfer

Unlimited == -1
=============================================================================
