------------------------------ MODULE MC_Helper -----------------------------
(* Instances of Helper for TLC. *)
EXTENDS Helper, TLC

\* One more than two queued behind the only process, or two channels and one.
Asking == <<4, 3>>
=============================================================================
