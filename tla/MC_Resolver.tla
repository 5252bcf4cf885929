---------------------------- MODULE MC_Resolver -----------------------------
(* Instances of Resolver for TLC. *)
EXTENDS Resolver, TLC

Path == <<"d1">>
ShortNames == {<<"h">>}
ShortAndFull == {<<"h">>, <<"h", "d1">>}
=============================================================================
