------------------------------ MODULE MCCxxAbi ------------------------------
(* Instances of CxxAbi for TLC: a constructor, a null entry, and another   *)
(* constructor behind it.                                                 *)
EXTENDS CxxAbi

Table == <<TRUE, FALSE, TRUE>>
=============================================================================
