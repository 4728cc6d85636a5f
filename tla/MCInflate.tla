----------------------------- MODULE MCInflate -----------------------------
(* Limits below, at and above the lengths, and settings that are none.      *)
EXTENDS Inflate

MCSettings == {Unset, NoNumber} \cup (-1..6)
=============================================================================
