----------------------------- MODULE MCRegHeart -----------------------------
(* Instances of RegHeart for TLC. *)
EXTENDS RegHeart
=============================================================================
