----------------------------- MODULE MCCheckApp -----------------------------
(* Instances of CheckApp for TLC. *)
EXTENDS CheckApp
=============================================================================
