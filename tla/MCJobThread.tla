----------------------------- MODULE MCJobThread -----------------------------
(* Instances of JobThread for TLC. *)
EXTENDS JobThread
=============================================================================
