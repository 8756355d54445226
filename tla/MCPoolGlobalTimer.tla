-------------------------- MODULE MCPoolGlobalTimer --------------------------
(* Instances of PoolGlobalTimer for TLC. *)
EXTENDS PoolGlobalTimer
=============================================================================
