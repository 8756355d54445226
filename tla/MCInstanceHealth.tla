-------------------------- MODULE MCInstanceHealth --------------------------
(* Instances of InstanceHealth for TLC. *)
EXTENDS InstanceHealth
=============================================================================
