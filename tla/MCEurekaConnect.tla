-------------------------- MODULE MCEurekaConnect --------------------------
(* Instances of EurekaConnect for TLC. *)
EXTENDS EurekaConnect
=============================================================================
