-------------------------- MODULE MCSequentialServer --------------------------
(* A buffer of two pieces for TLC. *)
EXTENDS SequentialServer
===============================================================================
