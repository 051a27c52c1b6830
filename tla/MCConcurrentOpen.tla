--------------------------- MODULE MCConcurrentOpen ---------------------------
(* A small instance of the barrier for TLC. *)
EXTENDS ConcurrentOpen
===============================================================================
