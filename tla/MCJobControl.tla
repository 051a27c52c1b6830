----------------------------- MODULE MCJobControl -----------------------------
(* The shell with a few children, for TLC. *)
EXTENDS JobControl
===============================================================================
