--------------------------- MODULE MCConnectionQueue ---------------------------
(* Small instances of the queue for TLC. *)
EXTENDS ConnectionQueue, TLC

Symmetry == Permutations(Producers) \union Permutations(Consumers)
===============================================================================
