----------------------------- MODULE MCHttpServer -----------------------------
(* Small instances of the server for TLC. *)
EXTENDS HttpServer, TLC

CONSTANTS
  Good,      \* clients that ask for a file that is there
  OtherKinds \* what the request of another client may be

RequestsOf == [c \in Clients |-> IF c \in Good THEN {"file"} ELSE OtherKinds]

Symmetry == Permutations(Workers)
===============================================================================
