------------------------------ MODULE MCMinitar -------------------------------
(* Files for TLC over blocks of eight bytes: empty, one block that ends in    *)
(* zeros, and a byte more than a block: a size of two octal digits.           *)
EXTENDS Minitar

MCContents == {<<>>, [b \in 1 .. 8 |-> IF b = 2 THEN 1 ELSE 0], [b \in 1 .. 9 |-> b % 2]}

MCFileLists == {<<>>, <<"f">>, <<"g", "f">>}
===============================================================================
