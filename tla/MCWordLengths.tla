---------------------------- MODULE MCWordLengths -----------------------------
(* Files for TLC: words of one and of two characters, and words that are too  *)
(* long, behind each other, behind two spaces, or without one at the end.     *)
EXTENDS WordLengths

\* What a child may write that has overrun its array.
MCArrays == {[l \in 1 .. 2 |-> 7]}

MCNoFile == <<"missing">>

MCFiles ==
  {MCNoFile, <<"c">>, <<"s", "c", "s">>, <<"c", "c", "s", "c", "s">>, <<"c", "c", "c", "s">>}
===============================================================================
