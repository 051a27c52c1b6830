----------------------------- MODULE StringVector -----------------------------
(***************************************************************************)
(* proj3-code/part2/string_vector.c: the array of strings a command line   *)
(* is split into, as a sequence.  Indices are the code's: the first string *)
(* has index 0.                                                            *)
(***************************************************************************)
EXTENDS Integers, Sequences, FiniteSets

strvec_num_occurrences(vec, s) == Cardinality({k \in DOMAIN vec : vec[k] = s})

\* The strings from start to the one before end, as many of them as there are.
strvec_slice(src, start, end) ==
  SubSeq(src, IF start < 0 THEN 1 ELSE start + 1,
              IF end > Len(src) THEN Len(src) ELSE end)
===============================================================================
