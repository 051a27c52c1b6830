------------------------------ MODULE OpenGroups ------------------------------
(***************************************************************************)
(* What the barrier of proj4-code/part2/concurrent_open.c promises, with   *)
(* no lock, counter or semaphore: callers are let go in groups of Degree.  *)
(* The caller who completes a group makes Degree departures due, and any   *)
(* caller who is inside may use one of them: the barrier counts callers    *)
(* and does not tell those of one group from those of the next.            *)
(***************************************************************************)
EXTENDS Integers, FiniteSets

CONSTANTS
  Openers,  \* threads that open server files
  Degree    \* the size of a group

VARIABLES
  inside,   \* the callers that have come and not left
  due       \* departures that are due

groupVars == <<inside, due>>

Init == inside = {} /\ due = 0

\* The callers inside for whom no departure is due are the group that forms.
Completes(t) == Cardinality(inside \union {t}) - due = Degree

Enter(t) ==
  /\ t \notin inside
  /\ inside' = inside \union {t}
  /\ due' = IF Completes(t) THEN due + Degree ELSE due

Leave(t) ==
  /\ t \in inside
  /\ due > 0
  /\ inside' = inside \ {t}
  /\ due' = due - 1

Next == \E t \in Openers : Enter(t) \/ Leave(t)

Spec == Init /\ [][Next]_groupVars
===============================================================================
