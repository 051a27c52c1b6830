----------------------------- MODULE WordLengths ------------------------------
(***************************************************************************)
(* proj3-code/part1/par_word_lengths.c: one child per file counts the      *)
(* words of each length and writes the counts to a pipe of its own; main   *)
(* then, once per file, waits for whichever child ends next and reads the  *)
(* pipe of the file it is at.                                              *)
(*                                                                         *)
(* A file is a sequence of "c" (a character of a word) and "s" (white      *)
(* space), or missing.  An array of counts fits in a pipe: its write is    *)
(* whole and never blocks.  pipe, write, read and close do not fail; fork  *)
(* may.  A child that writes outside its array of counts (Overruns) does   *)
(* what it likes with that array and its exit status, but it ends.         *)
(***************************************************************************)
EXTENDS Integers, Sequences, FiniteSets

CONSTANTS
  N,           \* number of files, argc - 1
  Files,       \* what a file may be
  NoFile,      \* a file that cannot be opened
  Arrays,      \* what a child that overran its array may write
  MAX_WORD_LEN

ASSUME NAssumption == N \in Nat
ASSUME FilesAssumption == NoFile \in Files /\ Files \ {NoFile} \subseteq Seq({"c", "s"})
ASSUME LengthAssumption == MAX_WORD_LEN \in Nat \ {0}
ASSUME ArraysAssumption == Arrays \subseteq [1 .. MAX_WORD_LEN -> Int]

Ids == 1 .. N
Lengths == 1 .. MAX_WORD_LEN
Zero == [l \in Lengths |-> 0]

Plus(a, b) == [l \in Lengths |-> a[l] + b[l]]

VARIABLES
  file,   \* the content of each file
  child,     \* none, counting, or ended with a status, ok or failed
  reaped,    \* the children wait has returned
  pipe,      \* what each pipe holds: nothing, or one array of counts
  writers,   \* the processes that have each pipe's write end open; main is 0
  stage, i,  \* where main is
  exit_code, \* the status wait left
  counts, temp_counts

vars == <<file, child, reaped, pipe, writers, stage, i, exit_code, counts, temp_counts>>

\* What the end of a word of count characters adds.  An index outside the array
\* is left to Overruns.
Counted(counted, count) ==
  IF count \in Lengths THEN [counted EXCEPT ![count] = @ + 1] ELSE counted

\* Mutant: count is not set to 0 after a word.
ScanCharFrom0(prev, char) ==
  IF char = "s" THEN [prev EXCEPT !.counts = Counted(@, prev.count)]
                ELSE [prev EXCEPT !.count = @ + 1]

\* counts[count - 1]++ at a white space.
ScanChar(prev, char) ==
  IF char = "s" THEN [count |-> 0, counts |-> Counted(prev.counts, prev.count)]
                ELSE [prev EXCEPT !.count = @ + 1]

\* count_word_lengths.
Scan(f) ==
  LET after[k \in 0 .. Len(f)] ==
        IF k = 0 THEN [count |-> 0, counts |-> Zero] ELSE ScanChar(after[k - 1], f[k])
  IN after[Len(f)].counts

\* The words of a text: its longest runs of characters, wherever they end.
IsWord(f, j, k) ==
  /\ \A m \in j .. k : f[m] = "c"
  /\ j > 1 => f[j - 1] = "s"
  /\ k < Len(f) => f[k + 1] = "s"

\* Where the words of length l end.
WordEnds(f, l) == {k \in DOMAIN f : k >= l /\ IsWord(f, k - l + 1, k)}

\* counts[count - 1] is outside the array at a white space with no word before it, or
\* one too long.
Overruns(f) ==
  \E k \in DOMAIN f : f[k] = "s" /\ \A l \in Lengths : k - 1 \notin WordEnds(f, l)

WordInit ==
  /\ file \in [Ids -> Files]
  /\ child = [k \in Ids |-> "none"]
  /\ reaped = {}
  /\ pipe = [k \in Ids |-> <<>>]
  /\ writers = [k \in Ids |-> {}]
  /\ stage = "fork" /\ i = 1
  /\ exit_code \in {"ok", "failed"} \* uninitialised
  /\ counts = Zero /\ temp_counts = Zero

-------------------------------------------------------------------------------
(* Children *)

Exits(k, status) ==
  /\ child' = [child EXCEPT ![k] = status]
  /\ writers' = [j \in Ids |-> writers[j] \ {k}]
  /\ UNCHANGED <<file, reaped, stage, i, exit_code, counts, temp_counts>>

\* process_file and exit(0).
ChildCounts(k) ==
  /\ child[k] = "counting"
  /\ file[k] # NoFile /\ ~Overruns(file[k])
  /\ pipe' = [pipe EXCEPT ![k] = <<Scan(file[k])>>]
  /\ Exits(k, "ok")

\* The array was overrun: the child dies of it before or behind its write, or lives,
\* with any counts, or none when the write has lost its descriptor.
ChildOverruns(k) ==
  /\ child[k] = "counting"
  /\ file[k] # NoFile /\ Overruns(file[k])
  /\ \E written \in {<<>>} \union {<<a>> : a \in Arrays} : pipe' = [pipe EXCEPT ![k] = written]
  /\ \E status \in {"ok", "failed"} : Exits(k, status)

\* fopen fails, and exit(1).
ChildFails(k) ==
  /\ child[k] = "counting"
  /\ file[k] = NoFile
  /\ UNCHANGED pipe
  /\ Exits(k, "failed")

-------------------------------------------------------------------------------
(* main *)

\* Mutant: main keeps the write ends.
ForkKeepsWriteEnd ==
  /\ stage = "fork" /\ i <= N
  /\ child' = [child EXCEPT ![i] = "counting"]
  /\ writers' = [writers EXCEPT ![i] = {0, i}]
  /\ i' = i + 1
  /\ UNCHANGED <<file, reaped, pipe, stage, exit_code, counts, temp_counts>>

\* pipe and fork; main closes its copy of the write end before the next fork, so
\* that no later child has one.
Fork ==
  /\ stage = "fork" /\ i <= N
  /\ child' = [child EXCEPT ![i] = "counting"]
  /\ writers' = [writers EXCEPT ![i] = {i}]
  /\ i' = i + 1
  /\ UNCHANGED <<file, reaped, pipe, stage, exit_code, counts, temp_counts>>

\* fork returns -1, which is not tested: main goes on as the parent.
ForkFails ==
  /\ stage = "fork" /\ i <= N
  /\ i' = i + 1
  /\ UNCHANGED <<file, child, reaped, pipe, writers, stage, exit_code, counts, temp_counts>>

Forked ==
  /\ stage = "fork" /\ i > N
  /\ stage' = "wait" /\ i' = 1
  /\ UNCHANGED <<file, child, reaped, pipe, writers, exit_code, counts, temp_counts>>

\* Mutant: the status is not tested.
WaitedUntested == stage' = "read"

\* What main does with exit_code after wait.
Waited == stage' = IF exit_code' = "ok" THEN "read" ELSE "print"

Wait ==
  /\ stage = "wait" /\ i <= N
  /\ \E k \in Ids \ reaped :
       /\ child[k] \in {"ok", "failed"}
       /\ reaped' = reaped \cup {k}
       /\ exit_code' = child[k]
  /\ Waited
  /\ UNCHANGED <<file, child, pipe, writers, i, counts, temp_counts>>

\* No child is left, after a failed fork: wait returns -1 and sets nothing.
WaitNone ==
  /\ stage = "wait" /\ i <= N
  /\ \A k \in Ids \ reaped : child[k] = "none"
  /\ UNCHANGED exit_code
  /\ Waited
  /\ UNCHANGED <<file, child, reaped, pipe, writers, i, counts, temp_counts>>

\* Mutant: read does not wait for the counts.
ReadAtOnce ==
  /\ stage = "read"
  /\ temp_counts' = IF pipe[i] = <<>> THEN temp_counts ELSE Head(pipe[i])
  /\ pipe' = [pipe EXCEPT ![i] = <<>>]
  /\ counts' = Plus(counts, temp_counts')
  /\ stage' = "wait" /\ i' = i + 1
  /\ UNCHANGED <<file, child, reaped, writers, exit_code>>

\* read waits for the counts of file i, whose child need not be the one that
\* wait returned, or for the end of that child.  At the end of file it returns 0
\* and temp_counts stays what it was.
Read ==
  /\ stage = "read"
  /\ pipe[i] # <<>> \/ writers[i] = {}
  /\ temp_counts' = IF pipe[i] = <<>> THEN temp_counts ELSE Head(pipe[i])
  /\ pipe' = [pipe EXCEPT ![i] = <<>>]
  /\ counts' = Plus(counts, temp_counts')
  /\ stage' = "wait" /\ i' = i + 1
  /\ UNCHANGED <<file, child, reaped, writers, exit_code>>

Done ==
  /\ stage = "wait" /\ i > N
  /\ stage' = "print"
  /\ UNCHANGED <<file, child, reaped, pipe, writers, i, exit_code, counts, temp_counts>>

\* The results are printed and main returns.
PrintTotals ==
  /\ stage = "print"
  /\ stage' = "exited"
  /\ UNCHANGED <<file, child, reaped, pipe, writers, i, exit_code, counts, temp_counts>>

MainForks == Fork \/ ForkFails
MainStep == Forked \/ Wait \/ WaitNone \/ Read \/ Done \/ PrintTotals
ChildStep(k) == ChildCounts(k) \/ ChildOverruns(k) \/ ChildFails(k)

WordNext == MainForks \/ MainStep \/ \E k \in Ids : ChildStep(k)

WordSpec == WordInit /\ [][WordNext]_vars

\* Every process runs.
WordFairSpec ==
  WordSpec /\ WF_vars(MainForks \/ MainStep) /\ \A k \in Ids : WF_vars(ChildStep(k))

-------------------------------------------------------------------------------
(* Properties *)

\* The words of length l that white space follows, and the number of them for each
\* length: all the words, but for one the file ends with.
Spaced(f, l) == WordEnds(f, l) \ {Len(f)}
CountsOf(f) == [l \in Lengths |-> Cardinality(Spaced(f, l))]

\* par_word_lengths.c:12-17: a child's pipe carries the number of words of each length,
\* unless the array was overrun, and but for a last word without white space behind it,
\* which the code forgets.
PipeCarriesCounts ==
  \A k \in Ids : pipe[k] # <<>> /\ ~Overruns(file[k]) => pipe[k] = <<CountsOf(file[k])>>

\* par_word_lengths.c:140: in whatever order the children end, and whichever of the later
\* ones fail, main has added the counts of the files before the one it is at, each once,
\* if the children of these files were made and ended well, without overruns.
RunningTotal ==
  stage # "fork" /\ (\A k \in 1 .. i - 1 : child[k] = "ok" /\ ~Overruns(file[k])) =>
    counts = [l \in Lengths |->
                Cardinality(UNION {{k} \X Spaced(file[k], l) : k \in 1 .. i - 1})]

\* par_word_lengths.c:128: results are printed as complete only if no child failed:
\* main has waited for every child, and remembers the one that failed.
FailureNoticed ==
  stage = "exited" /\ exit_code = "ok" =>
    \A k \in Ids : child[k] \in {"none", "ok"} /\ (child[k] = "ok" => k \in reaped)

\* par_word_lengths.c:153: main prints, whichever files are missing and whichever
\* forks fail: no read waits for a write end that stays open.
Prints == <>(stage = "exited")
===============================================================================
