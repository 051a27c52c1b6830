------------------------------ MODULE ArchiveLog ------------------------------
(***************************************************************************)
(* What a minitar archive promises: it is a log of the versions of files   *)
(* that were added to it.  Creating starts it over, appending and updating *)
(* open it, and each adds to its end what every file of its list holds by  *)
(* then, in order; nothing that was added is ever lost.  All bets are off  *)
(* after the archive was damaged, until it is created anew.                *)
(***************************************************************************)
EXTENDS Sequences

CONSTANTS Names, Contents, FileLists

VARIABLES
  disk,    \* what each file holds
  members, \* the versions in the archive, oldest first
  todo,    \* files that the command has still to add
  closed,  \* the archive ends as it should; it may be read and opened again
  intact   \* nothing has damaged the archive since it was created

logVars == <<disk, members, todo, closed, intact>>

LogInit ==
  /\ disk \in [Names -> Contents]
  /\ members = <<>> /\ todo = <<>>
  /\ closed = FALSE
  /\ intact = TRUE

StartOver ==
  /\ members' = <<>> /\ todo' \in FileLists
  /\ closed' = FALSE /\ intact' = TRUE
  /\ UNCHANGED disk

\* Opening an archive that does not exist makes one.
Reopen ==
  /\ intact /\ todo = <<>>
  /\ closed \/ members = <<>>
  /\ closed' = FALSE /\ todo' \in FileLists
  /\ UNCHANGED <<disk, members, intact>>

Add ==
  /\ intact /\ todo # <<>>
  /\ members' = Append(members, [name |-> Head(todo), content |-> disk[Head(todo)]])
  /\ todo' = Tail(todo)
  /\ UNCHANGED <<disk, closed, intact>>

Close ==
  /\ intact /\ todo = <<>> /\ ~closed
  /\ closed' = TRUE
  /\ UNCHANGED <<disk, members, todo, intact>>

\* Files change, by their owner or by extraction.
Change ==
  /\ disk' # disk
  /\ UNCHANGED <<members, todo, closed, intact>>

\* The archive is damaged, or has been: it may become anything.
Break == intact' = FALSE

LogNext == Break \/ StartOver \/ Reopen \/ Add \/ Close \/ Change

LogSpec == LogInit /\ [][LogNext]_logVars
===============================================================================
