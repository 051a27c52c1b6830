------------------------------ MODULE JobControl ------------------------------
(***************************************************************************)
(* proj2-code/swish.c with resume_job, await_background_job and            *)
(* await_all_background_jobs of swish_funcs.c: a shell that runs commands  *)
(* in the foreground or in the background, stops, resumes and awaits them. *)
(*                                                                         *)
(* Beside the shell run its children, which set themselves up              *)
(* (run_command), stop and end by themselves.  A child is                  *)
(*   none     not a child (never forked, or reaped),                       *)
(*   forked   between fork and its own setpgid: in the shell's group, with *)
(*            SIGTTIN and SIGTTOU as the shell had them,                   *)
(*   running, stopped,                                                     *)
(*   seen     stopped, and waitpid has reported it: waitpid reports a stop *)
(*            once, so the next WUNTRACED wait blocks,                     *)
(*   zombie   ended and not yet reaped.                                    *)
(* The built-ins pwd and cd, the text of commands and redirection change   *)
(* no state that the properties tell apart.  A fork that fails ends the    *)
(* shell (Exit), and so does a tcsetpgrp that refuses the child (GiveFails,*)
(* when there is no terminal); in fg that returns with nothing changed.    *)
(* The shell's own group, which ignores SIGTTOU, is not refused, and       *)
(* malloc does not fail.  Nobody but the shell sends SIGCONT.              *)
(***************************************************************************)
EXTENDS JobList

CONSTANTS
  Pids,     \* the pids of children; one is used again once it is reaped
  Shell,    \* the shell's own pid and group
  MaxLength \* bound on the field length, for TLC

ASSUME PidAssumption == Shell \notin Pids
ASSUME LengthAssumption == MaxLength \in Nat

VARIABLES
  jobs,  \* the list
  proc,  \* the state of each child
  tty,   \* the terminal's foreground group
  stage, \* where the shell is
  cur,   \* child_pid of the foreground command, or Shell
  index  \* job_index of fg and wait-for; the node wait-all is at

vars == <<jobs, proc, tty, stage, cur, index>>

Gone == {"exited", "killed"}

JobInit ==
  /\ jobs = EmptyList
  /\ proc = [p \in Pids |-> "none"]
  /\ tty = Shell
  /\ stage = "prompt"
  /\ cur = Shell
  /\ index = 0

\* Return from main: the list is freed, and children are left to themselves.
Returns == stage' = "exited" /\ jobs' = EmptyList

BackToPrompt == stage' = "prompt" /\ cur' = Shell /\ index' = 0

\* What waitpid(p, ..., WUNTRACED) returns for.
Reportable(p) == proc[p] \in {"zombie", "stopped"}
\* The child's state once it has: the two have nothing else in common.
Report(p) == proc' = [proc EXCEPT ![p] = IF @ = "zombie" THEN "none" ELSE "seen"]
\* SIGCONT.
Continued(p) == [proc EXCEPT ![p] = IF @ \in {"stopped", "seen"} THEN "running" ELSE @]

-------------------------------------------------------------------------------
(* Running a command *)

Fork(p) ==
  /\ stage = "prompt"
  /\ proc[p] = "none"
  /\ ListAdd(jobs, p, "background").length <= MaxLength
  /\ proc' = [proc EXCEPT ![p] = "forked"]

RunBackground(p) ==
  /\ Fork(p)
  /\ jobs' = ListAdd(jobs, p, "background")
  /\ UNCHANGED <<tty, stage, cur, index>>

RunForeground(p) ==
  /\ Fork(p)
  /\ cur' = p
  /\ stage' = "give"
  /\ UNCHANGED <<jobs, tty, index>>

\* tcsetpgrp to the child, whether or not it is a group leader yet.
GiveTerminal ==
  /\ stage = "give"
  /\ tty' = cur
  /\ stage' = "waitfg"
  /\ UNCHANGED <<jobs, proc, cur, index>>

\* The command runs on, and nobody waits for it.
GiveFails ==
  /\ stage = "give"
  /\ Returns
  /\ UNCHANGED <<proc, tty, cur, index>>

\* Mutant: whatever waitpid reports, the command becomes a job with that status.
WaitFgAlwaysAdds ==
  /\ stage = "waitfg"
  /\ Reportable(cur)
  /\ Report(cur)
  /\ jobs' = ListAdd(jobs, cur, proc[cur])
  /\ tty' = Shell
  /\ BackToPrompt

\* The foreground command ended, or it stopped and becomes a job.
WaitFg ==
  /\ stage = "waitfg"
  /\ Reportable(cur)
  /\ Report(cur)
  /\ jobs' = IF proc[cur] = "stopped" THEN ListAdd(jobs, cur, "stopped") ELSE jobs
  /\ tty' = Shell
  /\ BackToPrompt

-------------------------------------------------------------------------------
(* resume_job *)

\* The bounds checks, and SIGCONT to the job.
Resumes(idx) ==
  /\ stage = "prompt"
  /\ idx < jobs.length
  /\ HasNode(jobs, idx)
  /\ proc' = Continued(ListGet(jobs, idx).pid)

\* Mutant: the job is not sent SIGCONT.
FgWithoutCont(idx) ==
  /\ stage = "prompt"
  /\ idx < jobs.length
  /\ HasNode(jobs, idx)
  /\ tty' = ListGet(jobs, idx).pid
  /\ stage' = "waitjob"
  /\ index' = idx
  /\ UNCHANGED <<jobs, proc, cur>>

Fg(idx) ==
  /\ Resumes(idx)
  /\ tty' = ListGet(jobs, idx).pid
  /\ stage' = "waitjob"
  /\ index' = idx
  /\ UNCHANGED <<jobs, cur>>

\* Mutant: the terminal comes back only with a job that ended.
WaitJobKeepsTerminal ==
  /\ stage = "waitjob"
  /\ LET p == ListGet(jobs, index).pid IN
     /\ Reportable(p)
     /\ Report(p)
     /\ jobs' = IF proc[p] = "zombie" THEN ListRemove(jobs, index) ELSE jobs
     /\ tty' = IF proc[p] = "zombie" THEN Shell ELSE tty
  /\ BackToPrompt

\* The job ended and leaves the list, or it stopped and stays as it was listed.
\* A removal that fails returns before the terminal is taken back.
WaitJob ==
  /\ stage = "waitjob"
  /\ LET p == ListGet(jobs, index).pid
         fails == proc[p] = "zombie" /\ ~Removable(jobs, index)
     IN
     /\ Reportable(p)
     /\ Report(p)
     /\ jobs' = IF proc[p] = "zombie" /\ ~fails THEN ListRemove(jobs, index) ELSE jobs
     /\ tty' = IF fails THEN tty ELSE Shell
  /\ BackToPrompt

\* Mutant: the job keeps the status it had.
BgKeepsStatus(idx) ==
  /\ Resumes(idx)
  /\ UNCHANGED <<jobs, tty, stage, cur, index>>

Bg(idx) ==
  /\ Resumes(idx)
  /\ jobs' = SetStatus(jobs, idx, "background")
  /\ UNCHANGED <<tty, stage, cur, index>>

-------------------------------------------------------------------------------
(* await_background_job, await_all_background_jobs *)

WaitFor(idx) ==
  /\ stage = "prompt"
  /\ HasNode(jobs, idx)
  /\ ListGet(jobs, idx).status = "background"
  /\ stage' = "waitfor"
  /\ index' = idx
  /\ UNCHANGED <<jobs, proc, tty, cur>>

\* A job that stopped stays listed as a background job.
WaitForReturns ==
  /\ stage = "waitfor"
  /\ LET p == ListGet(jobs, index).pid IN
     /\ Reportable(p)
     /\ Report(p)
     /\ jobs' = IF proc[p] = "zombie" /\ Removable(jobs, index)
                THEN ListRemove(jobs, index) ELSE jobs
  /\ BackToPrompt
  /\ UNCHANGED tty

WaitAll ==
  /\ stage = "prompt"
  /\ stage' = "waitall"
  /\ UNCHANGED <<jobs, proc, tty, cur, index>>

WaitAllSkip ==
  /\ stage = "waitall"
  /\ HasNode(jobs, index)
  /\ ListGet(jobs, index).status = "stopped"
  /\ index' = index + 1
  /\ UNCHANGED <<jobs, proc, tty, stage, cur>>

\* Mutant: a job that stopped is left as a background job.
WaitAllNextUnmarked ==
  /\ stage = "waitall"
  /\ HasNode(jobs, index)
  /\ ListGet(jobs, index).status = "background"
  /\ Reportable(ListGet(jobs, index).pid)
  /\ Report(ListGet(jobs, index).pid)
  /\ index' = index + 1
  /\ UNCHANGED <<jobs, tty, stage, cur>>

\* A job that stopped is marked; one that ended stays in the list until the
\* last of them is done.
WaitAllNext ==
  /\ stage = "waitall"
  /\ HasNode(jobs, index)
  /\ ListGet(jobs, index).status = "background"
  /\ LET p == ListGet(jobs, index).pid IN
     /\ Reportable(p)
     /\ Report(p)
     /\ jobs' = IF proc[p] = "stopped" THEN SetStatus(jobs, index, "stopped") ELSE jobs
  /\ index' = index + 1
  /\ UNCHANGED <<tty, stage, cur>>

WaitAllEnd ==
  /\ stage = "waitall"
  /\ ~HasNode(jobs, index)
  /\ stage' = "purge"
  /\ index' = 0
  /\ UNCHANGED <<jobs, proc, tty, cur>>

\* job_list_remove_by_status: the loop at the head and the walk behind it stay
\* at a node that moved up, and pass one of another status.
Purging ==
  /\ stage = "purge"
  /\ HasNode(jobs, index)
  /\ UNCHANGED <<proc, tty, stage, cur>>

\* Mutant: the walk goes on behind the node that moved up.
PurgeRemoveSkips ==
  /\ Purging
  /\ ListGet(jobs, index).status = "background"
  /\ jobs' = ListRemove(jobs, index)
  /\ index' = index + 1

PurgeRemove ==
  /\ Purging
  /\ ListGet(jobs, index).status = "background"
  /\ jobs' = ListRemove(jobs, index)
  /\ UNCHANGED index

PurgeKeep ==
  /\ Purging
  /\ ListGet(jobs, index).status # "background"
  /\ index' = index + 1
  /\ UNCHANGED jobs

PurgeEnd ==
  /\ stage = "purge"
  /\ ~HasNode(jobs, index)
  /\ BackToPrompt
  /\ UNCHANGED <<jobs, proc, tty>>

-------------------------------------------------------------------------------
(* The end of the shell, and its children *)

\* exit, the end of the input, or a fork that fails.
Exit ==
  /\ stage = "prompt"
  /\ Returns
  /\ UNCHANGED <<proc, tty, cur, index>>

\* ^C while the terminal is the shell's: SIGINT has its default action there,
\* and in a child that has not left the shell's group.
Interrupt ==
  /\ stage \notin Gone
  /\ tty = Shell
  /\ stage' = "killed"
  /\ proc' = [p \in Pids |-> IF proc[p] = "forked" THEN "zombie" ELSE proc[p]]
  /\ UNCHANGED <<jobs, tty, cur, index>>

Becomes(p, from, to) ==
  /\ stage \notin Gone
  /\ proc[p] \in from
  /\ proc' = [proc EXCEPT ![p] = to]
  /\ UNCHANGED <<jobs, tty, stage, cur, index>>

\* run_command: the default actions of SIGTTIN and SIGTTOU, its own group, exec.
ChildSetup(p) == Becomes(p, {"forked"}, "running")
\* It returns or is killed by ^C; or run_command fails and the child returns
\* from main.
ChildExits(p) == Becomes(p, {"forked", "running"}, "zombie")
\* ^Z, or it uses the terminal while that is not its own.
ChildStops(p) == Becomes(p, {"running"}, "stopped")
\* A stopped child is killed, by a command such as kill -9.
ChildKilled(p) == Becomes(p, {"stopped", "seen"}, "zombie")

ShellWaits ==
  \/ WaitFg \/ WaitJob \/ WaitForReturns
  \/ WaitAllSkip \/ WaitAllNext \/ WaitAllEnd
  \/ PurgeRemove \/ PurgeKeep \/ PurgeEnd

JobNext ==
  \/ \E p \in Pids : RunForeground(p) \/ RunBackground(p)
  \/ \E idx \in 0 .. MaxLength - 1 : Fg(idx) \/ Bg(idx) \/ WaitFor(idx)
  \/ WaitAll
  \/ Exit
  \/ GiveTerminal \/ GiveFails
  \/ ShellWaits
  \/ Interrupt
  \/ \E p \in Pids : ChildSetup(p) \/ ChildExits(p) \/ ChildStops(p) \/ ChildKilled(p)

JobSpec == JobInit /\ [][JobNext]_vars

\* The shell runs, and a child that runs ends or stops some day.  Nothing makes
\* a stopped child go on, or the user type.
JobFairSpec ==
  /\ JobSpec
  /\ WF_vars(GiveTerminal \/ GiveFails \/ ShellWaits)
  /\ \A p \in Pids : WF_vars(ChildSetup(p) \/ ChildExits(p) \/ ChildStops(p))

-------------------------------------------------------------------------------
(* Properties *)

JobLists == [head : Seq([pid : Pids, status : {"background", "stopped"}]), length : Nat]

JobTypeOK ==
  /\ jobs \in JobLists
  /\ proc \in [Pids -> {"none", "forked", "running", "stopped", "seen", "zombie"}]
  /\ tty \in Pids \cup {Shell}
  /\ stage \in {"prompt", "give", "waitfg", "waitjob", "waitfor", "waitall", "purge"}
               \cup Gone
  /\ cur \in Pids \cup {Shell}
  /\ index \in Nat

\* job_list.c: length, which no removal updates, still covers every node, so
\* that the bounds checks of fg, bg and job_list_remove refuse no job there is.
LengthCovers == Len(jobs.head) <= jobs.length

\* The job at a position has been reaped by the wait-all that is going on.
Awaited(i) ==
  /\ jobs.head[i].status = "background"
  /\ stage = "purge" \/ (stage = "waitall" /\ i <= index)

\* swish.c, swish_funcs.c: every child that was not reaped is the foreground
\* command or is listed, once; and no listed pid was reaped, which the system
\* may give to another process.  Only wait-all keeps the nodes of reaped jobs,
\* until it removes them together.
JobsAreChildren ==
  stage \notin Gone =>
    /\ Distinct(jobs)
    /\ \A i \in DOMAIN jobs.head : proc[jobs.head[i].pid] = "none" <=> Awaited(i)
    /\ \A p \in Pids : proc[p] # "none" => p = cur \/ p \in PidsOf(jobs)
    /\ cur \notin PidsOf(jobs)

\* swish_funcs.c: at the prompt a job listed as stopped is one the shell has
\* seen stop and did not resume since, or one that was killed then.
StoppedIsStopped ==
  stage = "prompt" =>
    \A i \in DOMAIN jobs.head :
      jobs.head[i].status = "stopped" => proc[jobs.head[i].pid] \in {"seen", "zombie"}

\* swish.c:220, swish_funcs.c:202: the shell reads its next command, and waits
\* for background jobs, only with the terminal its own.  Otherwise the keyboard's
\* signals would go to a job that is stopped or gone.
TerminalReturns ==
  stage \in {"prompt", "give", "waitfor", "waitall", "purge"} => tty = Shell

\* swish_funcs.c:269: when wait-all returns, nothing but stopped jobs is listed.
WaitAllSettles ==
  [][stage = "purge" /\ stage' = "prompt" =>
       \A i \in DOMAIN jobs'.head :
         jobs'.head[i].status = "stopped" /\ proc[jobs'.head[i].pid] \in {"seen", "zombie"}]_vars

\* A job listed as running whose stop was reported before: wait-for, and fg of
\* a job in the background, leave one when the job stops.
Stranded ==
  \E i \in DOMAIN jobs.head :
    jobs.head[i].status = "background" /\ proc[jobs.head[i].pid] = "seen"

\* Every wait of the shell ends when no job is stranded: the stop or the end of
\* a child is never missed, wherever the shell is when it happens.
WaitsReturn ==
  (stage \notin {"prompt"} \cup Gone /\ ~Stranded) ~> (stage \in {"prompt"} \cup Gone)

\* swish_funcs.h:45: wait-all blocks the shell until all background jobs stop
\* running, so it returns once each has stopped or ended.
WaitAllReturns == (stage = "waitall") ~> (stage \in {"prompt"} \cup Gone)
===============================================================================
