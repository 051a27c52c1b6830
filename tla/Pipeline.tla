------------------------------- MODULE Pipeline -------------------------------
(***************************************************************************)
(* proj3-code/part2: run_pipelined_commands and run_piped_command of       *)
(* swish_funcs.c, under the loop of swish.c.  The shell makes the pipes,   *)
(* forks a child per command, closes its own ends and waits once per       *)
(* child; each child closes the ends that are not its own and runs its     *)
(* program.                                                                *)
(*                                                                         *)
(* Programs are external: the first one writes Items items, the others     *)
(* copy their input to their output; each ends at the end of its input, or *)
(* earlier.  A token is the position of a word in the command line, or     *)
(* Bar.  Command lines without a "|" are refused and change nothing.       *)
(* pipe, fork, dup2, exec and the shell's allocations may fail; the close  *)
(* calls of one loop are one step.                                         *)
(***************************************************************************)
EXTENDS StringVector

CONSTANTS
  Lines,     \* bound: command lines the shell reads
  CommandLines, \* what a line may be
  MaxPipes,  \* bound: pipes of a command line
  Items,     \* what the first program writes is 1 .. Items
  Capacity   \* of a pipe

ASSUME LinesAssumption == Lines \in Nat
ASSUME PipesAssumption == MaxPipes \in Nat
ASSUME ItemsAssumption == Items \in Nat
ASSUME CapacityAssumption == Capacity \in Nat \ {0}

Bar == 0
Bars(t) == {k \in DOMAIN t : t[k] = Bar}

\* Only its place tells a word from another.
ASSUME CommandLinesAssumption ==
  \A t \in CommandLines :
    /\ t \in Seq(Nat)
    /\ \A k \in DOMAIN t : t[k] \in {k, Bar}
    /\ Cardinality(Bars(t)) \in 1 .. MaxPipes

Gens == 1 .. Lines
Children == Gens \X (0 .. MaxPipes) \* the pipeline and the place in it
Shell == <<0, 0>>
Ends == 0 .. 2 * MaxPipes - 1     \* the array pipes: pipe k is read at 2k and written at 2k + 1

VARIABLES
  stage,   \* where the shell is
  gen,     \* number of pipelines so far; the current one
  tokens,  \* the command line, until the last command is cut from it
  start,   \* where the next command starts in tokens
  i,       \* the shell's loop variable
  npipes,  \* of each pipeline
  open,    \* open[g][e]: the processes that have end e of pipeline g open
  buf,     \* what each pipe holds
  proc,    \* each child: none, forked, running, or ended: done, or cut short
  reaped,  \* the children wait has returned
  command, \* the command of a child that has not exec'ed yet
  hand,    \* the item a program has read and not yet written
  made,    \* items the first program of each pipeline has made
  out      \* what the last program of each pipeline has written

shellVars == <<stage, gen, tokens, start, i, npipes>>
dataVars == <<buf, hand, made, out>>
vars == <<shellVars, open, proc, reaped, command, dataVars>>

PipeInit ==
  /\ stage = "prompt" /\ gen = 0 /\ tokens = <<>> /\ start = 0 /\ i = 0
  /\ npipes = [g \in Gens |-> 0]
  /\ open = [g \in Gens |-> [e \in Ends |-> {}]]
  /\ buf = [g \in Gens |-> [k \in 0 .. MaxPipes - 1 |-> <<>>]]
  /\ proc = [c \in Children |-> "none"]
  /\ reaped = {}
  /\ command = [c \in Children |-> <<>>]
  /\ hand = [c \in Children |-> <<>>]
  /\ made = [g \in Gens |-> 0]
  /\ out = [g \in Gens |-> <<>>]

Ended(c) == proc[c] \in {"done", "cut"}

-------------------------------------------------------------------------------
(* The shell *)

Prompt == stage' = "prompt" /\ tokens' = <<>> /\ start' = 0 /\ i' = 0

\* close_all of the shell on the pipes of the current pipeline.
ShellCloses == open' = [open EXCEPT ![gen] = [e \in Ends |-> @[e] \ {Shell}]]

ReadLine(t) ==
  /\ stage = "prompt"
  /\ gen < Lines
  /\ gen' = gen + 1
  /\ tokens' = t /\ start' = 0 /\ i' = 0
  /\ npipes' = [npipes EXCEPT ![gen'] = strvec_num_occurrences(t, Bar)]
  /\ stage' = "pipe"
  /\ UNCHANGED <<open, proc, reaped, command, dataVars>>

MakePipe ==
  /\ stage = "pipe"
  /\ i < npipes[gen]
  /\ open' = [open EXCEPT ![gen][2 * i] = {Shell}, ![gen][2 * i + 1] = {Shell}]
  /\ i' = i + 1
  /\ UNCHANGED <<stage, gen, tokens, start, npipes, proc, reaped, command, dataVars>>

\* Mutant: the pipes of the earlier iterations but one are closed.
PipeFailsOffByOne ==
  /\ stage = "pipe"
  /\ i < npipes[gen]
  /\ open' = [open EXCEPT ![gen] = [e \in Ends |-> IF e < 2 * (i - 1) THEN {} ELSE @[e]]]
  /\ Prompt
  /\ UNCHANGED <<gen, npipes, proc, reaped, command, dataVars>>

\* pipe returns -1: the pipes of the earlier iterations are closed.
PipeFails ==
  /\ stage = "pipe"
  /\ i < npipes[gen]
  /\ open' = [open EXCEPT ![gen] = [e \in Ends |-> IF e < 2 * i THEN @[e] \ {Shell} ELSE @[e]]]
  /\ Prompt
  /\ UNCHANGED <<gen, npipes, proc, reaped, command, dataVars>>

PipesMade ==
  /\ stage = "pipe"
  /\ i = npipes[gen]
  /\ stage' = "fork" /\ i' = 0
  /\ UNCHANGED <<gen, tokens, start, npipes, open, proc, reaped, command, dataVars>>

\* The rounds of the while loop that looks for the end of the command starting at
\* index s (of an array from 0): one for each token but the last until a "|" behind s.
Rounds(t, s) == {x \in s .. Len(t) - 2 : \A y \in s + 1 .. x : t[y + 1] # Bar}

\* Mutant: no special case for the last token.
CommandEndLosesLast(t, s) == s + Cardinality(Rounds(t, s))

CommandEnd(t, s) ==
  LET end == s + Cardinality(Rounds(t, s))
  IN IF end = Len(t) - 1 THEN end + 1 ELSE end

Slice(t, s) == strvec_slice(t, s, CommandEnd(t, s))

\* Mutant: one child more.
ForkOneMore ==
  LET c == <<gen, i>> IN
  /\ stage = "fork"
  /\ i <= npipes[gen] + 1
  /\ proc' = [proc EXCEPT ![c] = "forked"]
  /\ command' = [command EXCEPT ![c] = Slice(tokens, start)]
  /\ open' = [g \in Gens |-> [e \in Ends |->
                IF Shell \in open[g][e] THEN open[g][e] \cup {c} ELSE open[g][e]]]
  /\ start' = CommandEnd(tokens, start) + 1
  /\ i' = i + 1
  /\ UNCHANGED <<stage, gen, tokens, npipes, reaped, dataVars>>

\* A child has every end open that the shell has.
Fork ==
  LET c == <<gen, i>> IN
  /\ stage = "fork"
  /\ i <= npipes[gen]
  /\ proc' = [proc EXCEPT ![c] = "forked"]
  /\ command' = [command EXCEPT ![c] = Slice(tokens, start)]
  /\ open' = [g \in Gens |-> [e \in Ends |->
                IF Shell \in open[g][e] THEN open[g][e] \cup {c} ELSE open[g][e]]]
  /\ start' = CommandEnd(tokens, start) + 1
  /\ i' = i + 1
  /\ UNCHANGED <<stage, gen, tokens, npipes, reaped, dataVars>>

\* strvec_slice has no memory, or fork returns -1: the shell closes its ends and
\* returns.  The children forked before run on, and nobody waits for them.
CommandFails ==
  /\ stage = "fork"
  /\ i <= npipes[gen]
  /\ ShellCloses
  /\ Prompt
  /\ UNCHANGED <<gen, npipes, proc, reaped, command, dataVars>>

Forked ==
  /\ stage = "fork"
  /\ i = npipes[gen] + 1
  /\ ShellCloses
  /\ stage' = "wait" /\ i' = 0
  /\ tokens' = <<>> /\ start' = 0
  /\ UNCHANGED <<gen, npipes, proc, reaped, command, dataVars>>

\* wait returns a child of this pipeline or one an earlier pipeline left behind.
Wait ==
  /\ stage = "wait"
  /\ i <= npipes[gen]
  /\ \E c \in Children \ reaped : Ended(c) /\ reaped' = reaped \cup {c}
  /\ i' = i + 1
  /\ UNCHANGED <<stage, gen, tokens, start, npipes, open, proc, command, dataVars>>

\* Mutant: one wait for each pipe.
WaitedPerPipe ==
  /\ stage = "wait"
  /\ i = npipes[gen]
  /\ Prompt
  /\ UNCHANGED <<gen, npipes, open, proc, reaped, command, dataVars>>

\* Mutant: a failed command ends the loop.
WaitedUntilFailure ==
  /\ stage = "wait"
  /\ i = npipes[gen] + 1 \/ \E c \in reaped : c[1] = gen /\ proc[c] = "cut"
  /\ Prompt
  /\ UNCHANGED <<gen, npipes, open, proc, reaped, command, dataVars>>

\* npipes + 1 waits have returned.
Waited ==
  /\ stage = "wait"
  /\ i = npipes[gen] + 1
  /\ Prompt
  /\ UNCHANGED <<gen, npipes, open, proc, reaped, command, dataVars>>

ShellStep ==
  \/ MakePipe \/ PipesMade \/ Fork \/ Forked \/ Wait \/ Waited
ShellFails == PipeFails \/ CommandFails

-------------------------------------------------------------------------------
(* Children; c[1] is the pipeline and c[2] the place in it *)

InEnd(c) == IF c[2] = 0 THEN -1 ELSE 2 * (c[2] - 1)
OutEnd(c) == IF c[2] = npipes[c[1]] THEN -1 ELSE 2 * c[2] + 1
InPipe(c) == c[2] - 1
OutPipe(c) == c[2]

\* The end of a process: its memory goes, and what is in a pipe nobody can read.
Exits(c, status) ==
  /\ proc' = [proc EXCEPT ![c] = status]
  /\ open' = [g \in Gens |-> [e \in Ends |-> open[g][e] \ {c}]]
  /\ hand' = [hand EXCEPT ![c] = <<>>]
  /\ made' = IF c[2] = 0 THEN [made EXCEPT ![c[1]] = 0] ELSE made
  /\ buf' = [g \in Gens |-> [k \in 0 .. MaxPipes - 1 |->
               IF open'[g][2 * k] = {} THEN <<>> ELSE buf[g][k]]]
  /\ UNCHANGED <<shellVars, reaped, out>>

\* Mutant: only the read ends of the other pipes are closed.
KeepsWriteEnds(c) ==
  [open EXCEPT ![c[1]] =
     [e \in Ends |-> IF e % 2 = 1 \/ e = InEnd(c) THEN @[e] ELSE @[e] \ {c}]]

\* The ends that are not the child's own are closed.
Keeps(c) ==
  [open EXCEPT ![c[1]] =
     [e \in Ends |-> IF e \in {InEnd(c), OutEnd(c)} THEN @[e] ELSE @[e] \ {c}]]

\* run_piped_command up to exec.  The ends stay open beside standard input and
\* output, which they are copied to.
Execs(c) ==
  /\ proc[c] = "forked"
  /\ command[c] # <<>> /\ command[c][1] # Bar
  /\ open' = Keeps(c)
  /\ proc' = [proc EXCEPT ![c] = "running"]
  /\ command' = [command EXCEPT ![c] = <<>>]
  /\ UNCHANGED <<shellVars, reaped, dataVars>>

\* A dup2 fails; or run_command returns: there is no such program, or no command
\* at all.
ExecFails(c) ==
  /\ proc[c] = "forked"
  /\ Exits(c, "cut")
  /\ command' = [command EXCEPT ![c] = <<>>]

Make(c) ==
  /\ proc[c] = "running" /\ c[2] = 0 /\ hand[c] = <<>>
  /\ made[c[1]] < Items
  /\ made' = [made EXCEPT ![c[1]] = @ + 1]
  /\ hand' = [hand EXCEPT ![c] = <<made[c[1]] + 1>>]
  /\ UNCHANGED <<shellVars, open, proc, reaped, command, buf, out>>

Read(c) ==
  /\ proc[c] = "running" /\ c[2] > 0 /\ hand[c] = <<>>
  /\ buf[c[1]][InPipe(c)] # <<>>
  /\ hand' = [hand EXCEPT ![c] = <<Head(buf[c[1]][InPipe(c)])>>]
  /\ buf' = [buf EXCEPT ![c[1]][InPipe(c)] = Tail(@)]
  /\ UNCHANGED <<shellVars, open, proc, reaped, command, made, out>>

Write(c) ==
  /\ proc[c] = "running" /\ hand[c] # <<>> /\ OutEnd(c) # -1
  /\ Len(buf[c[1]][OutPipe(c)]) < Capacity
  /\ open[c[1]][2 * OutPipe(c)] # {}
  /\ buf' = [buf EXCEPT ![c[1]][OutPipe(c)] = @ \o hand[c]]
  /\ hand' = [hand EXCEPT ![c] = <<>>]
  /\ UNCHANGED <<shellVars, open, proc, reaped, command, made, out>>

WriteOut(c) ==
  /\ proc[c] = "running" /\ hand[c] # <<>> /\ OutEnd(c) = -1
  /\ out' = [out EXCEPT ![c[1]] = @ \o hand[c]]
  /\ hand' = [hand EXCEPT ![c] = <<>>]
  /\ UNCHANGED <<shellVars, open, proc, reaped, command, buf, made>>

\* Nobody reads what is written: SIGPIPE.
Broken(c) ==
  /\ proc[c] = "running" /\ hand[c] # <<>> /\ OutEnd(c) # -1
  /\ open[c[1]][2 * OutPipe(c)] = {}
  /\ Exits(c, "cut")
  /\ UNCHANGED command

\* All is made; or the end of the input: an empty pipe that nobody has open for writing.
Finish(c) ==
  /\ proc[c] = "running" /\ hand[c] = <<>>
  /\ IF c[2] = 0 THEN made[c[1]] = Items
     ELSE buf[c[1]][InPipe(c)] = <<>> /\ open[c[1]][2 * InPipe(c) + 1] = {}
  /\ Exits(c, "done")
  /\ UNCHANGED command

\* A program may end before its input does, or be killed.
Quits(c) ==
  /\ proc[c] = "running"
  /\ Exits(c, "cut")
  /\ UNCHANGED command

ProgramStep(c) ==
  Make(c) \/ Read(c) \/ Write(c) \/ WriteOut(c) \/ Broken(c) \/ Finish(c)

PipeNext ==
  \/ \E t \in CommandLines : ReadLine(t)
  \/ ShellStep \/ ShellFails
  \/ \E c \in Children : Execs(c) \/ ExecFails(c) \/ ProgramStep(c) \/ Quits(c)

PipeSpec == PipeInit /\ [][PipeNext]_vars

\* Every process runs; programs go on while they can.
PipeFairSpec ==
  /\ PipeSpec
  /\ WF_vars(ShellStep)
  /\ \A c \in Children : WF_vars(Execs(c) \/ ExecFails(c) \/ ProgramStep(c))

-------------------------------------------------------------------------------
(* Properties *)

ShellTypeOK ==
  /\ stage \in {"prompt", "pipe", "fork", "wait"}
  /\ gen \in 0 .. Lines
  /\ tokens \in CommandLines \cup {<<>>}
  /\ start \in Nat
  /\ i \in 0 .. MaxPipes + 1
  /\ npipes \in [Gens -> 0 .. MaxPipes]
  /\ open \in [Gens -> [Ends -> SUBSET (Children \cup {Shell})]]

ChildTypeOK ==
  /\ buf \in [Gens -> [0 .. MaxPipes - 1 -> Seq(1 .. Items)]]
  /\ \A g \in Gens : \A k \in 0 .. MaxPipes - 1 : Len(buf[g][k]) <= Capacity
  /\ proc \in [Children -> {"none", "forked", "running", "done", "cut"}]
  /\ reaped \subseteq {c \in Children : Ended(c)}
  /\ command \in [Children -> Seq(Nat)]
  /\ hand \in [Children -> {<<>>} \cup {<<x>> : x \in 1 .. Items}]
  /\ made \in [Gens -> 0 .. Items]
  /\ out \in [Gens -> Seq(1 .. Items)]

PipeTypeOK == ShellTypeOK /\ ChildTypeOK

WellFormed(t) ==
  /\ t # <<>> /\ t[1] # Bar /\ t[Len(t)] # Bar
  /\ \A k \in 1 .. Len(t) - 1 : t[k] # Bar \/ t[k + 1] # Bar

\* The places of the words behind n bars.
Words(t, n) == {x \in DOMAIN t : t[x] # Bar /\ Cardinality({k \in Bars(t) : k < x}) = n}

Lists(words, places) ==
  /\ {words[x] : x \in DOMAIN words} = places
  /\ \A x, y \in DOMAIN words : x < y => words[x] < words[y]

\* swish_funcs.c:181: in a well-formed line, the n-th child gets the words between
\* the n-th bar and the next, in order, and the last word is not lost.
CommandsSplit ==
  stage = "fork" /\ WellFormed(tokens) =>
    \A n \in 0 .. i - 1 :
      proc[<<gen, n>>] = "forked" => Lists(command[<<gen, n>>], Words(tokens, n))

\* A pipeline some of whose children were not forked: CommandFails.
Stunted(g) == proc[<<g, 0>>] # "none" /\ proc[<<g, npipes[g]>>] = "none"

\* swish_funcs.c:162, 217, 251: at the prompt the shell has no end of any pipe open,
\* whatever failed, and a program has at most the two ends it was given.
OwnEndsOnly ==
  /\ stage = "prompt" => \A g \in Gens : \A e \in Ends : Shell \notin open[g][e]
  /\ \A c \in Children : proc[c] = "running" =>
       \A g \in Gens : \A e \in Ends :
         c \in open[g][e] => g = c[1] /\ e \in {InEnd(c), OutEnd(c)}

\* swish_funcs.c:255: at the prompt no child is left, whichever failed, unless a
\* command failed to start in this pipeline or in one before.
NothingLeft ==
  stage = "prompt" /\ (\A g \in 1 .. gen : ~Stunted(g)) =>
    \A c \in Children : proc[c] # "none" => c \in reaped

\* swish_funcs.h:31: at the prompt, the last program has written all the first one
\* made, in order, unless a program was cut short or a command failed to start.
WholeOutput ==
  stage = "prompt" /\ (\A g \in 1 .. gen : ~Stunted(g)) =>
    \A g \in 1 .. gen :
      (\A n \in 0 .. npipes[g] : proc[<<g, n>>] \notin {"none", "cut"}) =>
        out[g] = [k \in 1 .. Items |-> k]

\* swish_funcs.c:217, 251: behind the last line every child ends, also one whose
\* pipeline was given up halfway or whose neighbours have ended: no pipe end stays
\* open that would keep it reading or writing.
ChildrenEnd == <>[](\A c \in Children : proc[c] \notin {"forked", "running"})
===============================================================================
