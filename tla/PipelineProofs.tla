---------------------------- MODULE PipelineProofs ----------------------------
(***************************************************************************)
(* Safety of Pipeline, for any number of command lines, pipes and items.   *)
(*                                                                         *)
(* The shell has ends of the current pipeline only, and only while it makes*)
(* pipes and forks (ShellEnds).  That a program has its own two ends and   *)
(* no other rests on it: what a child gets at its fork are ends of its own *)
(* pipeline, and it closes all but two before it becomes a program         *)
(* (ChildEnds).  A child is forked once: the children to come are not      *)
(* there yet (ToCome), and the shell counts within its bounds (Counts).    *)
(*                                                                         *)
(* That every child is awaited is a count of the waits (Settled), and that *)
(* the last program writes all the first one made is a count of what each  *)
(* program has read and written (Flows).  The commands are cut right       *)
(* because a command starts behind as many bars as there are children      *)
(* (SplitInv), and ends at the least bar behind its start.                 *)
(***************************************************************************)
EXTENDS Pipeline, FiniteSetTheorems, SequenceTheorems, WellFoundedInduction, TLAPS

Counts ==
  /\ stage # "prompt" => gen \in Gens /\ i <= npipes[gen] + 1
  /\ stage = "pipe" => i <= npipes[gen]
  /\ stage \in {"pipe", "fork"} => tokens \in CommandLines

ToCome ==
  \A c \in Children :
    \/ c[1] > gen
    \/ c[2] > npipes[c[1]]
    \/ c[1] = gen /\ (stage = "pipe" \/ (stage = "fork" /\ c[2] >= i))
    => proc[c] = "none"

ShellEnds ==
  \A g \in Gens : \A e \in Ends : Shell \in open[g][e] =>
    g = gen /\ (stage = "fork" \/ (stage = "pipe" /\ e < 2 * i))

ChildEnds ==
  \A c \in Children : \A g \in Gens : \A e \in Ends : c \in open[g][e] =>
    /\ g = c[1]
    /\ proc[c] \in {"forked", "running"}
    /\ proc[c] = "running" => e \in {InEnd(c), OutEnd(c)}

PInv == PipeTypeOK /\ Counts /\ ToCome /\ ShellEnds /\ ChildEnds

-------------------------------------------------------------------------------
\* The next command starts at an index.
LEMMA CommandEndNat ==
  ASSUME NEW t \in CommandLines, NEW s \in Nat
  PROVE  CommandEnd(t, s) \in Nat /\ Slice(t, s) \in Seq(Nat)
<1>1. t \in Seq(Nat) /\ Len(t) \in Nat /\ \A k \in DOMAIN t : t[k] \in Nat
  BY CommandLinesAssumption
<1>2. /\ Rounds(t, s) \subseteq s .. Len(t) - 2
      /\ IsFiniteSet(s .. Len(t) - 2)
      /\ Cardinality(s .. Len(t) - 2) = IF s > Len(t) - 2 THEN 0 ELSE Len(t) - 1 - s
  <2>1. s \in Int /\ Len(t) - 2 \in Int
    BY <1>1
  <2>2. /\ IsFiniteSet(s .. Len(t) - 2)
        /\ Cardinality(s .. Len(t) - 2)
             = IF s > Len(t) - 2 THEN 0 ELSE (Len(t) - 2) - s + 1
    BY <2>1, FS_Interval
  <2> QED BY <1>1, <2>2 DEF Rounds
<1>3. /\ Cardinality(Rounds(t, s)) \in Nat
      /\ Cardinality(Rounds(t, s)) <= Cardinality(s .. Len(t) - 2)
  BY <1>2, FS_Subset, FS_CardinalityType, Zenon
<1>4. /\ CommandEnd(t, s) \in Nat
      /\ CommandEnd(t, s) > s => CommandEnd(t, s) <= Len(t)
  <2> DEFINE end == s + Cardinality(Rounds(t, s))
  <2>1. end \in Nat /\ (end > s => end <= Len(t) - 1)
    <3>1. CASE s > Len(t) - 2
      BY <3>1, <1>2, <1>3
    <3>2. CASE ~(s > Len(t) - 2)
      <4>1. Cardinality(Rounds(t, s)) <= Len(t) - 1 - s
        BY <3>2, <1>2, <1>3
      <4> QED BY <4>1, <1>1, <1>3
    <3> QED BY <3>1, <3>2
  <2>2. CommandEnd(t, s) = IF end = Len(t) - 1 THEN end + 1 ELSE end
    BY DEF CommandEnd
  <2> HIDE DEF end
  <2> QED BY <1>1, <2>1, <2>2
<1>5. Slice(t, s) \in Seq(Nat)
  <2> DEFINE last == IF CommandEnd(t, s) > Len(t) THEN Len(t) ELSE CommandEnd(t, s)
  <2>1. Slice(t, s) = SubSeq(t, s + 1, last)
    BY <1>4 DEF Slice, strvec_slice
  <2>2. last \in Int /\ last <= Len(t)
    BY <1>1, <1>4
  <2> HIDE DEF last
  <2>3. \A k \in s + 1 .. last : k \in DOMAIN t
    BY <1>1, <2>2
  <2> QED BY <1>1, <2>1, <2>2, <2>3
<1> QED BY <1>4, <1>5

-------------------------------------------------------------------------------
\* The pipe ends of an ending child are closed, and nothing else of the shell or of
\* the other children changes.
LEMMA ExitsKeeps ==
  ASSUME PInv, NEW c \in Children, NEW s \in {"done", "cut"},
         proc[c] \in {"forked", "running"}, Exits(c, s),
         command' \in [Children -> Seq(Nat)]
  PROVE  PInv'
<1> USE LinesAssumption, PipesAssumption, ItemsAssumption, CapacityAssumption DEF PInv
<1>1. /\ proc' = [proc EXCEPT ![c] = s]
      /\ open' = [g \in Gens |-> [e \in Ends |-> open[g][e] \ {c}]]
      /\ UNCHANGED <<stage, gen, tokens, start, i, npipes, reaped, out>>
  BY DEF Exits, shellVars
<1>2. proc' \in [Children -> {"none", "forked", "running", "done", "cut"}]
  BY <1>1 DEF PipeTypeOK, ShellTypeOK, ChildTypeOK
<1>3. open' \in [Gens -> [Ends -> SUBSET (Children \cup {Shell})]]
  BY <1>1 DEF PipeTypeOK, ShellTypeOK, ChildTypeOK
<1>4. reaped' \subseteq {d \in Children : Ended(d)}'
  BY <1>1 DEF PipeTypeOK, ShellTypeOK, ChildTypeOK, Ended
<1>5. hand' \in [Children -> {<<>>} \cup {<<x>> : x \in 1 .. Items}]
  BY DEF PipeTypeOK, ShellTypeOK, ChildTypeOK, Exits
<1>6. made' \in [Gens -> 0 .. Items]
  <2>1. made \in [Gens -> 0 .. Items] /\ 0 \in 0 .. Items
    BY DEF PipeTypeOK, ShellTypeOK, ChildTypeOK
  <2>2. made' = made \/ made' = [made EXCEPT ![c[1]] = 0]
    BY Zenon DEF Exits
  <2> QED BY <2>1, <2>2
<1>7. /\ buf' \in [Gens -> [0 .. MaxPipes - 1 -> Seq(1 .. Items)]]
      /\ \A g \in Gens : \A k \in 0 .. MaxPipes - 1 : Len(buf'[g][k]) <= Capacity
  <2> DEFINE P == 0 .. MaxPipes - 1
             Left(g, k) == IF open'[g][2 * k] = {} THEN <<>> ELSE buf[g][k]
  <2>2. buf' = [g \in Gens |-> [k \in P |-> Left(g, k)]]
    BY Zenon DEF Exits
  <2>3. \A g \in Gens : \A k \in 0 .. MaxPipes - 1 :
          buf[g][k] \in Seq(1 .. Items) /\ Len(buf[g][k]) <= Capacity
    BY DEF PipeTypeOK, ShellTypeOK, ChildTypeOK
  <2>4. <<>> \in Seq(1 .. Items) /\ Len(<<>>) <= Capacity
    OBVIOUS
  <2>5. \A g \in Gens : \A k \in P :
          Left(g, k) \in Seq(1 .. Items) /\ Len(Left(g, k)) <= Capacity
    BY <2>3, <2>4, Zenon
  <2> HIDE DEF P, Left
  <2>6. /\ buf' \in [Gens -> [P -> Seq(1 .. Items)]]
        /\ \A g \in Gens : \A k \in P : Len(buf'[g][k]) <= Capacity
    BY <2>2, <2>5
  <2> QED BY <2>6 DEF P
<1>8. PipeTypeOK'
  BY <1>1, <1>2, <1>3, <1>4, <1>5, <1>6, <1>7 DEF PipeTypeOK, ShellTypeOK, ChildTypeOK
<1>9. Counts' /\ ToCome'
  BY <1>1 DEF Counts, ToCome, PipeTypeOK, ShellTypeOK, Children
<1>10. ShellEnds'
  BY <1>1 DEF ShellEnds
<1>11. ChildEnds'
  BY <1>1 DEF ChildEnds, PipeTypeOK, ShellTypeOK, ChildTypeOK, InEnd, OutEnd
<1> QED BY <1>8, <1>9, <1>10, <1>11

\* What the shell's steps leave alone.
LEMMA DataKept ==
  ASSUME ChildTypeOK, UNCHANGED <<proc, reaped, command, dataVars>>
  PROVE  ChildTypeOK'
BY DEF dataVars, ChildTypeOK, Ended

\* Pipe ends are closed or stay as they are, and the shell has none afterwards.
LEMMA ShellLeaves ==
  ASSUME PInv, stage \in {"pipe", "fork", "wait"},
         UNCHANGED <<gen, npipes, proc, reaped, command, dataVars>>,
         tokens' = <<>>, start' = 0, i' = 0, stage' \in {"prompt", "wait"},
         open' \in [Gens -> [Ends -> SUBSET (Children \cup {Shell})]],
         \A g \in Gens : \A e \in Ends :
           open'[g][e] \subseteq open[g][e] /\ Shell \notin open'[g][e]
  PROVE  PInv'
<1> USE PipesAssumption DEF PInv, PipeTypeOK
<1>1. PipeTypeOK'
  BY DataKept DEF ShellTypeOK
<1>2. Counts' /\ ToCome'
  BY DEF Counts, ToCome, ShellTypeOK
<1>3. ShellEnds' /\ ChildEnds'
  BY DEF ShellEnds, ChildEnds, InEnd, OutEnd
<1> QED BY <1>1, <1>2, <1>3

\* close_all.
LEMMA ClosesAll ==
  ASSUME PInv, stage \in {"pipe", "fork", "wait"}, ShellCloses
  PROVE  /\ open' \in [Gens -> [Ends -> SUBSET (Children \cup {Shell})]]
         /\ \A g \in Gens : \A e \in Ends :
              open'[g][e] \subseteq open[g][e] /\ Shell \notin open'[g][e]
<1>1. gen \in Gens
  BY DEF PInv, Counts
<1>2. \A g \in Gens : \A e \in Ends :
        open'[g][e] = IF g = gen THEN open[g][e] \ {Shell} ELSE open[g][e]
  BY <1>1 DEF PInv, PipeTypeOK, ShellTypeOK, ShellCloses
<1>3. open' \in [Gens -> [Ends -> SUBSET (Children \cup {Shell})]]
  BY <1>1 DEF PInv, PipeTypeOK, ShellTypeOK, ShellCloses
<1>4. \A g \in Gens : \A e \in Ends : open'[g][e] \subseteq open[g][e]
  BY <1>2
<1>5. \A g \in Gens : \A e \in Ends : Shell \notin open'[g][e]
  <2>1. \A g \in Gens : \A e \in Ends : g # gen => Shell \notin open[g][e]
    BY DEF PInv, ShellEnds
  <2> SUFFICES ASSUME NEW g \in Gens, NEW e \in Ends  PROVE Shell \notin open'[g][e]
    OBVIOUS
  <2>2. CASE g = gen
    BY <1>2, <2>2
  <2>3. CASE g # gen
    BY <1>2, <2>1, <2>3
  <2> QED BY <2>2, <2>3
<1> QED BY <1>3, <1>4, <1>5

\* A program reads or writes: the shell, the ends and the children's states stay.
LEMMA ProgramKeeps ==
  ASSUME PInv, UNCHANGED <<shellVars, open, proc, reaped, command>>, ChildTypeOK'
  PROVE  PInv'
BY DEF PInv, PipeTypeOK, ShellTypeOK, Counts, ToCome, ShellEnds, ChildEnds, shellVars,
       InEnd, OutEnd

\* A pipe gets a new content within its capacity.
LEMMA BufUpdate ==
  ASSUME buf \in [Gens -> [0 .. MaxPipes - 1 -> Seq(1 .. Items)]],
         \A g \in Gens : \A k \in 0 .. MaxPipes - 1 : Len(buf[g][k]) <= Capacity,
         NEW h \in Gens, NEW j \in 0 .. MaxPipes - 1,
         NEW b \in Seq(1 .. Items), Len(b) <= Capacity,
         buf' = [buf EXCEPT ![h][j] = b]
  PROVE  /\ buf' \in [Gens -> [0 .. MaxPipes - 1 -> Seq(1 .. Items)]]
         /\ \A g \in Gens : \A k \in 0 .. MaxPipes - 1 : Len(buf'[g][k]) <= Capacity
<1>1. \A g \in Gens : \A k \in 0 .. MaxPipes - 1 :
        buf'[g][k] = IF g = h /\ k = j THEN b ELSE buf[g][k]
  OBVIOUS
<1> DEFINE P == 0 .. MaxPipes - 1
<1>2. \A g \in Gens : \A k \in P :
        (g = h /\ k = j /\ buf'[g][k] = b) \/ buf'[g][k] = buf[g][k]
  BY <1>1
<1>3. buf' \in [Gens -> [P -> Seq(1 .. Items)]]
  OBVIOUS
<1> HIDE DEF P
<1>4. \A g \in Gens : \A k \in P : Len(buf'[g][k]) <= Capacity
  <2>1. \A g \in Gens : \A k \in P : Len(buf[g][k]) <= Capacity
    BY DEF P
  <2> QED BY <1>2, <2>1, Zenon
<1> QED BY <1>3, <1>4 DEF P

THEOREM PipeInvariant == PipeSpec => []PInv
<1> USE LinesAssumption, PipesAssumption, ItemsAssumption, CapacityAssumption
<1>1. PipeInit => PInv
  <2> SUFFICES ASSUME PipeInit PROVE PInv
    OBVIOUS
  <2>1. buf \in [Gens -> [0 .. MaxPipes - 1 -> Seq(1 .. Items)]]
    BY DEF PipeInit
  <2>2. \A g \in Gens : \A k \in 0 .. MaxPipes - 1 : Len(buf[g][k]) <= Capacity
    <3>1. \A g \in Gens : \A k \in 0 .. MaxPipes - 1 : buf[g][k] = <<>>
      BY DEF PipeInit
    <3>2. Len(<<>>) <= Capacity
      OBVIOUS
    <3> QED BY <3>1, <3>2
  <2>3. PipeTypeOK
    BY <2>1, <2>2 DEF PipeInit, PipeTypeOK, ShellTypeOK, ChildTypeOK, Ended
  <2> QED BY <2>3 DEF PipeInit, PInv, Counts, ToCome, ShellEnds, ChildEnds
<1>2. PInv /\ [PipeNext]_vars => PInv'
  <2> SUFFICES ASSUME PInv, [PipeNext]_vars PROVE PInv'
    OBVIOUS
  <2> USE DEF PInv, PipeTypeOK
  <2>1. ASSUME NEW t \in CommandLines, ReadLine(t) PROVE PInv'
    <3>0. /\ strvec_num_occurrences(t, Bar) = Cardinality(Bars(t))
          /\ Cardinality(Bars(t)) \in 0 .. MaxPipes
      BY CommandLinesAssumption DEF strvec_num_occurrences, Bars
    <3>1. /\ Cardinality(Bars(t)) \in 0 .. MaxPipes
          /\ gen' = gen + 1 /\ gen \in 0 .. Lines /\ gen' \in Gens
          /\ npipes' = [npipes EXCEPT ![gen'] = Cardinality(Bars(t))]
          /\ npipes' \in [Gens -> 0 .. MaxPipes]
      BY <2>1, <3>0 DEF ReadLine, ShellTypeOK, Gens
    <3>2. ShellTypeOK'
      BY <2>1, <3>1 DEF ReadLine, ShellTypeOK
    <3>3. ChildTypeOK'
      BY <2>1, DataKept DEF ReadLine
    <3>4. Counts'
      BY <2>1, <3>1 DEF ReadLine, Counts
    <3>5. ToCome'
      BY <2>1, <3>1 DEF ReadLine, ToCome, Children, Gens
    <3>6. ShellEnds'
      BY <2>1 DEF ReadLine, ShellEnds
    <3>7. ChildEnds'
      <4>1. \A c \in Children : proc[c] # "none" => InEnd(c)' = InEnd(c) /\ OutEnd(c)' = OutEnd(c)
        BY <2>1, <3>1 DEF ToCome, InEnd, OutEnd, ShellTypeOK, Children, Gens
      <4> QED BY <2>1, <4>1 DEF ReadLine, ChildEnds
    <3> QED BY <3>2, <3>3, <3>4, <3>5, <3>6, <3>7
  <2>2. ASSUME MakePipe PROVE PInv'
    <3>1. /\ 2 * i \in Ends /\ 2 * i + 1 \in Ends /\ gen \in Gens /\ i' = i + 1
          /\ i \in Nat /\ i < npipes[gen] /\ npipes[gen] \in 0 .. MaxPipes
          /\ stage = "pipe"
      BY <2>2 DEF MakePipe, ShellTypeOK, Ends, Counts
    <3>2. UNCHANGED <<stage, gen, tokens, start, npipes, proc>>
      BY <2>2 DEF MakePipe
    <3>3. open' \in [Gens -> [Ends -> SUBSET (Children \cup {Shell})]]
      BY <2>2, <3>1 DEF MakePipe, ShellTypeOK
    <3>4. ShellTypeOK' /\ ChildTypeOK'
      BY <2>2, <3>1, <3>2, <3>3, DataKept DEF MakePipe, ShellTypeOK
    <3>5. Counts' /\ ToCome'
      BY <3>1, <3>2 DEF Counts, ToCome
    <3>6. \A g \in Gens : \A e \in Ends :
            open'[g][e] = IF g = gen /\ e \in {2 * i, 2 * i + 1} THEN {Shell} ELSE open[g][e]
      BY <2>2, <3>1 DEF MakePipe, ShellTypeOK
    <3>7. ShellEnds'
      BY <3>1, <3>2, <3>6 DEF ShellEnds, Ends
    <3>8. Shell \notin Children
      BY DEF Shell, Children, Gens
    <3>9. ChildEnds'
      BY <3>2, <3>6, <3>8 DEF ChildEnds, InEnd, OutEnd
    <3> QED BY <3>4, <3>5, <3>7, <3>9
  <2>3. ASSUME PipeFails PROVE PInv'
    <3>1. /\ open' = [open EXCEPT ![gen] =
                        [e \in Ends |-> IF e < 2 * i THEN @[e] \ {Shell} ELSE @[e]]]
          /\ stage = "pipe" /\ gen \in Gens
      BY <2>3 DEF PipeFails, Counts
    <3>2. \A g \in Gens : \A e \in Ends :
            open'[g][e] = IF g = gen /\ e < 2 * i THEN open[g][e] \ {Shell} ELSE open[g][e]
      BY <3>1 DEF ShellTypeOK
    <3>3. open' \in [Gens -> [Ends -> SUBSET (Children \cup {Shell})]]
      BY <3>1 DEF ShellTypeOK
    <3>4. \A g \in Gens : \A e \in Ends :
            open'[g][e] \subseteq open[g][e] /\ Shell \notin open'[g][e]
      <4>1. \A g \in Gens : \A e \in Ends :
              Shell \in open[g][e] => g = gen /\ e < 2 * i
        BY <3>1 DEF ShellEnds
      <4> QED BY <3>2, <4>1
    <3> QED BY <2>3, <3>3, <3>4, ShellLeaves DEF PipeFails, Prompt
  <2>4. ASSUME PipesMade PROVE PInv'
    <3>1. UNCHANGED <<gen, tokens, start, npipes, open, proc, reaped, command, dataVars>>
      BY <2>4 DEF PipesMade
    <3>2. /\ stage = "pipe" /\ i = npipes[gen] /\ stage' = "fork" /\ i' = 0
          /\ gen \in Gens /\ npipes[gen] \in 0 .. MaxPipes
      BY <2>4 DEF PipesMade, Counts, ShellTypeOK
    <3>3. ShellTypeOK' /\ ChildTypeOK'
      BY <3>1, <3>2, DataKept DEF ShellTypeOK
    <3>4. Counts' /\ ToCome' /\ ShellEnds' /\ ChildEnds'
      BY <3>1, <3>2 DEF Counts, ToCome, ShellEnds, ChildEnds, InEnd, OutEnd
    <3> QED BY <3>3, <3>4
  <2>5. ASSUME Fork PROVE PInv'
    <3> DEFINE c == <<gen, i>>
    <3>1. /\ stage = "fork" /\ gen \in Gens /\ i \in Nat /\ i <= npipes[gen]
          /\ npipes[gen] \in 0 .. MaxPipes /\ tokens \in CommandLines /\ start \in Nat
          /\ i' = i + 1
      BY <2>5 DEF Fork, Counts, ShellTypeOK
    <3>2. c \in Children /\ c[1] = gen /\ c[2] = i /\ proc[c] = "none"
      BY <3>1 DEF ToCome, Children
    <3>3. /\ proc' = [proc EXCEPT ![c] = "forked"]
          /\ command' = [command EXCEPT ![c] = Slice(tokens, start)]
          /\ start' = CommandEnd(tokens, start) + 1
          /\ UNCHANGED <<stage, gen, tokens, npipes, reaped>>
          /\ UNCHANGED <<buf, hand, made, out>>
      BY <2>5 DEF Fork, dataVars
    <3>4. open' = [g \in Gens |-> [e \in Ends |->
                    IF Shell \in open[g][e] THEN open[g][e] \cup {c} ELSE open[g][e]]]
      BY <2>5 DEF Fork
    <3>5. start' \in Nat /\ Slice(tokens, start) \in Seq(Nat)
      <4>1. CommandEnd(tokens, start) \in Nat /\ Slice(tokens, start) \in Seq(Nat)
        BY <3>1, CommandEndNat
      <4> HIDE DEF c
      <4> QED BY <3>3, <4>1
    <3> HIDE DEF c
    <3>6. open' \in [Gens -> [Ends -> SUBSET (Children \cup {Shell})]]
      BY <3>2, <3>4 DEF ShellTypeOK
    <3>7. ShellTypeOK'
      BY <3>1, <3>3, <3>5, <3>6 DEF ShellTypeOK
    <3>8. ChildTypeOK'
      BY <3>2, <3>3, <3>5 DEF ChildTypeOK, Ended
    <3>9. Counts'
      BY <3>1, <3>3 DEF Counts
    <3>10. ToCome'
      <4>1. \A d \in Children : d # c => proc'[d] = proc[d]
        BY <3>2, <3>3 DEF ChildTypeOK
      <4>2. \A d \in Children : d[1] = gen /\ d[2] >= i + 1 => d # c
        BY <3>1, <3>2 DEF Children
      <4>3. \A d \in Children : d[1] > gen => d # c
        BY <3>1, <3>2 DEF Children, Gens
      <4>4. \A d \in Children : d[2] >= i + 1 => d[2] >= i
        BY <3>1 DEF Children
      <4>5. ~(c[2] > npipes[c[1]])
        BY <3>1, <3>2
      <4> QED BY <3>1, <3>3, <4>1, <4>2, <4>3, <4>4, <4>5 DEF ToCome
    <3>11. ShellEnds'
      <4>1. c # Shell
        BY <3>2 DEF Shell, Children, Gens
      <4> QED BY <3>1, <3>3, <3>4, <4>1 DEF ShellEnds
    <3>12. ChildEnds'
      <4>1. \A d \in Children : InEnd(d)' = InEnd(d) /\ OutEnd(d)' = OutEnd(d)
        BY <3>3 DEF InEnd, OutEnd
      <4>2. \A g \in Gens : \A e \in Ends : c \in open'[g][e] => g = gen
        BY <3>2, <3>4 DEF ShellEnds, ChildEnds
      <4>3. \A d \in Children \ {c} : \A g \in Gens : \A e \in Ends :
              d \in open'[g][e] => d \in open[g][e] /\ proc'[d] = proc[d]
        BY <3>3, <3>4 DEF ChildTypeOK
      <4>4. proc'[c] = "forked"
        BY <3>2, <3>3 DEF ChildTypeOK
      <4> QED BY <3>2, <4>1, <4>2, <4>3, <4>4 DEF ChildEnds
    <3> QED BY <3>7, <3>8, <3>9, <3>10, <3>11, <3>12
  <2>6. ASSUME CommandFails \/ Forked PROVE PInv'
    BY <2>6, ClosesAll, ShellLeaves DEF CommandFails, Forked, Prompt
  <2>7. ASSUME Wait PROVE PInv'
    <3>1. UNCHANGED <<stage, gen, tokens, start, npipes, open, proc, command, dataVars>>
      BY <2>7 DEF Wait
    <3>2. /\ stage = "wait" /\ i \in Nat /\ i <= npipes[gen] /\ i' = i + 1
          /\ gen \in Gens /\ npipes[gen] \in 0 .. MaxPipes
      BY <2>7 DEF Wait, Counts, ShellTypeOK
    <3>3. reaped' \subseteq {d \in Children : Ended(d)}
      BY <2>7 DEF Wait, ChildTypeOK
    <3>4. ShellTypeOK'
      BY <3>1, <3>2 DEF ShellTypeOK
    <3>5. ChildTypeOK'
      BY <3>1, <3>3 DEF ChildTypeOK, Ended, dataVars
    <3>6. Counts' /\ ToCome' /\ ShellEnds' /\ ChildEnds'
      BY <3>1, <3>2 DEF Counts, ToCome, ShellEnds, ChildEnds, InEnd, OutEnd
    <3> QED BY <3>4, <3>5, <3>6
  <2>8. ASSUME Waited PROVE PInv'
    <3>1. open' = open /\ open \in [Gens -> [Ends -> SUBSET (Children \cup {Shell})]]
      BY <2>8 DEF Waited, ShellTypeOK
    <3>2. \A g \in Gens : \A e \in Ends : Shell \notin open'[g][e]
      BY <2>8, <3>1 DEF Waited, ShellEnds
    <3> QED BY <2>8, <3>1, <3>2, ShellLeaves DEF Waited, Prompt
  <2>9. ASSUME NEW c \in Children, Execs(c) PROVE PInv'
    <3>1. /\ proc[c] = "forked" /\ proc' = [proc EXCEPT ![c] = "running"]
          /\ command' = [command EXCEPT ![c] = <<>>]
          /\ UNCHANGED shellVars /\ UNCHANGED <<reaped, buf, hand, made, out>>
      BY <2>9 DEF Execs, dataVars
    <3>2. c[1] \in Gens
      BY DEF Children
    <3>3. open' \in [Gens -> [Ends -> SUBSET (Children \cup {Shell})]]
      BY <2>9, <3>2 DEF Execs, Keeps, ShellTypeOK
    <3>4. \A g \in Gens : \A e \in Ends :
            open'[g][e] = IF g = c[1] /\ e \notin {InEnd(c), OutEnd(c)}
                          THEN open[g][e] \ {c} ELSE open[g][e]
      BY <2>9, <3>2 DEF Execs, Keeps, ShellTypeOK
    <3>5. ShellTypeOK'
      BY <3>1, <3>3 DEF ShellTypeOK, shellVars
    <3>6. ChildTypeOK'
      BY <3>1 DEF ChildTypeOK, Ended
    <3>7. Counts' /\ ToCome'
      BY <3>1 DEF Counts, ToCome, shellVars, ChildTypeOK
    <3>8. ShellEnds'
      <4>1. \A g \in Gens : \A e \in Ends : open'[g][e] \subseteq open[g][e]
        BY <3>4
      <4> QED BY <3>1, <4>1 DEF ShellEnds, shellVars
    <3>9. ChildEnds'
      <4>1. \A d \in Children : InEnd(d)' = InEnd(d) /\ OutEnd(d)' = OutEnd(d)
        BY <3>1 DEF InEnd, OutEnd, shellVars
      <4>2. \A d \in Children \ {c} : \A g \in Gens : \A e \in Ends :
              d \in open'[g][e] => d \in open[g][e] /\ proc'[d] = proc[d]
        BY <3>1, <3>4 DEF ChildTypeOK
      <4>3. \A g \in Gens : \A e \in Ends :
              c \in open'[g][e] => c \in open[g][e] /\ (g = c[1] => e \in {InEnd(c), OutEnd(c)})
        BY <3>4
      <4>4. proc'[c] = "running"
        BY <3>1 DEF ChildTypeOK
      <4> QED BY <4>1, <4>2, <4>3, <4>4 DEF ChildEnds
    <3> QED BY <3>5, <3>6, <3>7, <3>8, <3>9
  <2>10. ASSUME NEW c \in Children, ExecFails(c) PROVE PInv'
    <3>1. command' \in [Children -> Seq(Nat)]
      BY <2>10 DEF ExecFails, ChildTypeOK
    <3> QED BY <2>10, <3>1, ExitsKeeps DEF ExecFails
  <2>11. ASSUME NEW c \in Children, Broken(c) \/ Finish(c) \/ Quits(c) PROVE PInv'
    <3>1. command' \in [Children -> Seq(Nat)]
      BY <2>11 DEF Broken, Finish, Quits, ChildTypeOK
    <3> QED BY <2>11, <3>1, ExitsKeeps DEF Broken, Finish, Quits
  <2>12. ASSUME NEW c \in Children, Make(c) PROVE PInv'
    <3>1. c[1] \in Gens /\ made[c[1]] \in 0 .. Items
      BY DEF Children, ChildTypeOK
    <3>2. made[c[1]] + 1 \in 1 .. Items
      BY <2>12, <3>1 DEF Make
    <3>3. ChildTypeOK'
      BY <2>12, <3>1, <3>2 DEF Make, ChildTypeOK, Ended
    <3> QED BY <2>12, <3>3, ProgramKeeps DEF Make
  <2>13. ASSUME NEW c \in Children, Read(c) PROVE PInv'
    <3> DEFINE b == buf[c[1]][InPipe(c)]
    <3>1. c[1] \in Gens /\ InPipe(c) \in 0 .. MaxPipes - 1
      BY <2>13 DEF Read, Children, InPipe
    <3>2. b \in Seq(1 .. Items) /\ b # <<>> /\ Len(b) <= Capacity
      BY <2>13, <3>1 DEF Read, ChildTypeOK
    <3> HIDE DEF b
    <3>3. Head(b) \in 1 .. Items /\ Tail(b) \in Seq(1 .. Items) /\ Len(Tail(b)) <= Capacity
      BY <3>2
    <3>4. /\ hand' = [hand EXCEPT ![c] = <<Head(b)>>]
          /\ buf' = [buf EXCEPT ![c[1]][InPipe(c)] = Tail(b)]
          /\ UNCHANGED <<proc, reaped, command, made, out>>
      BY <2>13, <3>1 DEF Read, ChildTypeOK, b
    <3>5. ChildTypeOK'
      <4>1. hand' \in [Children -> {<<>>} \cup {<<x>> : x \in 1 .. Items}]
        BY <3>3, <3>4 DEF ChildTypeOK
      <4>2. /\ buf' \in [Gens -> [0 .. MaxPipes - 1 -> Seq(1 .. Items)]]
            /\ \A g \in Gens : \A k \in 0 .. MaxPipes - 1 : Len(buf'[g][k]) <= Capacity
        BY <3>1, <3>3, <3>4, BufUpdate DEF ChildTypeOK
      <4> QED BY <3>4, <4>1, <4>2 DEF ChildTypeOK, Ended
    <3> QED BY <2>13, <3>5, ProgramKeeps DEF Read
  <2>14. ASSUME NEW c \in Children, Write(c) PROVE PInv'
    <3> DEFINE b == buf[c[1]][OutPipe(c)]
    <3>1. c[1] \in Gens /\ OutPipe(c) \in 0 .. MaxPipes - 1
      <4>1. c[1] \in Gens /\ c[2] \in 0 .. MaxPipes
        BY DEF Children
      <4>2. npipes[c[1]] \in 0 .. MaxPipes
        BY <4>1 DEF ShellTypeOK
      <4>3. c[2] # npipes[c[1]] /\ ~(c[2] > npipes[c[1]])
        BY <2>14 DEF Write, OutEnd, ToCome
      <4> QED BY <4>1, <4>2, <4>3 DEF OutPipe
    <3>2. b \in Seq(1 .. Items) /\ Len(b) < Capacity /\ hand[c] \in {<<x>> : x \in 1 .. Items}
      BY <2>14, <3>1 DEF Write, ChildTypeOK
    <3> HIDE DEF b
    <3>3. b \o hand[c] \in Seq(1 .. Items) /\ Len(b \o hand[c]) <= Capacity
      <4>1. PICK x \in 1 .. Items : hand[c] = <<x>>
        BY <3>2
      <4>2. hand[c] \in Seq(1 .. Items) /\ Len(hand[c]) = 1
        BY <4>1
      <4>3. Len(b) \in Nat /\ b \in Seq(1 .. Items) /\ Len(b) < Capacity
        BY <3>2
      <4> DEFINE h == hand[c]
      <4> HIDE DEF h
      <4>4. b \o h \in Seq(1 .. Items) /\ Len(b \o h) = Len(b) + Len(h)
        BY <4>2, <4>3, ConcatProperties, Zenon DEF h
      <4> QED BY <4>2, <4>3, <4>4 DEF h
    <3>4. /\ hand' = [hand EXCEPT ![c] = <<>>]
          /\ buf' = [buf EXCEPT ![c[1]][OutPipe(c)] = b \o hand[c]]
          /\ UNCHANGED <<proc, reaped, command, made, out>>
      BY <2>14, <3>1 DEF Write, ChildTypeOK, b
    <3>5. ChildTypeOK'
      <4>1. hand' \in [Children -> {<<>>} \cup {<<x>> : x \in 1 .. Items}]
        BY <3>4 DEF ChildTypeOK
      <4>2. /\ buf' \in [Gens -> [0 .. MaxPipes - 1 -> Seq(1 .. Items)]]
            /\ \A g \in Gens : \A k \in 0 .. MaxPipes - 1 : Len(buf'[g][k]) <= Capacity
        BY <3>1, <3>3, <3>4, BufUpdate DEF ChildTypeOK
      <4> QED BY <3>4, <4>1, <4>2 DEF ChildTypeOK, Ended
    <3> QED BY <2>14, <3>5, ProgramKeeps DEF Write
  <2>15. ASSUME NEW c \in Children, WriteOut(c) PROVE PInv'
    <3>1. /\ out' = [out EXCEPT ![c[1]] = @ \o hand[c]]
          /\ hand' = [hand EXCEPT ![c] = <<>>]
          /\ UNCHANGED <<proc, reaped, command, buf, made>>
      BY <2>15 DEF WriteOut
    <3>2. c[1] \in Gens /\ out[c[1]] \o hand[c] \in Seq(1 .. Items)
      <4>1. c[1] \in Gens /\ out[c[1]] \in Seq(1 .. Items)
        BY DEF Children, ChildTypeOK
      <4>2. hand[c] \in {<<>>} \cup {<<x>> : x \in 1 .. Items}
        BY DEF ChildTypeOK
      <4>3. hand[c] \in Seq(1 .. Items)
        <5>1. CASE hand[c] = <<>>
          BY <5>1
        <5>2. ASSUME NEW x \in 1 .. Items, hand[c] = <<x>> PROVE hand[c] \in Seq(1 .. Items)
          BY <5>2
        <5> QED BY <4>2, <5>1, <5>2
      <4> QED BY <4>1, <4>3, ConcatProperties, Zenon
    <3>3. ChildTypeOK'
      BY <3>1, <3>2 DEF ChildTypeOK, Ended
    <3> QED BY <2>15, <3>3, ProgramKeeps DEF WriteOut
  <2>16. CASE UNCHANGED vars
    <3>1. ChildTypeOK'
      BY <2>16, DataKept DEF vars
    <3> QED BY <2>16, <3>1, ProgramKeeps DEF vars
  <2> QED
    BY <2>1, <2>2, <2>3, <2>4, <2>5, <2>6, <2>7, <2>8, <2>9, <2>10, <2>11, <2>12, <2>13,
       <2>14, <2>15, <2>16 DEF PipeNext, ShellStep, ShellFails, ProgramStep
<1> QED BY <1>1, <1>2, PTL DEF PipeSpec

\* The state keeps its shape: no count passes its bound, and only children that have
\* ended are reaped.
THEOREM PipeTypeCorrect == PipeSpec => []PipeTypeOK
<1>1. PInv => PipeTypeOK
  BY DEF PInv
<1> QED BY <1>1, PipeInvariant, PTL

\* swish_funcs.c:162, 217, 251: at the prompt the shell has no pipe end open, and a
\* program only its own two.
THEOREM OwnEnds == PipeSpec => []OwnEndsOnly
<1>1. PInv => OwnEndsOnly
  BY DEF PInv, ShellEnds, ChildEnds, OwnEndsOnly
<1> QED BY <1>1, PipeInvariant, PTL

-------------------------------------------------------------------------------
(* No child is left.  Up to a fork that failed, the children of the earlier   *)
(* pipelines are all reaped, so the waits of a pipeline return its own: their *)
(* number is the number of its reaped children.                               *)

Clean(n) == \A g \in 1 .. n : ~Stunted(g)
ReapedPlaces == {n \in 0 .. npipes[gen] : <<gen, n>> \in reaped}

EarlierReaped ==
  Clean(gen - 1) => \A c \in Children : c[1] < gen /\ proc[c] # "none" => c \in reaped
ReapedEarlier ==
  stage \in {"pipe", "fork"} => \A c \in reaped : c[1] < gen
AllForked ==
  /\ stage = "fork" => \A n \in 0 .. i - 1 : proc[<<gen, n>>] # "none"
  /\ stage = "wait" => \A n \in 0 .. npipes[gen] : proc[<<gen, n>>] # "none"
WaitsCount ==
  stage = "wait" /\ Clean(gen - 1) => Cardinality(ReapedPlaces) = i

Settled == EarlierReaped /\ ReapedEarlier /\ AllForked /\ WaitsCount /\ NothingLeft

\* A child's own steps leave it a child.
LEMMA ChildrenStay ==
  ASSUME PInv, Settled, UNCHANGED <<shellVars, reaped>>,
         \A c \in Children : proc'[c] = "none" <=> proc[c] = "none"
  PROVE  Settled'
<1>1. UNCHANGED <<stage, gen, tokens, start, i, npipes, reaped>>
  BY DEF shellVars
<1>2. \A g \in Gens : Stunted(g)' = Stunted(g)
  <2>1. \A g \in Gens : <<g, 0>> \in Children /\ <<g, npipes[g]>> \in Children
    BY PipesAssumption DEF PInv, PipeTypeOK, ShellTypeOK, Children
  <2> QED BY <1>1, <2>1 DEF Stunted
<1>3. gen \in 0 .. Lines /\ npipes \in [Gens -> 0 .. MaxPipes]
  BY DEF PInv, PipeTypeOK, ShellTypeOK
<1>4. Clean(gen - 1)' = Clean(gen - 1) /\ Clean(gen)' = Clean(gen)
  BY <1>1, <1>2, <1>3, LinesAssumption DEF Clean, Gens
<1>5. NothingLeft'
  BY <1>1, <1>4 DEF Settled, NothingLeft, Clean
<1>6. AllForked'
  BY <1>1, <1>3, PipesAssumption
  DEF Settled, AllForked, PInv, Counts, Children, PipeTypeOK, ShellTypeOK
<1>7. EarlierReaped' /\ ReapedEarlier' /\ WaitsCount'
  BY <1>1, <1>4 DEF Settled, EarlierReaped, ReapedEarlier, WaitsCount, ReapedPlaces
<1> QED BY <1>5, <1>6, <1>7 DEF Settled

\* What a step of the shell other than ReadLine, Fork and Wait leaves alone.
LEMMA EarlierStay ==
  ASSUME Settled, UNCHANGED <<gen, npipes, proc, reaped>>
  PROVE  EarlierReaped' /\ Clean(gen)' = Clean(gen) /\ Clean(gen - 1)' = Clean(gen - 1)
BY DEF Settled, EarlierReaped, Clean, Stunted

\* Each step keeps the count of the waits.
LEMMA SettledStep ==
  ASSUME PInv, Settled, PipeNext
  PROVE  Settled'
<1> USE PipesAssumption, LinesAssumption
<1>0. /\ gen \in 0 .. Lines /\ npipes \in [Gens -> 0 .. MaxPipes] /\ i \in Nat
      /\ proc \in [Children -> {"none", "forked", "running", "done", "cut"}]
      /\ reaped \subseteq {c \in Children : Ended(c)}
      /\ stage # "prompt" => gen \in Gens
  BY DEF PInv, PipeTypeOK, ShellTypeOK, ChildTypeOK, Counts
<1>a. \A c \in Children : c[1] \in Gens /\ c[2] \in 0 .. MaxPipes /\ c = <<c[1], c[2]>>
  BY DEF Children
<1>b. \A c \in Children : c[1] > gen \/ c[2] > npipes[c[1]] => proc[c] = "none"
  BY DEF PInv, ToCome
<1>c. Clean(gen) => Clean(gen - 1)
  BY <1>0 DEF Clean
<1>1. ASSUME NEW t \in CommandLines, ReadLine(t) PROVE Settled'
  <2>1. /\ gen' = gen + 1 /\ stage = "prompt" /\ stage' = "pipe"
        /\ UNCHANGED <<proc, reaped>>
        /\ npipes' = [npipes EXCEPT ![gen'] = Cardinality(Bars(t))]
    BY <1>1 DEF ReadLine, Bars, strvec_num_occurrences
  <2>2. Clean(gen - 1)' => Clean(gen)
    <3>1. \A g \in 1 .. gen : npipes'[g] = npipes[g]
      BY <1>0, <2>1 DEF Gens
    <3>2. \A g \in 1 .. gen : Stunted(g)' = Stunted(g)
      BY <2>1, <3>1 DEF Stunted
    <3>3. gen' - 1 = gen
      BY <1>0, <2>1
    <3> QED BY <3>2, <3>3 DEF Clean
  <2>3. EarlierReaped'
    BY <2>1, <2>2 DEF Settled, NothingLeft, EarlierReaped, Clean
  <2>4. ReapedEarlier'
    <3>1. \A c \in reaped : ~(c[1] > gen)
      BY <1>0, <1>b DEF Ended
    <3> QED BY <1>0, <1>a, <2>1, <3>1 DEF ReapedEarlier, Gens
  <2> QED BY <2>1, <2>3, <2>4 DEF Settled, AllForked, WaitsCount, NothingLeft
<1>2. ASSUME MakePipe \/ PipesMade PROVE Settled'
  <2>1. /\ UNCHANGED <<gen, npipes, proc, reaped>>
        /\ stage = "pipe" /\ (stage' = "pipe" \/ (stage' = "fork" /\ i' = 0))
    BY <1>2 DEF MakePipe, PipesMade
  <2> QED BY <2>1, EarlierStay DEF Settled, ReapedEarlier, AllForked, WaitsCount, NothingLeft
<1>3. ASSUME PipeFails PROVE Settled'
  <2>1. UNCHANGED <<gen, npipes, proc, reaped>> /\ stage = "pipe" /\ stage' = "prompt"
    BY <1>3 DEF PipeFails, Prompt
  <2>2. \A c \in Children : c[1] >= gen => proc[c] = "none"
    BY <1>0, <1>a, <2>1 DEF PInv, ToCome, Gens
  <2>3. \A c \in Children : c[1] < gen \/ c[1] >= gen
    BY <1>0, <1>a DEF Gens
  <2>4. NothingLeft'
    BY <1>c, <2>1, <2>2, <2>3, EarlierStay DEF Settled, EarlierReaped, NothingLeft, Clean
  <2> QED BY <2>1, <2>4, EarlierStay DEF Settled, ReapedEarlier, AllForked, WaitsCount
<1>4. ASSUME Fork PROVE Settled'
  <2>1. /\ proc' = [proc EXCEPT ![<<gen, i>>] = "forked"] /\ i' = i + 1
        /\ UNCHANGED <<stage, gen, npipes, reaped>> /\ stage = "fork" /\ gen \in Gens
    BY <1>0, <1>4 DEF Fork
  <2>2. \A g \in 1 .. gen - 1 : Stunted(g)' = Stunted(g)
    BY <1>0, <2>1 DEF Stunted, Children, Gens
  <2>3. EarlierReaped'
    <3>1. Clean(gen - 1)' = Clean(gen - 1)
      BY <2>1, <2>2 DEF Clean
    <3>2. \A c \in Children : c[1] < gen => proc'[c] = proc[c]
      BY <1>0, <1>a, <2>1
    <3> QED BY <2>1, <3>1, <3>2 DEF Settled, EarlierReaped
  <2>4. AllForked'
    <3>1. <<gen, i>> \in Children
      BY <1>0, <1>4, <2>1 DEF Fork, Children
    <3>2. \A n \in 0 .. i - 1 : proc'[<<gen, n>>] # "none"
      BY <1>0, <2>1, <3>1 DEF Settled, AllForked, Children
    <3>3. proc'[<<gen, i>>] # "none"
      BY <1>0, <2>1, <3>1
    <3> QED BY <1>0, <2>1, <3>2, <3>3 DEF AllForked
  <2> QED BY <2>1, <2>3, <2>4 DEF Settled, ReapedEarlier, WaitsCount, NothingLeft
<1>5. ASSUME CommandFails PROVE Settled'
  <2>1. /\ UNCHANGED <<gen, npipes, proc, reaped>> /\ stage = "fork" /\ stage' = "prompt"
        /\ i <= npipes[gen] /\ gen \in Gens
    BY <1>0, <1>5 DEF CommandFails, Prompt
  <2>2. <<gen, 0>> \in Children /\ <<gen, npipes[gen]>> \in Children
    BY <1>0, <2>1 DEF Children
  <2>3. proc[<<gen, npipes[gen]>>] = "none"
    BY <2>1, <2>2 DEF PInv, ToCome
  <2>4. ~Stunted(gen) => i = 0
    BY <1>0, <2>1, <2>3 DEF Settled, AllForked, Stunted
  <2>5. Clean(gen) => \A c \in Children : c[1] >= gen => proc[c] = "none"
    <3>1. Clean(gen) => ~Stunted(gen)
      BY <2>1 DEF Clean, Gens
    <3> QED BY <1>0, <1>a, <2>1, <2>4, <3>1 DEF PInv, ToCome, Gens
  <2>6. \A c \in Children : c[1] < gen \/ c[1] >= gen
    BY <1>0, <1>a DEF Gens
  <2>7. NothingLeft'
    BY <1>c, <2>1, <2>5, <2>6, EarlierStay DEF Settled, EarlierReaped, NothingLeft, Clean
  <2> QED BY <2>1, <2>7, EarlierStay DEF Settled, ReapedEarlier, AllForked, WaitsCount
<1>6. ASSUME Forked PROVE Settled'
  <2>1. /\ UNCHANGED <<gen, npipes, proc, reaped>> /\ stage = "fork" /\ stage' = "wait"
        /\ i = npipes[gen] + 1 /\ i' = 0 /\ gen \in Gens
    BY <1>0, <1>6 DEF Forked
  <2>2. AllForked'
    BY <1>0, <2>1 DEF Settled, AllForked
  <2>3. ReapedPlaces' = {}
    <3>1. \A n \in 0 .. npipes[gen] : <<gen, n>> \notin reaped
      BY <2>1 DEF Settled, ReapedEarlier, Gens
    <3> QED BY <2>1, <3>1 DEF ReapedPlaces
  <2>4. WaitsCount'
    BY <2>1, <2>3, FS_EmptySet DEF WaitsCount
  <2> QED BY <2>1, <2>2, <2>4, EarlierStay DEF Settled, ReapedEarlier, NothingLeft
<1>7. ASSUME Wait PROVE Settled'
  <2>1. PICK c \in Children \ reaped : Ended(c) /\ reaped' = reaped \cup {c}
    BY <1>7 DEF Wait
  <2>2. /\ UNCHANGED <<stage, gen, npipes, proc>> /\ stage = "wait" /\ i' = i + 1
        /\ gen \in Gens
    BY <1>0, <1>7 DEF Wait
  <2>3. Clean(gen - 1)' = Clean(gen - 1)
    BY <2>2 DEF Clean, Stunted
  <2>4. EarlierReaped' /\ AllForked'
    BY <2>1, <2>2, <2>3 DEF Settled, EarlierReaped, AllForked
  <2>5. WaitsCount'
    <3>1. SUFFICES ASSUME Clean(gen - 1) PROVE Cardinality(ReapedPlaces') = i + 1
      BY <2>2, <2>3 DEF WaitsCount
    <3>2. c[1] = gen /\ c[2] \in 0 .. npipes[gen] /\ c = <<gen, c[2]>>
      <4>1. proc[c] # "none"
        BY <2>1 DEF Ended
      <4>2. ~(c[1] < gen)
        BY <2>1, <3>1, <4>1 DEF Settled, EarlierReaped
      <4>3. ~(c[1] > gen) /\ ~(c[2] > npipes[c[1]])
        BY <1>b, <2>1, <4>1
      <4> QED BY <1>0, <1>a, <2>1, <2>2, <4>2, <4>3 DEF Gens
    <3>3. ReapedPlaces' = ReapedPlaces \cup {c[2]} /\ c[2] \notin ReapedPlaces
      BY <2>1, <2>2, <3>2 DEF ReapedPlaces
    <3>4. IsFiniteSet(ReapedPlaces)
      <4>1. ReapedPlaces \in SUBSET (0 .. npipes[gen]) /\ npipes[gen] \in Int
        BY <1>0, <2>2 DEF ReapedPlaces
      <4>2. IsFiniteSet(0 .. npipes[gen])
        BY <4>1, FS_Interval
      <4> QED BY <4>1, <4>2, FS_Subset
    <3>5. Cardinality(ReapedPlaces) = i
      BY <2>2, <3>1 DEF Settled, WaitsCount
    <3> QED BY <3>3, <3>4, <3>5, FS_AddElement
  <2> QED BY <2>2, <2>4, <2>5 DEF Settled, ReapedEarlier, NothingLeft
<1>8. ASSUME Waited PROVE Settled'
  <2>1. /\ UNCHANGED <<gen, npipes, proc, reaped>> /\ stage = "wait" /\ stage' = "prompt"
        /\ i = npipes[gen] + 1 /\ gen \in Gens /\ npipes[gen] \in Nat
    BY <1>0, <1>8 DEF Waited, Prompt
  <2>2. Clean(gen) => \A n \in 0 .. npipes[gen] : <<gen, n>> \in reaped
    <3>1. SUFFICES ASSUME Clean(gen) PROVE ReapedPlaces = 0 .. npipes[gen]
      BY DEF ReapedPlaces
    <3>2. Cardinality(ReapedPlaces) = npipes[gen] + 1
      BY <1>c, <2>1, <3>1 DEF Settled, WaitsCount
    <3>3. IsFiniteSet(0 .. npipes[gen]) /\ Cardinality(0 .. npipes[gen]) = npipes[gen] + 1
      <4>1. npipes[gen] \in Int /\ ~(0 > npipes[gen])
        BY <2>1
      <4> QED BY <2>1, <4>1, FS_Interval
    <3>4. ReapedPlaces \in SUBSET (0 .. npipes[gen])
      BY DEF ReapedPlaces
    <3> QED BY <3>2, <3>3, <3>4, FS_Subset
  <2>3. Clean(gen) => \A c \in Children : proc[c] # "none" => c \in reaped
    <3>1. SUFFICES ASSUME Clean(gen), NEW c \in Children, proc[c] # "none" PROVE c \in reaped
      OBVIOUS
    <3>2. CASE c[1] < gen
      BY <1>c, <3>1, <3>2 DEF Settled, EarlierReaped
    <3>3. CASE ~(c[1] < gen)
      <4>1. c[1] = gen /\ c[2] \in 0 .. npipes[gen]
        BY <1>0, <1>a, <1>b, <2>1, <3>1, <3>3 DEF Gens
      <4> QED BY <1>a, <2>2, <3>1, <4>1
    <3> QED BY <3>2, <3>3
  <2>4. NothingLeft'
    BY <2>1, <2>3, EarlierStay DEF NothingLeft, Clean
  <2> QED BY <2>1, <2>4, EarlierStay DEF Settled, ReapedEarlier, AllForked, WaitsCount
<1>9. ASSUME NEW c \in Children,
             Execs(c) \/ ExecFails(c) \/ ProgramStep(c) \/ Quits(c)
      PROVE  Settled'
  <2>1. UNCHANGED <<shellVars, reaped>>
    BY <1>9 DEF Execs, ExecFails, ProgramStep, Quits, Make, Read, Write, WriteOut, Broken,
                Finish, Exits
  <2>2. proc' = proc \/ (proc[c] # "none" /\ \E s \in {"running", "done", "cut"} :
                           proc' = [proc EXCEPT ![c] = s])
    BY <1>9 DEF Execs, ExecFails, ProgramStep, Quits, Make, Read, Write, WriteOut, Broken,
                Finish, Exits
  <2>3. \A d \in Children : proc'[d] = "none" <=> proc[d] = "none"
    BY <1>0, <2>2
  <2> QED BY <2>1, <2>3, ChildrenStay
<1> QED
  BY <1>1, <1>2, <1>3, <1>4, <1>5, <1>6, <1>7, <1>8, <1>9 DEF PipeNext, ShellStep, ShellFails

\* swish_funcs.c:255: at the prompt no child is left, unless a fork failed in this
\* pipeline or in one before.
THEOREM NoChildLeft == PipeSpec => []NothingLeft
<1>1. PipeInit => Settled
  BY DEF PipeInit, Settled, EarlierReaped, ReapedEarlier, AllForked, WaitsCount, NothingLeft
<1>2. PInv /\ Settled /\ [PipeNext]_vars => Settled'
  <2>1. ASSUME PInv, Settled, UNCHANGED vars PROVE Settled'
    BY <2>1, ChildrenStay DEF vars
  <2> QED BY <2>1, SettledStep
<1>3. Settled => NothingLeft
  BY DEF Settled
<1> QED BY <1>1, <1>2, <1>3, PipeInvariant, PTL DEF PipeSpec

-------------------------------------------------------------------------------
(* Nothing is lost.  As long as no program of a pipeline was cut short, there *)
(* are counts r[n] and w[n] of what its program n has read and written, and   *)
(* what lies between two counts is in a pipe or in a program's hand.          *)

Span(a, b) == [k \in 1 .. b - a |-> a + k]

Counters == [0 .. MaxPipes -> 0 .. Items]

Carried(g, r, w) ==
  /\ proc[<<g, 0>>] # "done" => r[0] = made[g]
  /\ \A n \in 0 .. npipes[g] :
       /\ w[n] <= r[n]
       /\ hand[<<g, n>>] = Span(w[n], r[n])
       /\ proc[<<g, n>>] = "none" => r[n] = 0
       /\ proc[<<g, n>>] = "done" => w[n] = Items
  /\ \A n \in 1 .. npipes[g] :
       /\ r[n] <= w[n - 1]
       /\ buf[g][n - 1] = Span(r[n], w[n - 1])
  /\ out[g] = Span(0, w[npipes[g]])

\* A pipeline of which nothing was cut short and nothing failed to start.
Whole(g) ==
  /\ \A n \in 0 .. npipes[g] : proc[<<g, n>>] # "cut"
  /\ \/ g = gen /\ stage \in {"pipe", "fork"}
     \/ \A n \in 0 .. npipes[g] : proc[<<g, n>>] # "none"

Flows == \A g \in 1 .. gen : Whole(g) => \E r, w \in Counters : Carried(g, r, w)

\* What is to come is empty.
Fresh ==
  \A g \in Gens : g > gen =>
    /\ made[g] = 0 /\ out[g] = <<>>
    /\ \A k \in 0 .. MaxPipes - 1 : buf[g][k] = <<>>
    /\ \A n \in 0 .. MaxPipes : hand[<<g, n>>] = <<>>

\* The ends a program needs are open as long as it may use them: in its own hands once
\* it is forked, in the shell's before.
EndsHeld ==
  /\ stage = "pipe" => \A e \in Ends : e < 2 * i => Shell \in open[gen][e]
  /\ stage = "fork" => \A e \in Ends : e < 2 * npipes[gen] => Shell \in open[gen][e]
  /\ \A c \in Children : proc[c] \in {"forked", "running"} =>
       \A e \in Ends : e \in {InEnd(c), OutEnd(c)} => c \in open[c[1]][e]

\* Items pass from the front of a span, one by one.
LEMMA SpanProperties ==
  ASSUME NEW a \in Nat, NEW b \in Nat, a <= b
  PROVE  /\ Span(a, b) \in Seq(Nat) /\ Len(Span(a, b)) = b - a
         /\ Span(a, b) = <<>> <=> a = b
         /\ a < b => Head(Span(a, b)) = a + 1 /\ Tail(Span(a, b)) = Span(a + 1, b)
         /\ Span(a, a + 1) = <<a + 1>>
<1>1. Span(a, b) \in Seq(Nat) /\ Len(Span(a, b)) = b - a
  BY DEF Span
<1>2. Span(a, b) = <<>> <=> a = b
  BY <1>1
<1>3. ASSUME a < b  PROVE Head(Span(a, b)) = a + 1 /\ Tail(Span(a, b)) = Span(a + 1, b)
  <2>1. Head(Span(a, b)) = a + 1
    BY <1>1, <1>3 DEF Span
  <2>2. /\ Tail(Span(a, b)) \in Seq(Nat) /\ Len(Tail(Span(a, b))) = b - a - 1
        /\ \A k \in 1 .. b - a - 1 : Tail(Span(a, b))[k] = a + 1 + k
    BY <1>1, <1>3 DEF Span
  <2>3. /\ Span(a + 1, b) \in Seq(Nat) /\ Len(Span(a + 1, b)) = b - a - 1
        /\ \A k \in 1 .. b - a - 1 : Span(a + 1, b)[k] = a + 1 + k
    BY <1>3 DEF Span
  <2> DEFINE rest == Tail(Span(a, b))
             span == Span(a + 1, b)
  <2>4. /\ rest \in Seq(Nat) /\ span \in Seq(Nat) /\ Len(rest) = Len(span)
        /\ Len(rest) = b - a - 1 /\ \A k \in 1 .. b - a - 1 : rest[k] = span[k]
    BY <2>2, <2>3
  <2> HIDE DEF rest, span
  <2>5. rest = span
    BY <2>4, SeqEqual
  <2> QED  BY <2>1, <2>5 DEF rest, span
<1>4. Span(a, a + 1) = <<a + 1>>
  <2>1. /\ Span(a, a + 1) \in Seq(Nat) /\ Len(Span(a, a + 1)) = 1 /\ Span(a, a + 1)[1] = a + 1
    BY DEF Span
  <2>2. <<a + 1>> \in Seq(Nat) /\ Len(<<a + 1>>) = 1 /\ <<a + 1>>[1] = a + 1
    OBVIOUS
  <2> QED  BY <2>1, <2>2, SeqEqual
<1> QED  BY <1>1, <1>2, <1>3, <1>4

\* The same, in the forms they are used in.
LEMMA SpanEmpty ==
  ASSUME NEW a \in Nat, NEW b \in Nat, a <= b
  PROVE  Span(a, b) = <<>> <=> a = b
BY SpanProperties, Zenon

LEMMA SpanSelf ==
  ASSUME NEW a \in Nat
  PROVE  Span(a, a) = <<>> /\ Span(a, a + 1) = <<a + 1>>
<1>1. a <= a
  OBVIOUS
<1> QED  BY <1>1, SpanProperties, Zenon

\* Spans join.
LEMMA SpanJoin ==
  ASSUME NEW a \in Nat, NEW b \in Nat, NEW c \in Nat, a <= b, b <= c
  PROVE  Span(a, b) \o Span(b, c) = Span(a, c)
<1>1. Span(a, b) \in Seq(Nat) /\ Len(Span(a, b)) = b - a
  BY DEF Span
<1>2. Span(b, c) \in Seq(Nat) /\ Len(Span(b, c)) = c - b
  BY DEF Span
<1>3. Span(a, c) \in Seq(Nat) /\ Len(Span(a, c)) = c - a
  BY DEF Span
<1>4. /\ Span(a, b) \o Span(b, c) \in Seq(Nat)
      /\ Len(Span(a, b) \o Span(b, c)) = c - a
  BY <1>1, <1>2
<1>5. \A k \in 1 .. c - a : (Span(a, b) \o Span(b, c))[k] = a + k
  BY <1>1, <1>2 DEF Span
<1>6. \A k \in 1 .. c - a : Span(a, c)[k] = a + k
  BY DEF Span
<1> QED  BY <1>3, <1>4, <1>5, <1>6, SeqEqual

\* The shape of what this is about.
LEMMA ShellShapes ==
  ASSUME PInv
  PROVE  /\ gen \in 0 .. Lines /\ i \in Nat /\ Shell \notin Children
         /\ stage # "prompt" => gen \in Gens
         /\ \A g \in 1 .. gen : g \in Gens
         /\ \A g \in Gens : npipes[g] \in 0 .. MaxPipes
         /\ \A g \in Gens : \A n \in 0 .. MaxPipes : <<g, n>> \in Children
         /\ open \in [Gens -> [Ends -> SUBSET (Children \cup {Shell})]]
         /\ proc \in [Children -> {"none", "forked", "running", "done", "cut"}]
         /\ hand \in [Children -> {<<>>} \cup {<<x>> : x \in 1 .. Items}]
<1> USE LinesAssumption, PipesAssumption
    DEF PInv, PipeTypeOK, ShellTypeOK, ChildTypeOK, Counts
<1>1. /\ gen \in 0 .. Lines /\ i \in Nat
      /\ stage # "prompt" => gen \in Gens
      /\ \A g \in Gens : npipes[g] \in 0 .. MaxPipes
      /\ open \in [Gens -> [Ends -> SUBSET (Children \cup {Shell})]]
      /\ proc \in [Children -> {"none", "forked", "running", "done", "cut"}]
      /\ hand \in [Children -> {<<>>} \cup {<<x>> : x \in 1 .. Items}]
  OBVIOUS
<1>2. Shell \notin Children
  BY DEF Shell, Children, Gens
<1>3. \A g \in 1 .. gen : g \in Gens
  BY <1>1 DEF Gens
<1>4. \A g \in Gens : \A n \in 0 .. MaxPipes : <<g, n>> \in Children
  BY DEF Children
<1> QED  BY <1>1, <1>2, <1>3, <1>4

\* A child that is there has its place in a pipeline that is there.
LEMMA ChildShapes ==
  ASSUME PInv, NEW c \in Children
  PROVE  /\ c[1] \in Gens /\ c[2] \in 0 .. MaxPipes /\ c = <<c[1], c[2]>>
         /\ InEnd(c) \in Int /\ OutEnd(c) \in Int
         /\ proc[c] # "none" => c[1] <= gen /\ c[2] <= npipes[c[1]]
<1>1. c[1] \in Gens /\ c[2] \in 0 .. MaxPipes /\ c = <<c[1], c[2]>>
  BY DEF Children
<1>2. gen \in 0 .. Lines /\ npipes[c[1]] \in 0 .. MaxPipes
  BY <1>1, ShellShapes
<1>3. ASSUME proc[c] # "none"  PROVE c[1] <= gen /\ c[2] <= npipes[c[1]]
  <2>1. ~(c[1] > gen) /\ ~(c[2] > npipes[c[1]])
    BY <1>3 DEF PInv, ToCome
  <2>2. c[1] \in Int  BY <1>1 DEF Gens
  <2> QED  BY <1>1, <1>2, <2>1, <2>2, LinesAssumption, PipesAssumption
<1>4. InEnd(c) \in Int /\ OutEnd(c) \in Int
  BY <1>1, PipesAssumption DEF InEnd, OutEnd
<1> QED  BY <1>1, <1>3, <1>4

\* Each step leaves open the ends that are still needed.
LEMMA EndsHeldStep ==
  ASSUME PInv, EndsHeld, [PipeNext]_vars
  PROVE  EndsHeld'
<1> USE PipesAssumption
<1>0. /\ \A c \in Children : /\ c[1] \in Gens /\ c[2] \in 0 .. MaxPipes
                            /\ InEnd(c) \in Int /\ OutEnd(c) \in Int
      /\ \A c \in Children : proc[c] # "none" => c[1] <= gen
      /\ open \in [Gens -> [Ends -> SUBSET (Children \cup {Shell})]]
  BY ShellShapes, ChildShapes
<1>1. ASSUME NEW t \in CommandLines, ReadLine(t)  PROVE EndsHeld'
  <2>1. /\ gen' = gen + 1 /\ gen' \in Gens /\ i' = 0 /\ stage' = "pipe"
        /\ UNCHANGED <<open, proc>>
        /\ \A g \in Gens : g # gen' => npipes'[g] = npipes[g]
    <3>1. gen \in 0 .. Lines /\ npipes \in [Gens -> 0 .. MaxPipes]
      BY DEF PInv, PipeTypeOK, ShellTypeOK
    <3>2. gen + 1 \in Gens
      BY <1>1, <3>1, LinesAssumption DEF ReadLine, Gens
    <3> QED  BY <1>1, <3>1, <3>2 DEF ReadLine
  <2>2. \A c \in Children : proc[c] # "none" => InEnd(c)' = InEnd(c) /\ OutEnd(c)' = OutEnd(c)
    <3>1. gen \in Int  BY ShellShapes
    <3>2. \A c \in Children : proc[c] # "none" => c[1] # gen'
      BY <1>0, <2>1, <3>1 DEF Gens
    <3> QED  BY <1>0, <2>1, <3>2 DEF InEnd, OutEnd
  <2> QED  BY <2>1, <2>2 DEF EndsHeld, Ends
<1>2. ASSUME MakePipe  PROVE EndsHeld'
  <2>1. /\ stage = "pipe" /\ stage' = "pipe" /\ i' = i + 1 /\ gen \in Gens
        /\ UNCHANGED <<gen, npipes, proc>>
        /\ open' = [open EXCEPT ![gen][2 * i] = {Shell}, ![gen][2 * i + 1] = {Shell}]
    BY <1>2, ShellShapes DEF MakePipe
  <2>2. \A g \in Gens : \A e \in Ends :
          open'[g][e] = IF g = gen /\ e \in {2 * i, 2 * i + 1} THEN {Shell} ELSE open[g][e]
    BY <1>0, <2>1
  <2>3. \A e \in Ends : e < 2 * i' => Shell \in open'[gen][e]
    <3>1. \A e \in Ends : e < 2 * i' => e < 2 * i \/ e \in {2 * i, 2 * i + 1}
      <4>1. i \in Nat /\ i' = i + 1
        BY <2>1, ShellShapes
      <4> QED  BY <4>1, PipesAssumption DEF Ends
    <3>2. \A e \in Ends : e < 2 * i => Shell \in open[gen][e]
      BY <2>1 DEF EndsHeld
    <3>3. gen \in Gens
      BY <2>1
    <3> QED  BY <2>2, <3>1, <3>2, <3>3
  <2>4. \A c \in Children : c[1] = gen => proc[c] = "none"
    BY <2>1 DEF PInv, ToCome
  <2> QED  BY <1>0, <2>1, <2>2, <2>3, <2>4 DEF EndsHeld, InEnd, OutEnd
<1>3. ASSUME PipesMade  PROVE EndsHeld'
  BY <1>3 DEF PipesMade, EndsHeld, InEnd, OutEnd
<1>4. ASSUME PipeFails \/ CommandFails \/ Forked  PROVE EndsHeld'
  <2>1. /\ UNCHANGED <<gen, npipes, proc>> /\ stage' \in {"prompt", "wait"} /\ gen \in Gens
    BY <1>4, ShellShapes DEF PipeFails, CommandFails, Forked, Prompt
  <2>2. \A g \in Gens : \A e \in Ends : open[g][e] \ {Shell} \subseteq open'[g][e]
    BY <1>0, <1>4, <2>1 DEF PipeFails, CommandFails, Forked, ShellCloses
  <2> QED  BY <1>0, <2>1, <2>2, ShellShapes DEF EndsHeld, InEnd, OutEnd
<1>5. ASSUME Fork  PROVE EndsHeld'
  <2> DEFINE c == <<gen, i>>
  <2>1. /\ stage = "fork" /\ i <= npipes[gen] /\ gen \in Gens /\ c \in Children
        /\ UNCHANGED <<stage, gen, npipes>> /\ proc' = [proc EXCEPT ![c] = "forked"]
        /\ npipes[gen] \in 0 .. MaxPipes /\ i \in Nat
    BY <1>5, ShellShapes DEF Fork
  <2>2. \A g \in Gens : \A e \in Ends :
          open'[g][e] = IF Shell \in open[g][e] THEN open[g][e] \cup {c} ELSE open[g][e]
    BY <1>5 DEF Fork
  <2>3. \A e \in Ends : e \in {InEnd(c), OutEnd(c)} => e < 2 * npipes[gen]
    BY <2>1 DEF InEnd, OutEnd, Ends
  <2>4. \A d \in Children : d = c \/ proc'[d] = proc[d]
    BY <2>1, ShellShapes
  <2>5. \A d \in Children : InEnd(d)' = InEnd(d) /\ OutEnd(d)' = OutEnd(d)
    BY <2>1 DEF InEnd, OutEnd
  <2>6. \A e \in Ends : e \in {InEnd(c), OutEnd(c)} => c \in open'[gen][e]
    <3>1. \A e \in Ends : e < 2 * npipes[gen] => Shell \in open[gen][e]
      BY <2>1 DEF EndsHeld
    <3>2. gen \in Gens
      BY <2>1
    <3> SUFFICES ASSUME NEW e \in Ends, e \in {InEnd(c), OutEnd(c)}
                 PROVE  c \in open'[gen][e]
      OBVIOUS
    <3>3. Shell \in open[gen][e]
      BY <2>3, <3>1
    <3>4. open'[gen][e] = open[gen][e] \cup {c}
      BY <2>2, <3>2, <3>3
    <3> QED  BY <3>4
  <2>7. ASSUME NEW d \in Children, proc'[d] \in {"forked", "running"},
               NEW e \in Ends, e \in {InEnd(d), OutEnd(d)}
        PROVE  d \in open'[d[1]][e]
    <3>1. CASE d = c
      BY <2>6, <2>7, <3>1
    <3>2. CASE proc'[d] = proc[d]
      <4>1. d \in open[d[1]][e]
        BY <2>7, <3>2 DEF EndsHeld
      <4> QED  BY <1>0, <2>2, <4>1
    <3> QED  BY <2>4, <3>1, <3>2
  <2>8. \A e \in Ends : e < 2 * npipes[gen] => Shell \in open'[gen][e]
    <3>1. \A e \in Ends : e < 2 * npipes[gen] => Shell \in open[gen][e]
      BY <2>1 DEF EndsHeld
    <3>2. gen \in Gens
      BY <2>1
    <3> HIDE DEF c
    <3> QED  BY <2>2, <3>1, <3>2
  <2> QED  BY <2>1, <2>5, <2>7, <2>8 DEF EndsHeld
<1>6. ASSUME Wait \/ Waited  PROVE EndsHeld'
  BY <1>6 DEF Wait, Waited, Prompt, EndsHeld, InEnd, OutEnd
<1>7. ASSUME NEW c \in Children, Execs(c)  PROVE EndsHeld'
  <2>1. /\ UNCHANGED <<stage, gen, i, npipes>>
        /\ proc[c] = "forked" /\ proc' = [proc EXCEPT ![c] = "running"]
    BY <1>7 DEF Execs, shellVars
  <2>2. \A g \in Gens : \A e \in Ends :
          open'[g][e] = IF g = c[1] /\ e \notin {InEnd(c), OutEnd(c)}
                        THEN open[g][e] \ {c} ELSE open[g][e]
    BY <1>0, <1>7 DEF Execs, Keeps
  <2>3. \A d \in Children : InEnd(d)' = InEnd(d) /\ OutEnd(d)' = OutEnd(d)
    BY <2>1 DEF InEnd, OutEnd
  <2>4. ASSUME NEW d \in Children, proc'[d] \in {"forked", "running"},
               NEW e \in Ends, e \in {InEnd(d), OutEnd(d)}
        PROVE  d \in open'[d[1]][e]
    <3>1. proc[d] \in {"forked", "running"}
      BY <2>1, <2>4, ShellShapes
    <3>2. d \in open[d[1]][e] /\ d[1] \in Gens
      BY <1>0, <2>4, <3>1 DEF EndsHeld
    <3>3. d = c => e \in {InEnd(c), OutEnd(c)}
      BY <2>4
    <3> QED  BY <2>2, <3>2, <3>3
  <2>5. \A g \in Gens : \A e \in Ends : Shell \in open[g][e] => Shell \in open'[g][e]
    BY <2>2, ShellShapes
  <2>6. stage \in {"pipe", "fork"} => gen \in Gens
    BY ShellShapes
  <2> QED  BY <2>1, <2>3, <2>4, <2>5, <2>6 DEF EndsHeld
<1>8. ASSUME NEW c \in Children, NEW s \in {"done", "cut"}, Exits(c, s)  PROVE EndsHeld'
  <2>1. /\ UNCHANGED <<stage, gen, i, npipes>> /\ proc' = [proc EXCEPT ![c] = s]
        /\ open' = [g \in Gens |-> [e \in Ends |-> open[g][e] \ {c}]]
    BY <1>8 DEF Exits, shellVars
  <2> QED  BY <1>0, <2>1, ShellShapes DEF EndsHeld, InEnd, OutEnd
<1>9. ASSUME UNCHANGED <<shellVars, open, proc>>  PROVE EndsHeld'
  BY <1>9 DEF shellVars, EndsHeld, InEnd, OutEnd
<1> QED
  BY <1>1, <1>2, <1>3, <1>4, <1>5, <1>6, <1>7, <1>8, <1>9
  DEF PipeNext, ShellStep, ShellFails, ProgramStep, ExecFails, Broken, Finish, Quits,
      Make, Read, Write, WriteOut, vars

\* Each step leaves the pipelines to come empty.
LEMMA FreshStep ==
  ASSUME PInv, Fresh, [PipeNext]_vars
  PROVE  Fresh'
<1>1. ASSUME UNCHANGED dataVars, gen' \in Int, gen' >= gen  PROVE Fresh'
  BY <1>1, ShellShapes DEF Fresh, dataVars, Gens
<1>2. ASSUME NEW c \in Children, proc[c] # "none", gen' = gen,
             \A g \in Gens : g > gen =>
               /\ made'[g] = made[g] /\ out'[g] = out[g]
               /\ \A k \in 0 .. MaxPipes - 1 : buf'[g][k] \in {<<>>, buf[g][k]}
               /\ \A n \in 0 .. MaxPipes : hand'[<<g, n>>] = hand[<<g, n>>]
      PROVE  Fresh'
  BY <1>2 DEF Fresh
<1>3. ASSUME NEW c \in Children, proc[c] # "none",
             \/ \E s \in {"done", "cut"} : Exits(c, s)
             \/ Make(c) \/ Read(c) \/ Write(c) \/ WriteOut(c)
      PROVE  Fresh'
  <2>1. c[1] \in Gens /\ ~(c[1] > gen) /\ gen' = gen /\ c = <<c[1], c[2]>>
    <3>1. c[1] \in Gens /\ c[1] <= gen /\ gen \in 0 .. Lines /\ c = <<c[1], c[2]>>
      BY <1>3, ShellShapes, ChildShapes
    <3>2. gen' = gen
      BY <1>3 DEF Exits, Make, Read, Write, WriteOut, shellVars
    <3> QED  BY <3>1, <3>2, LinesAssumption DEF Gens
  <2>2. \A g \in Gens : g > gen => made'[g] = made[g] /\ out'[g] = out[g]
    BY <1>3, <2>1 DEF Exits, Make, Read, Write, WriteOut, PInv, PipeTypeOK, ChildTypeOK
  <2>3. \A g \in Gens : g > gen => \A k \in 0 .. MaxPipes - 1 : buf'[g][k] \in {<<>>, buf[g][k]}
    <3>1. CASE \E s \in {"done", "cut"} : Exits(c, s)
      BY <3>1 DEF Exits
    <3>2. CASE Make(c) \/ Read(c) \/ Write(c) \/ WriteOut(c)
      BY <2>1, <3>2 DEF Make, Read, Write, WriteOut, PInv, PipeTypeOK, ChildTypeOK
    <3> QED  BY <1>3, <3>1, <3>2
  <2>4. \A g \in Gens : g > gen => \A n \in 0 .. MaxPipes : hand'[<<g, n>>] = hand[<<g, n>>]
    <3>1. \A d \in Children : d # c => hand'[d] = hand[d]
      BY <1>3, ShellShapes DEF Exits, Make, Read, Write, WriteOut
    <3>2. \A g \in Gens : g > gen => \A n \in 0 .. MaxPipes : <<g, n>> # c
      BY <2>1
    <3> QED  BY <3>1, <3>2, ShellShapes
  <2> QED  BY <1>2, <1>3, <2>1, <2>2, <2>3, <2>4
<1>4. ASSUME (\E t \in CommandLines : ReadLine(t)) \/ ShellStep \/ ShellFails
      PROVE  UNCHANGED dataVars /\ gen' \in {gen, gen + 1}
  BY <1>4 DEF ReadLine, ShellStep, ShellFails, MakePipe, PipesMade, Fork, Forked, Wait, Waited,
              PipeFails, CommandFails, Prompt
<1>5. ASSUME NEW c \in Children, Execs(c)  PROVE UNCHANGED dataVars /\ gen' = gen
  BY <1>5 DEF Execs, shellVars
<1>6. ASSUME NEW c \in Children, ExecFails(c) \/ Broken(c) \/ Finish(c) \/ Quits(c)
      PROVE  proc[c] # "none" /\ \E s \in {"done", "cut"} : Exits(c, s)
  BY <1>6 DEF ExecFails, Broken, Finish, Quits
<1>7. ASSUME NEW c \in Children, Make(c) \/ Read(c) \/ Write(c) \/ WriteOut(c)
      PROVE  proc[c] # "none"
  BY <1>7 DEF Make, Read, Write, WriteOut
<1>8. ASSUME UNCHANGED vars  PROVE UNCHANGED dataVars /\ gen' = gen
  BY <1>8 DEF vars, shellVars
<1>9. gen \in Int  BY ShellShapes
<1> QED
  BY <1>1, <1>3, <1>4, <1>5, <1>6, <1>7, <1>8, <1>9 DEF PipeNext, ProgramStep

\* A pipeline that is whole was whole.
LEMMA WholeBack ==
  ASSUME PInv, NEW g \in Gens, npipes'[g] = npipes[g],
         \A c \in Children : c[1] = g /\ proc[c] \in {"none", "cut"} => proc'[c] = proc[c],
         gen' = gen /\ stage' \in {"pipe", "fork"} => stage \in {"pipe", "fork"},
         g = gen' => gen' = gen,
         Whole(g)'
  PROVE  Whole(g)
<1>1. \A n \in 0 .. npipes[g] : <<g, n>> \in Children
  BY ShellShapes, PipesAssumption
<1>2. \A n \in 0 .. npipes[g] : proc[<<g, n>>] # "cut"
  BY <1>1 DEF Whole
<1>3. CASE \A n \in 0 .. npipes[g] : proc'[<<g, n>>] # "none"
  BY <1>1, <1>2, <1>3 DEF Whole
<1>4. CASE g = gen' /\ stage' \in {"pipe", "fork"}
  BY <1>2, <1>4 DEF Whole
<1> QED  BY <1>3, <1>4 DEF Whole

\* Nothing of it moves and nothing of it ends: the counts stay.
LEMMA CarriedStays ==
  ASSUME PInv, NEW g \in Gens, NEW r \in Counters, NEW w \in Counters, Carried(g, r, w),
         npipes'[g] = npipes[g], made'[g] = made[g], out'[g] = out[g],
         \A n \in 0 .. npipes[g] :
           /\ hand'[<<g, n>>] = hand[<<g, n>>]
           /\ proc'[<<g, n>>] = "none" => proc[<<g, n>>] = "none"
           /\ proc'[<<g, n>>] = "done" <=> proc[<<g, n>>] = "done",
         \A n \in 1 .. npipes[g] : buf'[g][n - 1] = buf[g][n - 1]
  PROVE  Carried(g, r, w)'
<1>1. 0 \in 0 .. npipes[g]
  BY ShellShapes, PipesAssumption
<1> QED  BY <1>1 DEF Carried

\* A pipe that nobody has open for reading is empty, in a pipeline that is whole.
LEMMA ClosedEmpty ==
  ASSUME PInv, NEW g \in Gens, NEW r \in Counters, NEW w \in Counters, Carried(g, r, w),
         EndsHeld', NEW n \in 1 .. npipes[g], open'[g][2 * (n - 1)] = {}, Whole(g)',
         UNCHANGED shellVars, proc'[<<g, n>>] = "none" => \A k \in {n - 1, n} :
            proc'[<<g, k>>] = proc[<<g, k>>],
         proc'[<<g, n>>] = "done" => proc[<<g, n>>] = "done",
         proc' \in [Children -> {"none", "forked", "running", "done", "cut"}], ToCome'
  PROVE  buf[g][n - 1] = <<>>
<1> DEFINE c == <<g, n>>
           e == 2 * (n - 1)
<1>1. /\ npipes[g] \in 0 .. MaxPipes /\ n \in 0 .. npipes[g] /\ n - 1 \in 0 .. npipes[g]
      /\ c \in Children /\ <<g, n - 1>> \in Children /\ e \in Ends
      /\ r[n] \in 0 .. Items /\ w[n] \in 0 .. Items
      /\ r[n - 1] \in 0 .. Items /\ w[n - 1] \in 0 .. Items
  <2>1. npipes[g] \in 0 .. MaxPipes
    BY ShellShapes
  <2>2. n \in 0 .. MaxPipes /\ n - 1 \in 0 .. MaxPipes
    BY <2>1, PipesAssumption
  <2>3. c \in Children /\ <<g, n - 1>> \in Children
    BY <2>2 DEF Children
  <2>4. e \in Ends
    BY <2>1, <2>2, PipesAssumption DEF Ends
  <2>5. n \in 0 .. npipes[g] /\ n - 1 \in 0 .. npipes[g]
    BY <2>1, PipesAssumption
  <2>6. /\ r[n] \in 0 .. Items /\ w[n] \in 0 .. Items
        /\ r[n - 1] \in 0 .. Items /\ w[n - 1] \in 0 .. Items
    BY <2>2, Zenon DEF Counters
  <2> QED  BY <2>1, <2>3, <2>4, <2>5, <2>6
<1>2. UNCHANGED <<stage, gen, i, npipes>>
  BY DEF shellVars
<1>3. InEnd(c)' = e
  BY <1>1 DEF InEnd
<1>4. proc'[c] \notin {"forked", "running"}
  BY <1>1, <1>3 DEF EndsHeld
<1>5. /\ w[n - 1] <= r[n - 1] /\ r[n] <= w[n - 1] /\ w[n] <= r[n]
      /\ buf[g][n - 1] = Span(r[n], w[n - 1])
  BY <1>1 DEF Carried
<1>6. r[n] = w[n - 1] => buf[g][n - 1] = <<>>
  <2>1. r[n] \in Nat
    BY <1>1, ItemsAssumption
  <2>2. Span(r[n], r[n]) = <<>>
    BY <2>1, SpanSelf
  <2> QED  BY <1>5, <2>2
<1>7. CASE proc'[c] = "done"
  <2>1. w[n] = Items
    BY <1>1, <1>7 DEF Carried
  <2> QED  BY <1>1, <1>5, <1>6, <2>1, ItemsAssumption
<1>8. CASE proc'[c] = "none"
  <2>1. g = gen /\ stage \in {"pipe", "fork"}
    BY <1>1, <1>2, <1>8 DEF Whole
  <2>2. stage # "fork"
    <3>1. e < 2 * npipes[g]
      BY <1>1
    <3> QED  BY <1>1, <1>2, <2>1, <3>1 DEF EndsHeld
  <2>3. proc[c] = "none" /\ proc[<<g, n - 1>>] = "none"
    <3>1. proc[<<g, n>>] = "none" /\ proc[<<g, n - 1>>] = proc'[<<g, n - 1>>]
      BY <1>8
    <3>2. proc'[<<g, n - 1>>] = "none"
      BY <1>1, <1>2, <2>1, <2>2 DEF ToCome
    <3> QED  BY <3>1, <3>2
  <2>4. r[n] = 0 /\ r[n - 1] = 0
    BY <1>1, <2>3 DEF Carried
  <2> QED  BY <1>1, <1>5, <1>6, <2>4
<1> QED  BY <1>1, <1>2, <1>4, <1>7, <1>8 DEF Whole

\* A program reads or writes: the other pipelines stay as they are.
LEMMA OthersFlow ==
  ASSUME PInv, Flows, NEW c \in Children, UNCHANGED <<shellVars, proc>>,
         \A g \in Gens : g # c[1] => made'[g] = made[g] /\ out'[g] = out[g] /\ buf'[g] = buf[g],
         \A d \in Children : d # c => hand'[d] = hand[d],
         ASSUME NEW r \in Counters, NEW w \in Counters, Carried(c[1], r, w)
         PROVE  \E rr, ww \in Counters : Carried(c[1], rr, ww)'
  PROVE  Flows'
<1>1. UNCHANGED <<gen, npipes, stage>>
  BY DEF shellVars
<1>2. SUFFICES ASSUME NEW g \in 1 .. gen, Whole(g)
               PROVE  \E r, w \in Counters : Carried(g, r, w)'
  BY <1>1 DEF Flows, Whole
<1>3. PICK r, w \in Counters : Carried(g, r, w)
  BY <1>2 DEF Flows
<1>4. CASE g = c[1]
  BY <1>3, <1>4
<1>5. CASE g # c[1]
  <2>1. g \in Gens /\ \A n \in 0 .. npipes[g] : <<g, n>> \in Children /\ <<g, n>> # c
    BY <1>5, ShellShapes, PipesAssumption
  <2>2. Carried(g, r, w)'
    BY <1>1, <1>3, <1>5, <2>1, CarriedStays
  <2> QED  BY <2>2
<1> QED  BY <1>4, <1>5

\* The first program makes an item: it counts as read.
LEMMA MakeFlows ==
  ASSUME PInv, NEW c \in Children, Make(c),
         NEW r \in Counters, NEW w \in Counters, Carried(c[1], r, w)
  PROVE  \E rr, ww \in Counters : Carried(c[1], rr, ww)'
<1> DEFINE g == c[1]
           rr == [r EXCEPT ![0] = @ + 1]
<1>1. /\ UNCHANGED <<npipes, proc, buf, out>>
      /\ proc[c] = "running" /\ c[2] = 0 /\ hand[c] = <<>> /\ made[g] < Items
      /\ made' = [made EXCEPT ![g] = @ + 1] /\ hand' = [hand EXCEPT ![c] = <<made[g] + 1>>]
  BY DEF Make, shellVars
<1>2. /\ g \in Gens /\ c = <<g, 0>> /\ npipes[g] \in 0 .. MaxPipes /\ 0 \in 0 .. npipes[g]
      /\ made[g] \in 0 .. Items /\ made'[g] = made[g] + 1
  <2>1. /\ g \in Gens /\ c = <<g, 0>> /\ npipes[g] \in 0 .. MaxPipes
    BY <1>1, ShellShapes, ChildShapes
  <2>2. 0 \in 0 .. npipes[g]
    BY <2>1, PipesAssumption
  <2>3. made \in [Gens -> 0 .. Items]
    BY DEF PInv, PipeTypeOK, ChildTypeOK
  <2> QED  BY <1>1, <2>1, <2>2, <2>3
<1>3. r[0] = made[g] /\ w[0] <= r[0] /\ hand[c] = Span(w[0], r[0])
  BY <1>1, <1>2 DEF Carried
<1>4. w[0] \in Nat /\ r[0] \in Nat
  <2>1. 0 \in 0 .. MaxPipes /\ \A x \in 0 .. Items : x \in Nat
    BY ItemsAssumption, PipesAssumption
  <2> QED  BY <2>1 DEF Counters
<1>5. w[0] = r[0]
  <2>1. Span(w[0], r[0]) = <<>> <=> w[0] = r[0]
    BY <1>3, <1>4, SpanEmpty, Zenon
  <2> QED  BY <1>1, <1>3, <2>1
<1>6. /\ rr \in Counters /\ rr[0] = r[0] + 1
      /\ \A m \in 0 .. npipes[g] : m # 0 => rr[m] = r[m]
  BY <1>1, <1>2, <1>3, ItemsAssumption, PipesAssumption DEF Counters
<1> HIDE DEF rr
<1>7. ASSUME NEW m \in 0 .. npipes[g]
      PROVE  /\ w[m] <= rr[m] /\ hand'[<<g, m>>] = Span(w[m], rr[m])
             /\ proc[<<g, m>>] = "none" => rr[m] = 0
             /\ proc[<<g, m>>] = "done" => w[m] = Items
  <2>1. CASE m = 0
    <3>1. hand'[c] = Span(w[0], rr[0])
      <4>1. Span(r[0], r[0] + 1) = <<r[0] + 1>>
        BY <1>4, SpanSelf, Zenon
      <4>2. hand'[c] = <<made[g] + 1>>
        BY <1>1, ShellShapes
      <4> QED  BY <1>3, <1>5, <1>6, <4>1, <4>2
    <3> QED  BY <1>1, <1>2, <1>4, <1>5, <1>6, <2>1, <3>1
  <2>2. CASE m # 0
    <3>1. <<g, m>> \in Children /\ <<g, m>> # c
      BY <1>2, <2>2, PipesAssumption, ShellShapes
    <3>2. hand'[<<g, m>>] = hand[<<g, m>>]
      BY <1>1, <3>1, ShellShapes
    <3> QED  BY <1>6, <2>2, <3>2 DEF Carried
  <2> QED  BY <2>1, <2>2
<1>8. \A m \in 1 .. npipes[g] : rr[m] <= w[m - 1] /\ buf'[g][m - 1] = Span(rr[m], w[m - 1])
  <2>1. \A m \in 1 .. npipes[g] : rr[m] = r[m]
    BY <1>2, <1>6
  <2> QED  BY <1>1, <2>1 DEF Carried
<1>9. out'[g] = Span(0, w[npipes'[g]])
  BY <1>1 DEF Carried
<1>10. Carried(g, rr, w)'
  BY <1>1, <1>2, <1>3, <1>6, <1>7, <1>8, <1>9 DEF Carried
<1> QED  BY <1>6, <1>10

\* An item goes from a pipe into a program's hand: it counts as read.
LEMMA ReadFlows ==
  ASSUME PInv, NEW c \in Children, Read(c),
         NEW r \in Counters, NEW w \in Counters, Carried(c[1], r, w)
  PROVE  \E rr, ww \in Counters : Carried(c[1], rr, ww)'
<1> DEFINE g == c[1]
           n == c[2]
           b == buf[g][n - 1]
           rr == [r EXCEPT ![n] = @ + 1]
<1>1. /\ UNCHANGED <<npipes, proc, made, out>>
      /\ proc[c] = "running" /\ n > 0 /\ hand[c] = <<>> /\ b # <<>>
      /\ hand' = [hand EXCEPT ![c] = <<Head(b)>>]
      /\ buf' = [buf EXCEPT ![g][n - 1] = Tail(@)]
  BY DEF Read, InPipe, shellVars
<1>2. /\ g \in Gens /\ c = <<g, n>> /\ npipes[g] \in 0 .. MaxPipes /\ n \in 1 .. npipes[g]
      /\ n \in 0 .. npipes[g] /\ n \in 0 .. MaxPipes /\ n - 1 \in 0 .. MaxPipes
      /\ n - 1 \in 0 .. MaxPipes - 1
  BY <1>1, ShellShapes, ChildShapes, PipesAssumption
<1>3. /\ w[n] <= r[n] /\ hand[c] = Span(w[n], r[n])
      /\ r[n] <= w[n - 1] /\ b = Span(r[n], w[n - 1])
  BY <1>2 DEF Carried
<1>4. /\ w[n] \in Nat /\ r[n] \in Nat /\ w[n - 1] \in Nat /\ w[n - 1] <= Items
  BY <1>2, ItemsAssumption DEF Counters
<1>5. w[n] = r[n]
  <2>1. Span(w[n], r[n]) = <<>> <=> w[n] = r[n]
    BY <1>3, <1>4, SpanEmpty, Zenon
  <2> QED  BY <1>1, <1>3, <2>1
<1>6. r[n] < w[n - 1]
  <2>1. r[n] # w[n - 1]
    <3>1. Span(r[n], w[n - 1]) = <<>> <=> r[n] = w[n - 1]
      BY <1>3, <1>4, SpanEmpty, Zenon
    <3> QED  BY <1>1, <1>3, <3>1
  <2> QED  BY <1>3, <1>4, <2>1
<1>7. Head(b) = r[n] + 1 /\ Tail(b) = Span(r[n] + 1, w[n - 1])
  <2>1. /\ Head(Span(r[n], w[n - 1])) = r[n] + 1
        /\ Tail(Span(r[n], w[n - 1])) = Span(r[n] + 1, w[n - 1])
    BY <1>3, <1>4, <1>6, SpanProperties, Zenon
  <2> QED  BY <1>3, <2>1
<1>8. /\ rr \in Counters /\ rr[n] = r[n] + 1
      /\ \A m \in 0 .. npipes[g] : m # n => rr[m] = r[m]
  <2>1. r \in [0 .. MaxPipes -> 0 .. Items] /\ r[n] + 1 \in 0 .. Items
    BY <1>4, <1>6, ItemsAssumption DEF Counters
  <2>2. \A m \in 0 .. npipes[g] : m \in 0 .. MaxPipes
    BY <1>2, PipesAssumption
  <2> QED  BY <1>2, <2>1, <2>2 DEF Counters
<1> HIDE DEF rr
<1>9. ASSUME NEW m \in 0 .. npipes[g]
      PROVE  /\ w[m] <= rr[m] /\ hand'[<<g, m>>] = Span(w[m], rr[m])
             /\ proc[<<g, m>>] = "none" => rr[m] = 0
             /\ proc[<<g, m>>] = "done" => w[m] = Items
  <2>1. CASE m = n
    <3>1. hand'[c] = Span(w[n], rr[n])
      <4>1. Span(r[n], r[n] + 1) = <<r[n] + 1>>
        BY <1>4, SpanSelf, Zenon
      <4>2. hand'[c] = <<Head(b)>>
        BY <1>1, ShellShapes
      <4> QED  BY <1>5, <1>7, <1>8, <4>1, <4>2
    <3>2. w[n] <= rr[n]
      BY <1>4, <1>5, <1>8
    <3> QED  BY <1>1, <1>2, <2>1, <3>1, <3>2
  <2>2. CASE m # n
    <3>1. <<g, m>> \in Children /\ <<g, m>> # c
      BY <1>2, <2>2, PipesAssumption, ShellShapes
    <3>2. hand'[<<g, m>>] = hand[<<g, m>>]
      BY <1>1, <3>1, ShellShapes
    <3> QED  BY <1>8, <2>2, <3>2 DEF Carried
  <2> QED  BY <2>1, <2>2
<1>10. ASSUME NEW m \in 1 .. npipes[g]
       PROVE  rr[m] <= w[m - 1] /\ buf'[g][m - 1] = Span(rr[m], w[m - 1])
  <2>0. buf \in [Gens -> [0 .. MaxPipes - 1 -> Seq(1 .. Items)]]
    BY DEF PInv, PipeTypeOK, ChildTypeOK
  <2>1. CASE m = n
    <3>1. buf'[g][n - 1] = Tail(b)
      BY <1>1, <1>2, <2>0
    <3>2. r[n] + 1 <= w[n - 1]
      BY <1>4, <1>6
    <3> QED  BY <1>7, <1>8, <2>1, <3>1, <3>2
  <2>2. CASE m # n
    <3>1. m \in 0 .. npipes[g] /\ m - 1 # n - 1 /\ m - 1 \in 0 .. MaxPipes - 1
      BY <1>2, <2>2, PipesAssumption
    <3>2. buf'[g][m - 1] = buf[g][m - 1]
      BY <1>1, <1>2, <2>0, <3>1
    <3>3. rr[m] = r[m]
      BY <1>8, <2>2, <3>1
    <3> QED  BY <3>2, <3>3 DEF Carried
  <2> QED  BY <2>1, <2>2
<1>11. rr[0] = r[0]
  BY <1>2, <1>8, PipesAssumption
<1>12. Carried(g, rr, w)'
  BY <1>1, <1>9, <1>10, <1>11 DEF Carried
<1> QED  BY <1>8, <1>12

\* What is in hand goes into the next pipe or out: it counts as written.
LEMMA WriteFlows ==
  ASSUME PInv, NEW c \in Children, Write(c) \/ WriteOut(c),
         NEW r \in Counters, NEW w \in Counters, Carried(c[1], r, w)
  PROVE  \E rr, ww \in Counters : Carried(c[1], rr, ww)'
<1> DEFINE g == c[1]
           n == c[2]
           ww == [w EXCEPT ![n] = r[n]]
<1>1. /\ UNCHANGED <<npipes, proc, made>>
      /\ proc[c] = "running" /\ hand' = [hand EXCEPT ![c] = <<>>]
  BY DEF Write, WriteOut, shellVars
<1>2. /\ g \in Gens /\ c = <<g, n>> /\ npipes[g] \in 0 .. MaxPipes
      /\ n \in 0 .. npipes[g] /\ n \in 0 .. MaxPipes
  BY <1>1, ShellShapes, ChildShapes, PipesAssumption
<1>3. w[n] <= r[n] /\ hand[c] = Span(w[n], r[n])
  BY <1>2 DEF Carried
<1>4. /\ w[n] \in Nat /\ r[n] \in Nat /\ r[n] \in 0 .. Items
      /\ \A m \in 0 .. npipes[g] : w[m] \in Nat /\ r[m] \in Nat
  <2>1. \A x \in 0 .. Items : x \in Nat
    BY ItemsAssumption
  <2>2. \A m \in 0 .. npipes[g] : m \in 0 .. MaxPipes
    BY <1>2, PipesAssumption
  <2> QED  BY <1>2, <2>1, <2>2 DEF Counters
<1>5. /\ ww \in Counters /\ ww[n] = r[n]
      /\ \A m \in 0 .. npipes[g] : m # n => ww[m] = w[m]
  BY <1>2, <1>4, PipesAssumption DEF Counters
<1> HIDE DEF ww
<1>6. ASSUME NEW m \in 0 .. npipes[g]
      PROVE  /\ ww[m] <= r[m] /\ hand'[<<g, m>>] = Span(ww[m], r[m])
             /\ proc[<<g, m>>] = "none" => r[m] = 0
             /\ proc[<<g, m>>] = "done" => ww[m] = Items
  <2>1. CASE m = n
    <3>1. Span(r[n], r[n]) = <<>> /\ r[n] <= r[n]
      <4>1. r[n] <= r[n]
        BY <1>4
      <4> QED  BY <1>4, <4>1, SpanSelf, Zenon
    <3>2. hand'[c] = <<>>
      BY <1>1, ShellShapes
    <3> QED  BY <1>1, <1>2, <1>5, <2>1, <3>1, <3>2
  <2>2. CASE m # n
    <3>1. <<g, m>> \in Children /\ <<g, m>> # c
      BY <1>2, <2>2, PipesAssumption, ShellShapes
    <3>2. hand'[<<g, m>>] = hand[<<g, m>>]
      BY <1>1, <3>1, ShellShapes
    <3> QED  BY <1>5, <2>2, <3>2 DEF Carried
  <2> QED  BY <2>1, <2>2
<1>7. ASSUME NEW m \in 1 .. npipes[g]
      PROVE  r[m] <= ww[m - 1] /\ buf'[g][m - 1] = Span(r[m], ww[m - 1])
  <2>0. buf \in [Gens -> [0 .. MaxPipes - 1 -> Seq(1 .. Items)]]
    BY DEF PInv, PipeTypeOK, ChildTypeOK
  <2>1. /\ m \in 0 .. npipes[g] /\ m - 1 \in 0 .. npipes[g] /\ m - 1 \in 0 .. MaxPipes - 1
    BY <1>2, PipesAssumption
  <2>2. r[m] <= w[m - 1] /\ buf[g][m - 1] = Span(r[m], w[m - 1])
    BY DEF Carried
  <2>3. CASE m - 1 = n
    <3>1. n # npipes[g]
      BY <1>2, <2>3, PipesAssumption
    <3>2. buf'[g][n] = buf[g][n] \o hand[c]
      <4>1. n \in 0 .. MaxPipes - 1 /\ 2 * n + 1 # -1
        BY <2>1, <2>3, PipesAssumption
      <4>2. Write(c)
        BY <3>1, <4>1 DEF WriteOut, OutEnd
      <4>3. buf' = [buf EXCEPT ![g][n] = @ \o hand[c]]
        BY <4>2 DEF Write, OutPipe
      <4> QED  BY <1>2, <2>0, <4>1, <4>3
    <3>3. Span(r[m], w[n]) \o Span(w[n], r[n]) = Span(r[m], r[n])
      <4>1. r[m] \in Nat /\ r[m] <= w[n]
        BY <1>4, <2>1, <2>2, <2>3
      <4> QED  BY <1>3, <1>4, <4>1, SpanJoin, Zenon
    <3>4. r[m] <= r[n]
      BY <1>3, <1>4, <2>1, <2>2, <2>3
    <3> QED  BY <1>3, <1>5, <2>2, <2>3, <3>2, <3>3, <3>4
  <2>4. CASE m - 1 # n
    <3>1. buf'[g][m - 1] = buf[g][m - 1]
      <4>1. CASE Write(c)
        <5>1. buf' = [buf EXCEPT ![g][n] = @ \o hand[c]]
          BY <4>1 DEF Write, OutPipe
        <5> QED  BY <1>2, <2>0, <2>1, <2>4, <5>1
      <4>2. CASE WriteOut(c)
        BY <4>2 DEF WriteOut
      <4> QED  BY <4>1, <4>2
    <3> QED  BY <1>5, <2>1, <2>2, <2>4, <3>1
  <2> QED  BY <2>3, <2>4
<1>8. out'[g] = Span(0, ww[npipes[g]])
  <2>1. out[g] = Span(0, w[npipes[g]]) /\ npipes[g] \in 0 .. npipes[g]
    BY <1>2, PipesAssumption DEF Carried
  <2>2. out \in [Gens -> Seq(1 .. Items)]
    BY DEF PInv, PipeTypeOK, ChildTypeOK
  <2>3. CASE Write(c)
    <3>1. out' = out /\ n # npipes[g]
      BY <2>3 DEF Write, OutEnd
    <3> QED  BY <1>5, <2>1, <3>1
  <2>4. CASE WriteOut(c)
    <3>1. out' = [out EXCEPT ![g] = @ \o hand[c]] /\ n = npipes[g]
      BY <1>2, <2>4, PipesAssumption DEF WriteOut, OutEnd
    <3>2. Span(0, w[n]) \o Span(w[n], r[n]) = Span(0, r[n])
      <4>1. 0 \in Nat /\ 0 <= w[n]
        BY <1>4
      <4> QED  BY <1>3, <1>4, <4>1, SpanJoin, Zenon
    <3> QED  BY <1>2, <1>3, <1>5, <2>1, <2>2, <3>1, <3>2
  <2> QED  BY <2>3, <2>4
<1>9. Carried(g, r, ww)'
  BY <1>1, <1>6, <1>7, <1>8 DEF Carried
<1> QED  BY <1>5, <1>9

\* A program that ends at the end of its input has all of it, and has passed it on.
LEMMA FinishHasAll ==
  ASSUME PInv, EndsHeld, NEW c \in Children, Finish(c), Whole(c[1]),
         NEW r \in Counters, NEW w \in Counters, Carried(c[1], r, w)
  PROVE  w[c[2]] = Items
<1> DEFINE g == c[1]
           n == c[2]
<1>1. /\ proc[c] = "running" /\ hand[c] = <<>>
      /\ IF n = 0 THEN made[g] = Items ELSE buf[g][n - 1] = <<>> /\ open[g][2 * (n - 1) + 1] = {}
  BY DEF Finish, InPipe
<1>2. /\ g \in Gens /\ c = <<g, n>> /\ npipes[g] \in 0 .. MaxPipes
      /\ n \in 0 .. npipes[g] /\ n \in 0 .. MaxPipes
  BY <1>1, ShellShapes, ChildShapes, PipesAssumption
<1>3. \A m \in 0 .. npipes[g] : w[m] \in Nat /\ r[m] \in Nat /\ w[m] <= Items /\ r[m] <= Items
  <2>1. \A x \in 0 .. Items : x \in Nat /\ x <= Items
    BY ItemsAssumption
  <2>2. \A m \in 0 .. npipes[g] : m \in 0 .. MaxPipes
    BY <1>2, PipesAssumption
  <2> QED  BY <2>1, <2>2 DEF Counters
<1>4. w[n] = r[n]
  <2>1. w[n] <= r[n] /\ hand[c] = Span(w[n], r[n])
    BY <1>2 DEF Carried
  <2>2. Span(w[n], r[n]) = <<>> <=> w[n] = r[n]
    BY <1>2, <1>3, <2>1, SpanEmpty, Zenon
  <2> QED  BY <1>1, <2>1, <2>2
<1>5. CASE n = 0
  BY <1>1, <1>2, <1>4, <1>5 DEF Carried
<1>6. CASE n > 0
  <2> DEFINE d == <<g, n - 1>>
             e == 2 * (n - 1) + 1
  <2>1. /\ n \in 1 .. npipes[g] /\ n - 1 \in 0 .. npipes[g] /\ n - 1 \in 0 .. MaxPipes
        /\ d \in Children /\ e \in Ends /\ e < 2 * npipes[g]
    <3>1. /\ n \in 1 .. npipes[g] /\ n - 1 \in 0 .. npipes[g] /\ n - 1 \in 0 .. MaxPipes
          /\ e \in Ends /\ e < 2 * npipes[g]
      BY <1>2, <1>6, PipesAssumption DEF Ends
    <3>2. d \in Children
      BY <1>2, <3>1, ShellShapes
    <3> QED  BY <3>1, <3>2
  <2>2. open[g][e] = {} /\ buf[g][n - 1] = <<>>
    BY <1>1, <1>6
  <2>3. r[n] = w[n - 1]
    <3>1. r[n] <= w[n - 1] /\ buf[g][n - 1] = Span(r[n], w[n - 1])
      BY <2>1 DEF Carried
    <3>2. Span(r[n], w[n - 1]) = <<>> <=> r[n] = w[n - 1]
      <4>1. r[n] \in Nat /\ w[n - 1] \in Nat
        BY <1>2, <1>3, <2>1
      <4>2. r[n] <= w[n - 1]
        BY <3>1
      <4> QED  BY <4>1, <4>2, SpanEmpty, Zenon
    <3> QED  BY <2>2, <3>1, <3>2
  <2>4. proc[d] \notin {"forked", "running"}
    <3>1. OutEnd(d) = e
      BY <1>2, <2>1 DEF OutEnd
    <3> QED  BY <2>1, <2>2, <3>1 DEF EndsHeld
  <2>5. proc[d] # "none"
    <3>1. SUFFICES ASSUME proc[d] = "none"  PROVE FALSE
      OBVIOUS
    <3>2. g = gen /\ stage \in {"pipe", "fork"}
      BY <2>1, <3>1 DEF Whole
    <3>3. stage # "fork"
      BY <2>1, <2>2, <3>2 DEF EndsHeld
    <3>4. stage # "pipe"
      BY <1>1, <3>2 DEF PInv, ToCome
    <3> QED  BY <3>2, <3>3, <3>4
  <2>6. proc[d] = "done"
    BY <2>1, <2>4, <2>5, ShellShapes DEF Whole
  <2> QED  BY <1>4, <2>1, <2>3, <2>6 DEF Carried
<1> QED  BY <1>2, <1>5, <1>6, PipesAssumption

\* A child ends: no pipeline that is whole loses anything.
LEMMA ExitFlows ==
  ASSUME PInv, PInv', EndsHeld, EndsHeld', Flows, NEW c \in Children,
         proc[c] \in {"forked", "running"},
         NEW s \in {"done", "cut"}, Exits(c, s), s = "done" => Finish(c)
  PROVE  Flows'
<1>1. /\ proc' = [proc EXCEPT ![c] = s] /\ hand' = [hand EXCEPT ![c] = <<>>]
      /\ made' = IF c[2] = 0 THEN [made EXCEPT ![c[1]] = 0] ELSE made
      /\ buf' = [g \in Gens |-> [k \in 0 .. MaxPipes - 1 |->
                   IF open'[g][2 * k] = {} THEN <<>> ELSE buf[g][k]]]
      /\ UNCHANGED shellVars /\ UNCHANGED <<stage, gen, i, npipes, out>>
  BY DEF Exits, shellVars
<1>2. /\ c[1] \in Gens /\ c = <<c[1], c[2]>> /\ c[2] \in 0 .. npipes[c[1]]
      /\ proc'[c] = s /\ \A d \in Children : d # c => proc'[d] = proc[d]
  BY <1>1, ShellShapes, ChildShapes, PipesAssumption
<1>3. SUFFICES ASSUME NEW g \in 1 .. gen, Whole(g)'
               PROVE  \E r, w \in Counters : Carried(g, r, w)'
  BY <1>1 DEF Flows
<1>4. /\ g \in Gens /\ npipes[g] \in 0 .. MaxPipes /\ npipes[g] \in Nat
      /\ \A n \in 0 .. npipes[g] : n \in 0 .. MaxPipes /\ <<g, n>> \in Children
  BY ShellShapes, PipesAssumption
<1>5. Whole(g)
  <2>1. \A d \in Children : d[1] = g /\ proc[d] \in {"none", "cut"} => proc'[d] = proc[d]
    BY <1>2
  <2> QED  BY <1>1, <1>3, <1>4, <2>1, WholeBack
<1>6. PICK r, w \in Counters : Carried(g, r, w)
  BY <1>3, <1>5 DEF Flows
<1>7. c[1] = g => s = "done" /\ Finish(c)
  BY <1>1, <1>2, <1>3 DEF Whole
<1>8. \A n \in 0 .. npipes[g] : hand'[<<g, n>>] = hand[<<g, n>>]
  <2>1. c[1] = g => hand[c] = <<>>
    BY <1>7 DEF Finish
  <2>2. TAKE n \in 0 .. npipes[g]
  <2>3. CASE <<g, n>> = c
    BY <1>1, <2>1, <2>3, ShellShapes
  <2>4. CASE <<g, n>> # c
    BY <1>1, <1>4, <2>4, ShellShapes
  <2> QED  BY <2>3, <2>4
<1>9. ASSUME NEW n \in 1 .. npipes[g]  PROVE buf'[g][n - 1] = buf[g][n - 1]
  <2>1. /\ n - 1 \in 0 .. MaxPipes - 1 /\ n \in 0 .. npipes[g] /\ n # 0
        /\ n - 1 \in 0 .. npipes[g]
    BY <1>4, PipesAssumption
  <2>2. buf'[g][n - 1] = IF open'[g][2 * (n - 1)] = {} THEN <<>> ELSE buf[g][n - 1]
    BY <1>1, <1>4, <2>1
  <2>3. CASE open'[g][2 * (n - 1)] # {}
    BY <2>2, <2>3
  <2>4. CASE open'[g][2 * (n - 1)] = {} /\ <<g, n>> = c
    BY <1>7, <2>1, <2>2, <2>4 DEF Finish, InPipe
  <2>5. CASE open'[g][2 * (n - 1)] = {} /\ <<g, n>> # c
    <3>1. proc'[<<g, n>>] = "done" => proc[<<g, n>>] = "done"
      BY <1>2, <1>4, <2>1, <2>5
    <3>2. proc'[<<g, n>>] = "none" =>
            \A k \in {n - 1, n} : proc'[<<g, k>>] = proc[<<g, k>>]
      <4>1. proc'[<<g, n>>] = "none" => g = gen /\ stage \in {"pipe", "fork"}
        BY <1>1, <1>3, <2>1 DEF Whole
      <4>2. CASE <<g, n - 1>> # c
        BY <1>2, <1>4, <2>1, <2>5, <4>2
      <4>3. CASE <<g, n - 1>> = c
        <5>1. c[1] = g  BY <4>3
        <5>2. SUFFICES ASSUME proc'[<<g, n>>] = "none"  PROVE FALSE
          OBVIOUS
        <5>3. stage # "pipe"
          BY <1>2, <4>1, <5>1, <5>2 DEF PInv, ToCome
        <5>4. 2 * (n - 1) \in Ends /\ 2 * (n - 1) < 2 * npipes[g]
          BY <1>4, <2>1, PipesAssumption DEF Ends
        <5>5. stage' = "fork" /\ g = gen' /\ npipes' = npipes
          BY <1>1, <4>1, <5>2, <5>3
        <5>6. Shell \in open'[g][2 * (n - 1)]
          BY <5>4, <5>5 DEF EndsHeld
        <5> QED  BY <2>5, <5>6
      <4> QED  BY <4>2, <4>3
    <3>3. /\ proc' \in [Children -> {"none", "forked", "running", "done", "cut"}]
          /\ ToCome'
      BY DEF PInv, PipeTypeOK, ChildTypeOK
    <3>4. buf[g][n - 1] = <<>>
      BY <1>1, <1>3, <1>4, <1>6, <2>5, <3>1, <3>2, <3>3, ClosedEmpty
    <3> QED  BY <2>2, <3>4
  <2> QED  BY <2>3, <2>4, <2>5
<1>10. CASE c[1] # g
  <2>1. \A n \in 0 .. npipes[g] : proc'[<<g, n>>] = proc[<<g, n>>]
    BY <1>2, <1>4, <1>10
  <2>2. made'[g] = made[g]
    <3>1. made \in [Gens -> 0 .. Items]
      BY DEF PInv, PipeTypeOK, ChildTypeOK
    <3> QED  BY <1>1, <1>2, <1>4, <1>10, <3>1
  <2>3. Carried(g, r, w)'
    BY <1>1, <1>4, <1>6, <1>8, <1>9, <2>1, <2>2, CarriedStays
  <2> QED  BY <2>3
<1>11. CASE c[1] = g
  <2>1. w[c[2]] = Items
    BY <1>5, <1>6, <1>7, <1>11, FinishHasAll
  <2>2. c[2] # 0 => made' = made /\ proc'[<<g, 0>>] = proc[<<g, 0>>]
    BY <1>1, <1>2, <1>4, <1>11
  <2>3. c[2] = 0 => proc'[<<g, 0>>] = "done"
    BY <1>2, <1>7, <1>11
  <2>4. proc'[<<g, 0>>] # "done" => r[0] = made'[g]
    BY <1>6, <2>2, <2>3 DEF Carried
  <2>5. ASSUME NEW n \in 0 .. npipes[g]
        PROVE  /\ proc'[<<g, n>>] = "none" => r[n] = 0
               /\ proc'[<<g, n>>] = "done" => w[n] = Items
    <3>1. CASE n = c[2]
      BY <1>2, <1>7, <1>11, <2>1, <3>1
    <3>2. CASE n # c[2]
      <4>1. proc'[<<g, n>>] = proc[<<g, n>>]
        BY <1>2, <1>4, <3>2
      <4> QED  BY <1>6, <4>1 DEF Carried
    <3> QED  BY <3>1, <3>2
  <2>6. Carried(g, r, w)'
    BY <1>1, <1>6, <1>8, <1>9, <2>4, <2>5 DEF Carried
  <2> QED  BY <2>6
<1> QED  BY <1>10, <1>11

\* Each step keeps the counts of a pipeline that is whole.
LEMMA FlowsStep ==
  ASSUME PInv, PInv', EndsHeld, EndsHeld', Fresh, Flows, [PipeNext]_vars
  PROVE  Flows'
<1>1. ASSUME UNCHANGED <<gen, npipes, dataVars>>,
             \A c \in Children :
               \/ proc'[c] = proc[c]
               \/ /\ proc[c] = "none" /\ proc'[c] = "forked"
                  /\ c[1] = gen /\ stage = "fork"
               \/ proc[c] = "forked" /\ proc'[c] = "running",
             stage' \in {"pipe", "fork"} => stage \in {"pipe", "fork"}
      PROVE  Flows'
  <2>1. SUFFICES ASSUME NEW g \in 1 .. gen, Whole(g)'
                 PROVE  \E r, w \in Counters : Carried(g, r, w)'
    BY <1>1 DEF Flows
  <2>2. g \in Gens /\ \A n \in 0 .. npipes[g] : <<g, n>> \in Children
    BY ShellShapes, PipesAssumption
  <2>3. Whole(g)
    <3>1. \A n \in 0 .. npipes[g] : proc[<<g, n>>] # "cut"
      BY <1>1, <2>1, <2>2 DEF Whole
    <3>2. CASE g = gen /\ stage \in {"pipe", "fork"}
      BY <3>1, <3>2 DEF Whole
    <3>3. CASE ~(g = gen /\ stage \in {"pipe", "fork"})
      <4>1. \A n \in 0 .. npipes[g] : proc'[<<g, n>>] # "none"
        BY <1>1, <2>1, <3>3 DEF Whole
      <4>2. \A n \in 0 .. npipes[g] : proc[<<g, n>>] # "none"
        <5>1. TAKE n \in 0 .. npipes[g]
        <5>2. <<g, n>> \in Children /\ proc'[<<g, n>>] # "none"
          BY <2>2, <4>1
        <5> QED  BY <1>1, <3>3, <5>2
      <4> QED  BY <3>1, <4>2 DEF Whole
    <3> QED  BY <3>2, <3>3
  <2>4. PICK r, w \in Counters : Carried(g, r, w)
    BY <2>1, <2>3 DEF Flows
  <2>5. \A n \in 0 .. npipes[g] :
           /\ proc'[<<g, n>>] = "none" => proc[<<g, n>>] = "none"
           /\ proc'[<<g, n>>] = "done" <=> proc[<<g, n>>] = "done"
    <3>1. TAKE n \in 0 .. npipes[g]
    <3>2. <<g, n>> \in Children
      BY <2>2
    <3> QED  BY <1>1, <3>2
  <2>6. Carried(g, r, w)'
    BY <1>1, <2>2, <2>4, <2>5, CarriedStays DEF dataVars
  <2> QED  BY <2>6
<1>2. ASSUME NEW t \in CommandLines, ReadLine(t)  PROVE Flows'
  <2>1. /\ gen' = gen + 1 /\ gen \in Nat /\ gen + 1 \in Gens /\ stage = "prompt"
        /\ UNCHANGED <<proc, dataVars>>
        /\ \A g \in 1 .. gen : npipes'[g] = npipes[g]
    <3>1. gen \in 0 .. Lines /\ npipes \in [Gens -> 0 .. MaxPipes]
      BY DEF PInv, PipeTypeOK, ShellTypeOK
    <3>2. gen + 1 \in Gens /\ gen \in Nat /\ \A g \in 1 .. gen : g \in Gens /\ g # gen + 1
      BY <1>2, <3>1, LinesAssumption DEF ReadLine, Gens
    <3> QED  BY <1>2, <3>1, <3>2 DEF ReadLine
  <2>2. ASSUME NEW g \in 1 .. gen, Whole(g)'  PROVE \E r, w \in Counters : Carried(g, r, w)'
    <3>1. Whole(g)
      BY <2>1, <2>2 DEF Whole
    <3>2. PICK r, w \in Counters : Carried(g, r, w)
      BY <3>1, <2>2 DEF Flows
    <3>3. Carried(g, r, w)'
      BY <2>1, <3>2, CarriedStays, ShellShapes DEF dataVars
    <3> QED  BY <3>3
  <2>3. ASSUME NEW h \in Gens, h = gen + 1  PROVE \E r, w \in Counters : Carried(h, r, w)'
    <3>1. PICK zero \in Counters : \A n \in 0 .. MaxPipes : zero[n] = 0
      <4>1. [n \in 0 .. MaxPipes |-> 0] \in Counters
        BY ItemsAssumption DEF Counters
      <4> QED  BY <4>1
    <3>2. h > gen
      BY <2>1, <2>3
    <3>3. /\ made[h] = 0 /\ out[h] = <<>>
          /\ \A k \in 0 .. MaxPipes - 1 : buf[h][k] = <<>>
          /\ \A n \in 0 .. MaxPipes : hand[<<h, n>>] = <<>>
      BY <3>2 DEF Fresh
    <3>4. \A n \in 0 .. MaxPipes : proc[<<h, n>>] = "none"
      BY <3>2, ShellShapes DEF PInv, ToCome
    <3>5. npipes'[h] \in 0 .. MaxPipes
      BY <3>2 DEF PInv, PipeTypeOK, ShellTypeOK
    <3>6. Span(0, 0) = <<>>
      <4>1. 0 \in Nat  OBVIOUS
      <4> QED  BY <4>1, SpanSelf, Zenon
    <3>7. /\ \A n \in 0 .. npipes'[h] : n \in 0 .. MaxPipes
          /\ \A n \in 1 .. npipes'[h] : /\ n \in 0 .. MaxPipes /\ n - 1 \in 0 .. MaxPipes
                                      /\ n - 1 \in 0 .. MaxPipes - 1
          /\ npipes'[h] \in 0 .. MaxPipes /\ 0 \in 0 .. MaxPipes
      BY <3>5, PipesAssumption
    <3>8. UNCHANGED <<proc, buf, hand, made, out>>
      BY <2>1 DEF dataVars
    <3>9. Carried(h, zero, zero)'
      <4>1. /\ \A n \in 0 .. npipes'[h] : zero[n] <= zero[n]
            /\ \A n \in 1 .. npipes'[h] : zero[n] <= zero[n - 1]
        BY <3>1, <3>7
      <4>2. \A n \in 0 .. npipes'[h] :
              /\ hand'[<<h, n>>] = Span(zero[n], zero[n])
              /\ zero[n] = 0 /\ proc'[<<h, n>>] # "done"
        BY <3>1, <3>3, <3>4, <3>6, <3>7, <3>8
      <4>3. \A n \in 1 .. npipes'[h] : buf'[h][n - 1] = Span(zero[n], zero[n - 1])
        BY <3>1, <3>3, <3>6, <3>7, <3>8
      <4>4. zero[0] = made'[h] /\ out'[h] = Span(0, zero[npipes'[h]])
        BY <3>1, <3>3, <3>6, <3>7, <3>8
      <4> QED  BY <4>1, <4>2, <4>3, <4>4 DEF Carried
    <3> QED  BY <3>9
  <2>4. \A g \in 1 .. gen' : g \in 1 .. gen \/ g = gen + 1
    BY <2>1
  <2>5. ASSUME NEW g \in 1 .. gen', Whole(g)'  PROVE \E r, w \in Counters : Carried(g, r, w)'
    <3>1. CASE g \in 1 .. gen
      BY <2>2, <2>5, <3>1
    <3>2. CASE g = gen + 1
      BY <2>1, <2>3, <3>2
    <3> QED  BY <2>4, <2>5, <3>1, <3>2
  <2> QED  BY <2>5 DEF Flows
<1>3. ASSUME MakePipe \/ PipesMade \/ Forked \/ Wait \/ Waited \/ PipeFails \/ CommandFails
      PROVE  Flows'
  <2>1. /\ UNCHANGED <<gen, npipes, dataVars, proc>>
        /\ stage' \in {"pipe", "fork"} => stage \in {"pipe", "fork"}
    BY <1>3 DEF MakePipe, PipesMade, Forked, Wait, Waited, PipeFails, CommandFails, Prompt
  <2> QED  BY <1>1, <2>1
<1>4. ASSUME Fork  PROVE Flows'
  <2>1. /\ UNCHANGED <<stage, gen, npipes, dataVars>> /\ stage = "fork"
        /\ proc' = [proc EXCEPT ![<<gen, i>>] = "forked"] /\ gen \in Gens
        /\ i <= npipes[gen] /\ i \in Nat /\ npipes[gen] \in 0 .. MaxPipes
    BY <1>4, ShellShapes DEF Fork
  <2>2. <<gen, i>> \in Children
    BY <2>1, PipesAssumption, ShellShapes
  <2>3. proc[<<gen, i>>] = "none"
    BY <2>1, <2>2 DEF PInv, ToCome
  <2>4. \A c \in Children : proc'[c] = IF c = <<gen, i>> THEN "forked" ELSE proc[c]
    BY <2>1, ShellShapes
  <2> QED  BY <1>1, <2>1, <2>2, <2>3, <2>4
<1>5. ASSUME NEW c \in Children, Execs(c)  PROVE Flows'
  <2>1. /\ UNCHANGED <<stage, gen, npipes, dataVars>>
        /\ proc[c] = "forked" /\ proc' = [proc EXCEPT ![c] = "running"]
    BY <1>5 DEF Execs, shellVars
  <2>2. \A d \in Children : proc'[d] = IF d = c THEN "running" ELSE proc[d]
    BY <2>1, ShellShapes
  <2> QED  BY <1>1, <2>1, <2>2
<1>6. ASSUME NEW c \in Children, ExecFails(c) \/ Broken(c) \/ Quits(c) \/ Finish(c)
      PROVE  Flows'
  <2>1. /\ proc[c] \in {"forked", "running"}
        /\ \E s \in {"done", "cut"} : Exits(c, s) /\ (s = "done" => Finish(c))
    BY <1>6 DEF ExecFails, Broken, Quits, Finish
  <2> QED  BY <2>1, ExitFlows
<1>7. ASSUME NEW c \in Children, Make(c) \/ Read(c) \/ Write(c) \/ WriteOut(c)
      PROVE  Flows'
  <2>1. UNCHANGED <<shellVars, proc>> /\ \A d \in Children : d # c => hand'[d] = hand[d]
    BY <1>7, ShellShapes DEF Make, Read, Write, WriteOut
  <2>2. \A g \in Gens : g # c[1] => made'[g] = made[g] /\ out'[g] = out[g] /\ buf'[g] = buf[g]
    <3>1. /\ made \in [Gens -> 0 .. Items] /\ out \in [Gens -> Seq(1 .. Items)]
          /\ buf \in [Gens -> [0 .. MaxPipes - 1 -> Seq(1 .. Items)]]
      BY DEF PInv, PipeTypeOK, ChildTypeOK
    <3> QED  BY <1>7, <3>1 DEF Make, Read, Write, WriteOut
  <2>3. ASSUME NEW r \in Counters, NEW w \in Counters, Carried(c[1], r, w)
        PROVE  \E rr, ww \in Counters : Carried(c[1], rr, ww)'
    BY <1>7, <2>3, MakeFlows, ReadFlows, WriteFlows
  <2> QED  BY <2>1, <2>2, <2>3, OthersFlow
<1>8. ASSUME UNCHANGED vars  PROVE Flows'
  <2>1. UNCHANGED <<stage, gen, npipes, dataVars, proc>>
    BY <1>8 DEF vars, shellVars
  <2> QED  BY <1>1, <2>1
<1> QED
  BY <1>2, <1>3, <1>4, <1>5, <1>6, <1>7, <1>8 DEF PipeNext, ShellStep, ShellFails, ProgramStep

\* swish_funcs.h:31: at the prompt, the last program of a pipeline of which nothing was
\* cut short and nothing failed to start has written all the first one made, in order,
\* for any number of pipes, items and any capacity.
THEOREM OutputWhole == PipeSpec => []WholeOutput
<1> DEFINE FInv == EndsHeld /\ Fresh /\ Flows
<1>1. PipeInit => Settled
  BY DEF PipeInit, Settled, EarlierReaped, ReapedEarlier, AllForked, WaitsCount, NothingLeft
<1>2. PInv /\ Settled /\ [PipeNext]_vars => Settled'
  <2>1. ASSUME PInv, Settled, UNCHANGED vars PROVE Settled'
    BY <2>1, ChildrenStay DEF vars
  <2> QED BY <2>1, SettledStep
<1>3. PipeInit => FInv
  <2>1. SUFFICES ASSUME PipeInit  PROVE FInv
    OBVIOUS
  <2>2. EndsHeld /\ Fresh
    BY <2>1 DEF PipeInit, EndsHeld, Fresh, Children
  <2>3. Flows
    BY <2>1 DEF PipeInit, Flows
  <2> QED  BY <2>2, <2>3
<1>4. PInv /\ PInv' /\ FInv /\ [PipeNext]_vars => FInv'
  BY EndsHeldStep, FreshStep, FlowsStep
<1>5. PInv /\ Settled /\ FInv => WholeOutput
  <2>1. SUFFICES ASSUME PInv, Settled, FInv, stage = "prompt", \A g \in 1 .. gen : ~Stunted(g),
                        NEW g \in 1 .. gen,
                        \A n \in 0 .. npipes[g] : proc[<<g, n>>] \notin {"none", "cut"}
                 PROVE  out[g] = [k \in 1 .. Items |-> k]
    BY DEF WholeOutput
  <2>2. Whole(g)
    BY <2>1 DEF Whole
  <2>3. PICK r, w \in Counters : Carried(g, r, w)
    BY <2>1, <2>2 DEF Flows
  <2>4. npipes[g] \in 0 .. npipes[g] /\ <<g, npipes[g]>> \in Children
    BY <2>1, ShellShapes, PipesAssumption
  <2>5. <<g, npipes[g]>> \in reaped
    BY <2>1, <2>4 DEF Settled, NothingLeft
  <2>6. proc[<<g, npipes[g]>>] = "done"
    BY <2>1, <2>4, <2>5 DEF PInv, PipeTypeOK, ChildTypeOK, Ended
  <2>7. w[npipes[g]] = Items /\ out[g] = Span(0, w[npipes[g]])
    BY <2>3, <2>4, <2>6 DEF Carried
  <2>8. Span(0, Items) = [k \in 1 .. Items |-> k]
    BY ItemsAssumption DEF Span
  <2> QED  BY <2>7, <2>8
<1> HIDE DEF FInv
<1> QED  BY <1>1, <1>2, <1>3, <1>4, <1>5, PipeInvariant, PTL DEF PipeSpec

-------------------------------------------------------------------------------
(* What the children get of the command line *)

LEMMA LeastNumber ==
  ASSUME NEW T \in SUBSET Nat, T # {}
  PROVE  \E x \in T : \A y \in T : x <= y
<1>1. \E x \in T : \A y \in T : ~ (<<y, x>> \in OpToRel(<, Nat))
  BY NatLessThanWellFounded, WFMin
<1>2. \A x, y \in T : x < y => <<x, y>> \in OpToRel(<, Nat)
  BY DEF OpToRel
<1>3. \A x, y \in T : ~(y < x) => x <= y
  OBVIOUS
<1> QED  BY <1>1, <1>2, <1>3

\* The bars up to place s of a line.
BarsTo(t, s) == {k \in Bars(t) : k < s + 1}

\* A command starts at s: behind n bars, at the front of the line or at a bar.
StartsAt(t, s, n) ==
  (s = 0 \/ s \in Bars(t)) /\ Cardinality(BarsTo(t, s)) = n

\* The shapes of a command line in which bars stand between words.
LEMMA LineShapes ==
  ASSUME NEW t \in CommandLines
  PROVE  /\ t \in Seq(Nat) /\ Len(t) \in Nat /\ DOMAIN t = 1 .. Len(t)
         /\ \A x \in 1 .. Len(t) : t[x] # Bar => t[x] = x
         /\ Bars(t) \in SUBSET (1 .. Len(t)) /\ Bars(t) \in SUBSET Nat
         /\ IsFiniteSet(Bars(t))
         /\ \A x \in 1 .. Len(t) : x \in Bars(t) <=> t[x] = Bar
<1>1. t \in Seq(Nat) /\ Len(t) \in Nat /\ DOMAIN t = 1 .. Len(t)
  BY CommandLinesAssumption
<1>2. \A x \in 1 .. Len(t) : t[x] # Bar => t[x] = x
  BY <1>1, CommandLinesAssumption
<1>3. /\ Bars(t) \in SUBSET (1 .. Len(t)) /\ Bars(t) \in SUBSET Nat
      /\ \A x \in 1 .. Len(t) : x \in Bars(t) <=> t[x] = Bar
  BY <1>1 DEF Bars
<1>4. IsFiniteSet(Bars(t))
  <2>1. 1 \in Int /\ Len(t) \in Int
    BY <1>1
  <2>2. IsFiniteSet(1 .. Len(t))
    BY <2>1, FS_Interval
  <2> QED  BY <1>3, <2>2, FS_Subset
<1> QED  BY <1>1, <1>2, <1>3, <1>4

\* The loop looks up to the end e of a command, where no bar is before.
LEMMA RoundsCount ==
  ASSUME NEW s \in Nat, NEW e \in Nat, s < e, NEW t, Rounds(t, s) = s .. e - 2
  PROVE  s + Cardinality(Rounds(t, s)) = e - 1
<1>1. s \in Int /\ e - 2 \in Int
  OBVIOUS
<1>2. Cardinality(s .. e - 2) = IF s > e - 2 THEN 0 ELSE (e - 2) - s + 1
  BY <1>1, FS_Interval
<1> QED  BY <1>2

\* Where the command that starts at s ends: at the next bar, or at the end of the line.
LEMMA CommandCut ==
  ASSUME NEW t \in CommandLines, WellFormed(t), NEW s \in Nat,
         s = 0 \/ s \in Bars(t)
  PROVE  LET e == CommandEnd(t, s) IN
         /\ e \in s + 1 .. Len(t)
         /\ \A x \in s + 1 .. e : x \notin Bars(t)
         /\ e = Len(t) \/ e + 1 \in Bars(t)
<1>1. /\ t \in Seq(Nat) /\ Len(t) \in Nat
      /\ Bars(t) \in SUBSET (1 .. Len(t)) /\ Bars(t) \in SUBSET Nat
      /\ \A x \in 1 .. Len(t) : x \in Bars(t) <=> t[x] = Bar
  BY LineShapes
<1>2. Len(t) > 0 /\ 1 \notin Bars(t) /\ Len(t) \notin Bars(t)
  <2>1. t # <<>> /\ t[1] # Bar /\ t[Len(t)] # Bar
    BY DEF WellFormed
  <2>2. Len(t) > 0
    BY <1>1, <2>1
  <2> QED  BY <1>1, <2>1, <2>2
<1>3. \A x \in 1 .. Len(t) - 1 : x \in Bars(t) => x + 1 \notin Bars(t)
  BY <1>1 DEF WellFormed
<1>4. s + 1 \in 1 .. Len(t) /\ s + 1 \notin Bars(t)
  BY <1>1, <1>2, <1>3
<1> DEFINE Behind == {x \in Bars(t) : s < x}
<1>5. CASE Behind = {}
  <2>1. \A x \in s + 1 .. Len(t) : x \notin Bars(t)
    BY <1>1, <1>5
  <2>2. Rounds(t, s) = s .. Len(t) - 2
    BY <1>1, <1>4, <2>1 DEF Rounds
  <2>3. s + Cardinality(Rounds(t, s)) = Len(t) - 1
    BY <1>1, <1>4, <2>2, RoundsCount
  <2>4. CommandEnd(t, s) = Len(t)
    BY <1>1, <2>3 DEF CommandEnd
  <2> QED  BY <1>1, <1>4, <2>1, <2>4
<1>6. CASE Behind # {}
  <2>1. PICK b \in Behind : \A y \in Behind : b <= y
    <3>1. Behind \in SUBSET Nat
      BY <1>1
    <3> HIDE DEF Behind
    <3> QED  BY <1>6, <3>1, LeastNumber
  <2>2. b \in Bars(t) /\ b \in Nat /\ s + 1 < b /\ b < Len(t)
    BY <1>1, <1>2, <1>4, <2>1
  <2>3. \A x \in s + 1 .. b - 1 : x \notin Bars(t)
    <3>1. TAKE x \in s + 1 .. b - 1
    <3>2. x \in Nat /\ s < x /\ ~(b <= x)
      BY <2>2
    <3> QED  BY <2>1, <3>2
  <2>4. Rounds(t, s) = s .. b - 2
    <3>1. ASSUME NEW x \in s .. Len(t) - 2, x <= b - 2, NEW y \in s + 1 .. x
          PROVE  t[y + 1] # Bar
      <4>1. y + 1 \in s + 1 .. b - 1 /\ y + 1 \in 1 .. Len(t)
        BY <1>1, <2>2, <3>1
      <4> QED  BY <1>1, <2>3, <4>1
    <3>2. ASSUME NEW x \in s .. Len(t) - 2, ~(x <= b - 2)
          PROVE  \E y \in s + 1 .. x : t[y + 1] = Bar
      <4>1. b - 1 \in s + 1 .. x /\ b - 1 + 1 = b /\ b \in 1 .. Len(t)
        BY <1>1, <2>2, <3>2
      <4> QED  BY <1>1, <2>2, <4>1
    <3>3. s .. b - 2 \subseteq s .. Len(t) - 2
      BY <1>1, <2>2
    <3>4. \A x \in s .. Len(t) - 2 : x <= b - 2 <=> x \in s .. b - 2
      BY <1>1, <2>2
    <3> QED  BY <3>1, <3>2, <3>3, <3>4 DEF Rounds
  <2>5. s + Cardinality(Rounds(t, s)) = b - 1
    BY <2>2, <2>4, RoundsCount
  <2>6. CommandEnd(t, s) = b - 1
    BY <1>1, <2>2, <2>5 DEF CommandEnd
  <2> QED  BY <1>1, <2>2, <2>3, <2>6
<1> QED  BY <1>5, <1>6

\* The next command starts behind one bar more.
LEMMA NextStart ==
  ASSUME NEW t \in CommandLines, WellFormed(t), NEW s \in Nat, NEW n \in Nat,
         StartsAt(t, s, n)
  PROVE  \/ CommandEnd(t, s) = Len(t) /\ n = Cardinality(Bars(t))
         \/ StartsAt(t, CommandEnd(t, s) + 1, n + 1)
<1> DEFINE e == CommandEnd(t, s)
<1>1. /\ e \in s + 1 .. Len(t) /\ \A x \in s + 1 .. e : x \notin Bars(t)
      /\ e = Len(t) \/ e + 1 \in Bars(t)
  BY CommandCut DEF StartsAt
<1>2. /\ Len(t) \in Nat /\ IsFiniteSet(Bars(t)) /\ Bars(t) \in SUBSET (1 .. Len(t))
      /\ Bars(t) \in SUBSET Nat
  BY LineShapes
<1> HIDE DEF e
<1>3. e \in Nat /\ s < e
  BY <1>1, <1>2
<1>4. CASE e = Len(t)
  <2>1. BarsTo(t, s) = Bars(t)
    BY <1>1, <1>2, <1>3, <1>4 DEF BarsTo
  <2> QED  BY <1>4, <2>1 DEF StartsAt, e
<1>5. CASE e # Len(t)
  <2>1. e + 1 \in Bars(t)
    BY <1>1, <1>5
  <2>2. BarsTo(t, e + 1) = BarsTo(t, s) \cup {e + 1}
    BY <1>1, <1>2, <1>3, <2>1 DEF BarsTo
  <2>3. e + 1 \notin BarsTo(t, s)
    BY <1>2, <1>3 DEF BarsTo
  <2>4. IsFiniteSet(BarsTo(t, s))
    BY <1>2, FS_Subset DEF BarsTo
  <2>5. Cardinality(BarsTo(t, e + 1)) = n + 1
    <3>1. Cardinality(BarsTo(t, s) \cup {e + 1}) = Cardinality(BarsTo(t, s)) + 1
      BY <2>3, <2>4, FS_AddElement
    <3> QED  BY <2>2, <3>1 DEF StartsAt
  <2> QED  BY <2>1, <2>5 DEF StartsAt, e
<1> QED  BY <1>4, <1>5

\* The command that starts behind n bars holds the words behind n bars.
LEMMA SliceWords ==
  ASSUME NEW t \in CommandLines, WellFormed(t), NEW s \in Nat, NEW n \in Nat,
         StartsAt(t, s, n)
  PROVE  Lists(Slice(t, s), Words(t, n))
<1> DEFINE e == CommandEnd(t, s)
<1>1. /\ e \in s + 1 .. Len(t) /\ \A x \in s + 1 .. e : x \notin Bars(t)
      /\ e = Len(t) \/ e + 1 \in Bars(t)
  BY CommandCut DEF StartsAt
<1>2. /\ Len(t) \in Nat /\ IsFiniteSet(Bars(t)) /\ Bars(t) \in SUBSET (1 .. Len(t))
      /\ Bars(t) \in SUBSET Nat
      /\ t \in Seq(Nat) /\ DOMAIN t = 1 .. Len(t)
      /\ \A x \in 1 .. Len(t) : x \in Bars(t) <=> t[x] = Bar
      /\ \A x \in 1 .. Len(t) : t[x] # Bar => t[x] = x
  BY LineShapes
<1>4. e \in Nat /\ s < e /\ e <= Len(t)
  <2>1. Len(t) \in Nat /\ e \in s + 1 .. Len(t)
    BY <1>1, <1>2
  <2> HIDE DEF e
  <2> QED  BY <2>1
<1>3. Slice(t, s) = SubSeq(t, s + 1, e)
  BY <1>4 DEF Slice, strvec_slice
<1> HIDE DEF e
<1>5. /\ DOMAIN Slice(t, s) = 1 .. e - s
      /\ \A x \in 1 .. e - s : Slice(t, s)[x] = s + x
  <2>1. /\ DOMAIN SubSeq(t, s + 1, e) = 1 .. e - s
        /\ \A x \in 1 .. e - s : SubSeq(t, s + 1, e)[x] = t[s + x]
    BY <1>2, <1>4
  <2>2. \A x \in 1 .. e - s : t[s + x] = s + x
    <3>1. TAKE x \in 1 .. e - s
    <3>2. s + x \in s + 1 .. e /\ s + x \in 1 .. Len(t)
      BY <1>2, <1>4
    <3> QED  BY <1>1, <1>2, <3>2
  <2> QED  BY <1>3, <2>1, <2>2
<1>6. {Slice(t, s)[x] : x \in DOMAIN Slice(t, s)} = s + 1 .. e
  <2>1. \A y \in s + 1 .. e : y - s \in 1 .. e - s /\ s + (y - s) = y
    BY <1>4
  <2>2. \A x \in 1 .. e - s : s + x \in s + 1 .. e
    BY <1>4
  <2> QED  BY <1>5, <2>1, <2>2
<1>7. \A x, y \in DOMAIN Slice(t, s) : x < y => Slice(t, s)[x] < Slice(t, s)[y]
  BY <1>4, <1>5
<1> DEFINE Before(x) == {k \in Bars(t) : k < x}
<1>8. \A x : IsFiniteSet(Before(x))
  BY <1>2, FS_Subset
<1>9. ASSUME NEW x \in s + 1 .. e  PROVE x \in Words(t, n)
  <2>0. /\ Bars(t) \in SUBSET Nat /\ x \in Nat /\ Len(t) \in Nat
        /\ s < x /\ x <= e /\ x \in 1 .. Len(t)
    <3>1. Bars(t) \in SUBSET Nat /\ Len(t) \in Nat
      BY <1>2
    <3> QED  BY <3>1, <1>4, <1>9
  <2>1. Before(x) = BarsTo(t, s)
    <3>1. \A y \in Bars(t) : y < x <=> y < s + 1
      <4>1. TAKE y \in Bars(t)
      <4>2. y \in Nat /\ y \notin s + 1 .. e
        BY <1>1, <2>0
      <4> QED  BY <1>4, <2>0, <4>2
    <3> QED  BY <3>1 DEF BarsTo
  <2>2. t[x] # Bar
    BY <1>1, <1>2, <1>9, <2>0
  <2> QED  BY <1>2, <2>0, <2>1, <2>2 DEF StartsAt, Words
<1>10. ASSUME NEW x \in Words(t, n)  PROVE x \in s + 1 .. e
  <2>1. x \in 1 .. Len(t) /\ x \in Nat /\ x \notin Bars(t) /\ Cardinality(Before(x)) = n
    BY <1>2, <1>10 DEF Words
  <2>2. IsFiniteSet(BarsTo(t, s)) /\ Cardinality(BarsTo(t, s)) = n
    BY <1>2, FS_Subset DEF BarsTo, StartsAt
  <2>3. CASE x < s + 1
    <3>1. s \in Bars(t) /\ x < s
      BY <2>1, <2>3 DEF StartsAt
    <3>2. /\ Before(x) \subseteq BarsTo(t, s)
          /\ s \in BarsTo(t, s) /\ s \notin Before(x)
      BY <1>2, <2>1, <3>1 DEF BarsTo
    <3>3. Before(x) # BarsTo(t, s)
      BY <3>2
    <3>4. Cardinality(Before(x)) < Cardinality(BarsTo(t, s))
      <4> HIDE DEF Before
      <4> QED  BY <2>2, <3>2, <3>3, FS_Subset, FS_CardinalityType
    <3> QED  BY <2>1, <2>2, <3>4
  <2>4. CASE x > e
    <3>1. e + 1 \in Bars(t) /\ e + 1 < x
      <4>1. e # Len(t)
        BY <1>4, <2>1, <2>4
      <4>2. e + 1 \in Bars(t) /\ e + 1 # x
        BY <1>1, <2>1, <4>1
      <4> QED  BY <1>4, <2>1, <2>4, <4>2
    <3>2. /\ BarsTo(t, s) \subseteq Before(x)
          /\ e + 1 \in Before(x) /\ e + 1 \notin BarsTo(t, s)
      BY <1>2, <1>4, <2>1, <3>1 DEF BarsTo
    <3>3. BarsTo(t, s) # Before(x)
      BY <3>2
    <3>4. Cardinality(BarsTo(t, s)) < Cardinality(Before(x))
      <4>1. IsFiniteSet(Before(x))
        BY <1>8
      <4> HIDE DEF Before
      <4> QED  BY <4>1, <3>2, <3>3, FS_Subset, FS_CardinalityType
    <3> QED  BY <2>1, <2>2, <3>4
  <2> QED  BY <1>4, <2>1, <2>3, <2>4
<1> QED  BY <1>6, <1>7, <1>9, <1>10 DEF Lists

\* While the shell forks, the next command starts behind as many bars as there are
\* children; and there are as many bars as pipes.
SplitInv ==
  /\ stage = "pipe" => start = 0
  /\ stage \in {"pipe", "fork"} => npipes[gen] = Cardinality(Bars(tokens))
  /\ stage = "fork" /\ WellFormed(tokens) /\ i <= npipes[gen] => StartsAt(tokens, start, i)
  /\ CommandsSplit

\* The property one step later.
LEMMA SplitPrime ==
  ASSUME stage' = "fork" /\ WellFormed(tokens') =>
           \A n \in 0 .. i' - 1 :
             proc'[<<gen', n>>] = "forked" =>
               Lists(command'[<<gen', n>>], Words(tokens', n))
  PROVE  CommandsSplit'
BY DEF CommandsSplit, Lists, Words, WellFormed, Bars

\* Commands that are not there yet, or not any longer, say nothing.
LEMMA SplitStays ==
  ASSUME SplitInv, UNCHANGED <<stage, gen, tokens, start, i, npipes>>,
         \A c \in Children : proc'[c] = "forked" =>
           proc[c] = "forked" /\ command'[c] = command[c],
         PInv
  PROVE  SplitInv'
<1>1. (stage = "pipe" => start = 0)'
  BY DEF SplitInv
<1>2. /\ (stage \in {"pipe", "fork"} => npipes[gen] = Cardinality(Bars(tokens)))'
      /\ (stage = "fork" /\ WellFormed(tokens) /\ i <= npipes[gen]
            => StartsAt(tokens, start, i))'
  BY DEF SplitInv, Bars, WellFormed, StartsAt, BarsTo
<1>3. CommandsSplit'
  <2>1. SUFFICES ASSUME stage = "fork", WellFormed(tokens), NEW n \in 0 .. i - 1,
                        proc'[<<gen, n>>] = "forked"
                 PROVE  Lists(command'[<<gen, n>>], Words(tokens, n))
    BY SplitPrime
  <2>2. <<gen, n>> \in Children
    <3>1. gen \in Gens /\ i \in 0 .. MaxPipes + 1 /\ i <= npipes[gen] + 1
          /\ npipes[gen] \in 0 .. MaxPipes
      BY <2>1 DEF PInv, PipeTypeOK, ShellTypeOK, Counts
    <3>2. n \in 0 .. MaxPipes
      BY <3>1, PipesAssumption
    <3> QED  BY <3>1, <3>2 DEF Children
  <2>3. proc[<<gen, n>>] = "forked" /\ command'[<<gen, n>>] = command[<<gen, n>>]
    BY <2>1, <2>2
  <2> QED  BY <2>1, <2>3, Zenon DEF SplitInv, CommandsSplit
<1> QED  BY <1>1, <1>2, <1>3 DEF SplitInv

LEMMA SplitStep ==
  ASSUME PInv, SplitInv, [PipeNext]_vars
  PROVE  SplitInv'
<1> USE PipesAssumption
<1>0. /\ gen \in 0 .. Lines /\ npipes \in [Gens -> 0 .. MaxPipes]
      /\ i \in Nat /\ start \in Nat
      /\ proc \in [Children -> {"none", "forked", "running", "done", "cut"}]
      /\ command \in [Children -> Seq(Nat)]
      /\ stage # "prompt" => gen \in Gens
      /\ stage = "fork" => tokens \in CommandLines
  BY DEF PInv, PipeTypeOK, ShellTypeOK, ChildTypeOK, Counts
<1>1. ASSUME NEW t \in CommandLines, ReadLine(t)  PROVE SplitInv'
  <2>1. /\ stage' = "pipe" /\ start' = 0 /\ gen' \in Gens /\ tokens' = t
        /\ npipes'[gen'] = Cardinality(Bars(t))
    <3>1. gen + 1 \in Gens
      BY <1>0, <1>1, LinesAssumption DEF ReadLine, Gens
    <3> QED  BY <1>0, <1>1, <3>1 DEF ReadLine, Bars, strvec_num_occurrences
  <2> QED  BY <2>1 DEF SplitInv, CommandsSplit, Bars
<1>2. ASSUME MakePipe  PROVE SplitInv'
  BY <1>2 DEF MakePipe, SplitInv, CommandsSplit, Bars
<1>3. ASSUME PipesMade  PROVE SplitInv'
  <2>1. /\ stage = "pipe" /\ stage' = "fork" /\ start' = 0 /\ i' = 0
        /\ UNCHANGED <<gen, tokens, npipes>>
    BY <1>3 DEF PipesMade, SplitInv
  <2>2. tokens \in CommandLines
    BY <2>1 DEF PInv, Counts
  <2>3. StartsAt(tokens, 0, 0)
    <3>1. BarsTo(tokens, 0) = {}
      BY <2>2, LineShapes DEF BarsTo
    <3> QED  BY <3>1, FS_EmptySet DEF StartsAt
  <2>4. (stage \in {"pipe", "fork"} => npipes[gen] = Cardinality(Bars(tokens)))'
    BY <2>1 DEF SplitInv, Bars
  <2>5. StartsAt(tokens, start, i)'
    BY <2>1, <2>3 DEF StartsAt, BarsTo, Bars
  <2>6. CommandsSplit'
    BY <2>1 DEF CommandsSplit
  <2> QED  BY <2>1, <2>4, <2>5, <2>6 DEF SplitInv
<1>4. ASSUME Fork  PROVE SplitInv'
  <2>1. /\ stage = "fork" /\ stage' = "fork" /\ gen \in Gens
        /\ UNCHANGED <<gen, tokens, npipes>> /\ tokens \in CommandLines
        /\ i <= npipes[gen] /\ i' = i + 1 /\ start' = CommandEnd(tokens, start) + 1
        /\ command' = [command EXCEPT ![<<gen, i>>] = Slice(tokens, start)]
        /\ proc' = [proc EXCEPT ![<<gen, i>>] = "forked"]
    BY <1>0, <1>4, Zenon DEF Fork
  <2>2. npipes[gen] \in 0 .. MaxPipes /\ <<gen, i>> \in Children
    BY <1>0, <2>1 DEF Children
  <2>3. (stage \in {"pipe", "fork"} => npipes[gen] = Cardinality(Bars(tokens)))'
    BY <2>1 DEF SplitInv, Bars
  <2>4. ASSUME WellFormed(tokens), i + 1 <= npipes[gen]
        PROVE  StartsAt(tokens, CommandEnd(tokens, start) + 1, i + 1)
    <3>1. StartsAt(tokens, start, i) /\ i # Cardinality(Bars(tokens))
      BY <1>0, <2>1, <2>2, <2>4 DEF SplitInv
    <3> QED  BY <1>0, <2>1, <2>4, <3>1, NextStart
  <2>5. (stage = "fork" /\ WellFormed(tokens) /\ i <= npipes[gen]
            => StartsAt(tokens, start, i))'
    BY <2>1, <2>4 DEF WellFormed, StartsAt, BarsTo, Bars
  <2>6. CommandsSplit'
    <3>1. SUFFICES ASSUME WellFormed(tokens), NEW n \in 0 .. i,
                          proc'[<<gen, n>>] = "forked"
                   PROVE  Lists(command'[<<gen, n>>], Words(tokens, n))
      <4>1. i' - 1 = i
        BY <1>0, <2>1
      <4> QED  BY <2>1, <4>1, SplitPrime
    <3>2. CASE n = i
      <4>1. command'[<<gen, n>>] = Slice(tokens, start)
        BY <1>0, <2>1, <2>2, <3>2
      <4>2. StartsAt(tokens, start, i)
        BY <2>1, <3>1 DEF SplitInv
      <4> QED  BY <1>0, <2>1, <3>1, <3>2, <4>1, <4>2, SliceWords
    <3>3. CASE n # i
      <4>1. n \in 0 .. i - 1 /\ <<gen, n>> # <<gen, i>> /\ <<gen, n>> \in Children
        BY <1>0, <2>1, <2>2, <3>3 DEF Children
      <4>2. proc[<<gen, n>>] = "forked" /\ command'[<<gen, n>>] = command[<<gen, n>>]
        BY <1>0, <2>1, <2>2, <3>1, <4>1
      <4> QED  BY <2>1, <3>1, <4>1, <4>2, Zenon DEF SplitInv, CommandsSplit
    <3> QED  BY <3>2, <3>3
  <2> QED  BY <2>1, <2>3, <2>5, <2>6 DEF SplitInv
<1>5. ASSUME Forked \/ Wait \/ Waited \/ PipeFails \/ CommandFails  PROVE SplitInv'
  <2>1. stage' \in {"prompt", "wait"}
    BY <1>5 DEF Forked, Wait, Waited, PipeFails, CommandFails, Prompt
  <2> QED  BY <2>1 DEF SplitInv, CommandsSplit
<1>6. ASSUME NEW c \in Children, Execs(c) \/ ExecFails(c)  PROVE SplitInv'
  <2>1. /\ UNCHANGED shellVars
        /\ \E s \in {"running", "cut"} : proc' = [proc EXCEPT ![c] = s]
        /\ command' = [command EXCEPT ![c] = <<>>]
    BY <1>6, Zenon DEF Execs, ExecFails, Exits
  <2>2. \A d \in Children : proc'[d] = "forked" =>
          proc[d] = "forked" /\ command'[d] = command[d]
    BY <1>0, <2>1
  <2> QED  BY <2>1, <2>2, SplitStays DEF shellVars
<1>7. ASSUME NEW c \in Children, ProgramStep(c) \/ Quits(c)  PROVE SplitInv'
  <2>1. /\ UNCHANGED <<shellVars, command>>
        /\ \/ UNCHANGED proc
           \/ \E s \in {"done", "cut"} : proc' = [proc EXCEPT ![c] = s]
    BY <1>7, Zenon
       DEF ProgramStep, Make, Read, Write, WriteOut, Broken, Finish, Quits, Exits
  <2>2. \A d \in Children : proc'[d] = "forked" =>
          proc[d] = "forked" /\ command'[d] = command[d]
    BY <1>0, <2>1
  <2> QED  BY <2>1, <2>2, SplitStays DEF shellVars
<1>8. ASSUME UNCHANGED vars  PROVE SplitInv'
  BY <1>8, SplitStays DEF vars, shellVars
<1> QED
  BY <1>1, <1>2, <1>3, <1>4, <1>5, <1>6, <1>7, <1>8 DEF PipeNext, ShellStep, ShellFails

\* swish_funcs.c:181: the commands of a well-formed line are cut at its bars, whatever
\* its length, and each child gets the words of its own.
THEOREM CommandsAreSplit == PipeSpec => []CommandsSplit
<1>1. PipeInit => SplitInv
  BY DEF PipeInit, SplitInv, CommandsSplit
<1>2. PInv /\ SplitInv /\ [PipeNext]_vars => SplitInv'
  BY SplitStep
<1>3. SplitInv => CommandsSplit
  BY DEF SplitInv
<1> QED  BY <1>1, <1>2, <1>3, PipeInvariant, PTL DEF PipeSpec
===============================================================================
