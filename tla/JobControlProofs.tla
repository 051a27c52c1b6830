--------------------------- MODULE JobControlProofs ---------------------------
(***************************************************************************)
(* The safety properties of JobControl, for any number of children and     *)
(* any length of the list.                                                 *)
(***************************************************************************)
EXTENDS JobControl, SequenceTheorems, TLAPS

\* What the list's operations return, node by node.
LEMMA AddNodes ==
  ASSUME NEW l \in JobLists, NEW p \in Pids, NEW s \in {"background", "stopped"}
  PROVE  /\ ListAdd(l, p, s) \in JobLists
         /\ Len(ListAdd(l, p, s).head) = Len(l.head) + 1
         /\ \A i \in 1 .. Len(l.head) : ListAdd(l, p, s).head[i] = l.head[i]
         /\ ListAdd(l, p, s).head[Len(l.head) + 1] = [pid |-> p, status |-> s]
         /\ Len(l.head) <= l.length => Len(ListAdd(l, p, s).head) <= ListAdd(l, p, s).length
  BY DEF JobLists, ListAdd

LEMMA RemoveAtNodes ==
  ASSUME NEW S, NEW s \in Seq(S), NEW m \in 1 .. Len(s)
  PROVE  /\ RemoveAt(s, m) \in Seq(S)
         /\ Len(RemoveAt(s, m)) = Len(s) - 1
         /\ \A i \in 1 .. Len(s) - 1 : RemoveAt(s, m)[i] = s[IF i < m THEN i ELSE i + 1]
<1>0. Len(s) \in Nat /\ m \in Nat
  OBVIOUS
<1> DEFINE a == SubSeq(s, 1, m - 1)
           b == SubSeq(s, m + 1, Len(s))
<1>1. a \in Seq(S) /\ Len(a) = m - 1 /\ \A i \in 1 .. m - 1 : a[i] = s[i]
  OBVIOUS
<1>2. b \in Seq(S) /\ Len(b) = Len(s) - m /\ \A i \in 1 .. Len(s) - m : b[i] = s[m + i]
  OBVIOUS
<1>3. RemoveAt(s, m) = a \o b
  BY Zenon DEF RemoveAt
<1> HIDE DEF a, b
<1>4. /\ a \o b \in Seq(S)
      /\ Len(a \o b) = Len(a) + Len(b)
      /\ \A i \in 1 .. Len(a) + Len(b) : (a \o b)[i] = IF i <= Len(a) THEN a[i] ELSE b[i - Len(a)]
  BY <1>1, <1>2, ConcatProperties, Zenon
<1>5. \A i \in 1 .. Len(s) - 1 : (a \o b)[i] = s[IF i < m THEN i ELSE i + 1]
  <2> SUFFICES ASSUME NEW i \in 1 .. Len(s) - 1
               PROVE  (a \o b)[i] = s[IF i < m THEN i ELSE i + 1]
    OBVIOUS
  <2>1. CASE i < m
    BY <2>1, <1>0, <1>1, <1>2, <1>4
  <2>2. CASE ~(i < m)
    <3>1. i - (m - 1) \in 1 .. Len(s) - m /\ m + (i - (m - 1)) = i + 1
      BY <2>2, <1>0
    <3>2. (a \o b)[i] = b[i - (m - 1)]
      BY <2>2, <1>0, <1>1, <1>2, <1>4
    <3>3. b[i - (m - 1)] = s[i + 1]
      BY <3>1, <1>2
    <3> QED BY <2>2, <3>2, <3>3
  <2> QED BY <2>1, <2>2
<1> QED BY <1>0, <1>1, <1>2, <1>3, <1>4, <1>5

LEMMA RemoveNodes ==
  ASSUME NEW l \in JobLists, NEW k \in Nat, k < Len(l.head)
  PROVE  /\ ListRemove(l, k) \in JobLists
         /\ ListRemove(l, k).length = l.length
         /\ Len(ListRemove(l, k).head) = Len(l.head) - 1
         /\ \A i \in 1 .. Len(l.head) - 1 :
              ListRemove(l, k).head[i] = l.head[IF i <= k THEN i ELSE i + 1]
<1>1. /\ l.head \in Seq([pid : Pids, status : {"background", "stopped"}])
      /\ ListRemove(l, k) = [head |-> RemoveAt(l.head, k + 1), length |-> l.length]
  BY DEF ListRemove, JobLists
<1>2. k + 1 \in 1 .. Len(l.head)
  BY <1>1
<1>3. /\ RemoveAt(l.head, k + 1) \in Seq([pid : Pids, status : {"background", "stopped"}])
      /\ Len(RemoveAt(l.head, k + 1)) = Len(l.head) - 1
      /\ \A i \in 1 .. Len(l.head) - 1 :
           RemoveAt(l.head, k + 1)[i] = l.head[IF i < k + 1 THEN i ELSE i + 1]
  BY <1>1, <1>2, RemoveAtNodes, Zenon
<1> QED BY <1>1, <1>3 DEF JobLists

LEMMA MarkNodes ==
  ASSUME NEW l \in JobLists, NEW k \in Nat, k < Len(l.head),
         NEW s \in {"background", "stopped"}
  PROVE  /\ SetStatus(l, k, s) \in JobLists
         /\ SetStatus(l, k, s).length = l.length
         /\ Len(SetStatus(l, k, s).head) = Len(l.head)
         /\ \A i \in 1 .. Len(l.head) :
              /\ SetStatus(l, k, s).head[i].pid = l.head[i].pid
              /\ SetStatus(l, k, s).head[i].status = IF i = k + 1 THEN s ELSE l.head[i].status
<1> DEFINE Node == [pid : Pids, status : {"background", "stopped"}]
           h == [l.head EXCEPT ![k + 1] = [@ EXCEPT !.status = s]]
<1>1. l.head \in Seq(Node)
  BY DEF JobLists
<1> HIDE DEF Node
<1>2. k + 1 \in 1 .. Len(l.head)
  BY <1>1
<1>3. l.head[k + 1] \in Node
  BY <1>1, <1>2
<1>4. [l.head[k + 1] EXCEPT !.status = s] = [pid |-> l.head[k + 1].pid, status |-> s]
  BY <1>3 DEF Node
<1>5. l = [head |-> l.head, length |-> l.length] /\ l.length \in Nat
  BY DEF JobLists
<1>6. SetStatus(l, k, s) = [l EXCEPT !.head = h]
  BY <1>5, Zenon DEF SetStatus
<1>7. /\ h \in Seq(Node)
      /\ Len(h) = Len(l.head)
      /\ \A i \in 1 .. Len(l.head) :
           h[i] = IF i = k + 1 THEN [pid |-> l.head[i].pid, status |-> s] ELSE l.head[i]
  <2>1. [pid |-> l.head[k + 1].pid, status |-> s] \in Node
    BY <1>3 DEF Node
  <2> QED BY <1>1, <1>2, <1>4, <2>1
<1>8. SetStatus(l, k, s) = [head |-> h, length |-> l.length]
  <2> HIDE DEF h
  <2> QED BY <1>5, <1>6
<1>9. ASSUME NEW i \in 1 .. Len(l.head)
      PROVE  h[i].pid = l.head[i].pid /\ h[i].status = IF i = k + 1 THEN s ELSE l.head[i].status
  <2> HIDE DEF h
  <2>1. CASE i = k + 1
    <3>1. h[i] = [pid |-> l.head[i].pid, status |-> s]
      BY <1>7, <2>1
    <3> QED BY <3>1, <2>1
  <2>2. CASE i # k + 1
    BY <1>7, <2>2
  <2> QED BY <2>1, <2>2
<1>10. h \in Seq(Node) /\ Len(h) = Len(l.head)
  BY <1>7
<1> HIDE DEF h
<1> QED BY <1>5, <1>8, <1>9, <1>10 DEF JobLists, Node

LEMMA NodesOf ==
  ASSUME NEW l \in JobLists
  PROVE  /\ Len(l.head) \in Nat /\ DOMAIN l.head = 1 .. Len(l.head)
         /\ \A i \in 1 .. Len(l.head) :
              l.head[i].pid \in Pids /\ l.head[i].status \in {"background", "stopped"}
<1> DEFINE Node == [pid : Pids, status : {"background", "stopped"}]
<1>1. l.head \in Seq(Node)
  BY DEF JobLists
<1> HIDE DEF Node
<1>2. Len(l.head) \in Nat /\ DOMAIN l.head = 1 .. Len(l.head)
      /\ \A i \in 1 .. Len(l.head) : l.head[i] \in Node
  BY <1>1
<1> QED BY <1>2 DEF Node

\* What they do to the pids listed.
LEMMA AddPids ==
  ASSUME NEW l \in JobLists, NEW p \in Pids, NEW s \in {"background", "stopped"},
         Distinct(l), p \notin PidsOf(l)
  PROVE  Distinct(ListAdd(l, p, s)) /\ PidsOf(ListAdd(l, p, s)) = PidsOf(l) \cup {p}
<1> DEFINE n == Len(l.head)
           r == ListAdd(l, p, s)
<1>1. n \in Nat /\ DOMAIN l.head = 1 .. n
  BY NodesOf
<1>2. /\ DOMAIN r.head = 1 .. n + 1
      /\ \A i \in 1 .. n : r.head[i].pid = l.head[i].pid
      /\ r.head[n + 1].pid = p
  <2>1. r \in JobLists /\ Len(r.head) = n + 1
    BY AddNodes
  <2>2. /\ \A i \in 1 .. n : r.head[i] = l.head[i]
        /\ r.head[n + 1] = [pid |-> p, status |-> s]
    BY AddNodes
  <2> HIDE DEF r
  <2>3. DOMAIN r.head = 1 .. n + 1
    BY <2>1, NodesOf
  <2> QED BY <2>2, <2>3
<1> HIDE DEF n, r
<1>3. PidsOf(r) = PidsOf(l) \cup {p}
  <2>1. 1 .. n + 1 = (1 .. n) \cup {n + 1}
    BY <1>1
  <2> QED BY <1>1, <1>2, <2>1 DEF PidsOf
<1>4. Distinct(r)
  <2> SUFFICES ASSUME NEW i \in 1 .. n + 1, NEW j \in 1 .. n + 1, r.head[i].pid = r.head[j].pid
               PROVE  i = j
    BY <1>2 DEF Distinct
  <2>1. \A k \in 1 .. n : l.head[k].pid # p
    BY <1>1 DEF PidsOf
  <2>2. (i \in 1 .. n \/ i = n + 1) /\ (j \in 1 .. n \/ j = n + 1)
    BY <1>1
  <2>3. CASE i \in 1 .. n /\ j \in 1 .. n
    <3>1. l.head[i].pid = l.head[j].pid
      BY <2>3, <1>2
    <3> QED BY <3>1, <2>3, <1>1 DEF Distinct
  <2>4. CASE i = n + 1 \/ j = n + 1
    BY <2>1, <2>2, <2>4, <1>2
  <2> QED BY <2>2, <2>3, <2>4
<1> QED BY <1>3, <1>4 DEF r

LEMMA RemovePids ==
  ASSUME NEW l \in JobLists, NEW k \in Nat, k < Len(l.head), Distinct(l)
  PROVE  /\ Distinct(ListRemove(l, k))
         /\ PidsOf(ListRemove(l, k)) = PidsOf(l) \ {l.head[k + 1].pid}
<1> DEFINE n == Len(l.head)
           r == ListRemove(l, k)
           old(i) == IF i <= k THEN i ELSE i + 1
<1>1. n \in Nat /\ DOMAIN l.head = 1 .. n /\ k < n /\ k \in Nat
  BY NodesOf
<1>2. /\ DOMAIN r.head = 1 .. n - 1
      /\ \A i \in 1 .. n - 1 : r.head[i].pid = l.head[old(i)].pid
  <2>1. r \in JobLists /\ Len(r.head) = n - 1
    BY RemoveNodes
  <2>2. \A i \in 1 .. n - 1 : r.head[i] = l.head[old(i)]
    BY RemoveNodes
  <2> HIDE DEF r, old
  <2>3. DOMAIN r.head = 1 .. n - 1
    BY <2>1, NodesOf
  <2> QED BY <2>2, <2>3
<1> HIDE DEF n, r
<1>3. \A i \in 1 .. n - 1 : old(i) \in 1 .. n /\ old(i) # k + 1
  BY <1>1
<1>4. \A i, j \in 1 .. n - 1 : old(i) = old(j) => i = j
  BY <1>1
<1>5. \A i \in 1 .. n : i # k + 1 => \E j \in 1 .. n - 1 : old(j) = i
  <2> SUFFICES ASSUME NEW i \in 1 .. n, i # k + 1
               PROVE  \E j \in 1 .. n - 1 : old(j) = i
    OBVIOUS
  <2>1. CASE i <= k
    <3>1. i \in 1 .. n - 1 /\ old(i) = i
      BY <2>1, <1>1
    <3> QED BY <3>1
  <2>2. CASE ~(i <= k)
    <3>1. i - 1 \in 1 .. n - 1 /\ old(i - 1) = i
      BY <2>2, <1>1
    <3> QED BY <3>1
  <2> QED BY <2>1, <2>2
<1> HIDE DEF old
<1>6. Distinct(r)
  <2> SUFFICES ASSUME NEW i \in 1 .. n - 1, NEW j \in 1 .. n - 1, r.head[i].pid = r.head[j].pid
               PROVE  i = j
    BY <1>2 DEF Distinct
  <2>1. l.head[old(i)].pid = l.head[old(j)].pid /\ old(i) \in 1 .. n /\ old(j) \in 1 .. n
    BY <1>2, <1>3
  <2>2. old(i) = old(j)
    BY <2>1, <1>1 DEF Distinct
  <2> QED BY <2>2, <1>4
<1>7. PidsOf(r) = PidsOf(l) \ {l.head[k + 1].pid}
  <2>1. k + 1 \in 1 .. n
    BY <1>1
  <2>2. ASSUME NEW q \in PidsOf(r)  PROVE q \in PidsOf(l) /\ q # l.head[k + 1].pid
    <3>1. PICK i \in 1 .. n - 1 : q = r.head[i].pid
      BY <1>2 DEF PidsOf
    <3>2. q = l.head[old(i)].pid /\ old(i) \in 1 .. n /\ old(i) # k + 1
      BY <3>1, <1>2, <1>3
    <3> QED BY <3>2, <2>1, <1>1 DEF PidsOf, Distinct
  <2>3. ASSUME NEW q \in PidsOf(l), q # l.head[k + 1].pid  PROVE q \in PidsOf(r)
    <3>1. PICK i \in 1 .. n : q = l.head[i].pid /\ i # k + 1
      BY <2>3, <1>1 DEF PidsOf
    <3>2. PICK j \in 1 .. n - 1 : old(j) = i
      BY <3>1, <1>5
    <3> QED BY <3>1, <3>2, <1>2 DEF PidsOf
  <2> QED BY <2>2, <2>3
<1> QED BY <1>6, <1>7 DEF r

LEMMA MarkPids ==
  ASSUME NEW l \in JobLists, NEW k \in Nat, k < Len(l.head),
         NEW s \in {"background", "stopped"}, Distinct(l)
  PROVE  Distinct(SetStatus(l, k, s)) /\ PidsOf(SetStatus(l, k, s)) = PidsOf(l)
<1> DEFINE r == SetStatus(l, k, s)
<1>1. /\ DOMAIN r.head = DOMAIN l.head
      /\ \A i \in DOMAIN l.head : r.head[i].pid = l.head[i].pid
  <2>1. r \in JobLists /\ Len(r.head) = Len(l.head)
    BY MarkNodes
  <2>2. \A i \in 1 .. Len(l.head) : r.head[i].pid = l.head[i].pid
    BY MarkNodes
  <2> HIDE DEF r
  <2>3. DOMAIN r.head = DOMAIN l.head /\ DOMAIN l.head = 1 .. Len(l.head)
    BY <2>1, NodesOf
  <2> QED BY <2>2, <2>3
<1> HIDE DEF r
<1>2. Distinct(r) /\ PidsOf(r) = PidsOf(l)
  BY <1>1 DEF Distinct, PidsOf
<1> QED BY <1>2 DEF r

-------------------------------------------------------------------------------
(* The invariant *)

\* A job listed as stopped did stop; only fg's own job may run again.
Marks ==
  stage \notin Gone =>
    \A i \in DOMAIN jobs.head :
      jobs.head[i].status = "stopped" =>
        proc[jobs.head[i].pid] \in {"seen", "zombie"} \/ (stage = "waitjob" /\ i = index + 1)

\* What cur and index are at each stage.
Place ==
  /\ stage \in {"prompt", "give", "waitfg"} => index = 0
  /\ stage \in {"give", "waitfg"} => cur \in Pids /\ proc[cur] # "none"
  /\ stage \notin {"give", "waitfg"} \cup Gone => cur = Shell
  /\ stage \in {"waitjob", "waitfor"} => index < Len(jobs.head)
  /\ stage = "purge" =>
       \A i \in DOMAIN jobs.head : i <= index => jobs.head[i].status = "stopped"

IInv ==
  JobTypeOK /\ LengthCovers /\ JobsAreChildren /\ Marks /\ Place /\ TerminalReturns

LEMMA Nodes ==
  ASSUME JobTypeOK
  PROVE  /\ Len(jobs.head) \in Nat /\ DOMAIN jobs.head = 1 .. Len(jobs.head)
         /\ \A i \in 1 .. Len(jobs.head) :
              jobs.head[i].pid \in Pids /\ jobs.head[i].status \in {"background", "stopped"}
  BY NodesOf DEF JobTypeOK

\* A pid that can be forked is not listed.
LEMMA Unlisted ==
  ASSUME IInv, stage = "prompt", NEW p \in Pids, proc[p] = "none"
  PROVE  \A i \in 1 .. Len(jobs.head) : jobs.head[i].pid # p
  BY Nodes DEF IInv, JobsAreChildren, Awaited, Gone

LEMMA InitInv == JobInit => IInv
  BY PidAssumption DEF JobInit, IInv, JobTypeOK, JobLists, EmptyList, LengthCovers, JobsAreChildren,
     Distinct, PidsOf, Marks, Place, TerminalReturns, Gone

\* A child's own step: nothing else changes.
LEMMA ChildSteps ==
  ASSUME IInv, NEW p \in Pids,
         ChildSetup(p) \/ ChildExits(p) \/ ChildStops(p) \/ ChildKilled(p)
  PROVE  IInv'
<1>1. /\ stage \notin Gone /\ proc[p] # "none"
      /\ UNCHANGED <<jobs, tty, stage, cur, index>>
      /\ \E s \in {"running", "stopped", "zombie"} :
           /\ proc' = [proc EXCEPT ![p] = s]
           /\ proc[p] \in {"seen", "zombie"} => s = "zombie"
  BY DEF ChildSetup, ChildExits, ChildStops, ChildKilled, Becomes
<1>2. PICK s \in {"running", "stopped", "zombie"} :
        /\ proc' = [proc EXCEPT ![p] = s]
        /\ proc[p] \in {"seen", "zombie"} => s = "zombie"
  BY <1>1
<1>3. /\ proc' \in [Pids -> {"none", "forked", "running", "stopped", "seen", "zombie"}]
      /\ proc'[p] = s /\ \A q \in Pids : q # p => proc'[q] = proc[q]
  BY <1>2 DEF IInv, JobTypeOK
<1>4. \A q \in Pids : /\ proc'[q] = "none" <=> proc[q] = "none"
                      /\ proc[q] \in {"seen", "zombie"} => proc'[q] \in {"seen", "zombie"}
  BY <1>1, <1>2, <1>3
<1>5. JobTypeOK' /\ LengthCovers' /\ TerminalReturns'
  BY <1>1, <1>3 DEF IInv, JobTypeOK, LengthCovers, TerminalReturns
<1>6. JobsAreChildren'
  <2>1. /\ Distinct(jobs)' /\ (cur \notin PidsOf(jobs))'
    BY <1>1 DEF IInv, JobsAreChildren, Distinct, PidsOf
  <2>2. \A i \in DOMAIN jobs.head : proc'[jobs.head[i].pid] = "none" <=> Awaited(i)'
    BY <1>1, <1>4, Nodes DEF IInv, JobsAreChildren, Awaited
  <2>3. \A q \in Pids : proc'[q] # "none" => q = cur \/ q \in PidsOf(jobs)
    BY <1>1, <1>4 DEF IInv, JobsAreChildren
  <2> QED BY <1>1, <2>1, <2>2, <2>3 DEF JobsAreChildren, PidsOf
<1>7. Marks'
  BY <1>1, <1>4, Nodes DEF IInv, Marks
<1>8. Place'
  BY <1>1, <1>4 DEF IInv, Place
<1> QED BY <1>5, <1>6, <1>7, <1>8 DEF IInv

\* Steps that leave the list and the children as they are.
LEMMA UnlistedSteps ==
  ASSUME IInv, 
         \/ GiveTerminal \/ WaitAll \/ WaitAllSkip \/ WaitAllEnd \/ PurgeKeep \/ PurgeEnd
         \/ Interrupt \/ \E idx \in 0 .. MaxLength - 1 : WaitFor(idx)
  PROVE  IInv'
<1>1. CASE GiveTerminal
  BY <1>1, Nodes DEF GiveTerminal, BackToPrompt, IInv, JobTypeOK, LengthCovers,
     JobsAreChildren, Awaited, Distinct, PidsOf, Marks, Place, TerminalReturns, Gone
<1>2. CASE WaitAll
  BY <1>2, Nodes DEF WaitAll, BackToPrompt, IInv, JobTypeOK, LengthCovers,
     JobsAreChildren, Awaited, Distinct, PidsOf, Marks, Place, TerminalReturns, Gone
<1>3. CASE WaitAllSkip
  BY <1>3, Nodes DEF WaitAllSkip, HasNode, ListGet, BackToPrompt, IInv, JobTypeOK, LengthCovers,
     JobsAreChildren, Awaited, Distinct, PidsOf, Marks, Place, TerminalReturns, Gone
<1>4. CASE WaitAllEnd
  BY <1>4, Nodes DEF WaitAllEnd, HasNode, BackToPrompt, IInv, JobTypeOK, LengthCovers,
     JobsAreChildren, Awaited, Distinct, PidsOf, Marks, Place, TerminalReturns, Gone
<1>5. CASE PurgeKeep
  BY <1>5, Nodes DEF PurgeKeep, Purging, HasNode, ListGet, BackToPrompt, IInv, JobTypeOK, LengthCovers,
     JobsAreChildren, Awaited, Distinct, PidsOf, Marks, Place, TerminalReturns, Gone
<1>6. CASE PurgeEnd
  BY <1>6, Nodes DEF PurgeEnd, HasNode, BackToPrompt, IInv, JobTypeOK, LengthCovers,
     JobsAreChildren, Awaited, Distinct, PidsOf, Marks, Place, TerminalReturns, Gone
<1>7. CASE Interrupt
  BY <1>7, Nodes DEF Interrupt, BackToPrompt, IInv, JobTypeOK, LengthCovers,
     JobsAreChildren, Awaited, Distinct, PidsOf, Marks, Place, TerminalReturns, Gone
<1>8. CASE \E idx \in 0 .. MaxLength - 1 : WaitFor(idx)
  BY <1>8, Nodes DEF WaitFor, HasNode, ListGet, BackToPrompt, IInv, JobTypeOK, LengthCovers,
     JobsAreChildren, Awaited, Distinct, PidsOf, Marks, Place, TerminalReturns, Gone
<1> QED BY <1>1, <1>2, <1>3, <1>4, <1>5, <1>6, <1>7, <1>8

\* The shell returns from main.
LEMMA ExitStep ==
  ASSUME IInv, Exit \/ GiveFails
  PROVE  IInv'
<1>1. /\ stage' = "exited" /\ jobs' = [head |-> <<>>, length |-> 0]
      /\ UNCHANGED <<proc, tty, cur, index>>
  BY DEF Exit, GiveFails, Returns, EmptyList
<1>2. jobs' \in JobLists /\ Len(jobs'.head) = 0 /\ jobs'.length = 0
  BY <1>1 DEF JobLists
<1>3. JobTypeOK' /\ LengthCovers'
  BY <1>1, <1>2 DEF IInv, JobTypeOK, LengthCovers, Gone
<1>4. JobsAreChildren' /\ Marks' /\ Place' /\ TerminalReturns'
  BY <1>1 DEF JobsAreChildren, Marks, Place, TerminalReturns, Gone
<1> QED BY <1>3, <1>4 DEF IInv

LEMMA RunForegroundStep ==
  ASSUME IInv, NEW p \in Pids, RunForeground(p)
  PROVE  IInv'
  BY Nodes, Unlisted, PidAssumption DEF RunForeground, Fork, IInv, JobTypeOK, LengthCovers,
     JobsAreChildren, Awaited, Distinct, PidsOf, Marks, Place, TerminalReturns, Gone


LEMMA RunBackgroundStep ==
  ASSUME IInv, NEW p \in Pids, RunBackground(p)
  PROVE  IInv'
<1>1. /\ jobs \in JobLists
      /\ Len(jobs'.head) = Len(jobs.head) + 1
      /\ \A i \in 1 .. Len(jobs.head) : jobs'.head[i] = jobs.head[i]
      /\ jobs'.head[Len(jobs.head) + 1] = [pid |-> p, status |-> "background"]
      /\ JobTypeOK' /\ LengthCovers'
  BY AddNodes DEF RunBackground, Fork, IInv, JobTypeOK, LengthCovers
<1>2. jobs' \in JobLists
  BY <1>1 DEF JobTypeOK
<1>3. DOMAIN jobs'.head = 1 .. Len(jobs.head) + 1
  BY <1>1, <1>2, NodesOf
<1>4. \A i \in 1 .. Len(jobs.head) : jobs.head[i].pid # p
  BY Unlisted DEF RunBackground, Fork
<1>5. JobsAreChildren'
  <2>1. /\ stage = "prompt" /\ stage' = "prompt" /\ cur = Shell /\ cur' = Shell
        /\ proc[p] = "none"
        /\ \A q \in Pids : proc'[q] # "none" <=> proc[q] # "none" \/ q = p
    BY DEF RunBackground, Fork, IInv, JobTypeOK, Place, Gone
  <2>2. /\ Distinct(jobs) /\ Shell \notin PidsOf(jobs) /\ p \notin PidsOf(jobs)
        /\ \A i \in 1 .. Len(jobs.head) : proc[jobs.head[i].pid] # "none"
        /\ \A q \in Pids : proc[q] # "none" => q \in PidsOf(jobs)
    BY <2>1, <1>4, Nodes, PidAssumption DEF IInv, JobsAreChildren, Awaited, PidsOf, Gone
  <2>3. Distinct(jobs') /\ PidsOf(jobs') = PidsOf(jobs) \cup {p}
    BY <1>1, <2>2, AddPids DEF RunBackground
  <2>4. \A i \in 1 .. Len(jobs.head) + 1 : proc'[jobs'.head[i].pid] # "none"
    <3>1. \A i \in 1 .. Len(jobs.head) : /\ jobs'.head[i].pid \in Pids
                                          /\ proc[jobs'.head[i].pid] # "none"
      BY <1>1, <2>2, Nodes DEF IInv
    <3>2. \A i \in 1 .. Len(jobs.head) : proc'[jobs'.head[i].pid] # "none"
      BY <3>1, <2>1
    <3>3. jobs'.head[Len(jobs.head) + 1].pid = p /\ proc'[p] # "none"
      BY <1>1, <2>1
    <3>4. Len(jobs.head) \in Nat
      BY Nodes DEF IInv
    <3> QED BY <3>2, <3>3, <3>4
  <2> QED BY <1>3, <2>1, <2>2, <2>3, <2>4, PidAssumption DEF JobsAreChildren, Awaited, Gone
<1>6. Marks' /\ Place' /\ TerminalReturns'
  BY <1>1, <1>3, Nodes DEF RunBackground, Fork, IInv, JobTypeOK, JobsAreChildren, Awaited,
     Marks, Place, TerminalReturns, Gone
<1> QED BY <1>1, <1>5, <1>6 DEF IInv

\* What stays true of a node that is not the one removed.
LEMMA RemovedNodes ==
  ASSUME NEW l \in JobLists, NEW k \in Nat, k < Len(l.head), Distinct(l)
  PROVE  \A i \in DOMAIN ListRemove(l, k).head :
           \E j \in 1 .. Len(l.head) :
             /\ ListRemove(l, k).head[i] = l.head[j]
             /\ l.head[j].pid # l.head[k + 1].pid
             /\ i <= k => j = i
<1> DEFINE r == ListRemove(l, k)
<1>1. /\ r \in JobLists /\ Len(r.head) = Len(l.head) - 1
      /\ \A i \in 1 .. Len(l.head) - 1 : r.head[i] = l.head[IF i <= k THEN i ELSE i + 1]
  BY RemoveNodes
<1> HIDE DEF r
<1>2. DOMAIN r.head = 1 .. Len(l.head) - 1 /\ DOMAIN l.head = 1 .. Len(l.head) /\ Len(l.head) \in Nat
  BY <1>1, NodesOf
<1>3. ASSUME NEW i \in 1 .. Len(l.head) - 1
      PROVE  \E j \in 1 .. Len(l.head) :
               r.head[i] = l.head[j] /\ l.head[j].pid # l.head[k + 1].pid /\ (i <= k => j = i)
  <2> DEFINE j == IF i <= k THEN i ELSE i + 1
  <2>1. j \in 1 .. Len(l.head) /\ j # k + 1 /\ k + 1 \in 1 .. Len(l.head) /\ (i <= k => j = i)
    BY <1>2
  <2>2. r.head[i] = l.head[j]
    BY <1>1
  <2> HIDE DEF j
  <2>3. l.head[j].pid # l.head[k + 1].pid
    BY <2>1, <1>2 DEF Distinct
  <2> QED BY <2>1, <2>2, <2>3
<1> QED BY <1>2, <1>3 DEF r

LEMMA FgStep ==
  ASSUME IInv, NEW idx \in 0 .. MaxLength - 1, Fg(idx)
  PROVE  IInv'
  BY Nodes, LengthAssumption DEF Fg, Resumes, Continued, HasNode, ListGet, IInv, JobTypeOK, LengthCovers,
     JobsAreChildren, Awaited, Distinct, PidsOf, Marks, Place, TerminalReturns, Gone

LEMMA BgStep ==
  ASSUME IInv, NEW idx \in 0 .. MaxLength - 1, Bg(idx)
  PROVE  IInv'
<1>1. /\ jobs \in JobLists /\ idx \in Nat /\ idx < Len(jobs.head) /\ Distinct(jobs)
      /\ jobs' = SetStatus(jobs, idx, "background") /\ stage = "prompt" /\ stage' = "prompt"
  BY LengthAssumption DEF Bg, Resumes, HasNode, IInv, JobTypeOK, JobsAreChildren, Gone
<1>2. /\ jobs' \in JobLists /\ Len(jobs'.head) = Len(jobs.head) /\ jobs'.length = jobs.length
      /\ \A i \in 1 .. Len(jobs.head) :
           /\ jobs'.head[i].pid = jobs.head[i].pid
           /\ jobs'.head[i].status = IF i = idx + 1 THEN "background" ELSE jobs.head[i].status
      /\ Distinct(jobs') /\ PidsOf(jobs') = PidsOf(jobs)
  BY <1>1, MarkNodes, MarkPids
<1>3. DOMAIN jobs'.head = 1 .. Len(jobs.head)
  BY <1>2, NodesOf
<1>4. \A p \in Pids : /\ proc'[p] = "none" <=> proc[p] = "none"
                      /\ proc[p] = "zombie" => proc'[p] = "zombie"
                      /\ p # jobs.head[idx + 1].pid => proc'[p] = proc[p]
  BY DEF Bg, Resumes, Continued, ListGet, IInv, JobTypeOK
<1>5. JobTypeOK' /\ LengthCovers'
  BY <1>1, <1>2, Nodes DEF Bg, Resumes, Continued, ListGet, IInv, JobTypeOK, LengthCovers
<1>6. JobsAreChildren'
  BY <1>1, <1>2, <1>3, <1>4, Nodes DEF Bg, IInv, JobsAreChildren, Awaited, Gone
<1>7. Marks'
  BY <1>1, <1>2, <1>3, <1>4, Nodes DEF Bg, IInv, JobsAreChildren, Distinct, Marks, Gone
<1>8. Place' /\ TerminalReturns'
  BY <1>1 DEF Bg, IInv, Place, TerminalReturns, Gone
<1> QED BY <1>5, <1>6, <1>7, <1>8 DEF IInv

\* The effect of removing the node of a child that was reaped, whatever the
\* action: stated for its primed variables.
LEMMA RemoveReaped ==
  ASSUME IInv, stage \notin Gone, stage' \notin Gone, index < Len(jobs.head),
         jobs' = ListRemove(jobs, index)
  PROVE  /\ jobs' \in JobLists /\ LengthCovers' /\ Distinct(jobs')
         /\ PidsOf(jobs') = PidsOf(jobs) \ {jobs.head[index + 1].pid}
         /\ \A i \in DOMAIN jobs'.head : \E j \in DOMAIN jobs.head :
              /\ jobs'.head[i] = jobs.head[j]
              /\ jobs.head[j].pid # jobs.head[index + 1].pid
              /\ i <= index => j = i
<1>1. jobs \in JobLists /\ index \in Nat /\ Distinct(jobs) /\ Len(jobs.head) <= jobs.length
  BY DEF IInv, JobTypeOK, LengthCovers, JobsAreChildren
<1>2. jobs' \in JobLists /\ LengthCovers'
  <2>1. /\ jobs' \in JobLists /\ jobs'.length = jobs.length
        /\ Len(jobs'.head) = Len(jobs.head) - 1
    BY <1>1, RemoveNodes
  <2>2. jobs.length \in Nat /\ Len(jobs.head) \in Nat
    BY <1>1, NodesOf DEF JobLists
  <2> QED BY <1>1, <2>1, <2>2 DEF LengthCovers
<1> QED BY <1>1, <1>2, RemovePids, RemovedNodes, NodesOf

\* fg and wait-for when the job has ended or stopped.
LEMMA JobReturns ==
  ASSUME IInv, stage \in {"waitjob", "waitfor"}, BackToPrompt, tty' = Shell,
         LET p == jobs.head[index + 1].pid IN
         /\ Reportable(p)
         /\ Report(p)
         /\ jobs' = IF proc[p] = "zombie" THEN ListRemove(jobs, index) ELSE jobs
  PROVE  IInv'
<1> DEFINE p == jobs.head[index + 1].pid
<1>1. /\ index \in Nat /\ index < Len(jobs.head) /\ p \in Pids /\ index + 1 \in DOMAIN jobs.head
      /\ cur = Shell /\ stage \notin Gone /\ stage' \notin Gone
      /\ stage' = "prompt" /\ cur' = Shell /\ index' = 0
  BY Nodes DEF IInv, JobTypeOK, Place, Gone, BackToPrompt
<1>2. /\ \A q \in Pids : q # p => proc'[q] = proc[q]
      /\ proc[p] = "zombie" => proc'[p] = "none"
      /\ proc[p] # "zombie" => proc[p] = "stopped" /\ proc'[p] = "seen"
      /\ proc' \in [Pids -> {"none", "forked", "running", "stopped", "seen", "zombie"}]
  BY <1>1 DEF IInv, JobTypeOK, Report, Reportable
<1>3. Place' /\ TerminalReturns'
  BY <1>1 DEF Place, TerminalReturns, Gone
<1>4. /\ Distinct(jobs) /\ Shell \notin PidsOf(jobs)
      /\ \A i \in DOMAIN jobs.head : proc[jobs.head[i].pid] # "none"
      /\ \A q \in Pids : proc[q] # "none" => q \in PidsOf(jobs)
      /\ \A i \in DOMAIN jobs.head : jobs.head[i].pid \in Pids
      /\ \A i \in DOMAIN jobs.head : jobs.head[i].status = "stopped" =>
           proc[jobs.head[i].pid] \in {"seen", "zombie"} \/ jobs.head[i].pid = p
  BY <1>1, Nodes, PidAssumption DEF IInv, JobsAreChildren, Awaited, Marks, Gone
<1>5. CASE proc[p] = "zombie"
  <2>1. /\ jobs' \in JobLists /\ LengthCovers' /\ Distinct(jobs')
        /\ PidsOf(jobs') = PidsOf(jobs) \ {p}
        /\ \A i \in DOMAIN jobs'.head : \E j \in DOMAIN jobs.head :
              jobs'.head[i] = jobs.head[j] /\ jobs.head[j].pid # p
    BY <1>1, <1>5, RemoveReaped
  <2>2. JobTypeOK'
    BY <1>1, <1>2, <2>1 DEF JobTypeOK
  <2>3. JobsAreChildren'
    BY <1>1, <1>2, <1>4, <1>5, <2>1 DEF JobsAreChildren, Awaited
  <2>4. Marks'
    <3>1. ASSUME NEW i \in DOMAIN jobs'.head, jobs'.head[i].status = "stopped"
          PROVE  proc'[jobs'.head[i].pid] \in {"seen", "zombie"}
      <4>1. PICK j \in DOMAIN jobs.head : jobs'.head[i] = jobs.head[j] /\ jobs.head[j].pid # p
        BY <2>1
      <4>2. proc[jobs.head[j].pid] \in {"seen", "zombie"}
        BY <3>1, <4>1, <1>4
      <4> QED BY <4>1, <4>2, <1>2, <1>4
    <3> QED BY <3>1 DEF Marks
  <2> QED BY <1>3, <2>1, <2>2, <2>3, <2>4 DEF IInv
<1>6. CASE proc[p] # "zombie"
  <2>1. jobs' = jobs
    BY <1>6
  <2>2. JobTypeOK' /\ LengthCovers'
    BY <1>1, <1>2, <2>1 DEF IInv, JobTypeOK, LengthCovers
  <2>3. JobsAreChildren'
    BY <1>1, <1>2, <1>4, <1>6, <2>1 DEF JobsAreChildren, Awaited
  <2>4. Marks'
    BY <1>1, <1>2, <1>4, <1>6, <2>1 DEF Marks
  <2> QED BY <1>3, <2>2, <2>3, <2>4 DEF IInv
<1> QED BY <1>5, <1>6

LEMMA WaitJobStep ==
  ASSUME IInv, WaitJob
  PROVE  IInv'
<1>1. Removable(jobs, index) /\ stage = "waitjob"
  BY Nodes DEF WaitJob, Removable, IInv, JobTypeOK, JobLists, LengthCovers, Place
<1> QED BY <1>1, JobReturns DEF WaitJob, ListGet

LEMMA WaitForReturnsStep ==
  ASSUME IInv, WaitForReturns
  PROVE  IInv'
<1>1. Removable(jobs, index) /\ stage = "waitfor" /\ tty' = Shell
  BY Nodes DEF WaitForReturns, Removable, IInv, JobTypeOK, JobLists, LengthCovers, Place,
     TerminalReturns
<1> QED BY <1>1, JobReturns DEF WaitForReturns, ListGet

LEMMA WaitFgStep ==
  ASSUME IInv, WaitFg
  PROVE  IInv'
<1>1. /\ cur \in Pids /\ stage \notin Gone /\ stage' = "prompt" /\ cur' = Shell /\ index' = 0
      /\ stage = "waitfg" /\ tty' = Shell
  BY DEF WaitFg, IInv, Place, Gone, BackToPrompt
<1>2. /\ \A q \in Pids : q # cur => proc'[q] = proc[q]
      /\ proc[cur] # "stopped" => proc'[cur] = "none"
      /\ proc[cur] = "stopped" => proc'[cur] = "seen"
      /\ proc' \in [Pids -> {"none", "forked", "running", "stopped", "seen", "zombie"}]
  BY <1>1 DEF WaitFg, IInv, JobTypeOK, Report, Reportable
<1>3. Place' /\ TerminalReturns'
  BY <1>1 DEF Place, TerminalReturns, Gone
<1>4. /\ Distinct(jobs) /\ cur \notin PidsOf(jobs)
      /\ \A i \in DOMAIN jobs.head : /\ proc[jobs.head[i].pid] # "none"
                                     /\ jobs.head[i].pid \in Pids /\ jobs.head[i].pid # cur
      /\ \A q \in Pids : proc[q] # "none" => q \in PidsOf(jobs) \/ q = cur
      /\ \A i \in DOMAIN jobs.head :
           jobs.head[i].status = "stopped" => proc[jobs.head[i].pid] \in {"seen", "zombie"}
      /\ Shell \notin PidsOf(jobs)
  BY <1>1, Nodes, PidAssumption DEF IInv, JobsAreChildren, Awaited, PidsOf, Marks, Gone
<1>5. CASE proc[cur] = "stopped"
  <2> DEFINE n == Len(jobs.head)
  <2>1. /\ jobs' = ListAdd(jobs, cur, "stopped") /\ jobs \in JobLists
    BY <1>5 DEF WaitFg, IInv, JobTypeOK
  <2>2. /\ jobs' \in JobLists /\ LengthCovers' /\ Len(jobs'.head) = n + 1
        /\ \A i \in 1 .. n : jobs'.head[i] = jobs.head[i]
        /\ jobs'.head[n + 1] = [pid |-> cur, status |-> "stopped"]
    BY <1>1, <2>1, AddNodes DEF IInv, LengthCovers
  <2>3. Distinct(jobs') /\ PidsOf(jobs') = PidsOf(jobs) \cup {cur}
    BY <1>1, <1>4, <2>1, AddPids
  <2>4. DOMAIN jobs'.head = 1 .. n + 1 /\ DOMAIN jobs.head = 1 .. n /\ n \in Nat
    BY <2>1, <2>2, NodesOf
  <2>5. \A i \in DOMAIN jobs'.head :
          /\ proc'[jobs'.head[i].pid] # "none"
          /\ jobs'.head[i].status = "stopped" => proc'[jobs'.head[i].pid] \in {"seen", "zombie"}
    BY <1>2, <1>4, <1>5, <2>2, <2>4
  <2>6. JobTypeOK'
    BY <1>1, <1>2, <2>2 DEF JobTypeOK
  <2>7. JobsAreChildren'
    BY <1>1, <1>2, <1>4, <2>3, <2>5, PidAssumption DEF JobsAreChildren, Awaited
  <2>8. Marks'
    BY <2>5 DEF Marks
  <2> QED BY <1>3, <2>2, <2>6, <2>7, <2>8 DEF IInv
<1>6. CASE proc[cur] # "stopped"
  <2>1. jobs' = jobs
    BY <1>6 DEF WaitFg
  <2>2. JobTypeOK' /\ LengthCovers'
    BY <1>1, <1>2, <2>1 DEF IInv, JobTypeOK, LengthCovers
  <2>3. JobsAreChildren'
    BY <1>1, <1>2, <1>4, <1>6, <2>1 DEF JobsAreChildren, Awaited
  <2>4. Marks'
    BY <1>1, <1>2, <1>4, <1>6, <2>1 DEF Marks
  <2> QED BY <1>3, <2>2, <2>3, <2>4 DEF IInv
<1> QED BY <1>5, <1>6

LEMMA WaitAllNextStep ==
  ASSUME IInv, WaitAllNext
  PROVE  IInv'
<1> DEFINE p == jobs.head[index + 1].pid
           n == Len(jobs.head)
<1>1. /\ stage = "waitall" /\ stage' = "waitall" /\ cur = Shell /\ cur' = Shell
      /\ index \in Nat /\ index' = index + 1 /\ index < n /\ tty = Shell /\ tty' = Shell
      /\ jobs.head[index + 1].status = "background"
      /\ jobs \in JobLists /\ n \in Nat /\ DOMAIN jobs.head = 1 .. n /\ p \in Pids
  BY Nodes DEF WaitAllNext, HasNode, ListGet, IInv, JobTypeOK, Place, TerminalReturns, Gone
<1>2. /\ \A q \in Pids : q # p => proc'[q] = proc[q]
      /\ proc[p] = "zombie" => proc'[p] = "none" /\ jobs' = jobs
      /\ proc[p] # "zombie" => /\ proc[p] = "stopped" /\ proc'[p] = "seen"
                               /\ jobs' = SetStatus(jobs, index, "stopped")
      /\ proc' \in [Pids -> {"none", "forked", "running", "stopped", "seen", "zombie"}]
  BY <1>1 DEF WaitAllNext, ListGet, IInv, JobTypeOK, Report, Reportable
<1>3. /\ Distinct(jobs) /\ Shell \notin PidsOf(jobs)
      /\ \A i \in 1 .. n : /\ jobs.head[i].pid \in Pids
                           /\ proc[jobs.head[i].pid] = "none" <=>
                                jobs.head[i].status = "background" /\ i <= index
                           /\ jobs.head[i].pid = p => i = index + 1
                           /\ jobs.head[i].status = "stopped" =>
                                proc[jobs.head[i].pid] \in {"seen", "zombie"}
      /\ \A q \in Pids : proc[q] # "none" => q \in PidsOf(jobs)
  BY <1>1, Nodes, PidAssumption DEF IInv, JobsAreChildren, Awaited, Distinct, Marks, Gone
<1>4. Place' /\ TerminalReturns'
  BY <1>1 DEF Place, TerminalReturns, Gone
<1>5. CASE proc[p] = "zombie"
  <2>1. JobTypeOK' /\ LengthCovers'
    BY <1>1, <1>2, <1>5 DEF IInv, JobTypeOK, LengthCovers
  <2>2. JobsAreChildren'
    <3>1. \A i \in 1 .. n : proc'[jobs.head[i].pid] = "none" <=>
                             jobs.head[i].status = "background" /\ i <= index + 1
      BY <1>1, <1>2, <1>3, <1>5
    <3>2. \A q \in Pids : proc'[q] # "none" => q \in PidsOf(jobs)
      BY <1>2, <1>3, <1>5
    <3> QED BY <1>1, <1>2, <1>3, <1>5, <3>1, <3>2 DEF JobsAreChildren, Awaited
  <2>3. Marks'
    BY <1>1, <1>2, <1>3, <1>5 DEF Marks
  <2> QED BY <1>4, <2>1, <2>2, <2>3 DEF IInv
<1>6. CASE proc[p] # "zombie"
  <2>1. /\ jobs' \in JobLists /\ jobs'.length = jobs.length /\ Len(jobs'.head) = n
        /\ \A i \in 1 .. n :
             /\ jobs'.head[i].pid = jobs.head[i].pid
             /\ jobs'.head[i].status = IF i = index + 1 THEN "stopped" ELSE jobs.head[i].status
        /\ Distinct(jobs') /\ PidsOf(jobs') = PidsOf(jobs)
    BY <1>1, <1>2, <1>3, <1>6, MarkNodes, MarkPids
  <2>2. DOMAIN jobs'.head = 1 .. n
    BY <2>1, NodesOf
  <2>3. JobTypeOK' /\ LengthCovers'
    BY <1>1, <1>2, <2>1 DEF IInv, JobTypeOK, LengthCovers
  <2>4. \A i \in 1 .. n :
          /\ proc'[jobs'.head[i].pid] = "none" <=>
               jobs'.head[i].status = "background" /\ i <= index + 1
          /\ jobs'.head[i].status = "stopped" => proc'[jobs'.head[i].pid] \in {"seen", "zombie"}
    BY <1>1, <1>2, <1>3, <1>6, <2>1
  <2>5. JobsAreChildren'
    <3>1. \A q \in Pids : proc'[q] # "none" => q \in PidsOf(jobs')
      BY <1>2, <1>3, <1>6, <2>1
    <3> QED BY <1>1, <1>3, <2>1, <2>2, <2>4, <3>1 DEF JobsAreChildren, Awaited
  <2>6. Marks'
    BY <2>2, <2>4 DEF Marks
  <2> QED BY <1>4, <2>3, <2>5, <2>6 DEF IInv
<1> QED BY <1>5, <1>6

LEMMA PurgeRemoveStep ==
  ASSUME IInv, PurgeRemove
  PROVE  IInv'
<1> DEFINE p == jobs.head[index + 1].pid
<1>1. /\ stage = "purge" /\ stage' = "purge" /\ cur = Shell /\ cur' = Shell /\ proc' = proc
      /\ index \in Nat /\ index' = index /\ index < Len(jobs.head) /\ tty = Shell /\ tty' = Shell
      /\ index + 1 \in DOMAIN jobs.head /\ jobs.head[index + 1].status = "background"
      /\ jobs' = ListRemove(jobs, index)
  BY Nodes DEF PurgeRemove, Purging, HasNode, ListGet, IInv, JobTypeOK, Place, TerminalReturns, Gone
<1>2. /\ jobs' \in JobLists /\ LengthCovers' /\ Distinct(jobs') /\ PidsOf(jobs') = PidsOf(jobs) \ {p}
      /\ \A i \in DOMAIN jobs'.head : \E j \in DOMAIN jobs.head :
           /\ jobs'.head[i] = jobs.head[j]
           /\ jobs.head[j].pid # p
           /\ i <= index => j = i
  BY <1>1, RemoveReaped DEF Gone
<1>3. /\ Shell \notin PidsOf(jobs)
      /\ \A i \in DOMAIN jobs.head :
           /\ proc[jobs.head[i].pid] = "none" <=> jobs.head[i].status = "background"
           /\ jobs.head[i].status = "stopped" => proc[jobs.head[i].pid] \in {"seen", "zombie"}
           /\ i <= index => jobs.head[i].status = "stopped"
      /\ \A q \in Pids : proc[q] # "none" => q \in PidsOf(jobs)
  BY <1>1, PidAssumption DEF IInv, JobsAreChildren, Awaited, Marks, Place, Gone
<1>4. JobTypeOK'
  BY <1>1, <1>2 DEF IInv, JobTypeOK
<1>5. JobsAreChildren'
  BY <1>1, <1>2, <1>3 DEF JobsAreChildren, Awaited
<1>6. Marks'
  BY <1>1, <1>2, <1>3 DEF Marks
<1>7. Place' /\ TerminalReturns'
  BY <1>1, <1>2, <1>3 DEF Place, TerminalReturns, Gone
<1> QED BY <1>2, <1>4, <1>5, <1>6, <1>7 DEF IInv

LEMMA StutterStep ==
  ASSUME IInv, UNCHANGED vars
  PROVE  IInv'
  BY DEF vars, IInv, JobTypeOK, LengthCovers, JobsAreChildren, Awaited, Distinct, PidsOf, Marks,
     Place, TerminalReturns, Gone

LEMMA StepInv == IInv /\ [JobNext]_vars => IInv'
<1> SUFFICES ASSUME IInv, [JobNext]_vars
             PROVE  IInv'
  OBVIOUS
<1>1. ASSUME NEW p \in Pids, RunForeground(p) \/ RunBackground(p)
      PROVE  IInv'
  BY <1>1, RunForegroundStep, RunBackgroundStep
<1>2. ASSUME NEW idx \in 0 .. MaxLength - 1, Fg(idx) \/ Bg(idx)
      PROVE  IInv'
  BY <1>2, FgStep, BgStep
<1>3. CASE \/ GiveTerminal \/ WaitAll \/ WaitAllSkip \/ WaitAllEnd \/ PurgeKeep \/ PurgeEnd
           \/ Interrupt \/ \E idx \in 0 .. MaxLength - 1 : WaitFor(idx)
  BY <1>3, UnlistedSteps
<1>4. CASE Exit \/ GiveFails
  BY <1>4, ExitStep
<1>5. CASE WaitFg \/ WaitJob \/ WaitForReturns \/ WaitAllNext \/ PurgeRemove
  BY <1>5, WaitFgStep, WaitJobStep, WaitForReturnsStep, WaitAllNextStep, PurgeRemoveStep
<1>6. ASSUME NEW p \in Pids, ChildSetup(p) \/ ChildExits(p) \/ ChildStops(p) \/ ChildKilled(p)
      PROVE  IInv'
  BY <1>6, ChildSteps
<1>7. CASE UNCHANGED vars
  BY <1>7, StutterStep
<1> QED BY <1>1, <1>2, <1>3, <1>4, <1>5, <1>6, <1>7 DEF JobNext, ShellWaits

THEOREM Inductive == JobSpec => []IInv
  BY InitInv, StepInv, PTL DEF JobSpec

-------------------------------------------------------------------------------
(* The properties *)

\* swish.c: the shell's state keeps its shape.
THEOREM JobTypeCorrect == JobSpec => []JobTypeOK
<1>1. IInv => JobTypeOK
  BY DEF IInv
<1> QED BY <1>1, Inductive, PTL

\* job_list.c: the bounds checks against length, which removals leave alone,
\* refuse no job.
THEOREM LengthEnough == JobSpec => []LengthCovers
<1>1. IInv => LengthCovers
  BY DEF IInv
<1> QED BY <1>1, Inductive, PTL

\* swish.c: no child of the shell is forgotten, listed twice or listed after it
\* was reaped.
THEOREM ChildrenListed == JobSpec => []JobsAreChildren
<1>1. IInv => JobsAreChildren
  BY DEF IInv
<1> QED BY <1>1, Inductive, PTL

\* swish_funcs.c: a job listed as stopped is not running.
THEOREM StoppedStayStopped == JobSpec => []StoppedIsStopped
<1>1. IInv => StoppedIsStopped
  BY DEF IInv, Marks, StoppedIsStopped, Gone
<1> QED BY <1>1, Inductive, PTL

\* swish.c:220, swish_funcs.c:202: the terminal comes back to the shell.
THEOREM TerminalComesBack == JobSpec => []TerminalReturns
<1>1. IInv => TerminalReturns
  BY DEF IInv
<1> QED BY <1>1, Inductive, PTL

\* swish_funcs.c:269: after wait-all only stopped jobs are listed.
THEOREM WaitAllLeavesStopped == JobSpec => WaitAllSettles
<1>1. IInv /\ [JobNext]_vars =>
        [stage = "purge" /\ stage' = "prompt" =>
           \A i \in DOMAIN jobs'.head :
             jobs'.head[i].status = "stopped" /\ proc[jobs'.head[i].pid] \in {"seen", "zombie"}]_vars
  <2> SUFFICES ASSUME IInv, JobNext, stage = "purge", stage' = "prompt",
                      NEW i \in DOMAIN jobs'.head
               PROVE  jobs'.head[i].status = "stopped" /\ proc[jobs'.head[i].pid] \in {"seen", "zombie"}
    OBVIOUS
  <2>1. PurgeEnd
    BY DEF JobNext, ShellWaits, RunForeground, RunBackground, Fork, Fg, Bg, Resumes, WaitFor, WaitAll,
       Exit, GiveTerminal, GiveFails, Returns, WaitFg, WaitJob, WaitForReturns, WaitAllSkip, WaitAllNext, WaitAllEnd,
       PurgeRemove, PurgeKeep, Purging, Interrupt, ChildSetup, ChildExits, ChildStops, ChildKilled,
       Becomes
  <2>2. jobs' = jobs /\ i <= index
    BY <2>1, Nodes DEF PurgeEnd, HasNode, IInv, JobTypeOK
  <2> QED BY <2>2 DEF IInv, Place, Marks, Gone
<1> QED BY <1>1, Inductive, PTL DEF JobSpec, WaitAllSettles
===============================================================================
