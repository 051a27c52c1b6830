------------------------- MODULE ConcurrentOpenProofs -------------------------
(***************************************************************************)
(* The barrier of module ConcurrentOpen implements the groups of module    *)
(* OpenGroups, for any threads, any size of a group and any number of      *)
(* calls.  The invariant that carries the proof is Balance: the threads    *)
(* that wait are those the semaphore already has a post for, those of the  *)
(* group that forms, and those the last of a group has still to post for.  *)
(***************************************************************************)
EXTENDS ConcurrentOpen, FiniteSetTheorems, TLAPS

Labels == {"idle", "init", "barrier", "post", "wait"}

OpenTypeOK ==
  /\ lock \in Openers \union {NoThread}
  /\ n_waiters \in 0 .. CONCURRENCY_DEGREE - 1
  /\ semaphore_initialized \in BOOLEAN
  /\ semaphore \in Nat
  /\ i \in 0 .. CONCURRENCY_DEGREE - 1
  /\ pc \in [Openers -> Labels]

\* The mutex is held from step to step by the thread that posts, and by no other.
Holder == \A t \in Openers : pc[t] = "post" <=> lock = t

\* No thread is at the barrier before the semaphore is initialised.
Initialised ==
  ~semaphore_initialized =>
    semaphore = 0 /\ \A t \in Openers : pc[t] \in {"idle", "init"}

\* Posts still to come, but for the last caller's own departure.
Owed == IF lock = NoThread THEN n_waiters ELSE CONCURRENCY_DEGREE - 1 - i

Balance ==
  /\ Cardinality(Waiting) = semaphore + Owed
  /\ lock # NoThread => n_waiters = CONCURRENCY_DEGREE - 1

OpenInv == OpenTypeOK /\ Holder /\ Initialised /\ Balance

-------------------------------------------------------------------------------
(* The set of threads that wait, when one thread moves. *)

LEMMA WaitingFinite == IsFiniteSet(Waiting) /\ Cardinality(Waiting) \in Nat
<1>1. Waiting \in SUBSET Openers  BY DEF Waiting
<1> QED  BY <1>1, OpenersAssumption, FS_Subset, FS_CardinalityType

\* A thread that starts to wait is one more, one that stops is one less, and any
\* other move leaves the set as it is.
LEMMA WaitingMoves ==
  ASSUME NEW t \in Openers, NEW label \in Labels, OpenTypeOK, Goto(t, label)
  PROVE  /\ pc' \in [Openers -> Labels]
         /\ label = "wait" => Waiting' = Waiting \union {t}
         /\ label # "wait" => Waiting' = Waiting \ {t}
         /\ pc[t] # "wait" /\ label = "wait" =>
              Cardinality(Waiting') = Cardinality(Waiting) + 1
         /\ pc[t] = "wait" /\ label # "wait" =>
              Cardinality(Waiting') = Cardinality(Waiting) - 1
         /\ pc[t] # "wait" /\ label # "wait" => Waiting' = Waiting
<1>1. pc' \in [Openers -> Labels] /\ \A s \in Openers : pc'[s] = IF s = t THEN label ELSE pc[s]
  BY DEF Goto, OpenTypeOK
<1>2. label = "wait" => Waiting' = Waiting \union {t}  BY <1>1 DEF Waiting
<1>3. label # "wait" => Waiting' = Waiting \ {t}  BY <1>1 DEF Waiting
<1>4. t \in Waiting <=> pc[t] = "wait"  BY DEF Waiting
<1>5. pc[t] # "wait" /\ label = "wait" => Cardinality(Waiting') = Cardinality(Waiting) + 1
  BY <1>2, <1>4, WaitingFinite, FS_AddElement
<1>6. pc[t] = "wait" /\ label # "wait" => Cardinality(Waiting') = Cardinality(Waiting) - 1
  BY <1>3, <1>4, WaitingFinite, FS_RemoveElement
<1>7. pc[t] # "wait" /\ label # "wait" => Waiting' = Waiting
  BY <1>3, <1>4
<1> QED  BY <1>1, <1>2, <1>3, <1>5, <1>6, <1>7

-------------------------------------------------------------------------------
(* The invariant *)

LEMMA InvInit == OpenInit => OpenInv
<1> SUFFICES ASSUME OpenInit PROVE OpenInv  OBVIOUS
<1>1. Waiting = {}  BY DEF OpenInit, Waiting
<1>2. Cardinality(Waiting) = 0  BY <1>1, FS_EmptySet
<1>3. OpenTypeOK
  <2>1. 0 \in 0 .. CONCURRENCY_DEGREE - 1  BY DegreeAssumption
  <2>2. pc \in [Openers -> Labels]  BY DEF OpenInit, Labels
  <2> QED  BY <2>1, <2>2 DEF OpenInit, OpenTypeOK
<1>4. Holder /\ Initialised  BY OpenersAssumption DEF OpenInit, Holder, Initialised
<1> QED  BY <1>2, <1>3, <1>4 DEF OpenInit, OpenInv, Balance, Owed

\* Moves outside the barrier.
LEMMA CallInv ==
  ASSUME OpenInv, NEW t \in Openers, NEW path, Call(t, path)
  PROVE  OpenInv'
<1>1. pc' \in [Openers -> Labels] /\ Waiting' = Waiting
  BY WaitingMoves DEF OpenInv, Call, Labels
<1>2. OpenTypeOK' /\ Holder' /\ Initialised'
  BY <1>1 DEF OpenInv, OpenTypeOK, Holder, Initialised, Call, Goto
<1> QED  BY <1>1, <1>2 DEF OpenInv, Balance, Owed, Call

LEMMA InitSemaphoreInv ==
  ASSUME OpenInv, NEW t \in Openers, InitSemaphore(t)
  PROVE  OpenInv'
<1>1. semaphore' = semaphore  BY DEF InitSemaphore, OpenInv, Initialised, OpenTypeOK
<1>2. PICK label \in {"barrier", "idle"} : Goto(t, label)  BY DEF InitSemaphore
<1>3. pc' \in [Openers -> Labels] /\ Waiting' = Waiting
  BY <1>2, WaitingMoves DEF OpenInv, InitSemaphore, Labels
<1>4. OpenTypeOK' /\ Holder' /\ Initialised'
  BY <1>1, <1>2, <1>3 DEF OpenInv, OpenTypeOK, Holder, Initialised, InitSemaphore, Goto
<1> QED  BY <1>1, <1>3, <1>4 DEF OpenInv, Balance, Owed, InitSemaphore

\* Moves at the barrier.
LEMMA CheckInInv ==
  ASSUME OpenInv, NEW t \in Openers, CheckIn(t)
  PROVE  OpenInv'
<1>0. semaphore_initialized  BY DEF CheckIn, OpenInv, Initialised
<1>1. CASE n_waiters = CONCURRENCY_DEGREE - 1
  <2>1. pc' \in [Openers -> Labels] /\ Waiting' = Waiting
    BY <1>1, WaitingMoves DEF OpenInv, CheckIn, Labels
  <2>2. lock' = t /\ i' = 0 /\ n_waiters' = n_waiters /\ semaphore' = semaphore
    BY <1>1 DEF CheckIn
  <2>3. OpenTypeOK' /\ Holder' /\ Initialised'
    BY <1>0, <1>1, <2>1, <2>2, OpenersAssumption, DegreeAssumption
       DEF OpenInv, OpenTypeOK, Holder, Initialised, CheckIn, Goto
  <2>4. Balance'
    BY <1>1, <2>1, <2>2, OpenersAssumption, DegreeAssumption
       DEF OpenInv, OpenTypeOK, Balance, Owed, CheckIn
  <2> QED  BY <2>3, <2>4 DEF OpenInv
<1>2. CASE n_waiters # CONCURRENCY_DEGREE - 1
  <2>1. /\ pc' \in [Openers -> Labels]
        /\ Cardinality(Waiting') = Cardinality(Waiting) + 1
    BY <1>2, WaitingMoves DEF OpenInv, CheckIn, Labels
  <2>2. lock' = lock /\ i' = i /\ n_waiters' = n_waiters + 1 /\ semaphore' = semaphore
    BY <1>2 DEF CheckIn
  <2>3. OpenTypeOK' /\ Holder' /\ Initialised'
    BY <1>0, <1>2, <2>1, <2>2, OpenersAssumption, DegreeAssumption
       DEF OpenInv, OpenTypeOK, Holder, Initialised, CheckIn, Goto
  <2>4. Balance'
    BY <1>2, <2>1, <2>2, WaitingFinite DEF OpenInv, OpenTypeOK, Balance, Owed, CheckIn
  <2> QED  BY <2>3, <2>4 DEF OpenInv
<1> QED  BY <1>1, <1>2

LEMMA PostInv ==
  ASSUME OpenInv, NEW t \in Openers, Post(t)
  PROVE  OpenInv'
<1>1. Waiting' = Waiting /\ lock' = lock /\ lock = t /\ lock # NoThread
  BY OpenersAssumption DEF Post, Waiting, OpenInv, Holder
<1>2. OpenTypeOK' /\ Holder' /\ Initialised'
  BY DegreeAssumption DEF OpenInv, OpenTypeOK, Holder, Initialised, Post
<1>3. Balance'
  BY <1>1, DegreeAssumption DEF OpenInv, OpenTypeOK, Balance, Owed, Post
<1> QED  BY <1>2, <1>3 DEF OpenInv

LEMMA StartOverInv ==
  ASSUME OpenInv, NEW t \in Openers, StartOver(t)
  PROVE  OpenInv'
<1>1. pc' \in [Openers -> Labels] /\ Waiting' = Waiting
  BY WaitingMoves DEF OpenInv, StartOver, Labels
<1>2. lock = t /\ lock # NoThread  BY OpenersAssumption DEF StartOver, OpenInv, Holder
<1>3. OpenTypeOK' /\ Holder' /\ Initialised'
  BY <1>1, <1>2, OpenersAssumption, DegreeAssumption
     DEF OpenInv, OpenTypeOK, Holder, Initialised, StartOver, Goto
<1>4. Balance'
  BY <1>1, <1>2, DegreeAssumption DEF OpenInv, OpenTypeOK, Balance, Owed, StartOver
<1> QED  BY <1>3, <1>4 DEF OpenInv

LEMMA WaitInv ==
  ASSUME OpenInv, NEW t \in Openers, Wait(t)
  PROVE  OpenInv'
<1>1. /\ pc' \in [Openers -> Labels]
      /\ Cardinality(Waiting') = Cardinality(Waiting) - 1
  BY WaitingMoves DEF OpenInv, Wait, Labels
<1>2. OpenTypeOK' /\ Holder' /\ Initialised'
  BY <1>1 DEF OpenInv, OpenTypeOK, Holder, Initialised, Wait, Goto
<1>3. Owed \in Int  BY DegreeAssumption DEF OpenInv, OpenTypeOK, Owed
<1>4. Owed' = Owed  BY DEF Owed, Wait
<1>5. Balance'
  BY <1>1, <1>3, <1>4, WaitingFinite DEF OpenInv, OpenTypeOK, Balance, Wait
<1> QED  BY <1>2, <1>5 DEF OpenInv

\* The barrier's books are balanced at every step.
THEOREM BooksBalanced == OpenSpec => []OpenInv
<1>1. OpenInv /\ [OpenNext]_openVars => OpenInv'
  <2> SUFFICES ASSUME OpenInv, [OpenNext]_openVars PROVE OpenInv'  OBVIOUS
  <2>1. CASE UNCHANGED openVars
    BY <2>1 DEF openVars, OpenInv, OpenTypeOK, Holder, Initialised, Balance, Owed, Waiting
  <2>2. CASE OpenNext
    BY <2>2, CallInv, InitSemaphoreInv, CheckInInv, PostInv, StartOverInv, WaitInv
       DEF OpenNext, OpenStep
  <2> QED  BY <2>1, <2>2
<1> QED  BY InvInit, <1>1, PTL DEF OpenSpec

-------------------------------------------------------------------------------
(* Refinement of OpenGroups *)

\* The callers inside are those who wait and the one who posts.
LEMMA InsideIs ==
  ASSUME OpenInv
  PROVE  /\ Inside = IF lock = NoThread THEN Waiting ELSE Waiting \union {lock}
         /\ lock # NoThread => lock \in Openers /\ lock \notin Waiting
  BY OpenersAssumption DEF OpenInv, OpenTypeOK, Holder, Inside, Waiting

\* The same set seen from a move of one thread.
LEMMA InsideMoves ==
  ASSUME NEW t \in Openers, NEW label \in Labels, OpenTypeOK, Goto(t, label)
  PROVE  Inside' = IF label \in {"wait", "post"} THEN Inside \union {t} ELSE Inside \ {t}
<1>1. \A s \in Openers : pc'[s] = IF s = t THEN label ELSE pc[s]
  BY DEF Goto, OpenTypeOK
<1> QED  BY <1>1 DEF Inside

\* Calls and posts change nothing that the groups can see.
LEMMA QuietStep ==
  ASSUME OpenInv, NEW t \in Openers,
         (\E path : Call(t, path)) \/ InitSemaphore(t) \/ Post(t)
  PROVE  UNCHANGED Groups!groupVars
<1>1. CASE \E path : Call(t, path)
  <2>1. Inside' = Inside
    BY <1>1, InsideMoves DEF Call, OpenInv, Labels, Inside
  <2> QED  BY <1>1, <2>1 DEF Call, Groups!groupVars, ToPost
<1>2. CASE InitSemaphore(t)
  <2>1. semaphore' = semaphore  BY <1>2 DEF InitSemaphore, OpenInv, Initialised, OpenTypeOK
  <2>2. PICK label \in {"barrier", "idle"} : Goto(t, label)  BY <1>2 DEF InitSemaphore
  <2>3. Inside' = Inside
    BY <1>2, <2>2, InsideMoves DEF InitSemaphore, OpenInv, Labels, Inside
  <2> QED  BY <1>2, <2>1, <2>3 DEF InitSemaphore, Groups!groupVars, ToPost
<1>3. CASE Post(t)
  <2>1. lock # NoThread /\ lock' = lock
    BY <1>3, OpenersAssumption DEF Post, OpenInv, Holder
  <2>2. (semaphore + ToPost)' = semaphore + ToPost
    BY <1>3, <2>1, DegreeAssumption DEF Post, OpenInv, OpenTypeOK, ToPost
  <2>3. Inside' = Inside  BY <1>3 DEF Post, Inside
  <2> QED  BY <2>2, <2>3 DEF Groups!groupVars
<1> QED  BY <1>1, <1>2, <1>3

LEMMA SameCardinality == \A S : Groups!Cardinality(S) = Cardinality(S)
  BY DEF Cardinality, Groups!Cardinality

\* Checking in is entering, and completes a group when n_waiters says so.
LEMMA CheckInStep ==
  ASSUME OpenInv, NEW t \in Openers, CheckIn(t)
  PROVE  Groups!Enter(t)
<1>1. Inside = Waiting /\ ToPost = 0 /\ Cardinality(Waiting) = semaphore + n_waiters
  BY InsideIs DEF CheckIn, ToPost, OpenInv, Balance, Owed
<1>2. t \notin Inside  BY DEF CheckIn, Inside
<1>3. Cardinality(Inside \union {t}) = semaphore + n_waiters + 1
  BY <1>1, <1>2, WaitingFinite, FS_AddElement DEF OpenInv, OpenTypeOK
<1>4. Groups!Completes(t) <=> n_waiters = CONCURRENCY_DEGREE - 1
  BY <1>1, <1>3, SameCardinality, DegreeAssumption DEF Groups!Completes, OpenInv, OpenTypeOK
<1>5. Inside' = Inside \union {t}
  BY InsideMoves DEF CheckIn, OpenInv, Labels
<1>6. (semaphore + ToPost)' =
        IF Groups!Completes(t)
        THEN semaphore + ToPost + CONCURRENCY_DEGREE ELSE semaphore + ToPost
  BY <1>1, <1>4, OpenersAssumption, DegreeAssumption DEF CheckIn, ToPost, OpenInv, OpenTypeOK
<1> QED  BY <1>2, <1>5, <1>6 DEF Groups!Enter

\* The last of a group leaves with what it did not post, any other caller with a post.
LEMMA LeaveStep ==
  ASSUME OpenInv, NEW t \in Openers, StartOver(t) \/ Wait(t)
  PROVE  Groups!Leave(t)
<1>1. Goto(t, "idle")  BY DEF StartOver, Wait
<1>2. t \in Inside /\ Inside' = Inside \ {t}
  <2>1. t \in Inside  BY DEF StartOver, Wait, Inside
  <2>2. Inside' = Inside \ {t}  BY <1>1, InsideMoves DEF OpenInv, Labels
  <2> QED  BY <2>1, <2>2
<1>3. semaphore + ToPost > 0 /\ (semaphore + ToPost)' = (semaphore + ToPost) - 1
  <2>1. CASE StartOver(t)
    <3>1. lock # NoThread  BY <2>1, OpenersAssumption DEF StartOver, OpenInv, Holder
    <3> QED  BY <2>1, <3>1, DegreeAssumption DEF StartOver, ToPost, OpenInv, OpenTypeOK
  <2>2. CASE Wait(t)
    <3>1. ToPost \in Nat /\ ToPost' = ToPost
      BY <2>2, DegreeAssumption DEF Wait, ToPost, OpenInv, OpenTypeOK
    <3> QED  BY <2>2, <3>1 DEF Wait, OpenInv, OpenTypeOK
  <2> QED  BY <2>1, <2>2
<1> QED  BY <1>2, <1>3 DEF Groups!Leave

\* concurrent_open.c lets callers go in groups of CONCURRENCY_DEGREE: as many
\* departures become due as have come, and none is lost or made up, although posts,
\* waits and the calls of the next group interleave.
THEOREM GroupsKept == OpenSpec => GroupsSpec
<1>1. OpenInit => Groups!Init
  BY DEF OpenInit, Groups!Init, Inside, ToPost
<1>2. OpenInv /\ [OpenNext]_openVars => [Groups!Next]_(Groups!groupVars)
  <2> SUFFICES ASSUME OpenInv, [OpenNext]_openVars
               PROVE  [Groups!Next]_(Groups!groupVars)
    OBVIOUS
  <2>1. CASE UNCHANGED openVars
    BY <2>1 DEF openVars, Groups!groupVars, Inside, ToPost
  <2>2. CASE OpenNext
    BY <2>2, QuietStep, CheckInStep, LeaveStep DEF OpenNext, OpenStep, Groups!Next
  <2> QED  BY <2>1, <2>2
<1> QED  BY BooksBalanced, <1>1, <1>2, PTL DEF OpenSpec, GroupsSpec, Groups!Spec

===============================================================================
