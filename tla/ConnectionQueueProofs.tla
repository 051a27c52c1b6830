------------------------- MODULE ConnectionQueueProofs -------------------------
(***************************************************************************)
(* What holds of the connection queue for every set of threads, every set  *)
(* of descriptors and every capacity.                                      *)
(***************************************************************************)
EXTENDS ConnectionQueue, FiniteSetTheorems, SequenceTheorems, TLAPS

-------------------------------------------------------------------------------
(* Indices of the ring *)

\* Counting round the ring by at most one lap is the identity or one
\* subtraction: every index the code computes is of this kind.
LEMMA ModBelow ==
  ASSUME NEW n \in Nat \ {0}, NEW a \in 0 .. n - 1
  PROVE  a % n = a
BY SMTT(30)

LEMMA ModAbove ==
  ASSUME NEW n \in Nat \ {0}, NEW a \in n .. 2 * n - 1
  PROVE  a % n = a - n
BY SMTT(30)

\* The slot k places after r lies in the ring, and is found without a modulo.
LEMMA AfterValue ==
  ASSUME NEW r \in Slots, NEW k \in 0 .. Capacity
  PROVE  /\ After(r, k) = IF r + k < Capacity THEN r + k ELSE r + k - Capacity
         /\ After(r, k) \in Slots
<1> USE QueueAssumption DEF Slots
<1>1. CASE r + k < Capacity
  <2>1. r + k \in 0 .. Capacity - 1  BY <1>1
  <2> QED  BY <2>1, <1>1, ModBelow DEF After
<1>2. CASE r + k >= Capacity
  <2> DEFINE a == r + k
  <2>1. a \in Capacity .. 2 * Capacity - 1  BY <1>2
  <2> HIDE DEF a
  <2>2. a % Capacity = a - Capacity  BY <2>1, ModAbove
  <2> QED  BY <2>2, <1>2 DEF a, After
<1> QED  BY <1>1, <1>2

\* Advancing either end of the window, and within one lap no two places
\* share a slot.
LEMMA AfterNext ==
  ASSUME NEW r \in Slots, NEW k \in Slots
  PROVE  /\ After(After(r, k), 1) = After(r, k + 1)
         /\ After(After(r, 1), k) = After(r, k + 1)
         /\ \A j \in Slots : After(r, j) = After(r, k) => j = k
<1> USE QueueAssumption DEF Slots
<1> DEFINE Value(x) == IF x < Capacity THEN x ELSE x - Capacity
<1>1. \A q \in Slots, j \in 0 .. Capacity :
        After(q, j) = Value(q + j) /\ After(q, j) \in Slots
  BY AfterValue
<1>2. /\ 1 \in 0 .. Capacity
      /\ k \in 0 .. Capacity
      /\ k + 1 \in 0 .. Capacity
  OBVIOUS
<1>3. After(After(r, k), 1) = Value(After(r, k) + 1)  BY <1>1, <1>2
<1>4. After(After(r, 1), k) = Value(After(r, 1) + k)  BY <1>1, <1>2
<1>5. \A j \in 0 .. Capacity : After(r, j) = Value(r + j)  BY <1>1
<1> QED  BY <1>2, <1>3, <1>4, <1>5

-------------------------------------------------------------------------------
(* The inductive invariant *)

\* A pending enqueue still has its descriptor.
ArgumentKept == \A t \in Threads : pc[t] \in EnqLabels => reg[t] \in Fds

\* What the loop test established is still true at the recheck, since the
\* mutex was not let go in between; only the flag may have been raised.
Tested ==
  \A t \in Threads :
    /\ pc[t] = "enq_recheck" => length < Capacity \/ shutdown
    /\ pc[t] = "deq_recheck" => length > 0 \/ shutdown

\* A thread between the broadcasts has raised the flag.
Raised == \A t \in Threads : pc[t] \in {"shut_empty", "shut_full"} => shutdown

\* Everything but the ring's contents.
Control == TypeOK /\ LockDiscipline /\ RoomToMove /\ ArgumentKept /\ Tested /\ Raised

IInv == Control /\ RingOK

LEMMA InitInvariant == QueueInit => IInv
<1> SUFFICES ASSUME QueueInit PROVE IInv  OBVIOUS
<1> USE QueueAssumption DEF QueueInit
<1>1. 0 \in Slots /\ After(0, 0) = 0  BY AfterValue DEF Slots
<1>2. TypeOK
  <2>1. client_fds \in [Slots -> Fds \union {-1}]  OBVIOUS
  <2>2. length \in 0 .. Capacity /\ read_idx \in Slots /\ write_idx \in Slots
    BY <1>1
  <2> QED  BY <2>1, <2>2 DEF TypeOK, Threads, EnqLabels, DeqLabels, ShutLabels
<1>3. LockDiscipline  BY DEF LockDiscipline, Threads, Critical
<1>4. RingOK  BY <1>1 DEF RingOK
<1>5. RoomToMove /\ ArgumentKept /\ Tested /\ Raised
  BY DEF RoomToMove, ArgumentKept, Tested, Raised, EnqLabels
<1> QED  BY <1>2, <1>3, <1>4, <1>5 DEF IInv, Control

\* One case per step of the code.
LEMMA ControlStep ==
  ASSUME IInv, [QueueNext]_queueVars
  PROVE  Control'
<1>0. Control  BY DEF IInv
<1> USE <1>0, QueueAssumption
        DEF Control, TypeOK, LockDiscipline, RoomToMove, ArgumentKept, Tested, Raised,
            ring, queueVars, Threads, Critical, EnqLabels, DeqLabels, ShutLabels,
            Goto, Return, Acquire, Release, ReturnAndSignal, full, empty
<1>1. CASE UNCHANGED queueVars  BY <1>1
<1>2. ASSUME NEW p \in Producers, NEW fd \in Fds, CallEnqueue(p, fd) PROVE Control'
  BY <1>2 DEF CallEnqueue
<1>3. ASSUME NEW p \in Producers, EnqLock(p) PROVE Control'  BY <1>3 DEF EnqLock
<1>4. ASSUME NEW p \in Producers, EnqCheck(p) PROVE Control'
  <2>1. TypeOK'  BY <1>4 DEF EnqCheck
  <2>2. LockDiscipline'  BY <1>4 DEF EnqCheck
  <2>3. RoomToMove'  BY <1>4 DEF EnqCheck
  <2>4. ArgumentKept'  BY <1>4 DEF EnqCheck
  <2>5. Tested' /\ Raised'  BY <1>4 DEF EnqCheck
  <2> QED  BY <2>1, <2>2, <2>3, <2>4, <2>5
<1>5. ASSUME NEW p \in Producers, EnqTest(p) PROVE Control'
  <2>1. TypeOK'  BY <1>5 DEF EnqTest
  <2>2. LockDiscipline'  BY <1>5 DEF EnqTest
  <2>3. RoomToMove'  BY <1>5 DEF EnqTest
  <2>4. ArgumentKept'  BY <1>5 DEF EnqTest
  <2>5. Tested' /\ Raised'  BY <1>5 DEF EnqTest
  <2> QED  BY <2>1, <2>2, <2>3, <2>4, <2>5
<1>6. ASSUME NEW p \in Producers, EnqWait(p) PROVE Control'  BY <1>6 DEF EnqWait
<1>7. ASSUME NEW p \in Producers, EnqWake(p) PROVE Control'  BY <1>7 DEF EnqWake
<1>8. ASSUME NEW p \in Producers, EnqRecheck(p) PROVE Control'
  <2>1. TypeOK'  BY <1>8 DEF EnqRecheck
  <2>2. LockDiscipline'  BY <1>8 DEF EnqRecheck
  <2>3. RoomToMove'  BY <1>8 DEF EnqRecheck
  <2>4. ArgumentKept'  BY <1>8 DEF EnqRecheck
  <2>5. Tested' /\ Raised'  BY <1>8 DEF EnqRecheck
  <2> QED  BY <2>1, <2>2, <2>3, <2>4, <2>5
<1>9. ASSUME NEW p \in Producers, EnqAdd(p) PROVE Control'
  <2>1. TypeOK'
    <3>1. After(write_idx, 1) \in Slots
      BY AfterValue, 1 \in 0 .. Capacity
    <3>2. length + 1 \in 0 .. Capacity /\ reg[p] \in Fds  BY <1>9 DEF EnqAdd
    <3>3. client_fds' \in [Slots -> Fds \union {-1}]  BY <1>9, <3>2 DEF EnqAdd
    <3> QED  BY <1>9, <3>1, <3>2, <3>3 DEF EnqAdd
  <2>2. LockDiscipline'  BY <1>9 DEF EnqAdd
  <2>3. RoomToMove'  BY <1>9 DEF EnqAdd
  <2>4. ArgumentKept'  BY <1>9 DEF EnqAdd
  <2>5. Tested' /\ Raised'  BY <1>9 DEF EnqAdd
  <2> QED  BY <2>1, <2>2, <2>3, <2>4, <2>5
<1>10. ASSUME NEW p \in Producers, CallShutdown(p) PROVE Control'  BY <1>10 DEF CallShutdown
<1>11. ASSUME NEW p \in Producers, ShutSet(p) PROVE Control'  BY <1>11 DEF ShutSet
<1>12. ASSUME NEW p \in Producers, ShutEmpty(p) PROVE Control'
  <2>1. TypeOK'  BY <1>12 DEF ShutEmpty
  <2>2. LockDiscipline'  BY <1>12 DEF ShutEmpty
  <2>3. RoomToMove'  BY <1>12 DEF ShutEmpty
  <2>4. ArgumentKept'  BY <1>12 DEF ShutEmpty
  <2>5. Tested' /\ Raised'  BY <1>12 DEF ShutEmpty
  <2> QED  BY <2>1, <2>2, <2>3, <2>4, <2>5
<1>13. ASSUME NEW p \in Producers, ShutFull(p) PROVE Control'
  <2>1. TypeOK'  BY <1>13 DEF ShutFull
  <2>2. LockDiscipline'  BY <1>13 DEF ShutFull
  <2>3. RoomToMove'  BY <1>13 DEF ShutFull
  <2>4. ArgumentKept'  BY <1>13 DEF ShutFull
  <2>5. Tested' /\ Raised'  BY <1>13 DEF ShutFull
  <2> QED  BY <2>1, <2>2, <2>3, <2>4, <2>5
<1>14. ASSUME NEW c \in Consumers, CallDequeue(c) PROVE Control'  BY <1>14 DEF CallDequeue
<1>15. ASSUME NEW c \in Consumers, DeqLock(c) PROVE Control'  BY <1>15 DEF DeqLock
<1>16. ASSUME NEW c \in Consumers, DeqCheck(c) PROVE Control'
  <2>1. TypeOK'  BY <1>16 DEF DeqCheck
  <2>2. LockDiscipline'  BY <1>16 DEF DeqCheck
  <2>3. RoomToMove'  BY <1>16 DEF DeqCheck
  <2>4. ArgumentKept'  BY <1>16 DEF DeqCheck
  <2>5. Tested' /\ Raised'  BY <1>16 DEF DeqCheck
  <2> QED  BY <2>1, <2>2, <2>3, <2>4, <2>5
<1>17. ASSUME NEW c \in Consumers, DeqTest(c) PROVE Control'
  <2>1. TypeOK'  BY <1>17 DEF DeqTest
  <2>2. LockDiscipline'  BY <1>17 DEF DeqTest
  <2>3. RoomToMove'  BY <1>17 DEF DeqTest
  <2>4. ArgumentKept'  BY <1>17 DEF DeqTest
  <2>5. Tested' /\ Raised'  BY <1>17 DEF DeqTest
  <2> QED  BY <2>1, <2>2, <2>3, <2>4, <2>5
<1>18. ASSUME NEW c \in Consumers, DeqWait(c) PROVE Control'  BY <1>18 DEF DeqWait
<1>19. ASSUME NEW c \in Consumers, DeqWake(c) PROVE Control'  BY <1>19 DEF DeqWake
<1>20. ASSUME NEW c \in Consumers, DeqRecheck(c) PROVE Control'
  <2>1. TypeOK'  BY <1>20 DEF DeqRecheck
  <2>2. LockDiscipline'  BY <1>20 DEF DeqRecheck
  <2>3. RoomToMove'  BY <1>20 DEF DeqRecheck
  <2>4. ArgumentKept'  BY <1>20 DEF DeqRecheck
  <2>5. Tested' /\ Raised'  BY <1>20 DEF DeqRecheck
  <2> QED  BY <2>1, <2>2, <2>3, <2>4, <2>5
<1>21. ASSUME NEW c \in Consumers, DeqRemove(c) PROVE Control'
  <2>1. TypeOK'
    <3>1. After(read_idx, 1) \in Slots
      BY AfterValue, 1 \in 0 .. Capacity
    <3>2. length - 1 \in 0 .. Capacity /\ client_fds[read_idx] \in Fds
      <4>1. length > 0  BY <1>21 DEF DeqRemove
      <4>2. After(read_idx, 0) = read_idx  BY AfterValue DEF Slots
      <4> QED  BY <4>1, <4>2 DEF IInv, RingOK
    <3> QED  BY <1>21, <3>1, <3>2 DEF DeqRemove
  <2>2. LockDiscipline'  BY <1>21 DEF DeqRemove
  <2>3. RoomToMove'  BY <1>21 DEF DeqRemove
  <2>4. ArgumentKept'  BY <1>21 DEF DeqRemove
  <2>5. Tested' /\ Raised'  BY <1>21 DEF DeqRemove
  <2> QED  BY <2>1, <2>2, <2>3, <2>4, <2>5
<1>22. ASSUME NEW t \in Threads, SpuriousWake(t) PROVE Control'
  <2>1. TypeOK'  BY <1>22 DEF SpuriousWake
  <2>2. LockDiscipline'  BY <1>22 DEF SpuriousWake
  <2>3. RoomToMove'  BY <1>22 DEF SpuriousWake
  <2>4. ArgumentKept'  BY <1>22 DEF SpuriousWake
  <2>5. Tested' /\ Raised'  BY <1>22 DEF SpuriousWake
  <2> QED  BY <2>1, <2>2, <2>3, <2>4, <2>5
<1> HIDE DEF Control
<1> QED
  BY <1>1, <1>2, <1>3, <1>4, <1>5, <1>6, <1>7, <1>8, <1>9, <1>10, <1>11, <1>12,
     <1>13, <1>14, <1>15, <1>16, <1>17, <1>18, <1>19, <1>20, <1>21, <1>22
     DEF QueueNext, EnqStep, DeqStep, ShutStep

\* What the two actions that move a descriptor do to the window of queued slots.
LEMMA RingStep ==
  ASSUME IInv, [QueueNext]_queueVars
  PROVE  RingOK'
<1> USE QueueAssumption DEF RingOK, ring, queueVars, Threads, Slots
<1>1. TypeOK /\ RoomToMove /\ ArgumentKept /\ RingOK  BY DEF IInv, Control
<1>2. length \in 0 .. Capacity /\ read_idx \in Slots /\ write_idx \in Slots
  BY <1>1 DEF TypeOK
<1>3. CASE UNCHANGED ring  BY <1>1, <1>3
<1>4. ASSUME NEW p \in Producers, EnqAdd(p)  PROVE RingOK'
  <2>1. length < Capacity /\ reg[p] \in Fds
    BY <1>1, <1>4 DEF EnqAdd, RoomToMove, ArgumentKept, EnqLabels
  <2>2. write_idx' = After(read_idx', length')
    BY <1>1, <1>2, <1>4, <2>1, AfterNext DEF EnqAdd
  <2>3. ASSUME NEW k \in 0 .. Capacity - 1, k < length'
        PROVE  client_fds'[After(read_idx', k)] \in Fds
    <3>1. After(read_idx, k) \in Slots  BY <1>2, AfterValue
    <3>2. CASE k = length  BY <1>1, <1>4, <2>1, <3>1, <3>2 DEF EnqAdd, TypeOK
    <3>3. CASE k < length  BY <1>1, <1>4, <2>1, <3>1, <3>3 DEF EnqAdd, TypeOK
    <3> QED  BY <1>2, <1>4, <2>3, <3>2, <3>3 DEF EnqAdd
  <2> QED  BY <2>2, <2>3
<1>5. ASSUME NEW c \in Consumers, DeqRemove(c)  PROVE RingOK'
  <2>1. length > 0  BY <1>1, <1>5 DEF DeqRemove, RoomToMove
  <2>2. \A k \in 0 .. Capacity - 1 : After(read_idx', k) = After(read_idx, k + 1)
    BY <1>2, <1>5, AfterNext DEF DeqRemove
  <2>3. write_idx' = After(read_idx', length')
    <3>1. length - 1 \in 0 .. Capacity - 1 /\ (length - 1) + 1 = length  BY <1>2, <2>1
    <3> QED  BY <1>1, <1>5, <2>2, <3>1 DEF DeqRemove
  <2>4. ASSUME NEW k \in 0 .. Capacity - 1, k < length'
        PROVE  client_fds'[After(read_idx', k)] \in Fds
    <3>1. k + 1 \in 0 .. Capacity - 1 /\ k + 1 < length
      BY <1>2, <1>5, <2>4 DEF DeqRemove
    <3> QED  BY <1>1, <1>5, <2>2, <3>1 DEF DeqRemove
  <2> QED  BY <2>3, <2>4
<1> QED
  BY <1>3, <1>4, <1>5
     DEF QueueNext, EnqStep, DeqStep, ShutStep, SpuriousWake, CallEnqueue, CallDequeue,
         CallShutdown, EnqLock, EnqCheck, EnqTest, EnqWait, EnqWake, EnqRecheck,
         DeqLock, DeqCheck, DeqTest, DeqWait, DeqWake, DeqRecheck,
         ShutSet, ShutEmpty, ShutFull

LEMMA Invariance == QueueSpec => []IInv
<1>1. IInv /\ [QueueNext]_queueVars => IInv'  BY ControlStep, RingStep DEF IInv
<1> QED  BY InitInvariant, <1>1, PTL DEF QueueSpec

\* Every variable keeps the shape of the struct, and each thread stays in the
\* functions of its role.
THEOREM TypeCorrect == QueueSpec => []TypeOK
<1>1. IInv => TypeOK  BY DEF IInv, Control
<1> QED  BY Invariance, <1>1, PTL

\* The mutex is held exactly by the thread inside the critical section.
THEOREM MutexDiscipline == QueueSpec => []LockDiscipline
<1>1. IInv => LockDiscipline  BY DEF IInv, Control
<1> QED  BY Invariance, <1>1, PTL

\* Nobody overwrites a queued descriptor or takes one that is not there.
THEOREM RoomAndItems == QueueSpec => []RoomToMove
<1>1. IInv => RoomToMove  BY DEF IInv, Control
<1> QED  BY Invariance, <1>1, PTL

\* The indices and the count agree, and the window holds descriptors.
THEOREM RingCorrect == QueueSpec => []RingOK
<1>1. IInv => RingOK  BY DEF IInv
<1> QED  BY Invariance, <1>1, PTL

\* Once the flag is up no thread newly gets past the last test of it.
THEOREM ShutdownFinal == QueueSpec => ShutdownIsFinal
<1>1. ASSUME IInv, [QueueNext]_queueVars
      PROVE  [shutdown =>
                /\ shutdown'
                /\ \A t \in Threads :
                     pc'[t] \in {"enq_add", "deq_remove"} => pc'[t] = pc[t]]_queueVars
  <2>1. pc \in [Threads -> {"idle"} \union EnqLabels \union DeqLabels \union ShutLabels]
    BY <1>1 DEF IInv, Control, TypeOK
  <2> QED
    BY <1>1, <2>1
       DEF QueueNext, EnqStep, DeqStep, ShutStep, SpuriousWake, CallEnqueue, CallDequeue,
           CallShutdown, EnqLock, EnqCheck, EnqTest, EnqWait, EnqWake, EnqRecheck, EnqAdd,
           DeqLock, DeqCheck, DeqTest, DeqWait, DeqWake, DeqRecheck, DeqRemove,
           ShutSet, ShutEmpty, ShutFull, Goto, Return, ReturnAndSignal, full, empty,
           queueVars, Threads
<1> QED  BY Invariance, <1>1, PTL DEF QueueSpec, ShutdownIsFinal

-------------------------------------------------------------------------------
(* Who sleeps through the broadcasts *)

\* After the flag is up nobody new goes to sleep, and a broadcast leaves nobody
\* asleep, so that a thread missed has been so since the flag was raised.
LEMMA MissedStep ==
  ASSUME IInv, [QueueNext]_queueVars, shutdown
  PROVE  Missed' \subseteq Missed
<1>0. /\ pc \in [Threads -> {"idle"} \union EnqLabels \union DeqLabels \union ShutLabels]
      /\ Producers \subseteq Threads /\ Consumers \subseteq Threads
  BY DEF IInv, Control, TypeOK, Threads
<1> USE <1>0 DEF Missed, EnqLabels, DeqLabels, ShutLabels, Goto, Return, ReturnAndSignal, full, empty
<1>1. CASE UNCHANGED queueVars
  BY <1>1 DEF queueVars
<1>2. ASSUME NEW p \in Producers,
             (\E fd \in Fds : CallEnqueue(p, fd)) \/ CallShutdown(p) \/ ShutSet(p)
      PROVE  Missed' \subseteq Missed
  BY <1>2 DEF CallEnqueue, CallShutdown, ShutSet
<1>3. ASSUME NEW p \in Producers, ShutEmpty(p)
      PROVE  Missed' \subseteq Missed
  <2>1. \A t \in Threads : pc'[t] = IF t = p THEN "shut_full"
                                   ELSE IF pc[t] = "deq_asleep" THEN "deq_wake" ELSE pc[t]
    BY <1>3 DEF ShutEmpty
  <2> QED  BY <1>3, <2>1 DEF ShutEmpty
<1>7. ASSUME NEW p \in Producers, ShutFull(p)
      PROVE  Missed' \subseteq Missed
  <2>1. \A t \in Threads : pc'[t] = IF t = p THEN "idle"
                                   ELSE IF pc[t] = "enq_asleep" THEN "enq_wake" ELSE pc[t]
    BY <1>7 DEF ShutFull
  <2> QED  BY <1>7, <2>1 DEF ShutFull
<1>4. ASSUME NEW p \in Producers, EnqStep(p)
      PROVE  Missed' \subseteq Missed
  BY <1>4 DEF EnqStep, EnqLock, EnqCheck, EnqTest, EnqWait, EnqWake, EnqRecheck, EnqAdd
<1>5. ASSUME NEW c \in Consumers, CallDequeue(c) \/ DeqStep(c)
      PROVE  Missed' \subseteq Missed
  BY <1>5 DEF CallDequeue, DeqStep, DeqLock, DeqCheck, DeqTest, DeqWait, DeqWake, DeqRecheck,
              DeqRemove
<1>6. ASSUME NEW t \in Threads, SpuriousWake(t)
      PROVE  Missed' \subseteq Missed
  BY <1>6 DEF SpuriousWake
<1> QED  BY <1>1, <1>2, <1>3, <1>4, <1>5, <1>6, <1>7 DEF QueueNext, ShutStep

\* connection_queue_shutdown broadcasts without the mutex and may leave a thread
\* asleep for good; for any number of threads it is one.
THEOREM ShutdownReachesAllButOne == QueueSpec => []ShutdownMissesOne
<1>1. QueueInit => ShutdownMissesOne
  BY DEF QueueInit, ShutdownMissesOne
<1>2. IInv /\ ShutdownMissesOne /\ [QueueNext]_queueVars => ShutdownMissesOne'
  <2> SUFFICES ASSUME IInv, ShutdownMissesOne, [QueueNext]_queueVars, shutdown'
               PROVE  \A s, t \in Missed' : s = t
    BY DEF ShutdownMissesOne
  <2>1. CASE shutdown
    BY <2>1, MissedStep DEF ShutdownMissesOne
  <2>2. CASE ~shutdown
    <3>1. PICK p \in Producers : ShutSet(p)
      BY <2>2 DEF QueueNext, EnqStep, DeqStep, ShutStep, SpuriousWake, CallEnqueue, CallDequeue,
                  CallShutdown, EnqLock, EnqCheck, EnqTest, EnqWait, EnqWake, EnqRecheck, EnqAdd,
                  DeqLock, DeqCheck, DeqTest, DeqWait, DeqWake, DeqRecheck, DeqRemove,
                  ShutEmpty, ShutFull, queueVars
    <3>2. pc' = [pc EXCEPT ![p] = "shut_empty"] /\ p \in Threads
      BY <3>1 DEF ShutSet, Goto, Threads
    <3>3. /\ pc \in [Threads -> {"idle"} \union EnqLabels \union DeqLabels \union ShutLabels]
          /\ pc'[p] = "shut_empty"
      BY <3>2 DEF IInv, Control, TypeOK
    <3>4. \A t \in Missed' : t \in Threads /\ pc[t] \in {"enq_wait", "deq_wait"}
      BY <3>2, <3>3 DEF Missed, empty, full, ShutLabels
    <3> QED  BY <3>4 DEF IInv, Control, LockDiscipline, Critical
  <2> QED  BY <2>1, <2>2
<1> QED  BY Invariance, <1>1, <1>2, PTL DEF QueueSpec

-------------------------------------------------------------------------------
(* Refinement of ConnectionFifo *)

\* Threads past the last test of the flag.
Late == {t \in Threads : pc[t] \in {"enq_add", "deq_remove"}}

\* A step that keeps the ring, the flag, everyone's call and who is late is
\* invisible to the callers.
LEMMA Invisible ==
  ASSUME UNCHANGED <<ring, shutdown, reg>>, Pending' = Pending, shutdown => Late' = Late
  PROVE  UNCHANGED <<Contents, Phase, Pending, reg>>
BY DEF Contents, Phase, Late, ring

\* The mutex lets at most one thread be late.
LEMMA OneLate ==
  ASSUME LockDiscipline, NEW t \in Late
  PROVE  Late = {t}
BY DEF LockDiscipline, Late, Critical

PcTyped == pc \in [Threads -> {"idle"} \union EnqLabels \union DeqLabels \union ShutLabels]

\* The call each label belongs to.
LEMMA LabelsOfCalls ==
  /\ PendingOp("idle") = "idle"
  /\ \A label \in EnqLabels : PendingOp(label) = "enqueue"
  /\ \A label \in DeqLabels : PendingOp(label) = "dequeue"
  /\ \A label \in ShutLabels : PendingOp(label) = "shutdown"
BY DEF PendingOp, EnqLabels, DeqLabels, ShutLabels

\* The pending calls after a thread has moved.
LEMMA Moves ==
  ASSUME PcTyped, NEW t \in Threads, NEW label, pc' = [pc EXCEPT ![t] = label]
  PROVE  /\ Pending[t] = PendingOp(pc[t])
         /\ Pending' = [Pending EXCEPT ![t] = PendingOp(label)]
<1>1. \A u \in Threads : pc'[u] = IF u = t THEN label ELSE pc[u]  BY DEF PcTyped
<1>2. \A u \in Threads :
        PendingOp(pc[u])' = IF u = t THEN PendingOp(label) ELSE PendingOp(pc[u])
  <2>1. \A u \in Threads : PendingOp(pc[u])' = PendingOp(pc'[u])  BY DEF PendingOp
  <2> QED  BY <1>1, <2>1
<1>3. Pending[t] = PendingOp(pc[t])  BY DEF Pending
<1>4. Pending' = [u \in Threads |-> PendingOp(pc[u])']  BY DEF Pending
<1> QED  BY <1>2, <1>3, <1>4 DEF Pending

\* The same when it has woken a sleeper, who stays in its call.
LEMMA MovesWaking ==
  ASSUME PcTyped, NEW t \in Threads, NEW s \in Threads, NEW woken \in EnqLabels \union DeqLabels,
         s # t, PendingOp(woken) = PendingOp(pc[s]),
         pc' = [pc EXCEPT ![t] = "idle", ![s] = woken]
  PROVE  /\ Pending[t] = PendingOp(pc[t])
         /\ Pending' = [Pending EXCEPT ![t] = PendingOp("idle")]
<1>1. /\ pc'[t] = "idle"
      /\ pc'[s] = woken
      /\ \A u \in Threads \ {s, t} : pc'[u] = pc[u]
  BY DEF PcTyped
<1>2. \A u \in Threads :
        PendingOp(pc[u])' = IF u = t THEN PendingOp("idle") ELSE PendingOp(pc[u])
  <2>1. \A u \in Threads : PendingOp(pc[u])' = PendingOp(pc'[u])  BY DEF PendingOp
  <2>2. PendingOp(pc'[t]) = PendingOp("idle")  BY <1>1
  <2>3. PendingOp(pc'[s]) = PendingOp(pc[s])  BY <1>1
  <2>4. \A u \in Threads \ {s, t} : PendingOp(pc'[u]) = PendingOp(pc[u])  BY <1>1
  <2> QED  BY <2>1, <2>2, <2>3, <2>4
<1>3. Pending[t] = PendingOp(pc[t])  BY DEF Pending
<1>4. Pending' = [u \in Threads |-> PendingOp(pc[u])']  BY DEF Pending
<1> QED  BY <1>2, <1>3, <1>4 DEF Pending

LEMMA QuietStep ==
  ASSUME IInv, NEW t \in Threads,
         \/ EnqLock(t) \/ EnqTest(t) \/ EnqWait(t) \/ EnqWake(t)
         \/ DeqLock(t) \/ DeqTest(t) \/ DeqWait(t) \/ DeqWake(t)
         \/ ShutEmpty(t) \/ SpuriousWake(t)
  PROVE  UNCHANGED <<Contents, Phase, Pending, reg>>
<1> USE DEF EnqLock, EnqTest, EnqWait, EnqWake, DeqLock, DeqTest, DeqWait, DeqWake,
            ShutEmpty, SpuriousWake, Goto, full, empty
<1>1. pc \in [Threads -> {"idle"} \union EnqLabels \union DeqLabels \union ShutLabels]
  BY DEF IInv, Control, TypeOK
<1>2. Pending' = Pending
  BY <1>1 DEF Pending, PendingOp, EnqLabels, DeqLabels, ShutLabels
<1>3. Late' = Late  BY <1>1 DEF Late
<1>4. UNCHANGED <<ring, shutdown, reg>>  OBVIOUS
<1> QED  BY <1>2, <1>3, <1>4, Invisible

\* Where a call begins and where it is refused.
LEMMA CallStep ==
  ASSUME IInv, NEW t \in Threads,
         NEW name \in {"enqueue", "dequeue", "shutdown"}, NEW arg,
         \/ name = "enqueue" /\ CallEnqueue(t, arg)
         \/ name = "dequeue" /\ CallDequeue(t) /\ arg = 0
         \/ name = "shutdown" /\ CallShutdown(t) /\ arg = 0
  PROVE  Fifo!Call(t, name, arg)
<1> USE DEF CallEnqueue, CallDequeue, CallShutdown, Goto
<1>1. PcTyped  BY DEF IInv, Control, TypeOK, PcTyped
<1>2. Pending[t] = "idle" /\ Pending' = [Pending EXCEPT ![t] = name]
  <2>1. CASE name = "enqueue" /\ CallEnqueue(t, arg)
    <3>1. pc[t] = "idle" /\ pc' = [pc EXCEPT ![t] = "enq_lock"]  BY <2>1
    <3>2. PendingOp("enq_lock") = name  BY <2>1, LabelsOfCalls DEF EnqLabels
    <3>3. /\ Pending[t] = PendingOp(pc[t])
          /\ Pending' = [Pending EXCEPT ![t] = PendingOp("enq_lock")]
      BY <1>1, <3>1, Moves
    <3> QED  BY <3>1, <3>2, <3>3, LabelsOfCalls
  <2>2. CASE name = "dequeue" /\ CallDequeue(t) /\ arg = 0
    <3>1. pc[t] = "idle" /\ pc' = [pc EXCEPT ![t] = "deq_lock"]  BY <2>2
    <3>2. PendingOp("deq_lock") = name  BY <2>2, LabelsOfCalls DEF DeqLabels
    <3>3. /\ Pending[t] = PendingOp(pc[t])
          /\ Pending' = [Pending EXCEPT ![t] = PendingOp("deq_lock")]
      BY <1>1, <3>1, Moves
    <3> QED  BY <3>1, <3>2, <3>3, LabelsOfCalls
  <2>3. CASE name = "shutdown" /\ CallShutdown(t) /\ arg = 0
    <3>1. pc[t] = "idle" /\ pc' = [pc EXCEPT ![t] = "shut_set"]  BY <2>3
    <3>2. PendingOp("shut_set") = name  BY <2>3, LabelsOfCalls DEF ShutLabels
    <3>3. /\ Pending[t] = PendingOp(pc[t])
          /\ Pending' = [Pending EXCEPT ![t] = PendingOp("shut_set")]
      BY <1>1, <3>1, Moves
    <3> QED  BY <3>1, <3>2, <3>3, LabelsOfCalls
  <2> QED  BY <2>1, <2>2, <2>3
<1>3. UNCHANGED <<Contents, Phase>>
  BY <1>1 DEF Contents, Phase, PcTyped, ring
<1>4. reg' = [reg EXCEPT ![t] = arg]  OBVIOUS
<1> QED  BY <1>2, <1>3, <1>4 DEF Fifo!Call

LEMMA RefuseStep ==
  ASSUME IInv, NEW t \in Threads,
         EnqCheck(t) \/ EnqRecheck(t) \/ DeqCheck(t) \/ DeqRecheck(t)
  PROVE  Fifo!Refuse(t) \/ UNCHANGED <<Contents, Phase, Pending, reg>>
<1> USE DEF EnqCheck, EnqRecheck, DeqCheck, DeqRecheck, Goto
<1>1. PcTyped  BY DEF IInv, Control, TypeOK, PcTyped
<1>2. CASE shutdown
  <2>1. /\ Pending[t] \in {"enqueue", "dequeue"}
        /\ Pending' = [Pending EXCEPT ![t] = "idle"]
    BY <1>1, <1>2
       DEF Pending, PendingOp, PcTyped, EnqLabels, DeqLabels, ShutLabels, Return
  <2>2. Phase # "open" /\ UNCHANGED <<Contents, Phase>>
    BY <1>1, <1>2 DEF Contents, Phase, PcTyped, ring, Return
  <2>3. reg' = [reg EXCEPT ![t] = 0]  BY <1>2 DEF Return
  <2> QED  BY <2>1, <2>2, <2>3 DEF Fifo!Refuse, Fifo!Return
<1>3. CASE ~shutdown
  <2>1. Pending' = Pending
    BY <1>1, <1>3 DEF Pending, PendingOp, PcTyped, EnqLabels, DeqLabels, ShutLabels
  <2> QED  BY <1>3, <2>1, Invisible
<1> QED  BY <1>2, <1>3

LEMMA ShutdownStep ==
  ASSUME IInv, NEW t \in Threads, ShutSet(t) \/ ShutFull(t)
  PROVE  \/ Fifo!Close(t) \/ Fifo!Closed(t)
         \/ UNCHANGED <<Contents, Phase, Pending, reg>>
<1> USE DEF Goto
<1>1. PcTyped  BY DEF IInv, Control, TypeOK, PcTyped
<1>2. CASE ShutSet(t)
  <2> USE <1>2 DEF ShutSet
  <2>1. Pending[t] = "shutdown" /\ Pending' = Pending
    BY <1>1 DEF Pending, PendingOp, PcTyped, EnqLabels, DeqLabels, ShutLabels
  <2>2. Late' = Late  BY <1>1 DEF Late, PcTyped
  <2>3. CASE shutdown
    <3>1. shutdown' = shutdown  BY <2>3, IInv DEF IInv, Control, TypeOK
    <3> QED  BY <2>1, <2>2, <3>1, Invisible
  <2>4. CASE ~shutdown
    <3>1. Contents' = Contents /\ reg' = reg  BY DEF Contents, ring
    <3>2. Phase = "open" /\ Phase' \in {"closing", "closed"}  BY <2>4 DEF Phase
    <3> QED  BY <2>1, <3>1, <3>2 DEF Fifo!Close
  <2> QED  BY <2>3, <2>4
<1>3. CASE ShutFull(t)
  <2> USE <1>3 DEF ShutFull, full
  <2>1. Pending[t] = "shutdown" /\ Pending' = [Pending EXCEPT ![t] = "idle"]
    BY <1>1 DEF Pending, PendingOp, PcTyped, EnqLabels, DeqLabels, ShutLabels
  <2>2. shutdown  BY DEF IInv, Control, Raised
  <2>3. Late' = Late  BY <1>1 DEF Late, PcTyped
  <2>4. Phase # "open" /\ UNCHANGED <<Contents, Phase>>
    BY <2>2, <2>3 DEF Contents, Phase, Late, ring
  <2>5. reg' = [reg EXCEPT ![t] = 0]  OBVIOUS
  <2> QED  BY <2>1, <2>4, <2>5 DEF Fifo!Closed, Fifo!Return
<1> QED  BY <1>2, <1>3

\* The thread that adds or removes is the only late one, and its step ends the
\* "closing" phase if there is one.
LEMMA EffectPhase ==
  ASSUME IInv, NEW t \in Threads, EnqAdd(t) \/ DeqRemove(t)
  PROVE  Fifo!LateOrOpen
<1> USE DEF EnqAdd, DeqRemove, ReturnAndSignal, Goto, full, empty
<1>1. PcTyped  BY DEF IInv, Control, TypeOK, PcTyped
<1>2. Late = {t}
  <2>1. t \in Late  BY DEF Late
  <2> QED  BY <2>1, OneLate DEF IInv, Control
<1>3. Late' = {}  BY <1>1, <1>2 DEF Late, PcTyped
<1>4. shutdown' = shutdown  OBVIOUS
<1>5. Phase = IF shutdown THEN "closing" ELSE "open"  BY <1>2 DEF Phase, Late
<1>6. Phase' = IF shutdown THEN "closed" ELSE "open"  BY <1>3, <1>4 DEF Phase, Late
<1> QED  BY <1>5, <1>6 DEF Fifo!LateOrOpen

LEMMA AddStep ==
  ASSUME IInv, NEW t \in Threads, EnqAdd(t)
  PROVE  Fifo!Put(t)
<1> USE QueueAssumption DEF EnqAdd, ReturnAndSignal, Goto
<1>1. PcTyped /\ TypeOK /\ length < Capacity /\ reg[t] \in Fds /\ RingOK
  BY DEF IInv, Control, TypeOK, PcTyped, RoomToMove, ArgumentKept, EnqLabels
<1>2. Pending[t] = "enqueue" /\ Pending' = [Pending EXCEPT ![t] = "idle"]
  <2>1. PendingOp(pc[t]) = "enqueue"  BY LabelsOfCalls DEF EnqLabels
  <2>2. CASE pc' = [pc EXCEPT ![t] = "idle"]
    <3>1. /\ Pending[t] = PendingOp(pc[t])
          /\ Pending' = [Pending EXCEPT ![t] = PendingOp("idle")]
      BY <1>1, <2>2, Moves
    <3> QED  BY <2>1, <3>1, LabelsOfCalls
  <2>3. ASSUME NEW s \in empty, pc' = [pc EXCEPT ![t] = "idle", ![s] = "deq_wake"]
        PROVE  Pending[t] = "enqueue" /\ Pending' = [Pending EXCEPT ![t] = "idle"]
    <3>1. s \in Threads /\ s # t /\ pc[s] = "deq_asleep"  BY DEF empty
    <3>2. PendingOp("deq_wake") = PendingOp(pc[s])
      BY <3>1, LabelsOfCalls DEF DeqLabels
    <3>3. /\ Pending[t] = PendingOp(pc[t])
          /\ Pending' = [Pending EXCEPT ![t] = PendingOp("idle")]
      BY <1>1, <2>3, <3>1, <3>2, MovesWaking DEF EnqLabels, DeqLabels
    <3> QED  BY <2>1, <3>3, LabelsOfCalls
  <2> QED  BY <2>2, <2>3
<1>3. Contents' = Append(Contents, reg[t])
  <2>1. length \in Nat /\ length' = length + 1 /\ read_idx' = read_idx
    BY <1>1 DEF TypeOK
  <2>2. ASSUME NEW k \in 0 .. length
        PROVE  client_fds'[After(read_idx, k)] =
                 IF k = length THEN reg[t] ELSE client_fds[After(read_idx, k)]
    <3>1. k \in Slots /\ length \in Slots /\ read_idx \in Slots
      BY <1>1, <2>1 DEF Slots, TypeOK
    <3>2. After(read_idx, k) \in Slots  BY <3>1, AfterValue DEF Slots
    <3>3. k # length => After(read_idx, k) # write_idx
      BY <1>1, <3>1, AfterNext DEF RingOK, TypeOK
    <3> QED  BY <1>1, <3>1, <3>2, <3>3 DEF RingOK, TypeOK
  <2>3. Contents' = [k \in 1 .. length + 1 |->
                       IF k = length + 1 THEN reg[t] ELSE Contents[k]]
    <3>1. ASSUME NEW k \in 1 .. length + 1
          PROVE  client_fds'[After(read_idx, k - 1)] =
                   IF k = length + 1 THEN reg[t] ELSE Contents[k]
      <4>1. k - 1 \in 0 .. length  BY <2>1
      <4> QED  BY <2>1, <2>2, <4>1 DEF Contents
    <3> QED  BY <2>1, <3>1 DEF Contents
  <2>4. Len(Contents) = length  BY <2>1 DEF Contents
  <2> QED  BY <2>1, <2>3, <2>4
<1>4. Len(Contents) < Capacity  BY <1>1 DEF Contents, TypeOK
<1> QED  BY <1>2, <1>3, <1>4, <1>1, EffectPhase DEF Fifo!Put, Fifo!Return

LEMMA RemoveStep ==
  ASSUME IInv, NEW t \in Threads, DeqRemove(t)
  PROVE  Fifo!Take(t)
<1> USE QueueAssumption DEF DeqRemove, ReturnAndSignal, Goto
<1>1. PcTyped /\ TypeOK /\ length > 0
  BY DEF IInv, Control, TypeOK, PcTyped, RoomToMove
<1>2. length \in Nat /\ length' = length - 1  BY <1>1 DEF TypeOK
<1>3. Head(Contents) = client_fds[read_idx] /\ Contents # <<>>
  <2>1. After(read_idx, 0) = read_idx  BY <1>1, AfterValue DEF TypeOK, Slots
  <2>2. 1 \in 1 .. length /\ 1 - 1 = 0  BY <1>1, <1>2
  <2>3. Contents[1] = client_fds[read_idx]  BY <2>1, <2>2 DEF Contents
  <2>4. Len(Contents) = length  BY <1>2 DEF Contents
  <2> QED  BY <1>1, <2>3, <2>4
<1>4. reg' = [reg EXCEPT ![t] = client_fds[read_idx]]  OBVIOUS
<1>6. Pending[t] = "dequeue" /\ Pending' = [Pending EXCEPT ![t] = "idle"]
  <2>1. PendingOp(pc[t]) = "dequeue"  BY LabelsOfCalls DEF DeqLabels
  <2>2. CASE pc' = [pc EXCEPT ![t] = "idle"]
    <3>1. /\ Pending[t] = PendingOp(pc[t])
          /\ Pending' = [Pending EXCEPT ![t] = PendingOp("idle")]
      BY <1>1, <2>2, Moves
    <3> QED  BY <2>1, <3>1, LabelsOfCalls
  <2>3. ASSUME NEW s \in full, pc' = [pc EXCEPT ![t] = "idle", ![s] = "enq_wake"]
        PROVE  Pending[t] = "dequeue" /\ Pending' = [Pending EXCEPT ![t] = "idle"]
    <3>1. s \in Threads /\ s # t /\ pc[s] = "enq_asleep"  BY DEF full
    <3>2. PendingOp("enq_wake") = PendingOp(pc[s])
      BY <3>1, LabelsOfCalls DEF EnqLabels
    <3>3. /\ Pending[t] = PendingOp(pc[t])
          /\ Pending' = [Pending EXCEPT ![t] = PendingOp("idle")]
      BY <1>1, <2>3, <3>1, <3>2, MovesWaking DEF EnqLabels, DeqLabels
    <3> QED  BY <2>1, <3>3, LabelsOfCalls
  <2> QED  BY <2>2, <2>3
<1>5. Contents' = Tail(Contents)
  <2>1. ASSUME NEW k \in 1 .. length - 1
        PROVE  client_fds'[After(read_idx', k - 1)] = Contents[k + 1]
    <3>1. k - 1 \in Slots /\ (k - 1) + 1 = (k + 1) - 1 /\ k + 1 \in 1 .. length
      BY <1>1, <1>2 DEF TypeOK, Slots
    <3>2. After(read_idx', k - 1) = After(read_idx, (k + 1) - 1)
      BY <1>1, <3>1, AfterNext DEF TypeOK
    <3> QED  BY <3>1, <3>2 DEF Contents
  <2>2. Len(Contents) = length  BY <1>2 DEF Contents
  <2>3. Contents' = [k \in 1 .. length - 1 |-> client_fds'[After(read_idx', k - 1)]]
    BY <1>2 DEF Contents
  <2>4. Contents' = [k \in 1 .. Len(Contents) - 1 |-> Contents[k + 1]]
    BY <2>1, <2>2, <2>3
  <2>5. Contents \in Seq(Fds \union {-1}) /\ Contents # <<>>
    <3>1. \A k \in 1 .. length : k - 1 \in 0 .. Capacity
      BY <1>1, <1>2 DEF TypeOK
    <3>2. read_idx \in Slots /\ \A j \in 0 .. Capacity : After(read_idx, j) \in Slots
      BY <1>1, AfterValue DEF TypeOK
    <3> QED  BY <1>1, <1>2, <1>3, <3>1, <3>2 DEF Contents, TypeOK
  <2>6. Tail(Contents) = [k \in 1 .. Len(Contents) - 1 |-> Contents[k + 1]]
    <3>1. /\ Tail(Contents) \in Seq(Fds \union {-1})
          /\ Len(Tail(Contents)) = Len(Contents) - 1
          /\ \A k \in 1 .. Len(Tail(Contents)) : Tail(Contents)[k] = Contents[k + 1]
      BY <2>5, HeadTailProperties
    <3>2. Tail(Contents) \in [1 .. Len(Tail(Contents)) -> Fds \union {-1}]
      BY <3>1, LenProperties
    <3> QED  BY <3>1, <3>2
  <2> QED  BY <2>4, <2>6
<1> QED  BY <1>3, <1>4, <1>5, <1>6, EffectPhase DEF Fifo!Take, Fifo!Return

\* Every step of the queue is a step of the abstract queue or invisible to it.
LEMMA RefineStep ==
  ASSUME IInv, [QueueNext]_queueVars
  PROVE  [Fifo!Next]_(Fifo!fifoVars)
<1> USE DEF Threads
<1>1. CASE UNCHANGED queueVars
  BY <1>1 DEF queueVars, Fifo!fifoVars, Contents, Phase, Pending
<1>2. ASSUME NEW p \in Producers, NEW fd \in Fds, CallEnqueue(p, fd)
      PROVE  Fifo!Next
  BY <1>2, CallStep DEF Fifo!Next
<1>3. ASSUME NEW p \in Producers, CallShutdown(p)  PROVE Fifo!Next
  BY <1>3, CallStep DEF Fifo!Next
<1>4. ASSUME NEW c \in Consumers, CallDequeue(c)  PROVE Fifo!Next
  BY <1>4, CallStep DEF Fifo!Next
<1>5. ASSUME NEW p \in Producers, EnqStep(p) \/ ShutStep(p)
      PROVE  [Fifo!Next]_(Fifo!fifoVars)
  BY <1>5, QuietStep, RefuseStep, ShutdownStep, AddStep
     DEF EnqStep, ShutStep, Fifo!Next, Fifo!fifoVars, Fifo!Threads
<1>6. ASSUME NEW c \in Consumers, DeqStep(c)  PROVE [Fifo!Next]_(Fifo!fifoVars)
  BY <1>6, QuietStep, RefuseStep, RemoveStep
     DEF DeqStep, Fifo!Next, Fifo!fifoVars, Fifo!Threads
<1>7. ASSUME NEW t \in Threads, SpuriousWake(t)  PROVE [Fifo!Next]_(Fifo!fifoVars)
  BY <1>7, QuietStep DEF Fifo!fifoVars
<1> QED  BY <1>1, <1>2, <1>3, <1>4, <1>5, <1>6, <1>7 DEF QueueNext

\* connection_queue.c implements a bounded FIFO queue that can be shut down,
\* whatever the threads, the descriptors and the capacity, with calls that take
\* effect at one moment; but one whose refused calls return 0, where
\* connection_queue.h has -1 (Refused in the INSTANCE of ConnectionFifo).
THEOREM Refinement == QueueSpec => FifoSpec
<1>1. QueueInit => Fifo!Init
  <2> SUFFICES ASSUME QueueInit PROVE Fifo!Init  OBVIOUS
  <2>1. Contents = <<>>  BY DEF QueueInit, Contents
  <2>2. Phase = "open"  BY DEF QueueInit, Phase
  <2>3. Pending = [t \in Fifo!Threads |-> "idle"]
    BY DEF QueueInit, Pending, PendingOp, EnqLabels, DeqLabels, ShutLabels, Fifo!Threads, Threads
  <2>4. reg = [t \in Fifo!Threads |-> 0]  BY DEF QueueInit, Fifo!Threads, Threads
  <2> QED  BY <2>1, <2>2, <2>3, <2>4 DEF Fifo!Init
<1>2. IInv /\ [QueueNext]_queueVars => [Fifo!Next]_(Fifo!fifoVars)  BY RefineStep
<1> QED  BY Invariance, <1>1, <1>2, PTL DEF QueueSpec, FifoSpec, Fifo!Spec

-------------------------------------------------------------------------------
(* Signals: with finitely many threads nobody sleeps next to work unnoticed *)

AwakeForItems == {t \in Threads : pc[t] \in {"deq_wake", "deq_test", "deq_recheck", "deq_remove"}}
AwakeForRoom == {t \in Threads : pc[t] \in {"enq_wake", "enq_test", "enq_recheck", "enq_add"}}

EnoughForItems == empty # {} => length <= Cardinality(AwakeForItems)
EnoughForRoom == full # {} => Capacity - length <= Cardinality(AwakeForRoom)

\* Who is about to sleep still has the mutex, so there is still nothing for it.
AboutToSleep ==
  \A t \in Threads :
    /\ pc[t] = "deq_wait" => length = 0 \/ shutdown
    /\ pc[t] = "enq_wait" => length = Capacity \/ shutdown

Signals == AboutToSleep /\ (~shutdown => EnoughForItems /\ EnoughForRoom)

\* More to do with one more awake, or less to do with one less.
LEMMA EnoughStill ==
  ASSUME IsFiniteSet(Threads), NEW n \in Int, NEW m \in Int,
         NEW A \in SUBSET Threads, NEW B \in SUBSET Threads, n <= Cardinality(A),
         \/ m = n /\ A \subseteq B
         \/ m = n + 1 /\ \E s \in Threads \ A : B = A \union {s}
         \/ m = n - 1 /\ \E s \in A : B = A \ {s}
  PROVE  m <= Cardinality(B)
<1>1. IsFiniteSet(A) /\ IsFiniteSet(B)
  BY FS_Subset
<1>2. Cardinality(A) \in Nat /\ Cardinality(B) \in Nat
  BY <1>1, FS_CardinalityType
<1>3. CASE A \subseteq B /\ m = n
  BY <1>1, <1>2, <1>3, FS_Subset
<1>4. ASSUME NEW s \in Threads \ A, B = A \union {s}, m = n + 1  PROVE m <= Cardinality(B)
  BY <1>1, <1>2, <1>4, FS_AddElement
<1>5. ASSUME NEW s \in A, B = A \ {s}, m = n - 1  PROVE m <= Cardinality(B)
  BY <1>1, <1>2, <1>5, FS_RemoveElement
<1> QED  BY <1>3, <1>4, <1>5

\* One thread moves, and at most one other is woken by it.
LEMMA AboutToSleepStep ==
  ASSUME IInv, AboutToSleep, [QueueNext]_queueVars
  PROVE  AboutToSleep'
<1>1. /\ pc \in [Threads -> {"idle"} \union EnqLabels \union DeqLabels \union ShutLabels]
      /\ length \in 0 .. Capacity /\ Capacity \in Nat
      /\ \A t \in Threads : pc[t] \in Critical <=> lock = t
      /\ RoomToMove
  BY QueueAssumption DEF IInv, Control, TypeOK, LockDiscipline
<1> USE DEF AboutToSleep, Threads
<1>2. CASE UNCHANGED length /\ (shutdown => shutdown')
           /\ \A t \in Threads :
                pc'[t] = pc[t] \/ pc'[t] \notin {"deq_wait", "enq_wait"}
  BY <1>2
<1>3. ASSUME NEW p \in Producers, EnqTest(p)  PROVE AboutToSleep'
  BY <1>1, <1>3 DEF EnqTest, Goto, ring
<1>4. ASSUME NEW c \in Consumers, DeqTest(c)  PROVE AboutToSleep'
  BY <1>1, <1>4 DEF DeqTest, Goto, ring
<1>5. ASSUME NEW t \in Threads, EnqAdd(t) \/ DeqRemove(t)  PROVE AboutToSleep'
  <2>1. \A s \in Threads : s # t => pc[s] \notin Critical
    <3>1. lock = t
      BY <1>1, <1>5 DEF EnqAdd, DeqRemove, Critical
    <3> QED  BY <1>1, <3>1
  <2>2. \A s \in Threads : pc'[s] \notin {"deq_wait", "enq_wait"}
    BY <1>1, <1>5, <2>1 DEF EnqAdd, DeqRemove, ReturnAndSignal, Goto, Critical
  <2> QED  BY <2>2
<1> QED
  BY <1>1, <1>2, <1>3, <1>4, <1>5
     DEF QueueNext, EnqStep, DeqStep, ShutStep, SpuriousWake, CallEnqueue, CallDequeue,
         CallShutdown, EnqLock, EnqCheck, EnqWait, EnqWake, EnqRecheck,
         DeqLock, DeqCheck, DeqWait, DeqWake, DeqRecheck,
         ShutSet, ShutEmpty, ShutFull, Goto, Return, full, empty, ring, queueVars

\* Half of the argument: work for consumers.
LEMMA ItemsStep ==
  ASSUME IsFiniteSet(Threads), IInv, Signals, ~shutdown', [QueueNext]_queueVars
  PROVE  EnoughForItems'
<1>1. /\ pc \in [Threads -> {"idle"} \union EnqLabels \union DeqLabels \union ShutLabels]
      /\ length \in 0 .. Capacity /\ Capacity \in Nat
      /\ \A p \in Producers : pc[p] \notin DeqLabels
      /\ \A c \in Consumers : pc[c] \notin EnqLabels \union ShutLabels
  BY QueueAssumption DEF IInv, Control, TypeOK
<1>2. ~shutdown
  BY DEF QueueNext, EnqStep, DeqStep, ShutStep, SpuriousWake, CallEnqueue, CallDequeue,
         CallShutdown, EnqLock, EnqCheck, EnqTest, EnqWait, EnqWake, EnqRecheck, EnqAdd,
         DeqLock, DeqCheck, DeqTest, DeqWait, DeqWake, DeqRecheck, DeqRemove,
         ShutSet, ShutEmpty, ShutFull, ring, queueVars
<1>3. EnoughForItems /\ AboutToSleep
  BY <1>2 DEF Signals
<1>4. AwakeForItems \in SUBSET Threads /\ AwakeForItems' \in SUBSET Threads
  BY DEF AwakeForItems
<1>5. Cardinality(AwakeForItems') \in Nat
  BY <1>4, FS_Subset, FS_CardinalityType
<1>6. CASE /\ UNCHANGED length
           /\ \A t \in Threads :
                /\ pc'[t] = "deq_asleep" => pc[t] = "deq_asleep"
                /\ t \in AwakeForItems => t \in AwakeForItems'
  <2>1. empty' \subseteq empty /\ AwakeForItems \subseteq AwakeForItems'
    BY <1>4, <1>6 DEF empty
  <2> QED  BY <1>1, <1>3, <1>4, <1>6, <2>1, EnoughStill DEF EnoughForItems
<1>7. ASSUME NEW c \in Consumers, DeqTest(c) \/ DeqWait(c), length = 0
      PROVE  EnoughForItems'
  <2>1. length' = 0
    BY <1>7 DEF DeqTest, DeqWait, ring
  <2> QED  BY <1>5, <2>1 DEF EnoughForItems
<1>8. ASSUME NEW c \in Consumers, DeqTest(c), length # 0  PROVE EnoughForItems'
  BY <1>1, <1>6, <1>8 DEF DeqTest, Goto, ring, AwakeForItems, Threads
<1>9. ASSUME NEW c \in Consumers, DeqWait(c)  PROVE length = 0
  BY <1>2, <1>3, <1>9 DEF DeqWait, AboutToSleep, Threads
<1>10. ASSUME NEW p \in Producers, EnqAdd(p)  PROVE EnoughForItems'
  <2>0. length' = length + 1 /\ p \notin AwakeForItems /\ p \in Threads
    BY <1>10 DEF EnqAdd, AwakeForItems, Threads
  <2>1. CASE empty = {} /\ Goto(p, "idle")
    <3>1. empty' = {}
      BY <1>1, <2>1 DEF empty, Goto
    <3> QED  BY <3>1 DEF EnoughForItems
  <2>2. ASSUME NEW s \in empty, pc' = [pc EXCEPT ![p] = "idle", ![s] = "deq_wake"]
        PROVE  EnoughForItems'
    <3>1. s \in Threads \ AwakeForItems /\ AwakeForItems' = AwakeForItems \union {s}
      BY <1>1, <2>0, <2>2 DEF empty, AwakeForItems
    <3> QED  BY <1>1, <1>3, <1>4, <2>0, <2>2, <3>1, EnoughStill DEF EnoughForItems
  <2> QED  BY <1>10, <2>1, <2>2 DEF EnqAdd, ReturnAndSignal
<1>11. ASSUME NEW c \in Consumers, DeqRemove(c)  PROVE EnoughForItems'
  <2>0. /\ length' = length - 1 /\ c \in AwakeForItems /\ c \in Threads
        /\ c \notin full /\ \A s \in full : s \in Threads /\ s \notin AwakeForItems
    BY <1>11 DEF DeqRemove, AwakeForItems, Threads, full
  <2>1. AwakeForItems' = AwakeForItems \ {c} /\ empty' = empty
    BY <1>1, <1>11, <2>0 DEF DeqRemove, ReturnAndSignal, Goto, AwakeForItems, empty, full
  <2> QED  BY <1>1, <1>3, <1>4, <2>0, <2>1, EnoughStill DEF EnoughForItems
<1>12. CASE \E p \in Producers : \/ \E fd \in Fds : CallEnqueue(p, fd)
                                 \/ CallShutdown(p)
                                 \/ EnqStep(p) /\ ~EnqAdd(p)
  BY <1>1, <1>2, <1>6, <1>12
     DEF EnqStep, CallEnqueue, CallShutdown, EnqLock, EnqCheck, EnqTest, EnqWait, EnqWake,
         EnqRecheck, Goto, Return, ring, AwakeForItems, Threads, DeqLabels
<1>13. CASE \E p \in Producers : ShutStep(p)
  BY <1>1, <1>6, <1>13
     DEF ShutStep, ShutSet, ShutEmpty, ShutFull, Goto, ring, AwakeForItems, Threads, DeqLabels,
         empty, full
<1>14. CASE \E c \in Consumers : \/ CallDequeue(c)
                                 \/ DeqLock(c) \/ DeqCheck(c) \/ DeqWake(c) \/ DeqRecheck(c)
  BY <1>1, <1>2, <1>6, <1>14
     DEF CallDequeue, DeqLock, DeqCheck, DeqWake, DeqRecheck, Goto, Return, ring,
         AwakeForItems, Threads
<1>15. CASE (\E t \in Threads : SpuriousWake(t)) \/ UNCHANGED queueVars
  BY <1>1, <1>6, <1>15 DEF SpuriousWake, Goto, ring, queueVars, AwakeForItems, full, empty
<1> QED  BY <1>7, <1>8, <1>9, <1>10, <1>11, <1>12, <1>13, <1>14, <1>15 DEF QueueNext, DeqStep

\* The other half: room for producers.
LEMMA RoomStep ==
  ASSUME IsFiniteSet(Threads), IInv, Signals, ~shutdown', [QueueNext]_queueVars
  PROVE  EnoughForRoom'
<1>1. /\ pc \in [Threads -> {"idle"} \union EnqLabels \union DeqLabels \union ShutLabels]
      /\ length \in 0 .. Capacity /\ Capacity \in Nat
      /\ \A p \in Producers : pc[p] \notin DeqLabels
      /\ \A c \in Consumers : pc[c] \notin EnqLabels \union ShutLabels
  BY QueueAssumption DEF IInv, Control, TypeOK
<1>2. ~shutdown
  BY DEF QueueNext, EnqStep, DeqStep, ShutStep, SpuriousWake, CallEnqueue, CallDequeue,
         CallShutdown, EnqLock, EnqCheck, EnqTest, EnqWait, EnqWake, EnqRecheck, EnqAdd,
         DeqLock, DeqCheck, DeqTest, DeqWait, DeqWake, DeqRecheck, DeqRemove,
         ShutSet, ShutEmpty, ShutFull, ring, queueVars
<1>3. EnoughForRoom /\ AboutToSleep
  BY <1>2 DEF Signals
<1>4. AwakeForRoom \in SUBSET Threads /\ AwakeForRoom' \in SUBSET Threads
  BY DEF AwakeForRoom
<1>5. Cardinality(AwakeForRoom') \in Nat
  BY <1>4, FS_Subset, FS_CardinalityType
<1>6. CASE /\ UNCHANGED length
           /\ \A t \in Threads :
                /\ pc'[t] = "enq_asleep" => pc[t] = "enq_asleep"
                /\ t \in AwakeForRoom => t \in AwakeForRoom'
  <2>1. full' \subseteq full /\ AwakeForRoom \subseteq AwakeForRoom'
    BY <1>4, <1>6 DEF full
  <2> QED  BY <1>1, <1>3, <1>4, <1>6, <2>1, EnoughStill DEF EnoughForRoom
<1>7. ASSUME NEW p \in Producers, EnqTest(p) \/ EnqWait(p), length = Capacity
      PROVE  EnoughForRoom'
  <2>1. Capacity - length' = 0
    BY <1>1, <1>7 DEF EnqTest, EnqWait, ring
  <2> QED  BY <1>5, <2>1 DEF EnoughForRoom
<1>8. ASSUME NEW p \in Producers, EnqTest(p), length # Capacity  PROVE EnoughForRoom'
  BY <1>1, <1>6, <1>8 DEF EnqTest, Goto, ring, AwakeForRoom, Threads
<1>9. ASSUME NEW p \in Producers, EnqWait(p)  PROVE length = Capacity
  BY <1>2, <1>3, <1>9 DEF EnqWait, AboutToSleep, Threads
<1>10. ASSUME NEW c \in Consumers, DeqRemove(c)  PROVE EnoughForRoom'
  <2>0. length' = length - 1 /\ c \notin AwakeForRoom /\ c \in Threads
    BY <1>10 DEF DeqRemove, AwakeForRoom, Threads
  <2>1. CASE full = {} /\ Goto(c, "idle")
    <3>1. full' = {}
      BY <1>1, <2>1 DEF full, Goto
    <3> QED  BY <3>1 DEF EnoughForRoom
  <2>2. ASSUME NEW s \in full, pc' = [pc EXCEPT ![c] = "idle", ![s] = "enq_wake"]
        PROVE  EnoughForRoom'
    <3>1. s \in Threads \ AwakeForRoom /\ AwakeForRoom' = AwakeForRoom \union {s}
      BY <1>1, <2>0, <2>2 DEF full, AwakeForRoom
    <3> QED  BY <1>1, <1>3, <1>4, <2>0, <2>2, <3>1, EnoughStill DEF EnoughForRoom
  <2> QED  BY <1>10, <2>1, <2>2 DEF DeqRemove, ReturnAndSignal
<1>11. ASSUME NEW p \in Producers, EnqAdd(p)  PROVE EnoughForRoom'
  <2>0. /\ length' = length + 1 /\ p \in AwakeForRoom /\ p \in Threads
        /\ p \notin empty /\ \A s \in empty : s \in Threads /\ s \notin AwakeForRoom
    BY <1>11 DEF EnqAdd, AwakeForRoom, Threads, empty
  <2>1. AwakeForRoom' = AwakeForRoom \ {p} /\ full' = full
    BY <1>1, <1>11, <2>0 DEF EnqAdd, ReturnAndSignal, Goto, AwakeForRoom, empty, full
  <2>2. Capacity - length' = (Capacity - length) - 1
    BY <1>1, <2>0
  <2> QED  BY <1>1, <1>3, <1>4, <2>0, <2>1, <2>2, EnoughStill DEF EnoughForRoom
<1>12. CASE \E c \in Consumers : CallDequeue(c) \/ (DeqStep(c) /\ ~DeqRemove(c))
  BY <1>1, <1>2, <1>6, <1>12
     DEF DeqStep, CallDequeue, DeqLock, DeqCheck, DeqTest, DeqWait, DeqWake, DeqRecheck, Goto,
         Return, ring, AwakeForRoom, Threads, EnqLabels
<1>13. CASE \E p \in Producers : ShutStep(p)
  BY <1>1, <1>6, <1>13
     DEF ShutStep, ShutSet, ShutEmpty, ShutFull, Goto, ring, AwakeForRoom, Threads, empty, full
<1>14. CASE \E p \in Producers : \/ \E fd \in Fds : CallEnqueue(p, fd)
                                 \/ CallShutdown(p)
                                 \/ EnqLock(p) \/ EnqCheck(p) \/ EnqWake(p) \/ EnqRecheck(p)
  BY <1>1, <1>2, <1>6, <1>14
     DEF CallEnqueue, CallShutdown, EnqLock, EnqCheck, EnqWake, EnqRecheck, Goto, Return, ring,
         AwakeForRoom, Threads
<1>15. CASE (\E t \in Threads : SpuriousWake(t)) \/ UNCHANGED queueVars
  BY <1>1, <1>6, <1>15 DEF SpuriousWake, Goto, ring, queueVars, AwakeForRoom, full, empty
<1> QED  BY <1>7, <1>8, <1>9, <1>10, <1>11, <1>12, <1>13, <1>14, <1>15 DEF QueueNext, EnqStep

\* connection_queue.c: while the queue is open, as many consumers are awake as there are
\* descriptors queued if any consumer sleeps, and producers likewise for free slots; for
\* any finite number of threads and any capacity.
THEOREM SignalsSuffice ==
  ASSUME IsFiniteSet(Threads)
  PROVE  QueueSpec => []NoLostSignal
<1>1. QueueInit => Signals
  BY DEF QueueInit, Signals, AboutToSleep, EnoughForItems, EnoughForRoom, empty, full
<1>2. IInv /\ Signals /\ [QueueNext]_queueVars => Signals'
  BY AboutToSleepStep, ItemsStep, RoomStep DEF Signals
<1>3. Signals => NoLostSignal
  BY DEF Signals, NoLostSignal, EnoughForItems, EnoughForRoom, AwakeForItems, AwakeForRoom
<1> QED  BY Invariance, <1>1, <1>2, <1>3, PTL DEF QueueSpec
===============================================================================
