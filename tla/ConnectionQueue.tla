---------------------------- MODULE ConnectionQueue ----------------------------
(***************************************************************************)
(* proj4-code/part2/connection_queue.c: the thread-safe ring of client     *)
(* descriptors between the accepting thread and the workers.               *)
(*                                                                         *)
(* Every thread runs at most one call at a time; pc[t] is where it is in   *)
(* that call ("idle" outside).  A step is the longest run of code between  *)
(* two points where another thread can interfere: taking the mutex, each   *)
(* separate read of the shutdown flag (written WITHOUT the mutex by        *)
(* connection_queue_shutdown), and going to sleep.  The mutex and the      *)
(* condition variables are pthread objects: a thread is asleep on `full'   *)
(* or `empty' exactly when its pc is "enq_asleep" or "deq_asleep", and a   *)
(* woken thread must take the mutex again before it goes on.               *)
(*                                                                         *)
(* On initialised default objects the pthread calls have no failure, so    *)
(* the branches that return -1 after one of them are not reachable and are *)
(* left out.                                                               *)
(***************************************************************************)
EXTENDS Integers, FiniteSets

CONSTANTS
  Producers,  \* threads that call connection_enqueue, connection_queue_shutdown
  Consumers,  \* threads that call connection_dequeue
  Fds,        \* descriptors that may be queued
  Capacity,   \* CAPACITY
  NoThread    \* "the mutex is free"

ASSUME QueueAssumption ==
  /\ Capacity \in Nat \ {0}
  /\ Producers \intersect Consumers = {}
  /\ NoThread \notin Producers \union Consumers
  /\ Fds \subseteq Nat

VARIABLES
  client_fds, \* the ring, -1 in a slot never used
  length,     \* descriptors queued
  read_idx,   \* next slot to read
  write_idx,  \* next slot to write
  shutdown,   \* the flag of connection_queue_shutdown
  lock,       \* holder of the mutex, or NoThread
  pc,         \* where each thread is in its call
  reg         \* argument of a pending enqueue; return value once idle

ring == <<client_fds, length, read_idx, write_idx>>
queueVars == <<client_fds, length, read_idx, write_idx, shutdown, lock, pc, reg>>

Threads == Producers \union Consumers
Slots == 0 .. Capacity - 1

\* The slot k places after slot i, going round the ring.
After(i, k) == (i + k) % Capacity

\* Threads asleep on each condition variable.
full == {t \in Threads : pc[t] = "enq_asleep"}
empty == {t \in Threads : pc[t] = "deq_asleep"}

Goto(t, label) == pc' = [pc EXCEPT ![t] = label]

\* Leave the call with a return value.
Return(t, value) ==
  /\ Goto(t, "idle")
  /\ reg' = [reg EXCEPT ![t] = value]

Acquire(t) == lock = NoThread /\ lock' = t
Release == lock' = NoThread

\* pthread_cond_signal by a returning thread t: at least one sleeper, if there
\* is one, goes on to take the mutex (at `label').
ReturnAndSignal(t, value, sleepers, label) ==
  /\ reg' = [reg EXCEPT ![t] = value]
  /\ \/ sleepers = {} /\ Goto(t, "idle")
     \/ \E s \in sleepers : pc' = [pc EXCEPT ![t] = "idle", ![s] = label]

-------------------------------------------------------------------------------
\* connection_queue_init
QueueInit ==
  /\ client_fds = [i \in Slots |-> -1]
  /\ length = 0
  /\ read_idx = 0
  /\ write_idx = 0
  /\ shutdown = FALSE
  /\ lock = NoThread
  /\ pc = [t \in Threads |-> "idle"]
  /\ reg = [t \in Threads |-> 0]

-------------------------------------------------------------------------------
\* connection_enqueue

CallEnqueue(t, fd) ==
  /\ pc[t] = "idle"
  /\ Goto(t, "enq_lock")
  /\ reg' = [reg EXCEPT ![t] = fd]
  /\ UNCHANGED <<ring, shutdown, lock>>

EnqLock(t) ==
  /\ pc[t] = "enq_lock"
  /\ Acquire(t)
  /\ Goto(t, "enq_check")
  /\ UNCHANGED <<ring, shutdown, reg>>

\* Mutant: the early return forgets to unlock.
EnqCheckKeepsLock(t) ==
  /\ pc[t] = "enq_check"
  /\ \/ shutdown /\ Return(t, 0)
     \/ ~shutdown /\ Goto(t, "enq_test") /\ UNCHANGED reg
  /\ UNCHANGED <<ring, shutdown, lock>>

EnqCheck(t) ==
  /\ pc[t] = "enq_check"
  /\ \/ shutdown /\ Release /\ Return(t, 0)
     \/ ~shutdown /\ Goto(t, "enq_test") /\ UNCHANGED <<lock, reg>>
  /\ UNCHANGED <<ring, shutdown>>

EnqTest(t) ==
  /\ pc[t] = "enq_test"
  /\ Goto(t, IF length >= Capacity /\ ~shutdown THEN "enq_wait" ELSE "enq_recheck")
  /\ UNCHANGED <<ring, shutdown, lock, reg>>

\* pthread_cond_wait gives up the mutex and falls asleep in one step.
EnqWait(t) ==
  /\ pc[t] = "enq_wait"
  /\ Release
  /\ Goto(t, "enq_asleep")
  /\ UNCHANGED <<ring, shutdown, reg>>

\* Mutant: `if' where the code has `while'.
EnqWakeOnce(t) ==
  /\ pc[t] = "enq_wake"
  /\ Acquire(t)
  /\ Goto(t, "enq_recheck")
  /\ UNCHANGED <<ring, shutdown, reg>>

EnqWake(t) ==
  /\ pc[t] = "enq_wake"
  /\ Acquire(t)
  /\ Goto(t, "enq_test")
  /\ UNCHANGED <<ring, shutdown, reg>>

\* Mutant: the flag is not tested again after the wait.
EnqNoRecheck(t) ==
  /\ pc[t] = "enq_recheck"
  /\ Goto(t, "enq_add")
  /\ UNCHANGED <<ring, shutdown, lock, reg>>

EnqRecheck(t) ==
  /\ pc[t] = "enq_recheck"
  /\ \/ shutdown /\ Release /\ Return(t, 0)
     \/ ~shutdown /\ Goto(t, "enq_add") /\ UNCHANGED <<lock, reg>>
  /\ UNCHANGED <<ring, shutdown>>

\* Mutant: the index is advanced before the descriptor is stored.
EnqAddAfterAdvance(t) ==
  /\ pc[t] = "enq_add"
  /\ client_fds' = [client_fds EXCEPT ![After(write_idx, 1)] = reg[t]]
  /\ write_idx' = After(write_idx, 1)
  /\ length' = length + 1
  /\ ReturnAndSignal(t, 0, empty, "deq_wake")
  /\ Release
  /\ UNCHANGED <<read_idx, shutdown>>

\* Mutant: "if queue was empty before" (the code's comment) taken as a test.
EnqAddSignalIfEmpty(t) ==
  /\ pc[t] = "enq_add"
  /\ client_fds' = [client_fds EXCEPT ![write_idx] = reg[t]]
  /\ write_idx' = After(write_idx, 1)
  /\ length' = length + 1
  /\ ReturnAndSignal(t, 0, IF length = 0 THEN empty ELSE {}, "deq_wake")
  /\ Release
  /\ UNCHANGED <<read_idx, shutdown>>


EnqAdd(t) ==
  /\ pc[t] = "enq_add"
  /\ client_fds' = [client_fds EXCEPT ![write_idx] = reg[t]]
  /\ write_idx' = After(write_idx, 1)
  /\ length' = length + 1
  /\ ReturnAndSignal(t, 0, empty, "deq_wake")
  /\ Release
  /\ UNCHANGED <<read_idx, shutdown>>

EnqStep(t) ==
  \/ EnqLock(t) \/ EnqCheck(t) \/ EnqTest(t) \/ EnqWait(t)
  \/ EnqWake(t) \/ EnqRecheck(t) \/ EnqAdd(t)

-------------------------------------------------------------------------------
\* connection_dequeue

CallDequeue(t) ==
  /\ pc[t] = "idle"
  /\ Goto(t, "deq_lock")
  /\ reg' = [reg EXCEPT ![t] = 0]
  /\ UNCHANGED <<ring, shutdown, lock>>

DeqLock(t) ==
  /\ pc[t] = "deq_lock"
  /\ Acquire(t)
  /\ Goto(t, "deq_check")
  /\ UNCHANGED <<ring, shutdown, reg>>

DeqCheck(t) ==
  /\ pc[t] = "deq_check"
  /\ \/ shutdown /\ Release /\ Return(t, 0)
     \/ ~shutdown /\ Goto(t, "deq_test") /\ UNCHANGED <<lock, reg>>
  /\ UNCHANGED <<ring, shutdown>>

DeqTest(t) ==
  /\ pc[t] = "deq_test"
  /\ Goto(t, IF length <= 0 /\ ~shutdown THEN "deq_wait" ELSE "deq_recheck")
  /\ UNCHANGED <<ring, shutdown, lock, reg>>

DeqWait(t) ==
  /\ pc[t] = "deq_wait"
  /\ Release
  /\ Goto(t, "deq_asleep")
  /\ UNCHANGED <<ring, shutdown, reg>>

DeqWake(t) ==
  /\ pc[t] = "deq_wake"
  /\ Acquire(t)
  /\ Goto(t, "deq_test")
  /\ UNCHANGED <<ring, shutdown, reg>>

\* Mutant: a thread told to stop leaves with the mutex.
DeqRecheckKeepsLock(t) ==
  /\ pc[t] = "deq_recheck"
  /\ \/ shutdown /\ Return(t, 0)
     \/ ~shutdown /\ Goto(t, "deq_remove") /\ UNCHANGED reg
  /\ UNCHANGED <<ring, shutdown, lock>>

DeqRecheck(t) ==
  /\ pc[t] = "deq_recheck"
  /\ \/ shutdown /\ Release /\ Return(t, 0)
     \/ ~shutdown /\ Goto(t, "deq_remove") /\ UNCHANGED <<lock, reg>>
  /\ UNCHANGED <<ring, shutdown>>

\* Mutant: the queue is read like a stack.
DeqRemoveNewest(t) ==
  /\ pc[t] = "deq_remove"
  /\ read_idx' = After(read_idx, 1)
  /\ length' = length - 1
  /\ ReturnAndSignal(t, client_fds[length - 1], full, "enq_wake")
  /\ Release
  /\ UNCHANGED <<client_fds, write_idx, shutdown>>

\* Mutant: the index does not wrap.
DeqRemoveNoWrap(t) ==
  /\ pc[t] = "deq_remove"
  /\ read_idx' = read_idx + 1
  /\ length' = length - 1
  /\ ReturnAndSignal(t, client_fds[read_idx], full, "enq_wake")
  /\ Release
  /\ UNCHANGED <<client_fds, write_idx, shutdown>>

DeqRemove(t) ==
  /\ pc[t] = "deq_remove"
  /\ read_idx' = After(read_idx, 1)
  /\ length' = length - 1
  /\ ReturnAndSignal(t, client_fds[read_idx], full, "enq_wake")
  /\ Release
  /\ UNCHANGED <<client_fds, write_idx, shutdown>>

DeqStep(t) ==
  \/ DeqLock(t) \/ DeqCheck(t) \/ DeqTest(t) \/ DeqWait(t)
  \/ DeqWake(t) \/ DeqRecheck(t) \/ DeqRemove(t)

-------------------------------------------------------------------------------
\* connection_queue_shutdown: three steps, none of them under the mutex.

CallShutdown(t) ==
  /\ pc[t] = "idle"
  /\ Goto(t, "shut_set")
  /\ reg' = [reg EXCEPT ![t] = 0]
  /\ UNCHANGED <<ring, shutdown, lock>>

ShutSet(t) ==
  /\ pc[t] = "shut_set"
  /\ shutdown' = TRUE
  /\ Goto(t, "shut_empty")
  /\ UNCHANGED <<ring, lock, reg>>

\* Mutant: a signal where the code broadcasts.
ShutEmptySignals(t) ==
  /\ pc[t] = "shut_empty"
  /\ \/ empty = {} /\ Goto(t, "shut_full")
     \/ \E s \in empty : pc' = [pc EXCEPT ![t] = "shut_full", ![s] = "deq_wake"]
  /\ UNCHANGED <<ring, shutdown, lock, reg>>

\* pthread_cond_broadcast(&queue->empty): wakes whoever is asleep NOW.
ShutEmpty(t) ==
  /\ pc[t] = "shut_empty"
  /\ pc' = [s \in Threads |-> IF s = t THEN "shut_full"
                              ELSE IF s \in empty THEN "deq_wake" ELSE pc[s]]
  /\ UNCHANGED <<ring, shutdown, lock, reg>>

ShutFull(t) ==
  /\ pc[t] = "shut_full"
  /\ pc' = [s \in Threads |-> IF s = t THEN "idle"
                              ELSE IF s \in full THEN "enq_wake" ELSE pc[s]]
  /\ reg' = [reg EXCEPT ![t] = 0]
  /\ UNCHANGED <<ring, shutdown, lock>>

ShutStep(t) == ShutSet(t) \/ ShutEmpty(t) \/ ShutFull(t)

-------------------------------------------------------------------------------
\* pthread_cond_wait may return with no signal; the while loops allow for it.
SpuriousWake(t) ==
  /\ \/ t \in full /\ Goto(t, "enq_wake")
     \/ t \in empty /\ Goto(t, "deq_wake")
  /\ UNCHANGED <<ring, shutdown, lock, reg>>

QueueNext ==
  \/ \E p \in Producers : \/ \E fd \in Fds : CallEnqueue(p, fd)
                          \/ CallShutdown(p)
                          \/ EnqStep(p)
                          \/ ShutStep(p)
  \/ \E c \in Consumers : CallDequeue(c) \/ DeqStep(c)
  \/ \E t \in Threads : SpuriousWake(t)

QueueSpec == QueueInit /\ [][QueueNext]_queueVars

-------------------------------------------------------------------------------
(* Properties *)

EnqLabels == {"enq_lock", "enq_check", "enq_test", "enq_wait", "enq_asleep",
              "enq_wake", "enq_recheck", "enq_add"}
DeqLabels == {"deq_lock", "deq_check", "deq_test", "deq_wait", "deq_asleep",
              "deq_wake", "deq_recheck", "deq_remove"}
ShutLabels == {"shut_set", "shut_empty", "shut_full"}
Critical == {"enq_check", "enq_test", "enq_wait", "enq_recheck", "enq_add",
             "deq_check", "deq_test", "deq_wait", "deq_recheck", "deq_remove"}

\* The value of every variable has the shape the struct gives it; producers
\* are only ever in enqueue or shutdown, consumers in dequeue.
TypeOK ==
  /\ client_fds \in [Slots -> Fds \union {-1}]
  /\ length \in 0 .. Capacity
  /\ read_idx \in Slots
  /\ write_idx \in Slots
  /\ shutdown \in BOOLEAN
  /\ lock \in Threads \union {NoThread}
  /\ pc \in [Threads -> {"idle"} \union EnqLabels \union DeqLabels \union ShutLabels]
  /\ reg \in [Threads -> Fds \union {0}]
  /\ \A p \in Producers : pc[p] \notin DeqLabels
  /\ \A c \in Consumers : pc[c] \notin EnqLabels \union ShutLabels

\* The mutex is held by exactly the thread whose pc is inside the critical
\* section: no path out of a call keeps it, none runs without it.
LockDiscipline == \A t \in Threads : pc[t] \in Critical <=> lock = t

\* The queued part of the ring: `length' slots from read_idx on, ending just
\* before write_idx, each holding a descriptor a producer put there.
RingOK ==
  /\ write_idx = After(read_idx, length)
  /\ \A k \in 0 .. Capacity - 1 :
        k < length => client_fds[After(read_idx, k)] \in Fds

\* A thread about to add finds room and one about to remove finds an item,
\* although both go to sleep with the mutex released, wake up in any order
\* and share the ring with callers that never slept.
RoomToMove ==
  /\ \A t \in Threads : pc[t] = "enq_add" => length < Capacity
  /\ \A t \in Threads : pc[t] = "deq_remove" => length > 0

\* Signals are enough while the queue is open: if a consumer sleeps although
\* descriptors are queued, at least as many consumers as there are descriptors
\* are awake and on their way to the ring; likewise for producers and free
\* slots.  (Both functions signal on every transfer, whatever `length' was.)
NoLostSignal ==
  ~shutdown =>
    /\ empty # {} =>
         length <= Cardinality({t \in Threads : pc[t] \in
                     {"deq_wake", "deq_test", "deq_recheck", "deq_remove"}})
    /\ full # {} =>
         Capacity - length <= Cardinality({t \in Threads : pc[t] \in
                     {"enq_wake", "enq_test", "enq_recheck", "enq_add"}})

\* Shutting down is final: once the flag is set no call gets past its last
\* test of the flag, so the ring changes at most once more, for the one
\* thread that had passed it with the mutex in hand.
ShutdownIsFinal ==
  [][shutdown =>
      /\ shutdown'
      /\ \A t \in Threads : pc'[t] \in {"enq_add", "deq_remove"} => pc'[t] = pc[t]]_queueVars

\* Who is left to the broadcasts to come: a thread that has not gone to sleep
\* yet, and one that is asleep when nobody is going to broadcast to it any more.
Missed ==
  {t \in Threads : pc[t] \in {"enq_wait", "deq_wait"}}
    \union {t \in empty : \A p \in Producers : pc[p] \notin {"shut_set", "shut_empty"}}
    \union {t \in full : \A p \in Producers : pc[p] \notin ShutLabels}

\* The broadcasts run without the mutex, so a thread between its test of the flag
\* and its wait sleeps through them and is never woken, against
\* connection_queue.h:49 -- "All threads currently blocked [...] are unblocked".
\* But it is one thread at most, of all that enqueue or dequeue: the flag is set
\* before the broadcasts, and the test and the wait are under the mutex.
ShutdownMissesOne == shutdown => \A s, t \in Missed : s = t

-------------------------------------------------------------------------------
(* Refinement of ConnectionFifo *)

Contents == [k \in 1 .. length |-> client_fds[After(read_idx, k - 1)]]

Phase ==
  IF ~shutdown THEN "open"
  ELSE IF \E t \in Threads : pc[t] \in {"enq_add", "deq_remove"}
       THEN "closing" ELSE "closed"

PendingOp(label) ==
  CASE label \in EnqLabels -> "enqueue"
    [] label \in DeqLabels -> "dequeue"
    [] label \in ShutLabels -> "shutdown"
    [] OTHER -> "idle"

Pending == [t \in Threads |-> PendingOp(pc[t])]

Fifo == INSTANCE ConnectionFifo WITH
          items <- Contents,
          phase <- Phase,
          op <- Pending,
          Refused <- 0

\* Every call takes effect at one moment, on a bounded FIFO queue, and after a
\* shutdown none does but the one that had passed its last test of the flag.  The
\* header says that a refused call returns -1; the code returns 0, in both calls,
\* and it is with this value that the queue is the one of ConnectionFifo.
FifoSpec == Fifo!Spec
===============================================================================
