---------------------------- MODULE ConcurrentOpen ----------------------------
(***************************************************************************)
(* proj4-code/part2/concurrent_open.c: the open and fopen that the tests   *)
(* of the server put in the place of the library's.  A thread that opens a *)
(* server file checks in at a barrier, made of a count under a mutex and   *)
(* of a semaphore, and goes on to the real open when CONCURRENCY_DEGREE    *)
(* threads have checked in.                                                *)
(*                                                                         *)
(* What a thread does between taking the mutex and letting it go is one    *)
(* step, unless it posts the semaphore meanwhile: sem_wait does not ask    *)
(* for the mutex, so every sem_post is a step.  The mutex, the semaphore   *)
(* and dlsym do not fail; the threads of the server that call open have    *)
(* all signals blocked, and sem_wait is not interrupted.                   *)
(***************************************************************************)
EXTENDS Integers, FiniteSets

CONSTANTS
  Openers,            \* threads
  CONCURRENCY_DEGREE, \* the size of a group
  MaxCalls,           \* bound: calls of open
  NoThread            \* the mutex is free

ASSUME DegreeAssumption == CONCURRENCY_DEGREE \in Nat \ {0}
ASSUME OpenersAssumption == IsFiniteSet(Openers) /\ NoThread \notin Openers

VARIABLES
  lock,                  \* the holder of the mutex
  n_waiters,             \* checked in since the last group was complete
  semaphore_initialized,
  semaphore,             \* its value, once it is initialised
  i,                     \* the loop variable of the thread that posts
  pc,                    \* where each thread is in its call
  pathname,              \* what it opens
  calls                  \* calls so far

openVars == <<lock, n_waiters, semaphore_initialized, semaphore, i, pc, pathname, calls>>

OpenInit ==
  /\ lock = NoThread
  /\ n_waiters = 0
  /\ semaphore_initialized = FALSE
  /\ semaphore = 0
  /\ i = 0
  /\ pc = [t \in Openers |-> "idle"]
  /\ pathname = [t \in Openers |-> "other"]
  /\ calls = 0

Goto(t, label) == pc' = [pc EXCEPT ![t] = label]

Call(t, path) ==
  /\ pc[t] = "idle" /\ calls < MaxCalls
  /\ Goto(t, "init")
  /\ pathname' = [pathname EXCEPT ![t] = path]
  /\ calls' = calls + 1
  /\ UNCHANGED <<lock, n_waiters, semaphore_initialized, semaphore, i>>

\* Mutant: every call initialises the semaphore.
InitSemaphoreAgain(t) ==
  /\ pc[t] = "init" /\ lock = NoThread
  /\ semaphore' = 0
  /\ semaphore_initialized' = TRUE
  /\ Goto(t, IF pathname[t] = "server file" THEN "barrier" ELSE "idle")
  /\ UNCHANGED <<lock, n_waiters, i, pathname, calls>>

\* The first caller initialises the semaphore.  Only server files go on to the
\* barrier: any other one is opened at once.
InitSemaphore(t) ==
  /\ pc[t] = "init" /\ lock = NoThread
  /\ semaphore' = IF semaphore_initialized THEN semaphore ELSE 0
  /\ semaphore_initialized' = TRUE
  /\ Goto(t, IF pathname[t] = "server file" THEN "barrier" ELSE "idle")
  /\ UNCHANGED <<lock, n_waiters, i, pathname, calls>>

-------------------------------------------------------------------------------
(* barrier *)

\* Mutant: the caller does not count itself.
CheckInLate(t) ==
  /\ pc[t] = "barrier" /\ lock = NoThread
  /\ IF n_waiters = CONCURRENCY_DEGREE
     THEN lock' = t /\ i' = 0 /\ Goto(t, "post") /\ UNCHANGED n_waiters
     ELSE n_waiters' = n_waiters + 1 /\ Goto(t, "wait") /\ UNCHANGED <<lock, i>>
  /\ UNCHANGED <<semaphore_initialized, semaphore, pathname, calls>>

\* The last of a group keeps the mutex and goes on to post; any other caller is
\* counted, lets go of the mutex and waits.
CheckIn(t) ==
  /\ pc[t] = "barrier" /\ lock = NoThread
  /\ IF n_waiters = CONCURRENCY_DEGREE - 1
     THEN lock' = t /\ i' = 0 /\ Goto(t, "post") /\ UNCHANGED n_waiters
     ELSE n_waiters' = n_waiters + 1 /\ Goto(t, "wait") /\ UNCHANGED <<lock, i>>
  /\ UNCHANGED <<semaphore_initialized, semaphore, pathname, calls>>

\* One sem_post for every other caller of the group.
Post(t) ==
  /\ pc[t] = "post" /\ i < CONCURRENCY_DEGREE - 1
  /\ semaphore' = semaphore + 1
  /\ i' = i + 1
  /\ UNCHANGED <<lock, n_waiters, semaphore_initialized, pc, pathname, calls>>

\* The count starts over, and the last caller leaves.
StartOver(t) ==
  /\ pc[t] = "post" /\ i = CONCURRENCY_DEGREE - 1
  /\ n_waiters' = 0
  /\ lock' = NoThread
  /\ Goto(t, "idle")
  /\ UNCHANGED <<semaphore_initialized, semaphore, i, pathname, calls>>

\* sem_wait: whoever comes, of whichever group.
Wait(t) ==
  /\ pc[t] = "wait" /\ semaphore > 0
  /\ semaphore' = semaphore - 1
  /\ Goto(t, "idle")
  /\ UNCHANGED <<lock, n_waiters, semaphore_initialized, i, pathname, calls>>

OpenStep(t) == InitSemaphore(t) \/ CheckIn(t) \/ Post(t) \/ StartOver(t) \/ Wait(t)

OpenNext ==
  \E t \in Openers :
    \/ \E path \in {"server file", "other"} : Call(t, path)
    \/ OpenStep(t)

OpenSpec == OpenInit /\ [][OpenNext]_openVars

\* A thread that can go on does.  (Calls are bounded, so nobody finds the mutex or
\* the semaphore taken for ever: weak fairness is enough.)
OpenFairSpec == OpenSpec /\ \A t \in Openers : WF_openVars(OpenStep(t))

-------------------------------------------------------------------------------
(* Properties *)

Waiting == {t \in Openers : pc[t] = "wait"}
Inside == {t \in Openers : pc[t] \in {"wait", "post"}}

\* What the last of a group has still to give out, its own departure included.
ToPost == IF lock = NoThread THEN 0 ELSE CONCURRENCY_DEGREE - i

\* concurrent_open.c, lines 19 to 21: callers are blocked until CONCURRENCY_DEGREE
\* of them have come, and then as many departures are due, no more and no fewer,
\* however the posts of one group mix with the calls and waits of the next.
Groups == INSTANCE OpenGroups WITH
            Degree <- CONCURRENCY_DEGREE,
            inside <- Inside,
            due <- semaphore + ToPost
GroupsSpec == Groups!Spec

\* No whole group is ever left at the barrier, although a late caller may pass in
\* the place of an earlier one: what is left waits for want of callers.
NoGroupLeft ==
  Cardinality(Inside) >= CONCURRENCY_DEGREE ~> Cardinality(Inside) < CONCURRENCY_DEGREE
===============================================================================
