---------------------------- MODULE ConnectionFifo ----------------------------
(***************************************************************************)
(* What the connection queue of proj4-code/part2 promises to its callers,  *)
(* with no lock, condition variable or ring: a bounded first-in first-out  *)
(* queue that can be shut down.  connection_queue.h is the interface.      *)
(*                                                                         *)
(* What a refused call returns is a constant.  connection_queue.h says -1  *)
(* (lines 32 to 36, 41 to 45 and 49 to 51); connection_queue.c returns 0.  *)
(* ConnectionQueue is shown to refine this module with Refused <- 0, the   *)
(* value of the code: order, capacity, the moment a call takes effect and  *)
(* that a call is refused at all are as promised, the value is not.        *)
(*                                                                         *)
(* A call is pending between the moment it is made and the moment it       *)
(* returns, and takes effect in one step in between.  Shutting the queue   *)
(* down takes effect at once for every call except at most one, which had  *)
(* already passed the code's last test of the flag: phase "closing" is the *)
(* time during which that one call is still owed its effect.               *)
(***************************************************************************)
EXTENDS Integers, Sequences

CONSTANTS
  Producers,  \* threads that enqueue and shut down
  Consumers,  \* threads that dequeue
  Fds,        \* descriptors that may be queued
  Capacity,   \* CAPACITY, the most descriptors queued at a time
  Refused     \* what an enqueue or a dequeue on a queue shut down returns

VARIABLES
  items,      \* the queued descriptors, oldest first
  phase,      \* "open", "closing" or "closed"
  op,         \* the call each thread has pending, or "idle"
  reg         \* the argument of a pending enqueue, the result of a call over

fifoVars == <<items, phase, op, reg>>

Threads == Producers \union Consumers

Init ==
  /\ items = <<>>
  /\ phase = "open"
  /\ op = [t \in Threads |-> "idle"]
  /\ reg = [t \in Threads |-> 0]

Call(t, name, arg) ==
  /\ op[t] = "idle"
  /\ op' = [op EXCEPT ![t] = name]
  /\ reg' = [reg EXCEPT ![t] = arg]
  /\ UNCHANGED <<items, phase>>

Return(t, result) ==
  /\ op' = [op EXCEPT ![t] = "idle"]
  /\ reg' = [reg EXCEPT ![t] = result]

\* The effect of a call that beat the shutdown, or of the one late call.
LateOrOpen ==
  \/ phase = "open" /\ UNCHANGED phase
  \/ phase = "closing" /\ phase' = "closed"

Put(t) ==
  /\ op[t] = "enqueue"
  /\ Len(items) < Capacity
  /\ items' = Append(items, reg[t])
  /\ LateOrOpen
  /\ Return(t, 0)

Take(t) ==
  /\ op[t] = "dequeue"
  /\ items # <<>>
  /\ items' = Tail(items)
  /\ LateOrOpen
  /\ Return(t, Head(items))

\* A call on a queue that is shut down moves nothing.
Refuse(t) ==
  /\ op[t] \in {"enqueue", "dequeue"}
  /\ phase # "open"
  /\ Return(t, Refused)
  /\ UNCHANGED <<items, phase>>

Close(t) ==
  /\ op[t] = "shutdown"
  /\ phase = "open"
  /\ phase' \in {"closing", "closed"}
  /\ UNCHANGED <<items, op, reg>>

Closed(t) ==
  /\ op[t] = "shutdown"
  /\ phase # "open"
  /\ Return(t, 0)
  /\ UNCHANGED <<items, phase>>

Next ==
  \/ \E p \in Producers : \/ \E fd \in Fds : Call(p, "enqueue", fd)
                          \/ Call(p, "shutdown", 0)
                          \/ Put(p)
                          \/ Close(p)
                          \/ Closed(p)
  \/ \E c \in Consumers : Call(c, "dequeue", 0) \/ Take(c)
  \/ \E t \in Threads : Refuse(t)

Spec == Init /\ [][Next]_fifoVars
===============================================================================
