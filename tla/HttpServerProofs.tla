--------------------------- MODULE HttpServerProofs ---------------------------
(***************************************************************************)
(* The server uses the queue only through its calls, so that whatever is   *)
(* proved of the queue holds in the server too, whatever the requests are. *)
(*                                                                         *)
(* Every connection has one owner at every moment of its way through the   *)
(* server, for any number of workers, clients and descriptors.  The owner  *)
(* is counted in HttpServer; here it is a bijection between the holders    *)
(* and the open connections (OneOwner), which a step leaves alone, enlarges*)
(* (accept), passes on (enqueue, dequeue) or shrinks (close).              *)
(***************************************************************************)
EXTENDS HttpServer, ConnectionQueueProofs

MainStages == {"create", "abort", "loop", "accept", "accepting", "cleanup",
               "join", "return", "exited"}
WorkerStages == {"none", "top", "got", "exited"} \union Serving

Shape ==
  /\ stage \in [Threads -> MainStages \union WorkerStages]
  /\ stage[Main] \in MainStages
  /\ \A w \in Workers : stage[w] \in WorkerStages
  /\ fdt = [fd \in Table |-> fdt[fd]]
  /\ target_file \in [Workers -> Table]

\* A thread is inside a queue call only where its code makes one.
Paired ==
  /\ pc[Main] \in EnqLabels => stage[Main] = "loop"
  /\ pc[Main] \in ShutLabels => stage[Main] \in {"abort", "join"}
  /\ \A w \in Workers : pc[w] # "idle" => stage[w] = "got"

\* The queue is shut down only when main is past its loop, so descriptor 0,
\* which a worker holds only after a refusal, is open till then.
Orderly ==
  /\ shutdown => stage[Main] \in {"abort", "join", "return", "exited"}
  /\ ~shutdown => fdt[0] # Nothing
  /\ \A w \in Workers :
       (reg[w] = 0 /\ pc[w] = "idle" /\ stage[w] \in Serving \union {"got"}) => shutdown

\* While main may accept, the listening socket is open and no worker has a
\* file under its number or under 0.
Listening == stage[Main] \in {"create", "loop", "accept", "accepting"}

SocketKept ==
  /\ stage[Main] \in {"loop", "accept", "accepting"} => fdt[sock_fd] # Nothing
  /\ \A w \in Workers : stage[w] \in {"copy", "closefile"} =>
       /\ target_file[w] = 0 => shutdown
       /\ target_file[w] = sock_fd => ~Listening

\* Before there is a socket there is nothing to dequeue.
Starting ==
  stage[Main] = "create" =>
    /\ length = 0
    /\ pc[Main] = "idle"
    /\ \A w \in Workers : \/ stage[w] \in {"none", "top", "exited"}
                          \/ stage[w] = "got" /\ pc[w] # "idle"

SInv == Shape /\ Paired /\ Orderly /\ SocketKept /\ Starting

LEMMA ServerInitInvariant == ServerInit => IInv /\ SInv
<1> SUFFICES ASSUME ServerInit PROVE SInv
  BY InitInvariant DEF ServerInit
<1> USE ServerAssumption, QueueAssumption
        DEF ServerInit, QueueInit, Threads, Workers, Object, Nothing, Table, sock_fd
<1>1. Shape  BY DEF Shape, MainStages, WorkerStages
<1>2. Paired  BY DEF Paired, EnqLabels, ShutLabels
<1>3. Orderly  BY DEF Orderly, Serving
<1>4. SocketKept  BY DEF SocketKept, Listening
<1>5. Starting  BY DEF Starting
<1> QED  BY <1>1, <1>2, <1>3, <1>4, <1>5 DEF SInv

\* Each step of the server is a step of the queue or leaves the queue alone.
LEMMA ServerQueueStep ==
  ASSUME IInv, SInv, [ServerNext]_vars
  PROVE  [QueueNext]_queueVars
<1> USE ServerAssumption DEF Threads, Workers
<1>1. CASE UNCHANGED vars  BY <1>1 DEF vars
<1>2. ASSUME NEW t \in Threads, QueueStep(t) \/ ServerSpuriousWake(t)
      PROVE  [QueueNext]_queueVars
  BY <1>2 DEF QueueStep, ServerSpuriousWake, QueueNext
<1>3. ASSUME NEW w \in Workers, WorkerStep(w)  PROVE [QueueNext]_queueVars
  BY <1>3 DEF WorkerStep, WorkerTop, WorkerGot, WorkerReads, WorkerReadFails,
              WorkerHeld, WorkerReleased, WorkerKills,
              WorkerRespondsMissing, WorkerOpens, WorkerRespondFails, WorkerCopies,
              WorkerCopyFails, WorkerClosesFile, WorkerCloses, WorkerQuits, QueueNext
<1>4. CASE MainAccept
  <2>1. PICK fd \in Table : Lowest(fd) /\ CallEnqueue(Main, fd)  BY <1>4 DEF MainAccept
  <2>2. fdt[0] # Nothing /\ fdt[sock_fd] # Nothing
    BY <1>4 DEF MainAccept, Running, SInv, Orderly, SocketKept
  <2>3. fd \in Fds  BY <2>1, <2>2 DEF Lowest, Free, Table
  <2> QED  BY <2>1, <2>3 DEF QueueNext
<1>5. CASE MainStep /\ ~MainAccept
  BY <1>5 DEF MainStep, MainListen, MainSetupFails, MainAbort, MainTest, MainBlock,
              MainAcceptFails, MainCleanup, MainJoin, MainReturn, MainCreate, QueueNext
<1>6. CASE Sigint \/ \E c \in Clients : Connect(c)  BY <1>6 DEF Sigint, Connect
<1> QED  BY <1>1, <1>2, <1>3, <1>4, <1>5, <1>6 DEF ServerNext

\* One case per step of main, of respond and of the queue's calls.
LEMMA ServerStep ==
  ASSUME IInv, SInv, [ServerNext]_vars
  PROVE  SInv'
<1> USE ServerAssumption, QueueAssumption
        DEF SInv, Shape, Paired, Orderly, SocketKept, Starting, Listening, MainStages,
            WorkerStages, Serving, Threads, Workers, Table, sock_fd, Object, Nothing,
            Running, Advance, Close, serverVars, queueVars, ring, Goto,
            EnqLabels, DeqLabels, ShutLabels
<1>0. IInv  OBVIOUS
<1>1. PcTyped /\ reg \in [Threads -> Fds \union {0}]
  BY DEF IInv, Control, TypeOK, PcTyped
<1>a. \A w \in Workers : reg[w] # 3  BY <1>1
<1>2. CASE UNCHANGED vars  BY <1>2 DEF vars
<1>3. CASE MainListen  BY <1>1, <1>3 DEF MainListen, PcTyped
<1>4. CASE MainSetupFails  BY <1>1, <1>4 DEF MainSetupFails, PcTyped, CallShutdown
<1>5. CASE MainAbort  BY <1>1, <1>5 DEF MainAbort, PcTyped
<1>6. CASE MainTest  BY <1>1, <1>6 DEF MainTest, PcTyped
<1>7. CASE MainBlock  BY <1>1, <1>7 DEF MainBlock, PcTyped
<1>8. CASE MainAccept
  <2>1. Shape'  BY <1>1, <1>8 DEF MainAccept, PcTyped, CallEnqueue, Lowest, Free
  <2>2. Paired'  BY <1>1, <1>8 DEF MainAccept, PcTyped, CallEnqueue, Lowest, Free
  <2>3. Orderly'  BY <1>1, <1>8 DEF MainAccept, PcTyped, CallEnqueue, Lowest, Free
  <2>4. SocketKept'  BY <1>1, <1>8 DEF MainAccept, PcTyped, CallEnqueue, Lowest, Free
  <2>5. Starting'  BY <1>1, <1>8 DEF MainAccept, PcTyped, CallEnqueue, Lowest, Free
  <2> QED  BY <2>1, <2>2, <2>3, <2>4, <2>5
<1>9. CASE MainAcceptFails
  <2>1. Shape'  BY <1>1, <1>9 DEF MainAcceptFails, PcTyped
  <2>2. Paired'  BY <1>1, <1>9 DEF MainAcceptFails, PcTyped
  <2>3. Orderly'  BY <1>1, <1>9 DEF MainAcceptFails, PcTyped
  <2>4. SocketKept'  BY <1>1, <1>9 DEF MainAcceptFails, PcTyped
  <2>5. Starting'  BY <1>1, <1>9 DEF MainAcceptFails, PcTyped
  <2> QED  BY <2>1, <2>2, <2>3, <2>4, <2>5
<1>10. CASE MainCleanup  BY <1>1, <1>10 DEF MainCleanup, PcTyped, CallShutdown
<1>11. CASE MainJoin
  <2>1. Shape'  BY <1>1, <1>11 DEF MainJoin, PcTyped
  <2>2. Paired'  BY <1>1, <1>11 DEF MainJoin, PcTyped
  <2>3. Orderly'  BY <1>1, <1>11 DEF MainJoin, PcTyped
  <2>4. SocketKept'  BY <1>1, <1>11 DEF MainJoin, PcTyped
  <2>5. Starting'  BY <1>1, <1>11 DEF MainJoin, PcTyped
  <2> QED  BY <2>1, <2>2, <2>3, <2>4, <2>5
<1>12. CASE MainReturn  BY <1>1, <1>12 DEF MainReturn, PcTyped
<1>13. CASE Sigint  BY <1>1, <1>13 DEF Sigint, PcTyped
<1>14. ASSUME NEW c \in Clients, Connect(c) PROVE SInv'  BY <1>1, <1>14 DEF Connect
<1>15. ASSUME NEW w \in Workers, MainCreate(w) PROVE SInv'
  BY <1>1, <1>15 DEF MainCreate, PcTyped
<1>16. ASSUME NEW w \in Workers, WorkerTop(w) PROVE SInv'
  <2>1. Shape'  BY <1>1, <1>16 DEF WorkerTop, PcTyped, CallDequeue
  <2>2. Paired'  BY <1>1, <1>16 DEF WorkerTop, PcTyped, CallDequeue
  <2>3. Orderly'  BY <1>1, <1>16 DEF WorkerTop, PcTyped, CallDequeue
  <2>4. SocketKept'  BY <1>1, <1>16 DEF WorkerTop, PcTyped, CallDequeue
  <2>5. Starting'
    <3>1. CASE keep_going /\ CallDequeue(w) /\ Advance(w, "got")
      BY <1>1, <1>16, <3>1 DEF WorkerTop, PcTyped, CallDequeue
    <3>2. CASE ~keep_going /\ Advance(w, "exited") /\ UNCHANGED queueVars
      BY <1>1, <1>16, <3>2 DEF WorkerTop
    <3> QED  BY <1>16, <3>1, <3>2 DEF WorkerTop
  <2> QED  BY <2>1, <2>2, <2>3, <2>4, <2>5
<1>17. ASSUME NEW w \in Workers, WorkerGot(w) PROVE SInv'
  <2>1. Shape'  BY <1>1, <1>17 DEF WorkerGot, PcTyped
  <2>2. Paired'  BY <1>1, <1>17 DEF WorkerGot, PcTyped
  <2>3. Orderly'  BY <1>1, <1>17 DEF WorkerGot, PcTyped
  <2>4. SocketKept'
    <3>1. fdt'[sock_fd] = fdt[sock_fd]
      <4>1. CASE UNCHANGED fdt  BY <4>1
      <4>2. CASE Close(reg[w])  BY <1>a, <4>2
      <4> QED  BY <1>17, <4>1, <4>2 DEF WorkerGot
    <3> QED  BY <1>1, <1>17, <3>1 DEF WorkerGot
  <2>5. Starting'  BY <1>1, <1>17 DEF WorkerGot, PcTyped
  <2> QED  BY <2>1, <2>2, <2>3, <2>4, <2>5
<1>18. ASSUME NEW w \in Workers, WorkerReads(w) PROVE SInv'
  BY <1>1, <1>18 DEF WorkerReads, PcTyped
<1>46. ASSUME NEW w \in Workers, WorkerHeld(w) PROVE SInv'
  BY <1>1, <1>46 DEF WorkerHeld, PcTyped
<1>47. ASSUME NEW w \in Workers, WorkerKills(w) PROVE SInv'
  BY <1>1, <1>47 DEF WorkerKills, PcTyped
<1>48. ASSUME NEW w \in Workers, WorkerReleased(w) PROVE SInv'
  <2>1. Shape'  BY <1>1, <1>48 DEF WorkerReleased, PcTyped
  <2>2. Paired'  BY <1>1, <1>48 DEF WorkerReleased, PcTyped
  <2>3. Orderly'  BY <1>1, <1>48 DEF WorkerReleased, PcTyped
  <2>4. SocketKept'
    <3>1. fdt'[sock_fd] = fdt[sock_fd]
      <4>1. CASE UNCHANGED fdt  BY <4>1
      <4>2. CASE Close(reg[w])  BY <1>a, <4>2
      <4> QED  BY <1>48, <4>1, <4>2 DEF WorkerReleased
    <3> QED  BY <1>1, <1>48, <3>1 DEF WorkerReleased
  <2>5. Starting'  BY <1>1, <1>48 DEF WorkerReleased, PcTyped
  <2> QED  BY <2>1, <2>2, <2>3, <2>4, <2>5
<1>19. ASSUME NEW w \in Workers, WorkerReadFails(w) PROVE SInv'
  <2>1. Shape'  BY <1>1, <1>19 DEF WorkerReadFails, PcTyped
  <2>2. Paired'  BY <1>1, <1>19 DEF WorkerReadFails, PcTyped
  <2>3. Orderly'  BY <1>1, <1>19 DEF WorkerReadFails, PcTyped
  <2>4. SocketKept'  BY <1>1, <1>19 DEF WorkerReadFails, PcTyped
  <2>5. Starting'  BY <1>1, <1>19 DEF WorkerReadFails, PcTyped
  <2> QED  BY <2>1, <2>2, <2>3, <2>4, <2>5
<1>20. ASSUME NEW w \in Workers, WorkerRespondsMissing(w) PROVE SInv'
  BY <1>1, <1>20 DEF WorkerRespondsMissing, PcTyped
<1>21. ASSUME NEW w \in Workers, WorkerOpens(w) PROVE SInv'
  <2>1. Shape'
    <3>1. PICK fd \in Table : /\ fdt' = [fdt EXCEPT ![fd] = Object("file", w)]
                              /\ target_file' = [target_file EXCEPT ![w] = fd]
      BY <1>21 DEF WorkerOpens
    <3>2. fdt' = [d \in Table |-> fdt'[d]] /\ target_file' \in [Workers -> Table]
      BY <3>1
    <3> QED  BY <1>21, <3>2 DEF WorkerOpens
  <2>2. Paired'  BY <1>1, <1>21 DEF WorkerOpens, PcTyped, Lowest, Free
  <2>3. Orderly'  BY <1>1, <1>21 DEF WorkerOpens, PcTyped, Lowest, Free
  <2>4. SocketKept'  BY <1>1, <1>21 DEF WorkerOpens, PcTyped, Lowest, Free
  <2>5. Starting'  BY <1>1, <1>21 DEF WorkerOpens, PcTyped, Lowest, Free
  <2> QED  BY <2>1, <2>2, <2>3, <2>4, <2>5
<1>22. ASSUME NEW w \in Workers, WorkerRespondFails(w) PROVE SInv'
  BY <1>1, <1>22 DEF WorkerRespondFails, PcTyped
<1>23. ASSUME NEW w \in Workers, WorkerCopies(w) PROVE SInv'
  BY <1>1, <1>23 DEF WorkerCopies, PcTyped
<1>24. ASSUME NEW w \in Workers, WorkerCopyFails(w) PROVE SInv'
  BY <1>1, <1>24 DEF WorkerCopyFails, PcTyped
<1>25. ASSUME NEW w \in Workers, WorkerClosesFile(w) PROVE SInv'
  BY <1>1, <1>25 DEF WorkerClosesFile, PcTyped
<1>26. ASSUME NEW w \in Workers, WorkerCloses(w) PROVE SInv'
  <2>1. Shape'  BY <1>1, <1>26 DEF WorkerCloses, PcTyped
  <2>2. Paired'  BY <1>1, <1>26 DEF WorkerCloses, PcTyped
  <2>3. Orderly'  BY <1>1, <1>26 DEF WorkerCloses, PcTyped
  <2>4. SocketKept'  BY <1>1, <1>26 DEF WorkerCloses, PcTyped
  <2>5. Starting'  BY <1>1, <1>26 DEF WorkerCloses, PcTyped
  <2> QED  BY <2>1, <2>2, <2>3, <2>4, <2>5
<1>27. ASSUME NEW w \in Workers, WorkerQuits(w) PROVE SInv'
  <2>1. Shape'  BY <1>1, <1>27 DEF WorkerQuits, PcTyped
  <2>2. Paired'  BY <1>1, <1>27 DEF WorkerQuits, PcTyped
  <2>3. Orderly'  BY <1>1, <1>27 DEF WorkerQuits, PcTyped
  <2>4. SocketKept'  BY <1>1, <1>27 DEF WorkerQuits, PcTyped
  <2>5. Starting'  BY <1>1, <1>27 DEF WorkerQuits, PcTyped
  <2> QED  BY <2>1, <2>2, <2>3, <2>4, <2>5
<1>28. ASSUME NEW t \in Threads, ServerSpuriousWake(t) PROVE SInv'
  BY <1>1, <1>28 DEF ServerSpuriousWake, SpuriousWake, full, empty, PcTyped
<1>29. CASE EnqLock(Main) /\ UNCHANGED serverVars
  BY <1>1, <1>29 DEF EnqLock, PcTyped, Return, ReturnAndSignal, full, empty
<1>30. CASE EnqCheck(Main) /\ UNCHANGED serverVars
  BY <1>1, <1>30 DEF EnqCheck, PcTyped, Return, ReturnAndSignal, full, empty
<1>31. CASE EnqTest(Main) /\ UNCHANGED serverVars
  BY <1>1, <1>31 DEF EnqTest, PcTyped, Return, ReturnAndSignal, full, empty
<1>32. CASE EnqWait(Main) /\ UNCHANGED serverVars
  BY <1>1, <1>32 DEF EnqWait, PcTyped, Return, ReturnAndSignal, full, empty
<1>33. CASE EnqWake(Main) /\ UNCHANGED serverVars
  BY <1>1, <1>33 DEF EnqWake, PcTyped, Return, ReturnAndSignal, full, empty
<1>34. CASE EnqRecheck(Main) /\ UNCHANGED serverVars
  BY <1>1, <1>34 DEF EnqRecheck, PcTyped, Return, ReturnAndSignal, full, empty
<1>35. CASE EnqAdd(Main) /\ UNCHANGED serverVars
  BY <1>1, <1>35 DEF EnqAdd, PcTyped, Return, ReturnAndSignal, full, empty
<1>36. CASE ShutSet(Main) /\ UNCHANGED serverVars
  BY <1>1, <1>36 DEF ShutSet, PcTyped, Return, ReturnAndSignal, full, empty
<1>37. CASE ShutEmpty(Main) /\ UNCHANGED serverVars
  BY <1>1, <1>37 DEF ShutEmpty, PcTyped, Return, ReturnAndSignal, full, empty
<1>38. CASE ShutFull(Main) /\ UNCHANGED serverVars
  BY <1>1, <1>38 DEF ShutFull, PcTyped, Return, ReturnAndSignal, full, empty
<1>39. ASSUME NEW w \in Workers, DeqLock(w), UNCHANGED serverVars PROVE SInv'
  BY <1>1, <1>39 DEF DeqLock, PcTyped, Return, ReturnAndSignal, full, empty
<1>40. ASSUME NEW w \in Workers, DeqCheck(w), UNCHANGED serverVars PROVE SInv'
  BY <1>1, <1>40 DEF DeqCheck, PcTyped, Return, ReturnAndSignal, full, empty
<1>41. ASSUME NEW w \in Workers, DeqTest(w), UNCHANGED serverVars PROVE SInv'
  BY <1>1, <1>41 DEF DeqTest, PcTyped, Return, ReturnAndSignal, full, empty
<1>42. ASSUME NEW w \in Workers, DeqWait(w), UNCHANGED serverVars PROVE SInv'
  BY <1>1, <1>42 DEF DeqWait, PcTyped, Return, ReturnAndSignal, full, empty
<1>43. ASSUME NEW w \in Workers, DeqWake(w), UNCHANGED serverVars PROVE SInv'
  BY <1>1, <1>43 DEF DeqWake, PcTyped, Return, ReturnAndSignal, full, empty
<1>44. ASSUME NEW w \in Workers, DeqRecheck(w), UNCHANGED serverVars PROVE SInv'
  BY <1>1, <1>44 DEF DeqRecheck, PcTyped, Return, ReturnAndSignal, full, empty
<1>45. ASSUME NEW w \in Workers, DeqRemove(w), UNCHANGED serverVars PROVE SInv'
  <2>0. length > 0 /\ client_fds[read_idx] \in Fds
    <3>1. length > 0 /\ read_idx \in Slots /\ length \in Nat
      BY <1>45 DEF DeqRemove, IInv, Control, RoomToMove, TypeOK
    <3>2. After(read_idx, 0) = read_idx  BY <3>1, AfterValue DEF Slots
    <3> QED  BY <3>1, <3>2 DEF IInv, RingOK, Slots
  <2>1. Shape'
    BY <1>1, <1>45, <2>0 DEF DeqRemove, PcTyped, Return, ReturnAndSignal, full, empty
  <2>2. Paired'
    BY <1>1, <1>45, <2>0 DEF DeqRemove, PcTyped, Return, ReturnAndSignal, full, empty
  <2>3. Orderly'
    BY <1>1, <1>45, <2>0 DEF DeqRemove, PcTyped, Return, ReturnAndSignal, full, empty
  <2>4. SocketKept'
    BY <1>1, <1>45, <2>0 DEF DeqRemove, PcTyped, Return, ReturnAndSignal, full, empty
  <2>5. Starting'
    BY <1>1, <1>45, <2>0 DEF DeqRemove, PcTyped, Return, ReturnAndSignal, full, empty
  <2> QED  BY <2>1, <2>2, <2>3, <2>4, <2>5
<1> HIDE DEF SInv
<1> QED
  BY <1>2, <1>3, <1>4, <1>5, <1>6, <1>7, <1>8, <1>9, <1>10, <1>11, <1>12, <1>13, <1>14, <1>15,
     <1>16, <1>17, <1>18, <1>19, <1>20, <1>21, <1>22, <1>23, <1>24, <1>25, <1>26, <1>27, <1>28,
     <1>29, <1>30, <1>31, <1>32, <1>33, <1>34, <1>35, <1>36, <1>37, <1>38, <1>39, <1>40, <1>41,
     <1>42, <1>43, <1>44, <1>45, <1>46, <1>47, <1>48
     DEF ServerNext, MainStep, WorkerStep, QueueStep, EnqStep, DeqStep, ShutStep

LEMMA ServerInvariance == ServerSpec => [](IInv /\ SInv)
<1>1. IInv /\ SInv /\ [ServerNext]_vars => (IInv /\ SInv)'
  <2> SUFFICES ASSUME IInv, SInv, [ServerNext]_vars PROVE IInv' /\ SInv'  OBVIOUS
  <2>1. [QueueNext]_queueVars  BY ServerQueueStep
  <2>2. IInv'  BY <2>1, ControlStep, RingStep DEF IInv
  <2>3. SInv'  BY ServerStep
  <2> QED  BY <2>2, <2>3
<1> QED  BY ServerInitInvariant, <1>1, PTL DEF ServerSpec

\* The server is a client of the queue that keeps to its interface, so that all
\* that is proved of the queue is true in the server.
THEOREM ServerUsesQueue == ServerSpec => QueueSpec
<1>1. ServerInit => QueueInit  BY DEF ServerInit
<1>2. IInv /\ SInv /\ [ServerNext]_vars => [QueueNext]_queueVars  BY ServerQueueStep
<1> QED  BY ServerInvariance, <1>1, <1>2, PTL DEF ServerSpec, QueueSpec

\* Nobody in the server overwrites a queued connection or takes one that is not
\* there, whatever signals, errors and misbehaving clients do.
THEOREM ServerRoomAndItems == ServerSpec => []RoomToMove
BY ServerUsesQueue, RoomAndItems, PTL

\* http_server.c: what is in the descriptor table and what a client sees is one of the
\* listed, for any number of threads, clients and descriptors.
THEOREM ServerTypeCorrect == ServerSpec => []ServerTypeOK
<1> DEFINE Objects == \A fd \in Table :
             fdt[fd].kind \in {"none", "stdin", "listen", "conn", "file"}
           Statuses ==
             status \in [Clients -> {"none", "waiting", "open", "answered", "garbled", "dropped"}]
           Values == keep_going \in BOOLEAN /\ fate \in {"running", "freed", "killed"} /\ Objects /\ Statuses
<1>0. /\ \A kind, id : Object(kind, id).kind = kind
      /\ Nothing.kind = "none"
  BY DEF Object, Nothing
<1>1. ServerInit => Values
  <2> SUFFICES ASSUME ServerInit  PROVE Values
    OBVIOUS
  <2>1. Objects
    <3> TAKE fd \in Table
    <3>1. fdt[fd] = Object("stdin", NoId) \/ fdt[fd] = Nothing
      BY DEF ServerInit
    <3> QED  BY <1>0, <3>1
  <2>2. Statuses /\ keep_going \in BOOLEAN /\ fate \in {"running", "freed", "killed"}
    BY DEF ServerInit
  <2> QED  BY <2>1, <2>2
<1>2. SInv /\ Values /\ [ServerNext]_vars => Values'
  <2> SUFFICES ASSUME SInv, Values, [ServerNext]_vars  PROVE Values'
    OBVIOUS
  <2>1. fdt = [fd \in Table |-> fdt[fd]]
    BY DEF SInv, Shape
  <2>2. ASSUME \/ UNCHANGED fdt
               \/ \E fd \in Table, kind \in {"listen", "conn", "file"} : \E id :
                     fdt' = [fdt EXCEPT ![fd] = Object(kind, id)]
        PROVE  Objects'
    BY <1>0, <2>1, <2>2
  <2>3. ASSUME NEW fd, Close(fd)  PROVE Objects' /\ Statuses'
    BY <1>0, <2>1, <2>3 DEF Close
  <2>4. CASE Sigint \/ \E c \in Clients : Connect(c)
    BY <2>4 DEF Sigint, Connect
  <2>5. CASE MainAcceptFails \/ MainJoin
    BY <2>3, <2>5 DEF MainAcceptFails, MainJoin
  <2>6. CASE MainListen \/ MainAccept
    <3>1. Objects'
      BY <2>2, <2>6 DEF MainListen, MainAccept, Table
    <3>2. Statuses' /\ UNCHANGED <<keep_going, fate>>
      BY <2>6 DEF MainListen, MainAccept
    <3> QED  BY <3>1, <3>2
  <2>7. CASE MainStep /\ ~MainListen /\ ~MainAccept /\ ~MainAcceptFails /\ ~MainJoin
    BY <2>7 DEF MainStep, MainSetupFails, MainAbort, MainTest, MainBlock, MainCleanup,
                MainReturn, MainCreate
  <2>8. ASSUME NEW w \in Workers, WorkerStep(w)  PROVE Values'
    <3>1. CASE WorkerTop(w) \/ WorkerReads(w) \/ WorkerRespondsMissing(w)
               \/ WorkerRespondFails(w) \/ WorkerCopies(w) \/ WorkerHeld(w) \/ WorkerKills(w)
      BY <3>1 DEF WorkerTop, WorkerReads, WorkerRespondsMissing, WorkerRespondFails,
                  WorkerCopies, WorkerHeld, WorkerKills
    <3>2. CASE WorkerGot(w) \/ WorkerReadFails(w) \/ WorkerCloses(w) \/ WorkerQuits(w)
               \/ WorkerCopyFails(w) \/ WorkerClosesFile(w) \/ WorkerReleased(w)
      <4>1. UNCHANGED <<fdt, status>> \/ \E fd : Close(fd)
        BY <3>2 DEF WorkerGot, WorkerReadFails, WorkerCloses, WorkerQuits, WorkerCopyFails,
                    WorkerClosesFile, WorkerReleased
      <4>2. UNCHANGED <<keep_going, fate>>
        BY <3>2 DEF WorkerGot, WorkerReadFails, WorkerCloses, WorkerQuits, WorkerCopyFails,
                    WorkerClosesFile, WorkerReleased
      <4> QED  BY <2>3, <4>1, <4>2
    <3>3. CASE WorkerOpens(w)
      <4>1. Objects'
        BY <2>2, <3>3 DEF WorkerOpens
      <4> QED  BY <3>3, <4>1 DEF WorkerOpens
    <3> QED  BY <2>8, <3>1, <3>2, <3>3 DEF WorkerStep
  <2>9. CASE (\E t \in Threads : QueueStep(t) \/ ServerSpuriousWake(t)) \/ UNCHANGED vars
    BY <2>9 DEF QueueStep, ServerSpuriousWake, vars, serverVars
  <2> QED  BY <2>4, <2>5, <2>6, <2>7, <2>8, <2>9 DEF ServerNext
<1>3. SInv /\ Values => ServerTypeOK
  BY DEF SInv, Shape, Paired, ServerTypeOK, MainStages, WorkerStages
<1> QED  BY ServerInvariance, <1>1, <1>2, <1>3, PTL DEF ServerSpec

-------------------------------------------------------------------------------
(* Owners *)

Conns == {fd \in Table : fdt[fd].kind = "conn"}

OneOwner ==
  /\ \A h \in Holders : HeldFd(h) \in Conns
  /\ \A fd \in Conns : \E h \in Holders : HeldFd(h) = fd
  /\ \A g, h \in Holders : HeldFd(g) = HeldFd(h) => g = h

\* What a call of dequeue will return is not there before it returns.
Unassigned == \A w \in Workers : pc[w] # "idle" => reg[w] = 0

\* The file a worker sends is its own, unless it has a number (0, or that of the
\* socket) which others close without owning it.
FilesOwned ==
  \A w \in Workers : stage[w] \in {"copy", "closefile"} /\ target_file[w] \in Fds =>
    fdt[target_file[w]] = Object("file", w)

OInv == OneOwner /\ Unassigned /\ FilesOwned

Enqueues == pc[Main] \in EnqLabels
Carries(w) == stage[w] \in Serving \union {"got"} /\ reg[w] # 0

-------------------------------------------------------------------------------
(* Holders and what they hold *)

\* The three kinds of holders, and nothing else is one.
LEMMA MembersOfHolders ==
  /\ <<"main", Main>> \in Holders <=> Enqueues
  /\ \A k : <<"slot", k>> \in Holders <=> k \in 1 .. length
  /\ \A w : <<"worker", w>> \in Holders <=> w \in Workers /\ Carries(w)
  /\ \A h \in Holders : \/ h = <<"main", Main>>
                        \/ \E k \in 1 .. length : h = <<"slot", k>>
                        \/ \E w \in Workers : h = <<"worker", w>>
BY DEF Holders, Enqueues, Carries

\* What each of them holds.
LEMMA HeldValues ==
  /\ HeldFd(<<"main", Main>>) = reg[Main]
  /\ \A k \in 1 .. length : HeldFd(<<"slot", k>>) = client_fds[After(read_idx, k - 1)]
  /\ \A w : HeldFd(<<"worker", w>>) = reg[w]
BY DEF HeldFd, Contents

\* Descriptors 0 and 3 are nobody's.
LEMMA HeldInFds ==
  ASSUME IInv, NEW h \in Holders
  PROVE  HeldFd(h) \in Fds
<1> USE ServerAssumption, QueueAssumption DEF IInv, Control, TypeOK, ArgumentKept
<1>1. CASE h = <<"main", Main>> /\ Enqueues
  BY <1>1, HeldValues DEF Enqueues, Threads
<1>2. ASSUME NEW k \in 1 .. length, h = <<"slot", k>>  PROVE HeldFd(h) \in Fds
  <2>1. k - 1 \in 0 .. Capacity - 1 /\ k - 1 < length  OBVIOUS
  <2> QED  BY <1>2, <2>1, HeldValues DEF RingOK
<1>3. ASSUME NEW w \in Workers, Carries(w), h = <<"worker", w>>  PROVE HeldFd(h) \in Fds
  BY <1>3, HeldValues DEF Carries, Threads, Workers
<1> QED  BY <1>1, <1>2, <1>3, MembersOfHolders

\* Nor is either of them a connection.
LEMMA ConnsInFds ==
  ASSUME IInv, OneOwner
  PROVE  Conns \subseteq Fds
BY HeldInFds DEF OneOwner

-------------------------------------------------------------------------------
(* How a step may change who holds what *)

\* No holder, nothing held and no connection changes.
LEMMA OwnersStay ==
  ASSUME OneOwner, UNCHANGED ring, Conns' = Conns, Enqueues' <=> Enqueues,
         Enqueues => reg'[Main] = reg[Main],
         \A w \in Workers : Carries(w)' <=> Carries(w),
         \A w \in Workers : Carries(w) => reg'[w] = reg[w]
  PROVE  OneOwner'
<1>1. Holders' = Holders
  BY DEF Holders, Enqueues, Carries, ring
<1>2. \A h \in Holders : HeldFd(h)' = HeldFd(h)
  BY MembersOfHolders DEF HeldFd, Contents, ring
<1> QED  BY <1>1, <1>2 DEF OneOwner

\* accept: main has a connection that nobody had.
LEMMA OwnersGain ==
  ASSUME OneOwner, UNCHANGED ring, NEW fd, fd \notin Conns, Conns' = Conns \union {fd},
         ~Enqueues, Enqueues', reg'[Main] = fd,
         \A w \in Workers : Carries(w)' <=> Carries(w),
         \A w \in Workers : Carries(w) => reg'[w] = reg[w]
  PROVE  OneOwner'
<1>1. Holders' = Holders \union {<<"main", Main>>}
  BY DEF Holders, Enqueues, Carries, ring
<1>2. <<"main", Main>> \notin Holders
  BY MembersOfHolders
<1>3. \A h \in Holders : HeldFd(h)' = HeldFd(h)
  BY <1>2, MembersOfHolders DEF HeldFd, Contents, ring
<1>4. HeldFd(<<"main", Main>>)' = fd
  BY DEF HeldFd
<1> QED  BY <1>1, <1>2, <1>3, <1>4 DEF OneOwner

\* close: what a worker had is nobody's and no connection any more.
LEMMA OwnersLose ==
  ASSUME OneOwner, NEW w \in Workers, Carries(w), ~Carries(w)', Conns' = Conns \ {reg[w]},
         UNCHANGED <<ring, reg>>, Enqueues' <=> Enqueues,
         \A v \in Workers \ {w} : Carries(v)' <=> Carries(v)
  PROVE  OneOwner'
<1>1. Holders' = Holders \ {<<"worker", w>>}
  BY DEF Holders, Enqueues, Carries, ring
<1>2. <<"worker", w>> \in Holders /\ HeldFd(<<"worker", w>>) = reg[w]
  BY MembersOfHolders, HeldValues
<1>3. \A h : HeldFd(h)' = HeldFd(h)
  BY DEF HeldFd, Contents, ring
<1> QED  BY <1>1, <1>2, <1>3 DEF OneOwner

\* Holders are renamed by m.
LEMMA OwnersRenamed ==
  ASSUME OneOwner, Conns' = Conns, NEW m,
         \A h \in Holders' : m[h] \in Holders /\ HeldFd(h)' = HeldFd(m[h]),
         \A h \in Holders : \E g \in Holders' : m[g] = h,
         \A g, h \in Holders' : m[g] = m[h] => g = h
  PROVE  OneOwner'
BY DEF OneOwner

\* enqueue: the connection passes from main to a slot behind those in use.
LEMMA OwnersEnqueue ==
  ASSUME IInv, OneOwner, UNCHANGED serverVars, Enqueues, ~Enqueues', length < Capacity,
         length' = length + 1, read_idx' = read_idx,
         client_fds' = [client_fds EXCEPT ![write_idx] = reg[Main]],
         \A w \in Workers : reg'[w] = reg[w]
  PROVE  OneOwner'
<1> USE QueueAssumption
<1>1. length \in Nat /\ read_idx \in Slots /\ client_fds \in [Slots -> Fds \union {-1}]
  BY DEF IInv, Control, TypeOK
<1>0. PICK last : last = length + 1
  OBVIOUS
<1>2. write_idx = After(read_idx, length)
  BY DEF IInv, RingOK
<1>3. HeldFd(<<"slot", last>>)' = reg[Main]
  <2>1. After(read_idx, length) \in Slots
    BY <1>1, AfterValue
  <2>2. client_fds'[After(read_idx, length)] = reg[Main]
    BY <1>1, <1>2, <2>1
  <2>3. last \in 1 .. length' /\ last - 1 = length
    BY <1>0, <1>1
  <2>4. Contents'[last] = client_fds'[After(read_idx, length)]
    BY <2>3 DEF Contents
  <2> QED  BY <2>2, <2>4 DEF HeldFd
<1>4. \A k \in 1 .. length : HeldFd(<<"slot", k>>)' = HeldFd(<<"slot", k>>)
  <2> SUFFICES ASSUME NEW k \in 1 .. length
               PROVE  client_fds'[After(read_idx, k - 1)] = client_fds[After(read_idx, k - 1)]
    BY <1>1 DEF HeldFd, Contents
  <2>1. k - 1 \in Slots /\ length \in Slots /\ k - 1 # length
    BY <1>1 DEF Slots
  <2>2. After(read_idx, k - 1) # After(read_idx, length)
    BY <1>1, <2>1, AfterNext
  <2> QED  BY <1>1, <1>2, <2>2
<1>5. \A w \in Workers : Carries(w)' <=> Carries(w)
  BY DEF Carries, serverVars
<1>6. \A h : h \in Holders' <=>
        \/ h = <<"slot", last>>
        \/ h # <<"main", Main>> /\ h \in Holders
  <2>1. 1 .. length' = (1 .. length) \union {last}
    BY <1>0, <1>1
  <2> QED  BY <1>1, <1>5, <2>1 DEF Holders, Enqueues, Carries
<1>7. <<"main", Main>> \in Holders /\ <<"slot", last>> \notin Holders
  BY <1>0, <1>1, MembersOfHolders
<1>8. \A h \in Holders : h # <<"main", Main>> => HeldFd(h)' = HeldFd(h)
  BY <1>4, MembersOfHolders DEF HeldFd
<1>9. Conns' = Conns
  BY DEF Conns, serverVars
<1> DEFINE m == [h \in Holders' |-> IF h = <<"slot", last>> THEN <<"main", Main>> ELSE h]
<1>10. \A h \in Holders' : m[h] \in Holders /\ HeldFd(h)' = HeldFd(m[h])
  BY <1>3, <1>6, <1>7, <1>8, HeldValues
<1>11. \A h \in Holders : \E g \in Holders' : m[g] = h
  <2>1. <<"slot", last>> \in Holders' /\ m[<<"slot", last>>] = <<"main", Main>>
    BY <1>6
  <2>2. \A h \in Holders : h # <<"main", Main>> => h \in Holders' /\ m[h] = h
    BY <1>6, <1>7
  <2> HIDE DEF m
  <2> QED  BY <2>1, <2>2
<1>12. \A g, h \in Holders' : m[g] = m[h] => g = h
  BY <1>6, <1>7
<1> HIDE DEF m
<1> QED  BY <1>9, <1>10, <1>11, <1>12, OwnersRenamed

\* dequeue: the oldest slot's connection passes to the worker, the others move up.
LEMMA OwnersDequeue ==
  ASSUME IInv, OneOwner, UNCHANGED serverVars, Enqueues' <=> Enqueues, length > 0,
         length' = length - 1, read_idx' = After(read_idx, 1), UNCHANGED client_fds,
         NEW w \in Workers, ~Carries(w), stage[w] = "got",
         reg' = [reg EXCEPT ![w] = client_fds[read_idx]]
  PROVE  OneOwner'
<1> USE QueueAssumption, ServerAssumption
<1>1. /\ length \in 0 .. Capacity /\ read_idx \in Slots
      /\ reg \in [Threads -> Fds \union {0}]
  BY DEF IInv, Control, TypeOK
<1>2. After(read_idx, 0) = read_idx /\ client_fds[read_idx] \in Fds
  <2>1. After(read_idx, 0) = read_idx
    BY <1>1, AfterValue DEF Slots
  <2> QED  BY <1>1, <2>1 DEF IInv, RingOK
<1>3. \A k \in 1 .. length - 1 : HeldFd(<<"slot", k>>)' = HeldFd(<<"slot", k + 1>>)
  <2> SUFFICES ASSUME NEW k \in 1 .. length - 1
               PROVE  client_fds[After(After(read_idx, 1), k - 1)] = client_fds[After(read_idx, k)]
    BY <1>1 DEF HeldFd, Contents
  <2>1. k - 1 \in Slots
    BY <1>1 DEF Slots
  <2>2. After(After(read_idx, 1), k - 1) = After(read_idx, (k - 1) + 1)
    BY <1>1, <2>1, AfterNext
  <2> QED  BY <2>2
<1>4. HeldFd(<<"slot", 1>>) = client_fds[read_idx]
  BY <1>1, <1>2 DEF HeldFd, Contents
<1>5. Main \in Threads /\ Main # w /\ reg'[w] = client_fds[read_idx] /\ reg'[w] # 0
  BY <1>1, <1>2 DEF Threads, Workers
<1>6. /\ reg'[Main] = reg[Main]
      /\ \A v \in Workers \ {w} : reg'[v] = reg[v]
      /\ Carries(w)'
      /\ \A v \in Workers \ {w} : Carries(v)' <=> Carries(v)
  BY <1>1, <1>5 DEF Threads, Workers, Carries, serverVars
<1>7. \A h : h \in Holders' <=>
        \/ h = <<"main", Main>> /\ Enqueues
        \/ \E k \in 1 .. length - 1 : h = <<"slot", k>>
        \/ h = <<"worker", w>>
        \/ \E v \in Workers \ {w} : h = <<"worker", v>> /\ Carries(v)
  BY <1>1, <1>6 DEF Holders, Enqueues, Carries
<1>8. \A h : h \in Holders <=>
        \/ h = <<"main", Main>> /\ Enqueues
        \/ \E k \in 1 .. length : h = <<"slot", k>>
        \/ \E v \in Workers \ {w} : h = <<"worker", v>> /\ Carries(v)
  BY <1>1 DEF Holders, Enqueues, Carries
<1>9. Conns' = Conns
  BY DEF Conns, serverVars
<1> DEFINE m == [h \in Holders' |-> IF h = <<"worker", w>> THEN <<"slot", 1>>
                                    ELSE IF h[1] = "slot" THEN <<"slot", h[2] + 1>> ELSE h]
<1>10. /\ <<"worker", w>> \in Holders' /\ m[<<"worker", w>>] = <<"slot", 1>>
       /\ \A k \in 1 .. length - 1 :
            <<"slot", k>> \in Holders' /\ m[<<"slot", k>>] = <<"slot", k + 1>>
       /\ Enqueues => /\ <<"main", Main>> \in Holders'
                      /\ m[<<"main", Main>>] = <<"main", Main>>
       /\ \A v \in Workers \ {w} : Carries(v) =>
            <<"worker", v>> \in Holders' /\ m[<<"worker", v>>] = <<"worker", v>>
  BY <1>7
<1> HIDE DEF m
<1>11. \A h \in Holders' : m[h] \in Holders /\ HeldFd(h)' = HeldFd(m[h])
  <2> SUFFICES ASSUME NEW h \in Holders'
               PROVE  m[h] \in Holders /\ HeldFd(h)' = HeldFd(m[h])
    OBVIOUS
  <2>1. CASE h = <<"main", Main>> /\ Enqueues
    BY <1>6, <1>8, <1>10, <2>1 DEF HeldFd
  <2>2. ASSUME NEW k \in 1 .. length - 1, h = <<"slot", k>>
        PROVE  m[h] \in Holders /\ HeldFd(h)' = HeldFd(m[h])
    BY <1>1, <1>3, <1>8, <1>10, <2>2
  <2>3. CASE h = <<"worker", w>>
    BY <1>1, <1>4, <1>5, <1>8, <1>10, <2>3 DEF HeldFd
  <2>4. ASSUME NEW v \in Workers \ {w}, h = <<"worker", v>>, Carries(v)
        PROVE  m[h] \in Holders /\ HeldFd(h)' = HeldFd(m[h])
    BY <1>6, <1>8, <1>10, <2>4 DEF HeldFd
  <2> QED  BY <1>7, <2>1, <2>2, <2>3, <2>4
<1>12. \A h \in Holders : \E g \in Holders' : m[g] = h
  <2> SUFFICES ASSUME NEW h \in Holders  PROVE \E g \in Holders' : m[g] = h
    OBVIOUS
  <2>1. ASSUME NEW k \in 1 .. length, h = <<"slot", k>>  PROVE \E g \in Holders' : m[g] = h
    <3>1. CASE k = 1  BY <1>10, <2>1, <3>1
    <3>2. CASE k # 1
      <4>1. k - 1 \in 1 .. length - 1 /\ (k - 1) + 1 = k  BY <1>1, <3>2
      <4> QED  BY <1>10, <2>1, <4>1
    <3> QED  BY <3>1, <3>2
  <2>2. CASE h = <<"main", Main>> /\ Enqueues  BY <1>10, <2>2
  <2>3. ASSUME NEW v \in Workers \ {w}, h = <<"worker", v>>, Carries(v)
        PROVE  \E g \in Holders' : m[g] = h
    BY <1>10, <2>3
  <2> QED  BY <1>8, <2>1, <2>2, <2>3
<1>13. \A g, h \in Holders' : m[g] = m[h] => g = h
  BY <1>1, <1>7, <1>10
<1> QED  BY <1>9, <1>11, <1>12, <1>13, OwnersRenamed

-------------------------------------------------------------------------------
(* One lemma per kind of step *)

SendsFile(w) == stage[w] \in {"copy", "closefile"}

\* A step that opens and closes no connection and no file and passes nothing on.
LEMMA OwnersAside ==
  ASSUME IInv, OInv, UNCHANGED <<ring, target_file>>,
         \A fd \in Fds : fdt'[fd] = fdt[fd],
         \A fd \in Table \ Fds : fdt'[fd].kind # "conn",
         Enqueues' <=> Enqueues, Enqueues => reg'[Main] = reg[Main],
         \A w \in Workers : /\ Carries(w)' <=> Carries(w)
                            /\ Carries(w) => reg'[w] = reg[w]
                            /\ pc'[w] # "idle" => reg'[w] = 0
                            /\ SendsFile(w)' => SendsFile(w)
  PROVE  OInv'
<1>1. Conns' = Conns
  BY ConnsInFds DEF OInv, Conns, Table
<1>2. OneOwner'
  BY <1>1, OwnersStay DEF OInv
<1>3. Unassigned'
  BY DEF Unassigned
<1>4. FilesOwned'
  BY DEF OInv, FilesOwned, SendsFile, Object
<1> QED  BY <1>2, <1>3, <1>4 DEF OInv

\* Neither the standard input nor the listening socket is a connection.
LEMMA OthersNoConns ==
  ASSUME IInv, OInv
  PROVE  /\ Table \ Fds = {0, 3}
         /\ \A fd \in {0, 3} : fdt[fd].kind # "conn"
<1>1. 0 \notin Fds /\ 3 \notin Fds
  BY ServerAssumption
<1> QED  BY <1>1, ConnsInFds DEF OInv, Conns, Table, sock_fd

\* main gets a connection only in accept.
LEMMA MainOwners ==
  ASSUME IInv, SInv, OInv, MainStep, ~MainAccept
  PROVE  OInv'
<1> USE OthersNoConns, ServerAssumption
        DEF Running, Advance, Enqueues, Carries, SendsFile, Threads, Workers, Serving,
            EnqLabels, Goto
<1>1. /\ pc \in [Threads -> {"idle"} \union EnqLabels \union DeqLabels \union ShutLabels]
      /\ reg \in [Threads -> Fds \union {0}]
      /\ stage \in [Threads -> MainStages \union WorkerStages]
      /\ fdt = [fd \in Table |-> fdt[fd]]
      /\ \A w \in Workers : pc[w] # "idle" => reg[w] = 0
  BY DEF IInv, Control, TypeOK, SInv, Shape, OInv, Unassigned
<1>2. \A w \in Workers : w # Main
  BY QueueAssumption
<1>3. CASE \E w \in Workers : MainCreate(w)
  BY <1>1, <1>2, <1>3, OwnersAside DEF MainCreate, queueVars, ring
<1>4. CASE MainListen
  BY <1>1, <1>2, <1>4, OwnersAside DEF MainListen, queueVars, ring, Object, sock_fd, Table
<1>5. CASE MainSetupFails \/ MainCleanup
  BY <1>1, <1>2, <1>5, OwnersAside DEF MainSetupFails, MainCleanup, CallShutdown, ring
<1>6. CASE MainAbort \/ MainTest \/ MainBlock \/ MainReturn
  BY <1>1, <1>2, <1>6, OwnersAside
     DEF MainAbort, MainTest, MainBlock, MainReturn, queueVars, ring
<1>7. CASE MainAcceptFails \/ MainJoin
  <2>1. /\ fdt' = [fdt EXCEPT ![3] = Nothing]
        /\ UNCHANGED <<queueVars, target_file>>
        /\ \A w \in Workers : stage'[w] = stage[w]
    BY <1>1, <1>2, <1>7 DEF MainAcceptFails, MainJoin, Close, sock_fd
  <2>2. /\ \A fd \in Fds : fdt'[fd] = fdt[fd]
        /\ \A fd \in Table \ Fds : fdt'[fd].kind # "conn"
    BY <1>1, <2>1 DEF Nothing, Object, Table
  <2> QED  BY <1>1, <1>2, <2>1, <2>2, OwnersAside DEF queueVars, ring
<1> QED  BY <1>3, <1>4, <1>5, <1>6, <1>7 DEF MainStep

\* The kernel gives out a number nobody has: not that of a file that is being sent.
LEMMA AcceptOwners ==
  ASSUME IInv, SInv, OInv, MainAccept
  PROVE  OInv'
<1> USE ServerAssumption, QueueAssumption DEF Running, Advance, Threads, Workers, Goto
<1>1. /\ pc \in [Threads -> {"idle"} \union EnqLabels \union DeqLabels \union ShutLabels]
      /\ reg \in [Threads -> Fds \union {0}]
      /\ stage \in [Threads -> MainStages \union WorkerStages]
      /\ fdt = [fd \in Table |-> fdt[fd]]
      /\ \A w \in Workers : w # Main
  BY DEF IInv, Control, TypeOK, SInv, Shape
<1>2. PICK fd \in Table :
        /\ Lowest(fd)
        /\ fdt' = [fdt EXCEPT ![fd] = Object("conn", Head(backlog))]
        /\ CallEnqueue(Main, fd)
  BY DEF MainAccept
<1>3. fd \in Fds /\ fdt[fd] = Nothing
  <2>1. fdt[0] # Nothing /\ fdt[sock_fd] # Nothing
    BY DEF MainAccept, SInv, Orderly, SocketKept
  <2> QED  BY <1>2, <2>1 DEF Lowest, Free, Table
<1>4. /\ stage' = [stage EXCEPT ![Main] = "loop"] /\ target_file' = target_file
      /\ pc[Main] = "idle"
      /\ pc' = [pc EXCEPT ![Main] = "enq_lock"] /\ reg' = [reg EXCEPT ![Main] = fd]
      /\ UNCHANGED ring
  BY <1>2 DEF MainAccept, CallEnqueue
<1>5. Conns' = Conns \union {fd} /\ fd \notin Conns
  BY <1>1, <1>2, <1>3 DEF Conns, Object, Nothing
<1>6. ~Enqueues /\ Enqueues' /\ reg'[Main] = fd
  BY <1>1, <1>4 DEF Enqueues, EnqLabels
<1>7. \A w \in Workers : pc'[w] = pc[w] /\ reg'[w] = reg[w] /\ stage'[w] = stage[w]
  BY <1>1, <1>4
<1>8. OneOwner'
  BY <1>4, <1>5, <1>6, <1>7, OwnersGain DEF OInv, Carries
<1>9. Unassigned'
  BY <1>7 DEF OInv, Unassigned
<1>10. FilesOwned'
  BY <1>1, <1>2, <1>3, <1>4, <1>7 DEF OInv, FilesOwned, Object, Nothing
<1> QED  BY <1>8, <1>9, <1>10 DEF OInv

\* A worker that opens, reads or writes, or has nothing to close but descriptor 0.
LEMMA WorkerOwnersAside ==
  ASSUME IInv, SInv, OInv, NEW w \in Workers,
         UNCHANGED <<ring, target_file, keep_going>>,
         \A t \in Threads \ {w} : pc'[t] = pc[t] /\ reg'[t] = reg[t] /\ stage'[t] = stage[t],
         \/ /\ fdt' = [fdt EXCEPT ![0] = Nothing]
            /\ reg[w] = 0
         \/ UNCHANGED fdt,
         \/ stage[w] \in Serving \union {"got"} /\ stage'[w] \in Serving \union {"got"}
         \/ reg[w] = 0,
         pc'[w] # "idle" => pc[w] # "idle",
         reg'[w] = reg[w],
         SendsFile(w)' => SendsFile(w)
  PROVE  OInv'
<1> USE OthersNoConns, ServerAssumption, QueueAssumption DEF Threads, Workers
<1>1. Main \in Threads \ {w}
  OBVIOUS
<1>2. fdt = [fd \in Table |-> fdt[fd]] /\ \A v \in Workers : pc[v] # "idle" => reg[v] = 0
  BY DEF SInv, Shape, OInv, Unassigned
<1>3. /\ \A fd \in Fds : fdt'[fd] = fdt[fd]
      /\ \A fd \in Table \ Fds : fdt'[fd].kind # "conn"
  <2>1. 0 \in Table /\ 0 \notin Fds /\ Fds \subseteq Table
    BY DEF Table
  <2>2. \A fd \in Table \ Fds : fdt[fd].kind # "conn"
    OBVIOUS
  <2>3. CASE fdt' = [fdt EXCEPT ![0] = Nothing]
    <3>1. fdt'[0] = Nothing /\ \A fd \in Table \ {0} : fdt'[fd] = fdt[fd]
      BY <1>2, <2>1, <2>3
    <3>2. Nothing.kind # "conn"
      BY DEF Nothing, Object
    <3> QED  BY <2>1, <2>2, <3>1, <3>2
  <2>4. CASE UNCHANGED fdt
    BY <2>2, <2>4
  <2> QED  BY <2>3, <2>4
<1>4. Enqueues' <=> Enqueues
  BY <1>1 DEF Enqueues
<1>5. \A v \in Workers : /\ Carries(v)' <=> Carries(v)
                         /\ reg'[v] = reg[v]
                         /\ pc'[v] # "idle" => reg'[v] = 0
                         /\ SendsFile(v)' => SendsFile(v)
  <2>1. /\ Carries(w)' <=> Carries(w)
        /\ reg'[w] = reg[w]
        /\ pc'[w] # "idle" => reg'[w] = 0
        /\ SendsFile(w)' => SendsFile(w)
    BY <1>2 DEF Carries
  <2>2. ASSUME NEW v \in Workers, v # w
        PROVE  /\ Carries(v)' <=> Carries(v)
               /\ reg'[v] = reg[v]
               /\ pc'[v] # "idle" => reg'[v] = 0
               /\ SendsFile(v)' => SendsFile(v)
    <3>1. v \in Threads \ {w}
      BY <2>2
    <3>2. pc'[v] = pc[v] /\ reg'[v] = reg[v] /\ stage'[v] = stage[v] /\ target_file' = target_file
      BY <3>1
    <3> QED  BY <1>2, <3>2 DEF Carries, SendsFile
  <2> QED  BY <2>1, <2>2
<1> QED  BY <1>1, <1>3, <1>4, <1>5, OwnersAside

\* close(client_fd): the worker's own connection, or descriptor 0.
LEMMA CloseOwners ==
  ASSUME IInv, SInv, OInv, NEW w \in Workers, stage[w] \in Serving \union {"got"},
         pc[w] = "idle", Close(reg[w]), NEW label, label \in {"top", "exited"},
         Advance(w, label), UNCHANGED <<queueVars, target_file, keep_going>>
  PROVE  OInv'
<1> USE ServerAssumption, QueueAssumption DEF Threads, Workers
<1>1. /\ stage \in [Threads -> MainStages \union WorkerStages]
      /\ reg \in [Threads -> Fds \union {0}]
      /\ fdt = [fd \in Table |-> fdt[fd]]
  BY DEF IInv, Control, TypeOK, SInv, Shape
<1>2. stage'[w] \in {"top", "exited"} /\ \A t \in Threads \ {w} : stage'[t] = stage[t]
  BY <1>1 DEF Advance
<1>3. CASE reg[w] = 0
  <2>1. fdt' = [fdt EXCEPT ![0] = Nothing]
    BY <1>3 DEF Close
  <2>2. UNCHANGED <<ring, target_file, keep_going>> /\ UNCHANGED <<pc, reg>>
    BY DEF queueVars, ring
  <2>3. ~SendsFile(w)'
    BY <1>2 DEF SendsFile
  <2>4. \A t \in Threads \ {w} : pc'[t] = pc[t] /\ reg'[t] = reg[t] /\ stage'[t] = stage[t]
    BY <1>2, <2>2
  <2>5. reg'[w] = reg[w] /\ (pc'[w] # "idle" => pc[w] # "idle")
    BY <2>2
  <2> QED  BY <1>3, <2>1, <2>2, <2>3, <2>4, <2>5, WorkerOwnersAside
<1>4. CASE reg[w] # 0
  <2>1. Carries(w) /\ ~Carries(w)'
    BY <1>2, <1>4 DEF Carries, Serving
  <2>2. reg[w] \in Fds /\ reg[w] \in Conns
    <3>1. <<"worker", w>> \in Holders /\ HeldFd(<<"worker", w>>) = reg[w]
      BY <2>1, MembersOfHolders, HeldValues
    <3>2. reg[w] \in Conns
      BY <3>1 DEF OInv, OneOwner
    <3> QED  BY <1>1, <1>4, <3>2
  <2>3. fdt' = [fdt EXCEPT ![reg[w]] = Nothing]
    BY DEF Close
  <2>4. Conns' = Conns \ {reg[w]}
    BY <1>1, <2>2, <2>3 DEF Conns, Nothing, Object
  <2>5. \A v \in Workers \ {w} : Carries(v)' <=> Carries(v)
    BY <1>2 DEF Carries, queueVars
  <2>6. UNCHANGED <<ring, reg, pc>> /\ (Enqueues' <=> Enqueues)
    BY DEF queueVars, ring, Enqueues
  <2>7. OneOwner'
    BY <2>1, <2>4, <2>5, <2>6, OwnersLose DEF OInv
  <2>8. Unassigned'
    BY <2>6 DEF OInv, Unassigned
  <2>9. FilesOwned'
    <3> SUFFICES ASSUME NEW v \in Workers, SendsFile(v)', target_file'[v] \in Fds
                 PROVE  fdt'[target_file'[v]] = Object("file", v)
      BY DEF FilesOwned, SendsFile
    <3>1. v # w /\ SendsFile(v)
      BY <1>2 DEF SendsFile
    <3>2. fdt[target_file[v]] = Object("file", v)
      BY <3>1 DEF OInv, FilesOwned, SendsFile
    <3>3. target_file[v] # reg[w]
      BY <2>2, <3>2 DEF Conns, Object
    <3> QED  BY <1>1, <2>3, <3>2, <3>3
  <2> QED  BY <2>7, <2>8, <2>9 DEF OInv
<1> QED  BY <1>3, <1>4

\* open and close of the file that is sent.
LEMMA FileOwners ==
  ASSUME IInv, SInv, OInv, NEW w \in Workers,
         WorkerOpens(w) \/ WorkerCopyFails(w) \/ WorkerClosesFile(w)
  PROVE  OInv'
<1> USE OthersNoConns, ServerAssumption, QueueAssumption
        DEF Threads, Workers, Running, Advance, Object, Nothing
<1>1. /\ stage \in [Threads -> MainStages \union WorkerStages]
      /\ target_file \in [Workers -> Table]
      /\ fdt = [fd \in Table |-> fdt[fd]]
  BY DEF SInv, Shape
<1>2. /\ stage[w] \in Serving /\ stage'[w] \in Serving
      /\ \A v \in Workers \ {w} : stage'[v] = stage[v]
      /\ UNCHANGED queueVars
  BY <1>1 DEF WorkerOpens, WorkerCopyFails, WorkerClosesFile, Serving
<1>3. PICK fd \in Table :
        \/ /\ fdt[fd] = Nothing /\ fdt' = [fdt EXCEPT ![fd] = Object("file", w)]
           /\ target_file' = [target_file EXCEPT ![w] = fd]
        \/ /\ fd \in Fds => fdt[fd] = Object("file", w)
           /\ fdt' = [fdt EXCEPT ![fd] = Nothing]
           /\ UNCHANGED target_file /\ stage'[w] \in {"quit", "close"}
  <2>1. CASE WorkerOpens(w)
    BY <2>1 DEF WorkerOpens, Lowest, Free
  <2>2. CASE WorkerCopyFails(w) \/ WorkerClosesFile(w)
    <3>1. SendsFile(w)
      BY <2>2 DEF WorkerCopyFails, WorkerClosesFile, SendsFile
    <3>2. target_file[w] \in Fds => fdt[target_file[w]] = Object("file", w)
      BY <3>1 DEF OInv, FilesOwned, SendsFile
    <3>3. target_file[w] \in Table
      BY <1>1
    <3>4. /\ fdt' = [fdt EXCEPT ![target_file[w]] = Nothing]
          /\ UNCHANGED target_file /\ stage'[w] \in {"quit", "close"}
      BY <1>1, <2>2 DEF WorkerCopyFails, WorkerClosesFile, Close
    <3> QED  BY <3>2, <3>3, <3>4
  <2> QED  BY <2>1, <2>2
<1>4. Conns' = Conns
  <2>1. fdt[fd].kind # "conn" /\ fdt'[fd].kind # "conn"
    BY <1>1, <1>3 DEF Table, sock_fd
  <2>2. \A d \in Table \ {fd} : fdt'[d] = fdt[d]
    BY <1>1, <1>3
  <2> QED  BY <2>1, <2>2 DEF Conns
<1>5. \A v \in Workers : (Carries(v)' <=> Carries(v)) /\ reg'[v] = reg[v]
  BY <1>2 DEF Carries, queueVars
<1>6. OneOwner'
  BY <1>2, <1>4, <1>5, OwnersStay DEF OInv, Enqueues, queueVars, ring
<1>7. Unassigned'
  BY <1>2 DEF OInv, Unassigned, queueVars
<1>8. FilesOwned'
  <2> SUFFICES ASSUME NEW v \in Workers, SendsFile(v)', target_file'[v] \in Fds
               PROVE  fdt'[target_file'[v]] = Object("file", v)
    BY DEF FilesOwned, SendsFile
  <2>1. CASE v = w
    BY <1>1, <1>3, <2>1 DEF SendsFile
  <2>2. CASE v # w
    <3>1. SendsFile(v) /\ target_file'[v] = target_file[v]
      BY <1>1, <1>2, <1>3, <2>2 DEF SendsFile
    <3>2. fdt[target_file[v]] = Object("file", v)
      BY <3>1 DEF OInv, FilesOwned, SendsFile
    <3>3. target_file[v] # fd
      BY <1>3, <2>2, <3>1, <3>2
    <3> QED  BY <1>1, <1>3, <3>1, <3>2, <3>3
  <2> QED  BY <2>1, <2>2
<1> QED  BY <1>6, <1>7, <1>8 DEF OInv

\* A worker loses a connection only in close, and has none when it goes for another.
LEMMA WorkerOwners ==
  ASSUME IInv, SInv, OInv, NEW w \in Workers, WorkerStep(w)
  PROVE  OInv'
<1> USE ServerAssumption, QueueAssumption DEF Threads, Workers, Running, Advance
<1>1. /\ stage \in [Threads -> MainStages \union WorkerStages]
      /\ pc \in [Threads -> {"idle"} \union EnqLabels \union DeqLabels \union ShutLabels]
      /\ reg \in [Threads -> Fds \union {0}]
      /\ fdt = [fd \in Table |-> fdt[fd]]
      /\ \A v \in Workers : pc[v] # "idle" => reg[v] = 0
  BY DEF IInv, Control, TypeOK, SInv, Shape, OInv, Unassigned
<1>2. CASE WorkerTop(w)
  <2>1. /\ UNCHANGED <<ring, target_file, fdt>>
        /\ \A t \in Threads \ {w} : pc'[t] = pc[t] /\ reg'[t] = reg[t] /\ stage'[t] = stage[t]
        /\ ~Carries(w) /\ ~Carries(w)' /\ (pc'[w] # "idle" => reg'[w] = 0) /\ ~SendsFile(w)'
    <3>1. CASE keep_going /\ CallDequeue(w) /\ Advance(w, "got")
      BY <1>1, <1>2, <3>1 DEF WorkerTop, CallDequeue, Goto, ring, Carries, SendsFile, Serving
    <3>2. CASE ~keep_going /\ Advance(w, "exited") /\ UNCHANGED queueVars
      BY <1>1, <1>2, <3>2 DEF WorkerTop, queueVars, ring, Carries, SendsFile, Serving
    <3> QED  BY <1>2, <3>1, <3>2 DEF WorkerTop
  <2>2. (Enqueues' <=> Enqueues) /\ reg'[Main] = reg[Main]
    BY <2>1 DEF Enqueues
  <2>3. \A v \in Workers : /\ Carries(v)' <=> Carries(v)
                           /\ Carries(v) => reg'[v] = reg[v]
                           /\ pc'[v] # "idle" => reg'[v] = 0
                           /\ SendsFile(v)' => SendsFile(v)
    BY <1>1, <2>1 DEF Carries, SendsFile
  <2> QED  BY <2>1, <2>2, <2>3, OwnersAside, OthersNoConns
<1>3. CASE WorkerReads(w) \/ WorkerRespondsMissing(w) \/ WorkerRespondFails(w)
           \/ WorkerCopies(w) \/ (WorkerGot(w) /\ keep_going) \/ WorkerHeld(w)
           \/ WorkerKills(w) \/ (WorkerReleased(w) /\ UNCHANGED fdt /\ stage'[w] = "respond")
  <2>1. /\ UNCHANGED <<queueVars, fdt, target_file, keep_going>>
        /\ stage[w] \in Serving \union {"got"} /\ stage'[w] \in Serving \union {"got"}
        /\ SendsFile(w)' => SendsFile(w)
        /\ \A t \in Threads \ {w} : stage'[t] = stage[t]
    BY <1>1, <1>3 DEF WorkerReads, WorkerRespondsMissing, WorkerRespondFails, WorkerCopies,
                      WorkerGot, WorkerHeld, WorkerKills, WorkerReleased, Serving, SendsFile
  <2> QED  BY <2>1, WorkerOwnersAside DEF queueVars, ring
<1>4. CASE (WorkerGot(w) /\ ~keep_going) \/ WorkerReadFails(w) \/ WorkerCloses(w)
           \/ WorkerQuits(w) \/ (WorkerReleased(w) /\ Close(reg[w]) /\ Advance(w, "exited"))
  <2>1. /\ stage[w] \in Serving \union {"got"} /\ pc[w] = "idle" /\ Close(reg[w])
        /\ UNCHANGED <<queueVars, target_file, keep_going>>
        /\ \E label \in {"top", "exited"} : Advance(w, label)
    BY <1>4 DEF WorkerGot, WorkerReadFails, WorkerReleased, WorkerCloses, WorkerQuits, Serving
  <2> HIDE DEF Advance
  <2> QED  BY <2>1, CloseOwners
<1>5. CASE WorkerOpens(w) \/ WorkerCopyFails(w) \/ WorkerClosesFile(w)
  BY <1>5, FileOwners
<1>6. CASE WorkerReleased(w)
  <2>1. \/ UNCHANGED fdt /\ stage'[w] = "respond"
        \/ Close(reg[w]) /\ Advance(w, "exited")
    BY <1>1, <1>6 DEF WorkerReleased, Running
  <2> QED  BY <1>3, <1>4, <1>6, <2>1
<1> QED  BY <1>2, <1>3, <1>4, <1>5, <1>6 DEF WorkerStep

\* Of the queue's steps only EnqAdd and DeqRemove pass a connection on.
LEMMA QueueOwners ==
  ASSUME IInv, SInv, OInv, UNCHANGED serverVars, NEW t \in Threads,
         SpuriousWake(t) \/ (t = Main /\ (EnqStep(t) \/ ShutStep(t)))
                         \/ (t \in Workers /\ DeqStep(t))
  PROVE  OInv'
<1> USE ServerAssumption, QueueAssumption DEF Threads, Workers
<1>1. /\ pc \in [Threads -> {"idle"} \union EnqLabels \union DeqLabels \union ShutLabels]
      /\ reg \in [Threads -> Fds \union {0}]
      /\ \A v \in Workers : pc[v] # "idle" => reg[v] = 0 /\ stage[v] = "got" /\ ~Carries(v)
      /\ \A v \in Workers : pc[v] \in {"idle"} \union DeqLabels
  BY DEF IInv, Control, TypeOK, SInv, Paired, OInv, Unassigned, Carries
<1>2. FilesOwned'
  BY DEF OInv, FilesOwned, serverVars
<1>3. Enqueues => ~shutdown
  BY DEF SInv, Paired, Orderly, Enqueues
<1>4. CASE EnqAdd(Main)
  <2>1. length < Capacity
    BY <1>4 DEF EnqAdd, IInv, Control, RoomToMove
  <2>2. Enqueues /\ ~Enqueues'
    BY <1>1, <1>4 DEF EnqAdd, ReturnAndSignal, Goto, Enqueues, EnqLabels, empty
  <2>3. \A w \in Workers : reg'[w] = reg[w] /\ (pc'[w] # "idle" => pc[w] # "idle")
    BY <1>1, <1>4 DEF EnqAdd, ReturnAndSignal, Goto, empty
  <2>4. OneOwner'
    BY <1>4, <2>1, <2>2, <2>3, OwnersEnqueue DEF EnqAdd, OInv
  <2>5. Unassigned'
    BY <2>3 DEF OInv, Unassigned
  <2> QED  BY <1>2, <2>4, <2>5 DEF OInv
<1>5. ASSUME NEW w \in Workers, DeqRemove(w)  PROVE OInv'
  <2>1. length > 0 /\ pc[w] # "idle"
    BY <1>5 DEF DeqRemove, IInv, Control, RoomToMove
  <2>2. Enqueues' <=> Enqueues
    BY <1>1, <1>5 DEF DeqRemove, ReturnAndSignal, Goto, Enqueues, EnqLabels, full
  <2>3. \A v \in Workers : v # w => reg'[v] = reg[v] /\ pc'[v] = pc[v]
    BY <1>1, <1>5 DEF DeqRemove, ReturnAndSignal, Goto, full, DeqLabels
  <2>4. pc'[w] = "idle"
    BY <1>1, <1>5 DEF DeqRemove, ReturnAndSignal, Goto, full
  <2>5. OneOwner'
    BY <1>1, <1>5, <2>1, <2>2, OwnersDequeue DEF DeqRemove, ReturnAndSignal, OInv
  <2>6. Unassigned'
    BY <2>3, <2>4 DEF OInv, Unassigned
  <2> QED  BY <1>2, <2>5, <2>6 DEF OInv
<1>6. CASE /\ UNCHANGED ring /\ reg' = reg
           /\ Enqueues' <=> Enqueues
           /\ \A w \in Workers : pc'[w] # "idle" => pc[w] # "idle"
  <2>1. OneOwner'
    BY <1>6, OwnersStay DEF OInv, Conns, Carries, serverVars
  <2>2. Unassigned'
    BY <1>6 DEF OInv, Unassigned
  <2> QED  BY <1>2, <2>1, <2>2 DEF OInv
<1>7. CASE (t = Main /\ EnqStep(t)) /\ ~EnqAdd(t)
  BY <1>1, <1>3, <1>6, <1>7
     DEF EnqStep, EnqLock, EnqCheck, EnqTest, EnqWait, EnqWake, EnqRecheck, Goto, Return, ring,
         Enqueues, EnqLabels
<1>8. CASE SpuriousWake(t)
  BY <1>1, <1>6, <1>8 DEF SpuriousWake, Goto, ring, Enqueues, EnqLabels, DeqLabels, full, empty
<1>9. CASE t = Main /\ ShutStep(t)
  <2>1. \A w \in Workers : w \notin full
    BY <1>1 DEF full, DeqLabels
  <2>2. UNCHANGED ring /\ \A w \in Workers : reg'[w] = reg[w]
    BY <1>1, <1>9 DEF ShutStep, ShutSet, ShutEmpty, ShutFull, ring
  <2>3. ~Enqueues /\ ~Enqueues'
    BY <1>1, <1>9
       DEF ShutStep, ShutSet, ShutEmpty, ShutFull, Goto, Enqueues, EnqLabels, empty, full
  <2>4. \A w \in Workers : pc'[w] # "idle" => pc[w] # "idle"
    BY <1>1, <1>9, <2>1 DEF ShutStep, ShutSet, ShutEmpty, ShutFull, Goto, empty, full
  <2>5. OneOwner'
    BY <2>2, <2>3, OwnersStay DEF OInv, Conns, Carries, serverVars
  <2>6. Unassigned'
    BY <2>2, <2>4 DEF OInv, Unassigned
  <2> QED  BY <1>2, <2>5, <2>6 DEF OInv
<1>10. CASE t \in Workers /\ DeqStep(t) /\ ~DeqRemove(t)
  <2>1. UNCHANGED ring /\ reg' = reg
    <3>1. reg[t] = 0
      BY <1>1, <1>10 DEF DeqStep, DeqLock, DeqCheck, DeqTest, DeqWait, DeqWake, DeqRecheck
    <3> QED  BY <1>1, <1>10, <3>1
                DEF DeqStep, DeqLock, DeqCheck, DeqTest, DeqWait, DeqWake, DeqRecheck, Return, ring
  <2>2. pc[t] # "idle" /\ \A v \in Threads : v # t => pc'[v] = pc[v]
    BY <1>1, <1>10 DEF DeqStep, DeqLock, DeqCheck, DeqTest, DeqWait, DeqWake, DeqRecheck,
                       Return, Goto
  <2>3. Enqueues' <=> Enqueues
    BY <1>10, <2>2 DEF Enqueues
  <2> QED  BY <1>6, <2>1, <2>2, <2>3
<1> QED  BY <1>4, <1>5, <1>7, <1>8, <1>9, <1>10

-------------------------------------------------------------------------------

\* From the start, and step by step.
LEMMA OwnersInvariance == ServerSpec => [](IInv /\ SInv /\ OInv)
<1>1. ServerInit => OInv
  <2> SUFFICES ASSUME ServerInit  PROVE OInv
    OBVIOUS
  <2> USE ServerAssumption DEF ServerInit, QueueInit, Threads, Workers
  <2>1. Conns = {}
    BY DEF Conns, Object, Nothing
  <2>2. Holders = {}
    BY DEF Holders, EnqLabels, Serving
  <2> QED  BY <2>1, <2>2 DEF OInv, OneOwner, Unassigned, FilesOwned
<1>2. IInv /\ SInv /\ OInv /\ [ServerNext]_vars => OInv'
  <2> SUFFICES ASSUME IInv, SInv, OInv, [ServerNext]_vars  PROVE OInv'
    OBVIOUS
  <2>1. CASE MainStep
    BY <2>1, MainOwners, AcceptOwners
  <2>2. CASE \E w \in Workers : WorkerStep(w)
    BY <2>2, WorkerOwners
  <2>3. ASSUME NEW t \in Threads, QueueStep(t) \/ ServerSpuriousWake(t)  PROVE OInv'
    BY <2>3, QueueOwners DEF QueueStep, ServerSpuriousWake
  <2>4. CASE Sigint
    <3>1. /\ UNCHANGED <<queueVars, fdt, target_file>>
          /\ \A w \in Workers : stage'[w] = stage[w]
      BY <2>4, ServerAssumption, QueueAssumption DEF Sigint, Advance, SInv, Shape, Threads, Workers
    <3> QED  BY <3>1, OwnersStay
                DEF OInv, Conns, Enqueues, Carries, Unassigned, FilesOwned, queueVars, ring
  <2>5. CASE (\E c \in Clients : Connect(c)) \/ UNCHANGED vars
    <3>1. UNCHANGED <<queueVars, fdt, target_file, stage>>
      BY <2>5 DEF Connect, vars, serverVars
    <3> QED  BY <3>1, OwnersStay
                DEF OInv, Conns, Enqueues, Carries, Unassigned, FilesOwned, queueVars, ring
  <2> QED  BY <2>1, <2>2, <2>3, <2>4, <2>5 DEF ServerNext
<1> QED  BY ServerInvariance, <1>1, <1>2, PTL DEF ServerSpec

\* http_server.c: a connection is in one hand at every moment, in main's, the queue's or a
\* worker's, and what is held is a connection: for any number of workers, clients and
\* descriptors, whatever fails.
THEOREM OneOwnerEach == ServerSpec => []ConnectionsHaveOneOwner
<1>1. OneOwner => ConnectionsHaveOneOwner
  <2> SUFFICES ASSUME OneOwner, NEW fd \in Conns
               PROVE  Cardinality({h \in Holders : HeldFd(h) = fd}) = 1
    BY DEF OneOwner, ConnectionsHaveOneOwner, Conns
  <2>1. PICK h \in Holders : HeldFd(h) = fd
    BY DEF OneOwner
  <2>2. {g \in Holders : HeldFd(g) = fd} = {h}
    BY <2>1 DEF OneOwner
  <2> QED  BY <2>2, FS_Singleton
<1> QED  BY OwnersInvariance, <1>1, PTL DEF OInv
===============================================================================
