------------------------------ MODULE HttpServer ------------------------------
(***************************************************************************)
(* proj4-code/part2/http_server.c: one thread accepts connections and puts *)
(* them on the connection queue, the workers take them off and answer      *)
(* them, and SIGINT, blocked in every worker, tells the accepting thread   *)
(* to stop.  The queue's own steps are those of ConnectionQueue.           *)
(*                                                                         *)
(* stage[t] is where a thread is in main or respond; while pc[t] # "idle"  *)
(* it is inside the queue call its last stage made, and reg[t] is what     *)
(* that call returned.  A worker keeps its client_fd in reg.  Descriptors  *)
(* are numbers given out lowest first by the kernel, in `fdt'; 1 and 2 are *)
(* never closed and are left out.                                          *)
(*                                                                         *)
(* The text of a request and of a response is HttpExchange's subject; here *)
(* a client's request is one of a few kinds, which tell apart what it does *)
(* to the worker that takes it, and a response is complete, is cut short,  *)
(* or carries the wrong file.                                              *)
(***************************************************************************)
EXTENDS ConnectionQueue, Sequences

CONSTANTS
  Main,       \* the thread that runs main
  Clients,    \* programs that connect, each once
  Requests,   \* the kinds of request each client may turn out to make
  Faults,     \* what else may happen: a subset of FaultKinds
  NoId        \* the owner of an object that has none

\* What there is to a request, whether its client knows or not:
\*   file        whole at the first read, for a regular file of a known type
\*   missing     for a file that is not there
\*   untyped     for a file whose extension get_mime_type does not know
\*   unreadable  stat, open or read fails on the file (a directory, say)
\*   full        its bytes are a multiple of BUFSIZE
\*   torn        the first read returns part of its first line
\*   malformed   its first line is not what the parser looks for
\*   silent      the client connects and sends nothing for a time
\*   gone        the client closes the connection or resets it early
Kinds == {"file", "missing", "untyped", "unreadable", "full", "torn", "malformed",
          "silent", "gone"}

FaultKinds == {"sigint", "setup", "accept"}
Workers == Consumers

ASSUME ServerAssumption ==
  /\ Producers = {Main}
  /\ Requests \in [Clients -> SUBSET Kinds]
  /\ Faults \subseteq FaultKinds
  /\ \A fd \in Fds : fd > 3

VARIABLES
  keep_going, \* cleared by handle_sigint
  stage,      \* where each thread is in main or respond
  fdt,        \* the process's descriptor table
  target_file,\* each worker's descriptor of the file it sends
  backlog,    \* connections the kernel holds for accept, oldest first
  status,     \* what each client has seen of the server
  fate        \* "running", "freed" after connection_queue_free, or "killed"

serverVars == <<keep_going, stage, fdt, target_file, backlog, status, fate>>
vars == <<queueVars, serverVars>>

sock_fd == 3
Table == {0, sock_fd} \union Fds

Object(kind, id) == [kind |-> kind, id |-> id]
Nothing == Object("none", NoId)

Free == {fd \in Table : fdt[fd] = Nothing}

\* The descriptor the kernel gives out next.
Lowest(fd) == fd \in Free /\ \A other \in Free : fd <= other

Advance(t, label) == stage' = [stage EXCEPT ![t] = label]

\* close(fd): harmless on a number that is not open; a client whose connection
\* goes away before the response was complete is dropped.
Close(fd) ==
  /\ fdt' = [fdt EXCEPT ![fd] = Nothing]
  /\ status' = [c \in Clients |->
                  IF fdt[fd] = Object("conn", c) /\ status[c] = "open"
                  THEN "dropped" ELSE status[c]]

Running(t, label) == stage[t] = label /\ pc[t] = "idle" /\ fate = "running"

ServerInit ==
  /\ QueueInit
  /\ keep_going = TRUE
  /\ stage = [t \in Threads |-> IF t = Main THEN "create" ELSE "none"]
  /\ fdt = [fd \in Table |-> IF fd = 0 THEN Object("stdin", NoId) ELSE Nothing]
  /\ target_file = [w \in Workers |-> 0]
  /\ backlog = <<>>
  /\ status = [c \in Clients |-> "none"]
  /\ fate = "running"

-------------------------------------------------------------------------------
\* The world outside

\* handle_sigint runs in the main thread only: it interrupts accept if main is
\* blocked there (EINTR, no SA_RESTART), and otherwise just leaves its mark.
Sigint ==
  /\ "sigint" \in Faults
  /\ fate # "killed"
  /\ stage[Main] \notin {"create", "return", "exited"}
  /\ keep_going' = FALSE
  /\ IF stage[Main] = "accepting" THEN Advance(Main, "cleanup") ELSE UNCHANGED stage
  /\ UNCHANGED <<queueVars, fdt, target_file, backlog, status, fate>>

Connect(c) ==
  /\ fate # "killed"
  /\ status[c] = "none"
  /\ fdt[sock_fd] = Object("listen", NoId)
  /\ status' = [status EXCEPT ![c] = "waiting"]
  /\ backlog' = Append(backlog, c)
  /\ UNCHANGED <<queueVars, keep_going, stage, fdt, target_file, fate>>

-------------------------------------------------------------------------------
\* main

MainCreate(w) ==
  /\ Running(Main, "create")
  /\ stage[w] = "none"
  /\ Advance(w, "top")
  /\ UNCHANGED <<queueVars, keep_going, fdt, target_file, backlog, status, fate>>

\* Unblock the signals, then getaddrinfo, socket, bind and listen.
MainListen ==
  /\ Running(Main, "create")
  /\ \A w \in Workers : stage[w] # "none"
  /\ fdt' = [fdt EXCEPT ![sock_fd] = Object("listen", NoId)]
  /\ Advance(Main, "loop")
  /\ UNCHANGED <<queueVars, keep_going, target_file, backlog, status, fate>>

\* Any of them, or pthread_create, fails: shut the queue down, free it, return.
MainSetupFails ==
  /\ "setup" \in Faults
  /\ Running(Main, "create")
  /\ CallShutdown(Main)
  /\ Advance(Main, "abort")
  /\ UNCHANGED <<keep_going, fdt, target_file, backlog, status, fate>>

MainAbort ==
  /\ Running(Main, "abort")
  /\ fate' = "freed"
  /\ Advance(Main, "return")
  /\ UNCHANGED <<queueVars, keep_going, fdt, target_file, backlog, status>>

MainTest ==
  /\ Running(Main, "loop")
  /\ Advance(Main, IF keep_going THEN "accept" ELSE "cleanup")
  /\ UNCHANGED <<queueVars, keep_going, fdt, target_file, backlog, status, fate>>

MainBlock ==
  /\ Running(Main, "accept")
  /\ backlog = <<>>
  /\ Advance(Main, "accepting")
  /\ UNCHANGED <<queueVars, keep_going, fdt, target_file, backlog, status, fate>>

MainAccept ==
  /\ Running(Main, "accept") \/ Running(Main, "accepting")
  /\ backlog # <<>>
  /\ backlog' = Tail(backlog)
  /\ status' = [status EXCEPT ![Head(backlog)] = "open"]
  /\ \E fd \in Table : /\ Lowest(fd)
                       /\ fdt' = [fdt EXCEPT ![fd] = Object("conn", Head(backlog))]
                       /\ CallEnqueue(Main, fd)
  /\ Advance(Main, "loop")
  /\ UNCHANGED <<keep_going, target_file, fate>>

\* An accept error, or no descriptor left for the connection (EMFILE).
MainAcceptFails ==
  /\ Running(Main, "accept") \/ Running(Main, "accepting")
  /\ "accept" \in Faults \/ (backlog # <<>> /\ Free = {})
  /\ Close(sock_fd)
  /\ Advance(Main, "cleanup")
  /\ UNCHANGED <<queueVars, keep_going, target_file, backlog, fate>>

\* Mutant: main raises the flag itself instead of calling shutdown.
MainCleanupBySetting ==
  /\ Running(Main, "cleanup")
  /\ shutdown' = TRUE
  /\ Advance(Main, "join")
  /\ UNCHANGED <<ring, lock, pc, reg, keep_going, fdt, target_file, backlog, status, fate>>

MainCleanup ==
  /\ Running(Main, "cleanup")
  /\ CallShutdown(Main)
  /\ Advance(Main, "join")
  /\ UNCHANGED <<keep_going, fdt, target_file, backlog, status, fate>>

\* The last pthread_join returns; free the queue and close the socket.
MainJoin ==
  /\ Running(Main, "join")
  /\ \A w \in Workers : stage[w] = "exited"
  /\ fate' = "freed"
  /\ Close(sock_fd)
  /\ Advance(Main, "return")
  /\ UNCHANGED <<queueVars, keep_going, target_file, backlog>>

MainReturn ==
  /\ stage[Main] = "return"
  /\ Advance(Main, "exited")
  /\ UNCHANGED <<queueVars, keep_going, fdt, target_file, backlog, status, fate>>

MainStep ==
  \/ MainListen \/ MainSetupFails \/ MainAbort \/ MainTest \/ MainBlock \/ MainAccept
  \/ MainAcceptFails \/ MainCleanup \/ MainJoin \/ MainReturn
  \/ \E w \in Workers : MainCreate(w)

-------------------------------------------------------------------------------
\* respond

WorkerTop(w) ==
  /\ Running(w, "top")
  /\ \/ keep_going /\ CallDequeue(w) /\ Advance(w, "got")
     \/ ~keep_going /\ Advance(w, "exited") /\ UNCHANGED queueVars
  /\ UNCHANGED <<keep_going, fdt, target_file, backlog, status, fate>>

\* The dequeue is over.  It returns 0 when the queue is shut down, never -1,
\* so what is closed here is whatever has descriptor 0.
WorkerGot(w) ==
  /\ Running(w, "got")
  /\ \/ keep_going /\ Advance(w, "read") /\ UNCHANGED <<fdt, status>>
     \/ ~keep_going /\ Close(reg[w]) /\ Advance(w, "exited")
  /\ UNCHANGED <<queueVars, keep_going, target_file, backlog, fate>>

Client(w) == fdt[reg[w]].id

\* The request this worker has in hand may be of one of these kinds.
May(w, kinds) ==
  /\ fdt[reg[w]].kind = "conn"
  /\ Requests[Client(w)] \intersect kinds # {}

\* read_http_request returns 0.  (Of a torn line it takes for a path what it
\* finds: the bytes behind it are those malloc returned.)
WorkerReads(w) ==
  /\ Running(w, "read")
  /\ May(w, {"file", "missing", "untyped", "unreadable", "torn", "gone"})
  /\ Advance(w, "respond")
  /\ UNCHANGED <<queueVars, keep_going, fdt, target_file, backlog, status, fate>>

\* It returns 1, for anything that is not a connection too.
WorkerReadFails(w) ==
  /\ Running(w, "read")
  /\ fdt[reg[w]].kind # "conn" \/ May(w, {"malformed", "torn", "gone"})
  /\ Close(reg[w])
  /\ Advance(w, "exited")
  /\ UNCHANGED <<queueVars, keep_going, target_file, backlog, fate>>

\* read blocks: nothing has come yet, or the first read filled the buffer and
\* the loop that clears the rest asks for more.
WorkerHeld(w) ==
  /\ Running(w, "read")
  /\ May(w, {"full", "silent"})
  /\ Advance(w, "held")
  /\ UNCHANGED <<queueVars, keep_going, fdt, target_file, backlog, status, fate>>

\* The client has shut its side down: the end of a request that came whole, an
\* empty request or a read error otherwise.
WorkerReleased(w) ==
  /\ Running(w, "held")
  /\ \/ May(w, {"full"}) /\ Advance(w, "respond") /\ UNCHANGED <<fdt, status>>
     \/ Close(reg[w]) /\ Advance(w, "exited")
  /\ UNCHANGED <<queueVars, keep_going, target_file, backlog, fate>>

\* The process is gone: the parser ran out of its buffer, or strcmp got the NULL
\* of get_mime_type, or the pointer that only an existing file sets.
WorkerKills(w) ==
  /\ \/ Running(w, "read") /\ (fdt[reg[w]].kind \in {"stdin", "file"}
                                 \/ May(w, {"malformed", "torn"}))
     \/ Running(w, "respond") /\ May(w, {"missing", "untyped", "torn"})
  /\ fate' = "killed"
  /\ UNCHANGED <<queueVars, keep_going, stage, fdt, target_file, backlog, status>>

\* write_http_response on a file that is not there, if the comparison with a type
\* that was never set does no harm: the header is all.
WorkerRespondsMissing(w) ==
  /\ Running(w, "respond")
  /\ May(w, {"missing", "torn", "full"})
  /\ status' = [status EXCEPT ![Client(w)] = "answered"]
  /\ Advance(w, "close")
  /\ UNCHANGED <<queueVars, keep_going, fdt, target_file, backlog, fate>>

\* Mutant: open's result is not tested.
WorkerOpensUnchecked(w) ==
  /\ Running(w, "respond")
  /\ May(w, {"file", "unreadable", "torn", "full", "gone"})
  /\ fdt' = [fd \in Table |-> IF Lowest(fd) THEN Object("file", w) ELSE fdt[fd]]
  /\ \E fd \in Table \union {-1} :
       /\ IF Free = {} THEN fd = -1 ELSE Lowest(fd)
       /\ target_file' = [target_file EXCEPT ![w] = fd]
  /\ Advance(w, "copy")
  /\ UNCHANGED <<queueVars, keep_going, backlog, status, fate>>

\* The header is written and the file opened.
WorkerOpens(w) ==
  /\ Running(w, "respond")
  /\ May(w, {"file", "unreadable", "torn", "full", "gone"})
  /\ \E fd \in Table : /\ Lowest(fd)
                       /\ fdt' = [fdt EXCEPT ![fd] = Object("file", w)]
                       /\ target_file' = [target_file EXCEPT ![w] = fd]
  /\ Advance(w, "copy")
  /\ UNCHANGED <<queueVars, keep_going, backlog, status, fate>>

\* A stat, write or open error before the copy.
WorkerRespondFails(w) ==
  /\ Running(w, "respond")
  /\ May(w, {"unreadable", "torn", "full", "gone"}) \/ Free = {}
  /\ Advance(w, "quit")
  /\ UNCHANGED <<queueVars, keep_going, fdt, target_file, backlog, status, fate>>

\* The copy loop reads whatever file the descriptor names by now.
WorkerCopies(w) ==
  /\ Running(w, "copy")
  /\ May(w, {"file", "torn", "full", "gone"})
  /\ fdt[target_file[w]].kind = "file"
  /\ status' = [status EXCEPT ![Client(w)] =
                  IF fdt[target_file[w]].id = w THEN "answered" ELSE "garbled"]
  /\ Advance(w, "closefile")
  /\ UNCHANGED <<queueVars, keep_going, fdt, target_file, backlog, fate>>

\* Mutant: the error path closes the client's descriptor, as its caller will.
WorkerCopyFailsClosing(w) ==
  /\ Running(w, "copy")
  /\ May(w, {"unreadable", "torn", "full", "gone"}) \/ fdt[target_file[w]].kind # "file"
  /\ Close(reg[w])
  /\ Advance(w, "quit")
  /\ UNCHANGED <<queueVars, keep_going, target_file, backlog, fate>>

\* The client is gone (EPIPE), the file is a directory (EISDIR), or the descriptor
\* is no longer open (EBADF).
WorkerCopyFails(w) ==
  /\ Running(w, "copy")
  /\ May(w, {"unreadable", "torn", "full", "gone"}) \/ fdt[target_file[w]].kind # "file"
  /\ Close(target_file[w])
  /\ Advance(w, "quit")
  /\ UNCHANGED <<queueVars, keep_going, target_file, backlog, fate>>

\* close(target_file) fails on a descriptor somebody else has closed.
WorkerClosesFile(w) ==
  /\ Running(w, "closefile")
  /\ Close(target_file[w])
  /\ Advance(w, IF fdt[target_file[w]] = Nothing THEN "quit" ELSE "close")
  /\ UNCHANGED <<queueVars, keep_going, target_file, backlog, fate>>

WorkerCloses(w) ==
  /\ Running(w, "close")
  /\ Close(reg[w])
  /\ Advance(w, "top")
  /\ UNCHANGED <<queueVars, keep_going, target_file, backlog, fate>>

\* write_http_response returned 1: close the connection, end the thread.
WorkerQuits(w) ==
  /\ Running(w, "quit")
  /\ Close(reg[w])
  /\ Advance(w, "exited")
  /\ UNCHANGED <<queueVars, keep_going, target_file, backlog, fate>>

WorkerStep(w) ==
  \/ WorkerTop(w) \/ WorkerGot(w) \/ WorkerReads(w) \/ WorkerReadFails(w)
  \/ WorkerHeld(w) \/ WorkerReleased(w) \/ WorkerKills(w)
  \/ WorkerRespondsMissing(w) \/ WorkerOpens(w) \/ WorkerRespondFails(w)
  \/ WorkerCopies(w) \/ WorkerCopyFails(w) \/ WorkerClosesFile(w)
  \/ WorkerCloses(w) \/ WorkerQuits(w)

-------------------------------------------------------------------------------
\* A step inside a call of the queue.  What a thread does to a queue that has
\* been freed is undefined; the model stops there.
QueueStep(t) ==
  /\ fate = "running"
  /\ \/ t = Main /\ (EnqStep(t) \/ ShutStep(t))
     \/ t \in Workers /\ DeqStep(t)
  /\ UNCHANGED serverVars

ServerSpuriousWake(t) == fate = "running" /\ SpuriousWake(t) /\ UNCHANGED serverVars

ServerNext ==
  \/ Sigint
  \/ \E c \in Clients : Connect(c)
  \/ MainStep
  \/ \E w \in Workers : WorkerStep(w)
  \/ \E t \in Threads : QueueStep(t) \/ ServerSpuriousWake(t)

ServerSpec == ServerInit /\ [][ServerNext]_vars

\* A refused dequeue returned 0 and the worker took it for a connection.
ReadsStdin(w) == stage[w] = "read" /\ fdt[reg[w]].kind = "stdin"

\* In a read that only somebody outside can end.
Waits(w) == stage[w] = "held" \/ ReadsStdin(w)

\* Threads run, and the mutex is not withheld for ever from a thread that keeps
\* asking.  Connections, signals, what a client that holds a worker sends or what
\* somebody may type on the standard input come when they come, if ever.
ServerFairness ==
  /\ WF_vars(MainStep)
  /\ \A w \in Workers : WF_vars(~Waits(w) /\ WorkerStep(w))
  /\ \A t \in Threads : /\ WF_vars(QueueStep(t))
                        /\ SF_vars(/\ pc[t] \in {"enq_lock", "enq_wake",
                                                 "deq_lock", "deq_wake"}
                                   /\ QueueStep(t))

ServerFairSpec == ServerSpec /\ ServerFairness

-------------------------------------------------------------------------------
(* Properties *)

Serving == {"read", "held", "respond", "copy", "closefile", "close", "quit"}

\* Values have their shapes, and stage and pc agree: a thread is inside a queue
\* call only where main or respond has made it.
ServerTypeOK ==
  /\ keep_going \in BOOLEAN
  /\ stage[Main] \in {"create", "abort", "loop", "accept", "accepting", "cleanup",
                      "join", "return", "exited"}
  /\ \A w \in Workers : stage[w] \in {"none", "top", "got", "exited"} \union Serving
  /\ \A fd \in Table : fdt[fd].kind \in {"none", "stdin", "listen", "conn", "file"}
  /\ target_file \in [Workers -> Table]
  /\ status \in [Clients -> {"none", "waiting", "open", "answered", "garbled", "dropped"}]
  /\ fate \in {"running", "freed", "killed"}
  /\ pc[Main] \in EnqLabels => stage[Main] = "loop"
  /\ pc[Main] \in ShutLabels => stage[Main] \in {"abort", "join"}
  /\ \A w \in Workers : pc[w] # "idle" => stage[w] = "got"

\* Where the program keeps a descriptor it takes for a connection: main on its
\* way into the queue, a queued slot, or a worker from dequeue to close.
Holders ==
  (IF pc[Main] \in EnqLabels THEN {<<"main", Main>>} ELSE {})
    \union {<<"slot", k>> : k \in 1 .. length}
    \union {<<"worker", w>> : w \in {v \in Workers : /\ stage[v] \in Serving \union {"got"}
                                                     /\ reg[v] # 0}}

HeldFd(h) == IF h[1] = "slot" THEN Contents[h[2]] ELSE reg[h[2]]

\* Every open connection has one owner at every moment of its way from accept
\* to close, and whatever is held is open: nothing is leaked, answered twice,
\* or closed under another thread although numbers are reused at once.
ConnectionsHaveOneOwner ==
  /\ \A fd \in Table : fdt[fd].kind = "conn" =>
       Cardinality({h \in Holders : HeldFd(h) = fd}) = 1
  /\ \A h \in Holders : fdt[HeldFd(h)].kind = "conn"

\* Nobody accepts any more, or there is nobody left.
Stopping ==
  \/ ~keep_going
  \/ fate # "running"
  \/ stage[Main] \notin {"create", "loop", "accept", "accepting"}


\* The broadcasts are over and have missed no worker.
AllReleased ==
  /\ stage[Main] = "join" /\ pc[Main] = "idle"
  /\ \A w \in Workers : pc[w] \notin {"deq_wait", "deq_asleep"}

\* What keeps a server from ending after a SIGINT is a worker the broadcast has
\* missed (which ShutdownMissesOne bounds), a client that holds its worker, or a
\* worker that reads the terminal, and nothing else: main joins them all, and
\* returns.
JoinCompletes ==
  AllReleased /\ ~keep_going ~>
    stage[Main] = "exited" \/ fate = "killed" \/ \E w \in Workers : Waits(w)

\* The broadcast misses only those who are not asleep yet: a worker that sleeps
\* when it runs comes back from dequeue, whether a signal or a failing accept
\* has ended the loop, unless the queue is freed under it.
BroadcastReleases ==
  \A w \in Workers :
     pc[Main] = "shut_empty" /\ pc[w] = "deq_asleep" ~> pc[w] = "idle" \/ fate # "running"

\* http_server.c:244 -- "cleanup; reached even if sigint thanks to our handler."
CleanupReached == ~keep_going ~> stage[Main] \in {"join", "return", "exited"}

\* A file once opened for a client that stays is sent to it whole, and it is
\* the right one.  (The workers close only what dequeue handed them, and
\* connection_queue.h:45 says that is "the removed socket file descriptor".)
ResponsesIntact ==
  [][\A w \in Workers :
       (stage[w] = "copy" /\ stage'[w] # "copy") =>
         Requests[Client(w)] # {"file"} \/ status'[Client(w)] = "answered"]_vars
===============================================================================
