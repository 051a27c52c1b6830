--------------------------- MODULE SequentialServer ---------------------------
(***************************************************************************)
(* proj4-code/part1/http_server.c: the server without threads.  It accepts *)
(* a connection, goes through one exchange (module HttpExchange), closes   *)
(* the connection and accepts the next; any error of either function of    *)
(* http.c ends it, and so does SIGINT, which interrupts accept, read and a *)
(* write that blocks.  SIGPIPE has its default action here.                *)
(***************************************************************************)
EXTENDS HttpExchange

VARIABLES
  keep_going, \* cleared by handle_sigint
  stage,      \* where main is
  sock_fd,    \* the listening socket is open
  client_fd,  \* the connection is open
  code        \* what main returned, or -1

mainVars == <<keep_going, stage, sock_fd, client_fd, code>>
serverVars == <<exchangeVars, mainVars>>

SequentialInit ==
  /\ ExchangeInit
  /\ keep_going = TRUE
  /\ stage = "setup"
  /\ sock_fd = FALSE
  /\ client_fd = FALSE
  /\ code = -1

Return(value) == stage' = "exited" /\ code' = value

\* handle_sigint, while main is not in a call that it interrupts.
Sigint ==
  /\ stage \notin {"exited", "killed"}
  /\ keep_going' = FALSE
  /\ IF stage = "accepting" THEN stage' = "cleanup" ELSE UNCHANGED stage
  /\ UNCHANGED <<exchangeVars, sock_fd, client_fd, code>>

\* SIGINT while main waits for a request, or for the rest of one: read returns
\* -1 (EINTR, no SA_RESTART), and read_http_request 1.
SigintInRead ==
  /\ stage = "serving"
  /\ at \in {"read", "drain"} /\ inbox = 0
  /\ keep_going' = FALSE
  /\ ReadReturns(1)
  /\ UNCHANGED <<clientVars, inbox, resource, whole_line, stage, sock_fd, client_fd, code>>

\* SIGINT while write waits for the client to take in what was sent before: it
\* returns -1 if nothing has been transferred, and otherwise the count, which
\* write_http_response takes for success.
SigintInWrite ==
  /\ stage = "serving"
  /\ Chunk /\ copied > 0
  /\ keep_going' = FALSE
  /\ CopyFails \/ CopyShort
  /\ UNCHANGED <<stage, sock_fd, client_fd, code>>

\* A write to a client that has hung up, instead of returning -1.
Sigpipe ==
  /\ stage = "serving"
  /\ gone
  /\ at = "header" \/ Chunk
  /\ at' = "crashed"
  /\ UNCHANGED <<clientVars, readVars, file_type, buf, target_file, copied, body, response,
                 http_ret, mainVars>>

\* getaddrinfo, socket, bind, listen: each closes what is open before it returns.
Setup ==
  /\ stage = "setup"
  /\ \/ stage' = "loop" /\ sock_fd' = TRUE /\ UNCHANGED code
     \/ Return(1) /\ UNCHANGED sock_fd
  /\ UNCHANGED <<exchangeVars, keep_going, client_fd>>

Test ==
  /\ stage = "loop"
  /\ stage' = IF keep_going THEN "accept" ELSE "cleanup"
  /\ UNCHANGED <<exchangeVars, keep_going, sock_fd, client_fd, code>>

\* No connection is waiting: accept blocks.
Block ==
  /\ stage = "accept"
  /\ stage' = "accepting"
  /\ UNCHANGED <<exchangeVars, keep_going, sock_fd, client_fd, code>>

\* A connection: the locals of the two functions start afresh.
Accept ==
  /\ stage \in {"accept", "accepting"}
  /\ at' = "read"
  /\ request' \in Requests
  /\ sent' = 0 /\ inbox' = 0 /\ gone' = FALSE
  /\ resource' = request'.file /\ whole_line' = FALSE
  /\ file_type' = "uninitialised"
  /\ copied' = 0 /\ body' = 0 /\ response' = 0 /\ http_ret' = 0
  /\ stage' = "serving"
  /\ client_fd' = TRUE
  /\ UNCHANGED <<buf_copy, buf, target_file, keep_going, sock_fd, code>>

\* Any other error of accept.
AcceptFails ==
  /\ stage \in {"accept", "accepting"}
  /\ sock_fd' = FALSE
  /\ Return(1)
  /\ UNCHANGED <<exchangeVars, keep_going, client_fd>>

Serve ==
  /\ stage = "serving"
  /\ ServerWorks
  /\ UNCHANGED mainVars

ClientActs ==
  /\ stage = "serving"
  /\ ClientSends \/ ClientHangsUp
  /\ UNCHANGED mainVars

Served ==
  /\ stage = "serving" /\ at = "over" /\ http_ret = 0
  /\ client_fd' = FALSE
  /\ stage' = "loop"
  /\ UNCHANGED <<exchangeVars, keep_going, sock_fd, code>>

\* Mutant: an error costs the connection only, and not the server.
ServeFailedGoesOn ==
  /\ stage = "serving" /\ at = "over" /\ http_ret = 1
  /\ client_fd' = FALSE
  /\ stage' = "loop"
  /\ UNCHANGED <<exchangeVars, keep_going, sock_fd, code>>

\* An error of read_http_request or write_http_response ends the server.
ServeFailed ==
  /\ stage = "serving" /\ at = "over" /\ http_ret = 1
  /\ sock_fd' = FALSE
  /\ client_fd' = FALSE
  /\ Return(1)
  /\ UNCHANGED <<exchangeVars, keep_going>>

\* The process is killed while it is in http.c.
Crash ==
  /\ stage = "serving" /\ at = "crashed"
  /\ stage' = "killed"
  /\ sock_fd' = FALSE
  /\ client_fd' = FALSE
  /\ UNCHANGED <<exchangeVars, keep_going, code>>

Cleanup ==
  /\ stage = "cleanup"
  /\ sock_fd' = FALSE
  /\ Return(0)
  /\ UNCHANGED <<exchangeVars, keep_going, client_fd>>

MainStep ==
  Setup \/ Test \/ Block \/ Accept \/ AcceptFails \/ Serve \/ Served \/ ServeFailed
    \/ Crash \/ Cleanup

SequentialNext == Sigint \/ SigintInRead \/ SigintInWrite \/ Sigpipe \/ ClientActs \/ MainStep

SequentialSpec == SequentialInit /\ [][SequentialNext]_serverVars

\* The process runs, and a client sends what it has to send.  Main may block in
\* accept for ever: no connection is owed.
SequentialFairSpec ==
  /\ SequentialSpec
  /\ WF_serverVars(Setup \/ Test \/ Block \/ Serve \/ Served \/ ServeFailed \/ Crash \/ Cleanup)
  /\ WF_serverVars(stage = "serving" /\ ClientSends /\ UNCHANGED mainVars)

-------------------------------------------------------------------------------
(* Properties *)

\* As long as SIGINT has not come and the client stays, a response that is called
\* a success is a whole one, the 404 header alone or a body as long as the
\* Content-Length announced; and, whatever comes, it is the response to the file
\* named if the first read took the whole first line.  (A SIGINT or a reset in a
\* write may leave a hole in a body that is called a success all the same.)
SuccessIsWhole ==
  at = "over" /\ http_ret = 0 =>
    /\ \/ response = 404 /\ body = 0
       \/ response = 200 /\ copied = resource.size
                         /\ (keep_going /\ ~gone => body = resource.size)
    /\ whole_line => resource = request.file

\* Whichever way an exchange ends, with SIGINT, an error or a hang-up, the
\* connection and all that http.c opened or allocated for it are released; and
\* every return of main has closed the listening socket.
ReturnReleases ==
  /\ stage \notin {"serving", "killed"} => ~client_fd /\ ~buf_copy /\ ~buf /\ ~target_file
  /\ stage = "exited" => ~sock_fd

\* A clean exit (0) is the answer to SIGINT alone, and comes between connections:
\* the last one, if any, was answered without an error that the code saw, and the
\* file was gone through to its end.
CleanExit ==
  code = 0 =>
    /\ ~keep_going
    /\ at # "none" =>
         /\ at = "over" /\ http_ret = 0
         /\ response = 404 \/ (response = 200 /\ copied = resource.size)
===============================================================================
