------------------------ MODULE SequentialServerProofs ------------------------
(***************************************************************************)
(* What the server without threads holds and what it has sent, for any     *)
(* size of the buffer, of requests and of files.  The invariant says at    *)
(* each place in http.c what is allocated, open and sent there (Holds,     *)
(* Sent), and how main's stage, its sockets and its return value go with   *)
(* that (Main).                                                            *)
(***************************************************************************)
EXTENDS SequentialServer, TLAPS

Places == {"none", "read", "drain", "stat", "header", "open", "copy"} \union Ended

Stages == {"setup", "loop", "accept", "accepting", "serving", "cleanup", "exited", "killed"}

\* The heap copy belongs to the second loop of read_http_request, the buffer and the
\* file to the copy loop of write_http_response, also when the process dies there.
Holds ==
  /\ at \in Places
  /\ buf_copy => at = "drain"
  /\ buf => at \in {"copy", "crashed"}
  /\ target_file => at \in {"copy", "crashed"}

Sent ==
  /\ at \in {"read", "drain", "stat", "header", "open"} => copied = 0 /\ body = 0
  /\ at \in {"open", "copy"} => response = 200
  /\ at = "over" /\ http_ret = 0 =>
       \/ response = 404 /\ body = 0
       \/ response = 200 /\ copied = resource.size

RightFile ==
  /\ at = "read" => resource = request.file
  /\ whole_line => resource = request.file

Exchange == Holds /\ Sent /\ RightFile

Main ==
  /\ stage \in Stages
  /\ client_fd => stage = "serving"
  /\ stage \notin {"serving", "killed"} => at \in {"none", "over"}
  /\ stage \notin {"serving", "killed", "exited"} /\ at = "over" => http_ret = 0
  /\ stage = "cleanup" => ~keep_going
  /\ stage \in {"setup", "exited"} => ~sock_fd
  /\ code = 0 =>
       stage = "exited" /\ ~keep_going /\ (at = "over" => http_ret = 0)

\* Only SIGINT or a reset cuts a write short.
Uncut == keep_going /\ ~gone => body = copied

SeqInv == Exchange /\ Main /\ Uncut

-------------------------------------------------------------------------------
(* Steps of http.c and of the client *)

\* The three outcomes of the searches leave the right file, if the line was whole.
LEMMA ReadFirstKeeps ==
  ASSUME Exchange, ReadFirst
  PROVE  Exchange' /\ at' \in {"over", "crashed", "stat", "drain"}
<1> USE DEF Exchange
<1>1. PICK nbytes :
        \/ NoPathFound(nbytes) /\ ReadReturns(1)
        \/ SearchOverruns(nbytes)
        \/ PathFound(nbytes) /\ ReadReturns(0)
        \/ PathFound(nbytes) /\ GoOnReading
  BY DEF ReadFirst
<1>2. at = "read" /\ UNCHANGED request
  BY DEF ReadFirst, clientVars
<1>3. copied = 0 /\ body = 0 /\ resource = request.file /\ ~buf /\ ~target_file /\ ~buf_copy
  BY <1>2 DEF Holds, Sent, RightFile, Ended
<1>4. UNCHANGED <<buf, target_file, copied, body, response>>
  BY <1>1 DEF ReadReturns, SearchOverruns, GoOnReading
<1>5. whole_line' => resource' = request'.file
  BY <1>1, <1>2, <1>3 DEF NoPathFound, SearchOverruns, PathFound
<1>6. \/ at' = "over" /\ http_ret' = 1 /\ buf_copy' = FALSE
      \/ at' = "crashed" /\ UNCHANGED buf_copy
      \/ at' = "stat" /\ buf_copy' = FALSE
      \/ at' = "drain" /\ buf_copy' = TRUE
  BY <1>1 DEF ReadReturns, SearchOverruns, GoOnReading
<1>7. Holds'
  BY <1>3, <1>4, <1>6 DEF Holds, Places, Ended
<1>8. Sent'
  BY <1>3, <1>4, <1>6 DEF Sent
<1> QED BY <1>5, <1>6, <1>7, <1>8 DEF RightFile

\* A return from read_http_request, of a value other than success unless it goes on.
LEMMA ReadReturnsKeeps ==
  ASSUME Exchange, NEW ret \in {0, 1}, at \in {"read", "drain"}, ReadReturns(ret),
         UNCHANGED <<request, resource, whole_line>>
  PROVE  Exchange' /\ at' \in {"over", "stat"}
<1> USE DEF Exchange
<1>1. /\ at' = IF ret = 0 THEN "stat" ELSE "over"
      /\ http_ret' = ret /\ buf_copy' = FALSE
      /\ UNCHANGED <<buf, target_file, copied, body, response>>
  BY DEF ReadReturns
<1>2. Holds'
  BY <1>1 DEF Holds, Places, Ended
<1>3. Sent'
  BY <1>1 DEF Sent
<1> QED BY <1>1, <1>2, <1>3 DEF RightFile

\* What is sent is what the place in the code says.
LEMMA WriteKeeps ==
  ASSUME Exchange, Stat \/ Header \/ Open
  PROVE  Exchange' /\ at' \in {"over", "crashed", "header", "open", "copy"}
<1> USE DEF Exchange
<1>0. UNCHANGED <<request, resource, whole_line, buf_copy, copied, body>>
  BY DEF Stat, Header, Open, clientVars, readVars, WriteReturns
<1>1. CASE Stat
  <2>1. /\ at = "stat" /\ UNCHANGED <<buf, target_file, response>>
        /\ \/ at' = "over" /\ http_ret' = 1
           \/ at' \in {"header", "crashed"}
    BY <1>1 DEF Stat, WriteReturns
  <2> QED BY <1>0, <2>1 DEF Holds, Sent, RightFile, Places, Ended
<1>2. CASE Header
  <2>1. /\ at = "header" /\ UNCHANGED <<buf, target_file>>
        /\ \/ at' = "crashed"
           \/ at' = "over" /\ http_ret' = 1
           \/ at' = "open" /\ response' = 200
           \/ at' = "over" /\ http_ret' = 0 /\ response' = 404
    BY <1>2 DEF Header, WriteReturns
  <2> QED BY <1>0, <2>1 DEF Holds, Sent, RightFile, Places, Ended
<1>3. CASE Open
  <2>1. /\ at = "open" /\ UNCHANGED response
        /\ \/ at' = "copy" /\ buf' = TRUE /\ target_file' = TRUE
           \/ at' = "over" /\ http_ret' = 1 /\ UNCHANGED <<buf, target_file>>
    BY <1>3 DEF Open, WriteReturns
  <2> QED BY <1>0, <2>1 DEF Holds, Sent, RightFile, Places, Ended
<1> QED BY <1>1, <1>2, <1>3

\* Every way out of the copy loop releases the buffer and the file.
LEMMA CopyKeeps ==
  ASSUME Exchange,
         (\E n : CopyWrites(n)) \/ CopyError \/ CopyEnd \/ (at = "copy" /\ CopyFails)
  PROVE  Exchange' /\ at' \in {"over", "copy"}
<1> USE DEF Exchange
<1>1. at = "copy" /\ UNCHANGED <<request, resource, whole_line, buf_copy, response>>
  BY DEF CopyWrites, CopyError, CopyEnd, CopyFails, Chunk, WriteReturns, clientVars, readVars
<1>2. \/ at' = "copy" /\ UNCHANGED <<buf, target_file>>
      \/ at' = "over" /\ http_ret' = 1 /\ buf' = FALSE /\ target_file' = FALSE
      \/ /\ at' = "over" /\ http_ret' = 0 /\ buf' = FALSE /\ target_file' = FALSE
         /\ copied' = resource.size
  BY DEF CopyWrites, CopyError, CopyEnd, CopyFails, Chunk, WriteReturns
<1> QED BY <1>1, <1>2 DEF Holds, Sent, RightFile, Places, Ended

\* Each step of the two functions keeps what is said of the exchange.
LEMMA ServerWorksKeeps ==
  ASSUME Exchange, ServerWorks
  PROVE  Exchange' /\ at' # "none"
<1>1. CASE ReadFirst
  BY <1>1, ReadFirstKeeps
<1>2. CASE ReadEmpty \/ ReadToEnd \/ ReadError
  <2>1. PICK ret \in {0, 1} : at \in {"read", "drain"} /\ ReadReturns(ret)
    BY <1>2 DEF ReadEmpty, ReadToEnd, ReadError
  <2>2. UNCHANGED <<request, resource, whole_line>>
    BY <1>2 DEF ReadEmpty, ReadToEnd, ReadError, clientVars
  <2> QED BY <2>1, <2>2, ReadReturnsKeeps
<1>3. CASE ReadMore
  BY <1>3 DEF ReadMore, clientVars, Exchange, Holds, Sent, RightFile
<1>4. CASE Stat \/ Header \/ Open
  BY <1>4, WriteKeeps
<1>5. CASE CopyChunk \/ CopyCutOff \/ CopyError \/ CopyEnd
  BY <1>5, CopyKeeps DEF CopyChunk, CopyCutOff, CopyShort
<1> QED BY <1>1, <1>2, <1>3, <1>4, <1>5 DEF ServerWorks

\* What is read of the file is sent, but for the writes that are cut off.
LEMMA UncutStep ==
  ASSUME Uncut, [SequentialNext]_serverVars
  PROVE  Uncut'
<1>1. CASE Sigint \/ SigintInRead \/ SigintInWrite
  BY <1>1 DEF Sigint, SigintInRead, SigintInWrite, Uncut
<1>2. CASE Accept
  BY <1>2 DEF Accept, Uncut
<1>3. CASE Serve
  <2>1. UNCHANGED <<keep_going, gone>>
    BY <1>3 DEF Serve, mainVars, ServerWorks, ReadFirst, ReadEmpty, ReadMore, ReadToEnd,
                ReadError, Stat, Header, Open, CopyChunk, CopyCutOff, CopyShort, CopyWrites,
                CopyError, CopyEnd, CopyFails, WriteReturns, clientVars
  <2>2. CASE UNCHANGED <<copied, body>>
    BY <2>1, <2>2 DEF Uncut
  <2>3. CASE CopyChunk \/ CopyCutOff
    BY <2>1, <2>3 DEF CopyChunk, CopyCutOff, CopyWrites, Uncut
  <2>4. CASE ServerWorks /\ ~CopyChunk /\ ~CopyCutOff
    BY <2>2, <2>4 DEF ServerWorks, ReadFirst, ReadEmpty, ReadMore, ReadToEnd, ReadError,
                ReadReturns, SearchOverruns, GoOnReading, Stat, Header, Open, CopyError,
                CopyEnd, CopyFails
  <2> QED  BY <1>3, <2>3, <2>4 DEF Serve
<1>4. CASE ClientActs \/ Sigpipe \/ UNCHANGED serverVars
  BY <1>4 DEF ClientActs, ClientSends, ClientHangsUp, Sigpipe, mainVars, clientVars,
              exchangeVars, serverVars, Uncut
<1>5. CASE Setup \/ Test \/ Block \/ AcceptFails \/ Served \/ ServeFailed \/ Crash \/ Cleanup
  BY <1>5 DEF Setup, Test, Block, AcceptFails, Served, ServeFailed, Crash, Cleanup,
              exchangeVars, clientVars, Uncut
<1> QED  BY <1>1, <1>2, <1>3, <1>4, <1>5 DEF SequentialNext, MainStep

-------------------------------------------------------------------------------
(* Steps of main *)

\* While main serves, whatever becomes of the exchange.
LEMMA Serving ==
  ASSUME Main, stage = "serving", at' \in Places, at' # "none",
         keep_going' = keep_going \/ keep_going' = FALSE,
         UNCHANGED <<stage, sock_fd, client_fd, code>>
  PROVE  Main'
BY DEF Main, Stages

\* A step of main alone.
LEMMA ExchangeUnchanged ==
  ASSUME Exchange, UNCHANGED exchangeVars
  PROVE  Exchange' /\ UNCHANGED <<at, http_ret>>
BY DEF Exchange, Holds, Sent, RightFile, exchangeVars, clientVars, readVars

\* part1/http_server.c, http.c: what is held and sent at each place is what Exchange and
\* Main say, whatever the client, the files and the signals do.
THEOREM SequentialInvariant == SequentialSpec => []SeqInv
<1>1. SequentialInit => SeqInv
  BY DEF SequentialInit, ExchangeInit, SeqInv, Exchange, Holds, Sent, RightFile, Main,
         Places, Stages, Ended, Uncut
<1>2. SeqInv /\ [SequentialNext]_serverVars => SeqInv'
  <2> SUFFICES ASSUME SeqInv, [SequentialNext]_serverVars PROVE SeqInv'
    OBVIOUS
  <2>0. Uncut'
    BY UncutStep DEF SeqInv
  <2> USE <2>0 DEF SeqInv
  <2>1. CASE Sigint
    <3>1. Exchange' /\ UNCHANGED <<at, http_ret>>
      BY <2>1, ExchangeUnchanged DEF Sigint
    <3> QED BY <2>1, <3>1 DEF Sigint, Main, Stages
  <2>2. CASE SigintInRead
    <3>1. Exchange' /\ at' # "none"
      BY <2>2, ReadReturnsKeeps DEF SigintInRead, clientVars
    <3> QED BY <2>2, <3>1, Serving DEF SigintInRead, Exchange, Holds
  <2>3. CASE SigintInWrite
    <3>1. Exchange' /\ at' # "none"
      BY <2>3, CopyKeeps DEF SigintInWrite, CopyShort, Chunk
    <3> QED BY <2>3, <3>1, Serving DEF SigintInWrite, Exchange, Holds
  <2>4. CASE Sigpipe
    <3>1. Exchange' /\ at' # "none"
      BY <2>4 DEF Sigpipe, Chunk, clientVars, readVars, Exchange, Holds, Sent, RightFile, Places, Ended
    <3> QED BY <2>4, <3>1, Serving DEF Sigpipe, mainVars, Exchange, Holds
  <2>5. CASE ClientActs
    <3>1. Exchange' /\ at' # "none"
      BY <2>5 DEF ClientActs, ClientSends, ClientHangsUp, readVars, Exchange, Holds, Sent,
                  RightFile
    <3> QED BY <2>5, <3>1, Serving DEF ClientActs, mainVars, Exchange, Holds
  <2>6. CASE Serve
    <3>1. Exchange' /\ at' # "none"
      BY <2>6, ServerWorksKeeps DEF Serve
    <3> QED BY <2>6, <3>1, Serving DEF Serve, mainVars, Exchange, Holds
  <2>7. CASE Accept
    <3>1. Exchange' /\ at' = "read"
      BY <2>7 DEF Accept, Main, Exchange, Holds, Sent, RightFile, Places
    <3> QED BY <2>7, <3>1 DEF Accept, Main, Stages
  <2>8. CASE Setup \/ Test \/ Block \/ AcceptFails \/ Served \/ ServeFailed \/ Crash \/ Cleanup
    <3>1. Exchange' /\ UNCHANGED <<at, http_ret>>
      BY <2>8, ExchangeUnchanged
         DEF Setup, Test, Block, AcceptFails, Served, ServeFailed, Crash, Cleanup
    <3>2. CASE Setup \/ Test \/ Block
      BY <3>1, <3>2 DEF Setup, Test, Block, Return, Main, Stages
    <3>3. CASE AcceptFails \/ Cleanup
      BY <3>1, <3>3 DEF AcceptFails, Cleanup, Return, Main, Stages
    <3>4. CASE Served \/ ServeFailed \/ Crash
      BY <3>1, <3>4 DEF Served, ServeFailed, Crash, Return, Main, Stages
    <3> QED BY <2>8, <3>2, <3>3, <3>4
  <2>9. CASE UNCHANGED serverVars
    <3>1. Exchange' /\ UNCHANGED <<at, http_ret>>
      BY <2>9, ExchangeUnchanged DEF serverVars
    <3> QED BY <2>9, <3>1 DEF serverVars, mainVars, Main
  <2> QED BY <2>1, <2>2, <2>3, <2>4, <2>5, <2>6, <2>7, <2>8, <2>9
          DEF SequentialNext, MainStep
<1> QED BY <1>1, <1>2, PTL DEF SequentialSpec

\* part1/http_server.c, http.c: as long as neither SIGINT nor a reset cuts a write
\* short, a response that is called a success is whole, and it is the one to the file
\* named if the first line was read whole, for any buffer and file.
THEOREM WholeResponses == SequentialSpec => []SuccessIsWhole
<1>1. SeqInv => SuccessIsWhole
  BY DEF SeqInv, Exchange, Sent, RightFile, Uncut, SuccessIsWhole
<1> QED BY <1>1, SequentialInvariant, PTL

\* part1/http_server.c: outside an exchange nothing of one is open or allocated, and
\* main returns with the listening socket closed, whatever failed.
THEOREM AllReleased == SequentialSpec => []ReturnReleases
<1>1. SeqInv => ReturnReleases
  BY DEF SeqInv, Exchange, Holds, Main, ReturnReleases
<1> QED BY <1>1, SequentialInvariant, PTL

\* part1/http_server.c: main returns 0 only after SIGINT, and between two connections, of
\* which the last was answered without an error that the code looks for.
THEOREM ExitsClean == SequentialSpec => []CleanExit
<1>1. SeqInv => CleanExit
  BY DEF SeqInv, Exchange, Holds, Sent, Main, CleanExit
<1> QED BY <1>1, SequentialInvariant, PTL
===============================================================================
