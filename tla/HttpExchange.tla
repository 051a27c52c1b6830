----------------------------- MODULE HttpExchange -----------------------------
(***************************************************************************)
(* proj4-code/part1/http.c (part2/http.c differs in layout only): reading  *)
(* one request from a connection and writing the response, against a       *)
(* client that sends its request in pieces and may hang up.                *)
(*                                                                         *)
(* Sizes are counted in pieces: BUFSIZE pieces fill the buffer of read and *)
(* of the copy loop, and the first line of a request is its first `first'  *)
(* pieces.  A response is the status line's code, the Content-Length and   *)
(* the number of pieces of the body.  write may transfer less than it is   *)
(* asked to, and the code, which looks for -1 alone, goes on as if it had  *)
(* transferred all: what was read of the file and what was sent are kept   *)
(* apart.                                                                  *)
(***************************************************************************)
EXTENDS Integers, FiniteSetsExt

CONSTANTS
  BUFSIZE,    \* pieces read at a time
  MaxRequest, \* bound: pieces of a request
  MaxFile     \* bound: pieces of a file

ASSUME ExchangeAssumption ==
  /\ BUFSIZE \in Nat \ {0}
  /\ MaxRequest \in Nat \ {0}
  /\ MaxFile \in Nat

Extensions == {".txt", ".c", "no dot"}

\* What a path may lead to.  Fields that the code does not come to look at are given
\* one value only.
Files ==
  {f \in [stat : {"found", "ENOENT", "error"}, ext : Extensions,
          access : {"ok", "open fails", "read fails"}, size : 0 .. MaxFile] :
     /\ f.stat # "found" => f.ext = "no dot"
     /\ f.stat # "found" \/ f.ext = ".c" => f.access = "open fails"
     /\ f.access = "open fails" => f.size = 0
     /\ f.access = "read fails" => f.size = MaxFile}

\* A request: what its first line is like, how long that and the whole are, and the
\* file it names.
Requests ==
  {r \in [line : {"ok", "no path", "no space"}, first : 1 .. MaxRequest,
          len : 1 .. MaxRequest, file : Files] :
     /\ r.first <= r.len
     /\ r.line # "ok" => r.file.stat = "error"}

VARIABLES
  at,         \* where the code is between accept and close
  request,    \* the request of this connection
  sent,       \* pieces the client has sent
  inbox,      \* pieces sent and not read
  gone,       \* the client has hung up
  buf_copy,   \* read_http_request's heap copy is allocated
  resource,   \* where the path it found leads
  whole_line, \* the first read took the whole first line
  file_type,  \* write_http_response's local of that name
  buf,        \* write_http_response's heap buffer is allocated
  target_file,\* the file is open
  copied,     \* pieces of the file read and given to write
  body,       \* pieces of the file sent
  response,   \* the status code sent, or 0
  http_ret    \* what the last of the two functions returned

clientVars == <<request, sent, gone>>
readVars == <<inbox, buf_copy, resource, whole_line>>
exchangeVars == <<at, clientVars, readVars, file_type, buf, target_file, copied, body,
                  response, http_ret>>

\* The states of a connection that is over.
Ended == {"over", "crashed"}

ExchangeInit ==
  /\ at = "none"
  /\ request \in Requests
  /\ sent = 0
  /\ inbox = 0
  /\ gone = FALSE
  /\ buf_copy = FALSE
  /\ resource = request.file
  /\ whole_line = FALSE
  /\ file_type = "uninitialised"
  /\ buf = FALSE
  /\ target_file = FALSE
  /\ copied = 0
  /\ body = 0
  /\ response = 0
  /\ http_ret = 0

-------------------------------------------------------------------------------
\* The client

ClientSends ==
  /\ at \notin {"none"} \union Ended
  /\ ~gone
  /\ \E n \in 1 .. request.len - sent :
       /\ sent' = sent + n
       /\ inbox' = inbox + n
  /\ UNCHANGED <<at, request, gone, buf_copy, resource, whole_line, file_type, buf,
                 target_file, copied, body, response, http_ret>>

ClientHangsUp ==
  /\ at \notin {"none"} \union Ended
  /\ ~gone
  /\ gone' = TRUE
  /\ UNCHANGED <<at, request, sent, readVars, file_type, buf, target_file, copied, body,
                 response, http_ret>>

-------------------------------------------------------------------------------
\* read_http_request

\* Leave the function with a return value, all but the heap copy untouched.
ReadReturns(ret) ==
  /\ at' = IF ret = 0 THEN "stat" ELSE "over"
  /\ http_ret' = ret
  /\ buf_copy' = FALSE
  /\ UNCHANGED <<file_type, buf, target_file, copied, body, response>>

\* The two searches over what the first read has taken.  If that is not the whole
\* first line, they go on in memory that nobody wrote: there they find what looks like
\* a path, or the end of a line, or nothing before they leave what is mapped.
PathFound(nbytes) ==
  /\ whole_line' = (nbytes >= request.first)
  /\ IF whole_line'
     THEN request.line = "ok" /\ resource' = request.file
     ELSE resource' \in Files

NoPathFound(nbytes) ==
  /\ whole_line' = (nbytes >= request.first)
  /\ whole_line' => request.line # "ok"
  /\ UNCHANGED resource

SearchOverruns(nbytes) ==
  /\ nbytes < request.first
  /\ whole_line' = FALSE
  /\ at' = "crashed"
  /\ UNCHANGED <<resource, buf_copy, file_type, buf, target_file, copied, body, response,
                 http_ret>>

\* "read the rest of the request"
GoOnReading ==
  /\ at' = "drain"
  /\ buf_copy' = TRUE
  /\ UNCHANGED <<file_type, buf, target_file, copied, body, response, http_ret>>

\* Mutant: the rest is read whether or not the buffer was filled.
ReadFirstAlwaysDrains ==
  /\ at = "read"
  /\ inbox > 0
  /\ LET nbytes == Min({inbox, BUFSIZE})
     IN  /\ inbox' = inbox - nbytes
         /\ \/ NoPathFound(nbytes) /\ ReadReturns(1)
            \/ SearchOverruns(nbytes)
            \/ PathFound(nbytes) /\ GoOnReading
  /\ UNCHANGED clientVars

\* The first read: it takes what there is, at most a buffer.
ReadFirst ==
  /\ at = "read"
  /\ inbox > 0
  /\ LET nbytes == Min({inbox, BUFSIZE})
     IN  /\ inbox' = inbox - nbytes
         /\ \/ NoPathFound(nbytes) /\ ReadReturns(1)
            \/ SearchOverruns(nbytes)
            \/ PathFound(nbytes) /\ nbytes # BUFSIZE /\ ReadReturns(0)
            \/ PathFound(nbytes) /\ nbytes = BUFSIZE /\ GoOnReading
  /\ UNCHANGED clientVars

\* "empty HTTP request"
ReadEmpty ==
  /\ at = "read"
  /\ inbox = 0 /\ gone
  /\ ReadReturns(1)
  /\ UNCHANGED <<clientVars, inbox, resource, whole_line>>

\* Until read returns 0, which it does when the client hangs up and not before.
ReadMore ==
  /\ at = "drain"
  /\ inbox > 0
  /\ inbox' = inbox - Min({inbox, BUFSIZE})
  /\ UNCHANGED <<clientVars, at, buf_copy, resource, whole_line, file_type, buf,
                 target_file, copied, body, response, http_ret>>

ReadToEnd ==
  /\ at = "drain"
  /\ inbox = 0 /\ gone
  /\ ReadReturns(0)
  /\ UNCHANGED <<clientVars, inbox, resource, whole_line>>

\* A read error, once the connection is reset, in either place.
ReadError ==
  /\ at \in {"read", "drain"}
  /\ gone
  /\ ReadReturns(1)
  /\ UNCHANGED <<clientVars, inbox, resource, whole_line>>

-------------------------------------------------------------------------------
\* get_mime_type: NULL for an extension it does not know
get_mime_type(ext) == IF ext = ".txt" THEN "text/plain" ELSE "NULL"

\* get_file_type.  Its test for other types compares one character, the dot
\* itself, and never succeeds.
get_file_type(ext) == IF ext = "no dot" THEN "unknown" ELSE get_mime_type(ext)

-------------------------------------------------------------------------------
\* write_http_response

WriteReturns(ret) ==
  /\ at' = "over"
  /\ http_ret' = ret
  /\ UNCHANGED <<clientVars, readVars>>

\* get_file_size, and the file's type if there is a file; strcmp of a null
\* file_type ends the process.
Stat ==
  /\ at = "stat"
  /\ \/ /\ resource.stat = "error"
        /\ WriteReturns(1)
        /\ UNCHANGED file_type
     \/ /\ resource.stat = "ENOENT"
        /\ at' = "header"
        /\ UNCHANGED <<clientVars, readVars, file_type, http_ret>>
     \/ /\ resource.stat = "found"
        /\ file_type' = get_file_type(resource.ext)
        /\ at' = IF file_type' = "NULL" THEN "crashed" ELSE "header"
        /\ UNCHANGED <<clientVars, readVars, http_ret>>
  /\ UNCHANGED <<buf, target_file, copied, body, response>>

\* Write the header.  Without a file, file_type is compared although it was
\* never set: the comparison may end the process or find a difference.
Header ==
  /\ at = "header"
  /\ \/ /\ resource.stat = "ENOENT" /\ file_type = "uninitialised"
        /\ at' = "crashed"
        /\ UNCHANGED <<clientVars, readVars, http_ret, response>>
     \/ /\ gone
        /\ WriteReturns(1)
        /\ UNCHANGED response
     \/ /\ resource.stat = "found"
        /\ response' = 200
        /\ at' = "open"
        /\ UNCHANGED <<clientVars, readVars, http_ret>>
     \/ /\ resource.stat = "ENOENT"
        /\ response' = 404
        /\ WriteReturns(0)
  /\ UNCHANGED <<file_type, buf, target_file, copied, body>>

Open ==
  /\ at = "open"
  /\ \/ /\ resource.access # "open fails"
        /\ target_file' = TRUE
        /\ buf' = TRUE
        /\ at' = "copy"
        /\ UNCHANGED <<clientVars, readVars, http_ret>>
     \/ /\ resource.access = "open fails"
        /\ WriteReturns(1)
        /\ UNCHANGED <<target_file, buf>>
  /\ UNCHANGED <<file_type, copied, body, response>>

\* read of the file has something for write.
Chunk == at = "copy" /\ resource.access = "ok" /\ copied < resource.size

\* What read takes from the file.
ChunkSize == Min({resource.size - copied, BUFSIZE})

\* One round of the copy loop in which write transfers n pieces.
CopyWrites(n) ==
  /\ Chunk
  /\ copied' = copied + ChunkSize
  /\ body' = body + n
  /\ UNCHANGED <<clientVars, readVars, at, file_type, buf, target_file, response, http_ret>>

CopyChunk == CopyWrites(ChunkSize)

\* A write that is broken off after a part (less than its last piece, at least):
\* the count it returns is not -1, and the loop goes on with the next chunk.
CopyShort == \E n \in 0 .. ChunkSize - 1 : CopyWrites(n)

\* The connection is reset while write waits for the client to read.
CopyCutOff == gone /\ CopyShort

\* Both error paths of the loop: release the buffer and the file, return 1.
CopyFails ==
  /\ buf' = FALSE
  /\ target_file' = FALSE
  /\ WriteReturns(1)
  /\ UNCHANGED <<file_type, copied, body, response>>

\* Mutant: the error ends the loop like the end of the file.
CopyErrorSwallowed ==
  /\ (Chunk /\ gone) \/ (at = "copy" /\ resource.access = "read fails")
  /\ buf' = FALSE
  /\ target_file' = FALSE
  /\ WriteReturns(0)
  /\ UNCHANGED <<file_type, copied, body, response>>

\* The client is gone when write is called, or read fails (on a directory, say).
CopyError ==
  /\ (Chunk /\ gone) \/ (at = "copy" /\ resource.access = "read fails")
  /\ CopyFails

\* Mutant: the loop's end forgets close(target_file).
CopyEndLeaks ==
  /\ at = "copy" /\ resource.access = "ok"
  /\ copied = resource.size
  /\ buf' = FALSE
  /\ WriteReturns(0)
  /\ UNCHANGED <<target_file, file_type, copied, body, response>>

CopyEnd ==
  /\ at = "copy" /\ resource.access = "ok"
  /\ copied = resource.size
  /\ buf' = FALSE
  /\ target_file' = FALSE
  /\ WriteReturns(0)
  /\ UNCHANGED <<file_type, copied, body, response>>

ServerWorks ==
  \/ ReadFirst \/ ReadEmpty \/ ReadMore \/ ReadToEnd \/ ReadError
  \/ Stat \/ Header \/ Open \/ CopyChunk \/ CopyCutOff \/ CopyError \/ CopyEnd

-------------------------------------------------------------------------------
(* Properties *)

\* A request that does not fill the buffer is dealt with although the client
\* stays connected and waits: the code does not wait for more.
ShortRequestDealtWith ==
  request.len < BUFSIZE /\ at = "read" ~> at \in Ended
===============================================================================
