--------------------------- MODULE ScriptResponse ---------------------------
(***************************************************************************)
(* The script's side of m_cgi (src/modules/m_cgi.cpp): what a CGIRequest   *)
(* reads from its pipe, and how it becomes the response of a connection    *)
(* that has stayed in HTTP_WAIT_REQUEST meanwhile.                         *)
(*                                                                         *)
(* The client asks for scripts and for files that are missing, and waits   *)
(* for each answer before it asks again.  A unit is any number of bytes,   *)
(* none of them NUL; unit 0 of a response is its headers, which say how    *)
(* many units follow.  The engine asks for writing instead of reading, or  *)
(* reports it first: it is epoll or select.  Who owns which descriptor     *)
(* meanwhile is EventLoop's.                                               *)
(***************************************************************************)
EXTENDS Integers, Sequences, FiniteSets

CONSTANTS
  MaxOutput,  \* bound: units that a script writes
  MaxAsked    \* bound: requests of the client

VARIABLES
  hup,        \* the engine tells the end of a pipe by EVENT_ERROR, before any
              \* output that is left in it, as epoll does, or not, as select
  batch,      \* what the engine has reported and not yet dispatched
  \* the client and the script
  asked,      \* how many requests the client has sent
  request,    \* the last of them, until it is read
  kind,       \* history: what it asks for
  sent,       \* what the socket has taken
  script,     \* "none", "running" or "ended"
  written,    \* units the script has written
  pipe,       \* those that are not read yet
  \* the CGIRequest
  cgi,        \* "none", "open" or, once its descriptor is -1, "done"
  rbuf,
  \* the Connection
  State, keepalive, sendq, ResponseBufferDone, awaited, quitting,
  unwatched,  \* history: AddFd refused the pipe of the last script
  uncaught    \* an exception that nobody catches

clientVars == <<asked, request, kind>>
outputVars == <<script, written, pipe>>
connVars == <<State, keepalive, sendq, ResponseBufferDone, awaited, quitting>>
cgiVars == <<cgi, rbuf>>
scriptVars == <<hup, batch, clientVars, sent, outputVars, cgiVars, connVars,
                unwatched, uncaught>>

ScriptInit ==
  /\ hup \in BOOLEAN /\ batch = {}
  /\ asked = 0 /\ request = "none" /\ kind = "none" /\ sent = <<>>
  /\ script = "none" /\ written = 0 /\ pipe = <<>>
  /\ cgi = "none" /\ rbuf = <<>>
  /\ State = "HTTP_WAIT_REQUEST" /\ keepalive \in BOOLEAN /\ sendq = <<>>
  /\ ResponseBufferDone = FALSE /\ awaited = "IN" /\ quitting = FALSE
  /\ unwatched = FALSE /\ uncaught = FALSE

Unit(u, size) == [of |-> asked, unit |-> u, size |-> size]
Response(data) ==
  [u \in 1 .. Len(data) + 1 |->
     Unit(IF u = 1 THEN 0 ELSE data[u - 1], Len(data))]

-----------------------------------------------------------------------------
(* The client and the script.                                               *)

\* The last answer has come in full.
Answered ==
  LET mine == {i \in DOMAIN sent : sent[i].of = asked} IN
  asked = 0 \/ \E i \in mine : Cardinality(mine) = sent[i].size + 1

Ask ==
  /\ asked < MaxAsked /\ Answered
  /\ asked' = asked + 1
  /\ kind' \in {"script", "missing"} /\ request' = kind'
  /\ unwatched' = FALSE
  /\ UNCHANGED <<hup, batch, sent, outputVars, cgiVars, connVars, uncaught>>

ScriptWrites ==
  /\ script = "running" /\ written < MaxOutput
  /\ written' = written + 1 /\ pipe' = Append(pipe, written')
  /\ UNCHANGED <<hup, batch, clientVars, sent, script, cgiVars, connVars,
                 unwatched, uncaught>>

ScriptEnds ==
  /\ script = "running" /\ script' = "ended"
  /\ UNCHANGED <<hup, batch, clientVars, sent, written, pipe, cgiVars,
                 connVars, unwatched, uncaught>>

-----------------------------------------------------------------------------
(* The loop: a batch of events, then the cull list.                         *)

PipeEvents ==
  IF cgi # "open" THEN {}
  ELSE IF script = "ended" /\ hup THEN {"end"}
  ELSE IF script = "ended" \/ pipe # <<>> THEN {"output"} ELSE {}
SocketEvents ==
  IF awaited = "OUT" THEN {"writeable"}
  ELSE IF request # "none" THEN {"readable"} ELSE {}

ReportEvents ==
  /\ batch = {} /\ ~quitting /\ State # "closed" /\ ~uncaught
  /\ batch' = PipeEvents \cup SocketEvents
  /\ batch' # {}
  /\ UNCHANGED <<hup, clientVars, sent, outputVars, cgiVars, connVars, unwatched,
                 uncaught>>

\* ConnectionManager::Delete, by the timeouts or by an error of the socket.
DeleteConnection ==
  /\ State # "closed" /\ ~quitting /\ ~uncaught
  /\ batch \cap {"readable", "writeable"} = {}
  /\ quitting' = TRUE /\ State' = "HTTP_FINISHED"
  /\ UNCHANGED <<hup, batch, clientVars, sent, outputVars, cgiVars, keepalive,
                 sendq, ResponseBufferDone, awaited, unwatched, uncaught>>

\* CullList::Apply, with OnConnectionDisconnect.
ApplyCulls ==
  /\ batch = {} /\ quitting /\ State # "closed"
  /\ State' = "closed" /\ sendq' = <<>> /\ cgi' = "none" /\ script' = "none"
  /\ UNCHANGED <<hup, batch, clientVars, sent, written, pipe, rbuf, keepalive,
                 ResponseBufferDone, awaited, quitting, unwatched, uncaught>>

-----------------------------------------------------------------------------
(* The connection.                                                          *)

\* EndRequest, after OnBufferFlushed.
EndRequest(ka) ==
  /\ State' = IF ka THEN "HTTP_WAIT_REQUEST" ELSE "HTTP_FINISHED"
  /\ ResponseBufferDone' = ~ka
  /\ quitting' = (quitting \/ ~ka)

\* FlushWriteBuf of the queue q: when nothing of it is left, OnBufferFlushed
\* deletes the CGIRequest and closes its pipe, whatever was in q.
FlushWriteBuf(q, st, done, otherwise) ==
  \/ \E n \in 0 .. Len(q) :
       /\ sent' = sent \o SubSeq(q, 1, n) /\ sendq' = SubSeq(q, n + 1, Len(q))
       /\ awaited' = IF n < Len(q) THEN "OUT" ELSE otherwise
       /\ IF n = Len(q)
          THEN cgi' = "none" /\ script' = IF cgi = "open" THEN "none" ELSE script
          ELSE UNCHANGED <<cgi, script>>
       /\ IF n = Len(q) /\ st = "HTTP_SEND_DATA" /\ done
          THEN EndRequest(keepalive)
          ELSE State' = st /\ ResponseBufferDone' = done /\ UNCHANGED quitting
  \/ /\ q # <<>> /\ quitting' = TRUE /\ State' = "HTTP_FINISHED"
     /\ sendq' = q /\ awaited' = otherwise /\ ResponseBufferDone' = done
     /\ UNCHANGED <<sent, cgi, script>>

\* EPOLLOUT: the engine goes back to reading before the handler runs.
HandleWrite ==
  /\ "writeable" \in batch /\ batch' = batch \ {"writeable"}
  /\ FlushWriteBuf(sendq, State, ResponseBufferDone, "IN")
  /\ UNCHANGED <<hup, clientVars, written, pipe, rbuf, keepalive, unwatched,
                 uncaught>>

\* SendError, which flushes at once.
SendError(fatal) ==
  /\ FlushWriteBuf(sendq \o Response(<<1>>), "HTTP_SEND_DATA", TRUE, "OUT")
  /\ keepalive' = (keepalive /\ ~fatal)
  /\ UNCHANGED <<written, pipe, rbuf, unwatched>>

\* OnPreRequest: one process too many, or a path, pipe() or fork() that fails;
\* a script, whose pipe the engine takes or not.  State stays as it is.
OnPreRequest ==
  \/ SendError(TRUE)
  \/ /\ script' = "running" /\ written' = 0 /\ pipe' = <<>> /\ rbuf' = <<>>
     /\ cgi' = "open"
     /\ UNCHANGED <<sent, connVars, unwatched>>
  \/ /\ cgi' = "none" /\ unwatched' = TRUE
     /\ UNCHANGED <<sent, script, written, pipe, rbuf, connVars>>

\* CheckRequest, if the connection is waiting for a request.
ReadRequest ==
  /\ "readable" \in batch /\ batch' = batch \ {"readable"}
  /\ IF quitting THEN UNCHANGED request ELSE request' = "none"
  /\ \/ /\ ~quitting /\ State = "HTTP_WAIT_REQUEST"
        /\ \/ kind = "missing" /\ SendError(FALSE)
           \/ kind = "script" /\ OnPreRequest
     \/ /\ quitting \/ State # "HTTP_WAIT_REQUEST"
        /\ UNCHANGED <<sent, outputVars, cgiVars, connVars, unwatched>>
  /\ UNCHANGED <<hup, asked, kind, uncaught>>

-----------------------------------------------------------------------------
(* The CGIRequest.                                                          *)

\* Close(true): the descriptor is closed; the headers and rbuf are written to
\* the connection, whatever its state, and the next event flushes them.  An
\* empty response ends within SendHeaders, before State is set.
Respond ==
  /\ cgi' = "done" /\ script' = "none"
  /\ sendq' = sendq \o Response(rbuf)
  /\ awaited' = "OUT"
  /\ quitting' = (quitting \/ (rbuf = <<>> /\ ~keepalive))
  /\ State' = "HTTP_SEND_DATA" /\ ResponseBufferDone' = TRUE
  /\ UNCHANGED <<sent, keepalive, written, pipe, rbuf, uncaught>>

\* EVENT_ERROR.
PipeEnds ==
  /\ "end" \in batch /\ batch' = batch \ {"end"}
  /\ IF cgi = "open" THEN Respond
     ELSE UNCHANGED <<sent, outputVars, cgiVars, connVars, uncaught>>
  /\ UNCHANGED <<hup, clientVars, unwatched>>

Taken_Assigned(n) == rbuf' = SubSeq(pipe, 1, n)
Taken(n) == rbuf' = rbuf \o SubSeq(pipe, 1, n)
\* OnRead: one read() of what is in the pipe, or the end of it.  An end without
\* any output throws a string, which no handler on the stack catches.
OnRead ==
  /\ "output" \in batch /\ batch' = batch \ {"output"}
  /\ \/ /\ cgi = "open" /\ pipe # <<>>
        /\ \E n \in 1 .. Len(pipe) :
             /\ Taken(n)
             /\ pipe' = SubSeq(pipe, n + 1, Len(pipe))
        /\ UNCHANGED <<sent, script, written, cgi, connVars, uncaught>>
     \/ /\ cgi = "open" /\ pipe = <<>> /\ script = "ended"
        /\ rbuf # <<>> /\ Respond
     \/ /\ cgi = "open" /\ pipe = <<>> /\ script = "ended"
        /\ rbuf = <<>> /\ uncaught' = TRUE
        /\ UNCHANGED <<sent, outputVars, cgiVars, connVars>>
     \/ /\ cgi # "open"
        /\ UNCHANGED <<sent, outputVars, cgiVars, connVars, uncaught>>
  /\ UNCHANGED <<hup, clientVars, unwatched>>

ScriptNext ==
  \/ Ask \/ ScriptWrites \/ ScriptEnds
  \/ ReportEvents \/ DeleteConnection \/ ApplyCulls
  \/ ~uncaught /\ (HandleWrite \/ ReadRequest \/ PipeEnds \/ OnRead)

-----------------------------------------------------------------------------
\* What a client that waits for its answers gets: one response to each request,
\* in turn, whose headers say how much follows, and what follows is the
\* script's output from its beginning, as far as it was read; all of it, if the
\* engine does not tell the end of the pipe first (m_cgi.cpp:58-128).  While no
\* answer is on its way somebody still has to give it: a CGIRequest that
\* OnBufferFlushed, whatever was flushed, has not deleted (m_cgi.cpp:165-177).
\* Once it has come the connection waits for the next request.
ScriptAnswered ==
  LET stream == sent \o sendq
      heads == {i \in DOMAIN stream : stream[i].unit = 0}
      frame(i) == i .. i + stream[i].size IN
  State # "closed" =>
  /\ DOMAIN stream = UNION {frame(i) : i \in heads}
  /\ \A i \in heads : \A j \in frame(i) :
       stream[j] = [stream[i] EXCEPT !.unit = j - i]
  /\ \A i, j \in heads : i < j => stream[i].of < stream[j].of
  /\ cgi = "done" /\ ~hup => Len(rbuf) = written
  /\ ~quitting =>
       /\ \/ asked \in {stream[i].of : i \in heads} \cup {0}
          \/ request # "none" \/ cgi = "open" \/ unwatched
       /\ Answered /\ sendq = <<>> =>
            State = "HTTP_WAIT_REQUEST" /\ ~ResponseBufferDone /\ cgi = "none"
=============================================================================
