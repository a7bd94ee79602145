--------------------------- MODULE HttpConnection ---------------------------
(***************************************************************************)
(* One client connection of hottpd, from accept() to the end of its        *)
(* Connection object: src/src/request.cpp, buffer.cpp, connections.cpp,    *)
(* connectionmanager.cpp, cull_list.cpp and backend_write.cpp, driven by   *)
(* the loop of inspircd.cpp and by the epoll engine.                       *)
(*                                                                         *)
(* The server is one thread.  A handler runs to its end before the next    *)
(* event is taken, but it is a chain of functions that call each other,    *)
(*                                                                         *)
(*    CheckRequest -> SendError -> FlushWriteBuf -> EndRequest             *)
(*         ^                                            |                  *)
(*         +--------------------------------------------+                  *)
(*                                                                         *)
(* and every one of those calls is the last thing its caller does, but     *)
(* for two things done on the way back: SendError clears keepalive after a *)
(* fatal error, and AddBuffer checks the length of requestbuf.  So the     *)
(* model has one action per function, pc says which function runs next,    *)
(* and fatalFrame and readFrame remember what the way back has to do       *)
(* (action Return).  The client and the network move between any two of    *)
(* these actions.                                                          *)
(*                                                                         *)
(* Data.  The client's bytes are tokens: a request is the bytes of its     *)
(* head before the blank line ("top"), the blank line that ends the head   *)
(* ("end") and one "body" token for each unit of its body.  A response is  *)
(* unit 0, its headers, and units 1..size, its data.                       *)
(***************************************************************************)
EXTENDS Integers, Sequences

CONSTANTS
  Requests,         \* the requests a client may send, a subset of Request
  MaxRequests,      \* bound: how many of them it sends on the connection
  KeepAliveMax,     \* Config->KeepAliveMax
  MaxPostBody,      \* Config->MaxPostBody
  RequestBufLimit,  \* the 5120 of AddBuffer, in tokens
  SockBufSize,      \* bound: what the kernel's send buffer holds, in units
  FileErrors,       \* the error codes ServeData may answer with
  FileSizes,        \* the sizes, in units, of the files under DocRoot
  Timeouts          \* TRUE when the loop's timeouts may fire

\* What CheckRequest distinguishes in the head of a request.  form names the
\* first thing wrong with it, length is its Content-Length (0 when absent),
\* chunked says it has a Transfer-Encoding header.
Request ==
  [form       : {"ok", "badline", "badversion", "badheader"},
   method     : {"GET", "POST", "OTHER"},
   version    : {"HTTP/1.0", "HTTP/1.1"},
   connection : {"none", "close", "keep-alive"},
   length     : Nat,
   chunked    : BOOLEAN]

ASSUME RequestsAssumption == Requests \subseteq Request
ASSUME LimitsAssumption ==
  /\ MaxRequests \in Nat
  /\ KeepAliveMax \in Int
  /\ MaxPostBody \in Nat
  /\ RequestBufLimit \in Nat
  /\ SockBufSize \in Nat \ {0}
ASSUME FilesAssumption ==
  /\ FileErrors \subseteq {403, 404, 500}
  /\ FileSizes \subseteq Nat
ASSUME TimeoutsAssumption == Timeouts \in BOOLEAN

VARIABLES
  \* the client and the network
  reqs,               \* the requests the client has sent, in order
  inq,                \* tokens sent by the client and not yet read
  sockbuf,            \* units in the kernel's send buffer and on the way
  received,           \* units the client has received
  peer,               \* "open", "shut" (it sent a FIN) or "gone" (it reset)
  \* the event loop, as this connection sees it
  pc,                 \* the function that runs next
  event,              \* the event epoll_wait reported
  interest,           \* what epoll watches the socket for: "IN" or "OUT"
  fatalFrame,         \* a SendError on the call stack is fatal
  readFrame,          \* AddBuffer is on the call stack, with its check to do
  \* the Connection object
  State,
  requestbuf,
  cur,                \* the request parsed last: stands for method, uri, headers
  RequestBodyLength,
  RequestBody,
  keepalive,
  sendq,
  ResponseBackend,
  ResponseBufferDone,
  filefd,             \* "open" or "closed" (-1)
  rfilesize,
  rfilesent,
  RequestsCompleted,
  quitting,           \* also: the connection is on GlobalCulls' list
  \* history
  answers,            \* the responses begun, in order
  framed              \* no body byte was ever taken for a head or vice versa

networkVars  == <<inq, sockbuf, received, peer>>
stackVars    == <<fatalFrame, readFrame>>
requestVars  == <<requestbuf, cur, RequestBodyLength, RequestBody>>
fileVars     == <<filefd, rfilesize, rfilesent>>
responseVars == <<sendq, ResponseBackend, ResponseBufferDone, fileVars>>
lifeVars     == <<State, keepalive, RequestsCompleted, quitting>>
historyVars  == <<reqs, answers, framed>>
vars == <<networkVars, pc, event, interest, stackVars, requestVars,
          responseVars, lifeVars, historyVars>>

States == {"HTTP_WAIT_REQUEST", "HTTP_RECV_REQBODY", "HTTP_SEND_HEADERS",
           "HTTP_SEND_DATA", "HTTP_FINISHED"}

\* Tokens of the client's stream (of: which of its requests they belong to)
\* and units of the server's (resp: which response, unit: 0 for its headers).
Token  == [of : 1 .. Len(reqs), part : {"top", "end", "body"}]
Unit   == [resp : 1 .. Len(answers), unit : Nat]
Answer == [req : Nat, code : Nat, size : Nat, close : BOOLEAN, fatal : BOOLEAN]

Take(s, n) == SubSeq(s, 1, n)
Drop(s, n) == SubSeq(s, n + 1, Len(s))

\* The bytes of request r, the i-th of the connection.  A chunked body is
\* one token; any other body is as long as the head says.
BodyTokens(r) == IF r.chunked /\ r.length = 0 THEN 1 ELSE r.length
Bytes(i, r) ==
  <<[of |-> i, part |-> "top"], [of |-> i, part |-> "end"]>>
    \o [k \in 1 .. BodyTokens(r) |-> [of |-> i, part |-> "body"]]

-----------------------------------------------------------------------------
(* Connection::Connection, and ConnectionManager::Add: the socket is        *)
(* registered with the engine for reading.                                  *)
Init ==
  /\ inq = <<>> /\ sockbuf = <<>> /\ received = <<>> /\ peer = "open"
  /\ pc = "Scan" /\ event = "none" /\ interest = "IN"
  /\ fatalFrame = FALSE /\ readFrame = FALSE
  /\ requestbuf = <<>> /\ cur = 0 /\ RequestBodyLength = 0 /\ RequestBody = <<>>
  /\ sendq = <<>> /\ ResponseBackend = "NULL" /\ ResponseBufferDone = FALSE
  /\ filefd = "closed" /\ rfilesize = 0 /\ rfilesent = 0
  /\ State = "HTTP_WAIT_REQUEST" /\ keepalive = TRUE
  /\ RequestsCompleted = 0 /\ quitting = FALSE
  /\ reqs = <<>> /\ answers = <<>> /\ framed = TRUE

\* ConnectionManager::Delete.  CullList::AddItem ignores a connection that is
\* already quitting, so membership of its list is the flag itself.
Delete_KeepsState == quitting' = TRUE /\ UNCHANGED State
Delete ==
  /\ quitting' = TRUE
  /\ State' = "HTTP_FINISHED"

\* SocketEngine::WantWrite: the engine watches the socket for EPOLLOUT only.
WantWrite == interest' = "OUT"

-----------------------------------------------------------------------------
(* The client and the network.                                              *)

\* The client sends a request, whether or not it has an answer to the last.
ClientRequest ==
  /\ peer = "open" /\ pc # "closed" /\ Len(reqs) < MaxRequests
  /\ \E r \in Requests :
       /\ reqs' = Append(reqs, r)
       /\ inq' = inq \o Bytes(Len(reqs) + 1, r)
  /\ UNCHANGED <<sockbuf, received, peer, pc, event, interest, stackVars,
                 requestVars, responseVars, lifeVars, answers, framed>>

\* The client takes what has reached it.
ClientReceive ==
  /\ peer # "gone" /\ sockbuf # <<>>
  /\ received' = Append(received, Head(sockbuf))
  /\ sockbuf' = Tail(sockbuf)
  /\ UNCHANGED <<inq, peer, pc, event, interest, stackVars, requestVars,
                 responseVars, lifeVars, historyVars>>

\* The client sends a FIN, maybe in the middle of a request.
ClientShut ==
  /\ peer = "open"
  /\ peer' = "shut"
  /\ \E n \in 0 .. Len(inq) : inq' = Take(inq, n)
  /\ UNCHANGED <<sockbuf, received, pc, event, interest, stackVars,
                 requestVars, responseVars, lifeVars, historyVars>>

\* The connection is reset, by the client or by the network.
ClientReset ==
  /\ peer # "gone"
  /\ peer' = "gone"
  /\ inq' = <<>>
  /\ UNCHANGED <<sockbuf, received, pc, event, interest, stackVars,
                 requestVars, responseVars, lifeVars, historyVars>>

-----------------------------------------------------------------------------
(* InspIRCd::Run and EPollEngine::DispatchEvents.                           *)

\* The timeout scan: it may find the connection too old or too idle.
Scan ==
  /\ pc = "Scan" /\ pc' = "Poll"
  /\ \/ UNCHANGED <<State, quitting>>
     \/ Timeouts /\ Delete
  /\ UNCHANGED <<networkVars, event, interest, stackVars, requestVars,
                 responseVars, keepalive, RequestsCompleted, historyVars>>

Writable == interest = "OUT" /\ Len(sockbuf) < SockBufSize
Readable == interest = "IN" /\ (inq # <<>> \/ peer = "shut")

\* epoll_wait: what it reports is handled later in the loop over the events.
Poll ==
  /\ pc = "Poll"
  /\ \/ peer = "gone" /\ event' = "ERROR" /\ pc' = "HandleEvent"
     \/ peer # "gone" /\ Writable /\ event' = "WRITE" /\ pc' = "HandleEvent"
     \/ peer # "gone" /\ Readable /\ event' = "READ" /\ pc' = "HandleEvent"
     \/ /\ peer # "gone" /\ ~Writable /\ ~Readable
        /\ event' = "none" /\ pc' = "Apply"
  /\ UNCHANGED <<networkVars, interest, stackVars, requestVars, responseVars,
                 lifeVars, historyVars>>

\* EPOLLHUP and EPOLLERR.
HandleError ==
  /\ pc = "HandleEvent" /\ event = "ERROR"
  /\ Delete
  /\ pc' = "Apply" /\ event' = "none"
  /\ UNCHANGED <<networkVars, interest, stackVars, requestVars, responseVars,
                 keepalive, RequestsCompleted, historyVars>>

\* EPOLLOUT: back to reading first, then EVENT_WRITE, even when quitting.
Rearm_StaysOut == UNCHANGED interest
Rearm == interest' = "IN"
SendsFile_AnyState == ResponseBackend # "NULL"
SendsFile == State = "HTTP_SEND_DATA" /\ ResponseBackend # "NULL"
HandleWrite ==
  /\ pc = "HandleEvent" /\ event = "WRITE"
  /\ Rearm
  /\ pc' = IF SendsFile THEN "SendStaticData" ELSE "FlushWriteBuf"
  /\ event' = "none"
  /\ UNCHANGED <<networkVars, stackVars, requestVars, responseVars, lifeVars,
                 historyVars>>

\* What AddBuffer does with the bytes a.
remains == RequestBodyLength - Len(RequestBody)
BodyPart_All(a) == a
BodyPart(a) == IF remains < Len(a) THEN Take(a, remains) ELSE a
AddBuffer(a) ==
  LET isBody(t) == t.part = "body" IN
  /\ IF State = "HTTP_RECV_REQBODY"
       THEN /\ RequestBody' = RequestBody \o BodyPart(a)
            /\ requestbuf' = requestbuf \o
                 (IF remains < Len(a) THEN a ELSE <<>>)
            /\ IF Len(RequestBody') = RequestBodyLength
                 THEN pc' = "ServeData" /\ readFrame' = FALSE
                 ELSE pc' = "Return" /\ readFrame' = TRUE
       ELSE /\ requestbuf' = requestbuf \o a
            /\ pc' = IF State = "HTTP_WAIT_REQUEST"
                       THEN "CheckRequest" ELSE "Return"
            /\ readFrame' = TRUE
            /\ UNCHANGED RequestBody
  /\ framed' = /\ framed
               /\ \A j \in DOMAIN requestbuf' : ~isBody(requestbuf'[j])
               /\ \A j \in DOMAIN RequestBody' : isBody(RequestBody'[j])

\* EVENT_READ and ReadData: read() returns what has arrived, or 0 after the
\* client's FIN, or an error after a reset.
HandleRead ==
  /\ pc = "HandleEvent" /\ event = "READ"
  /\ event' = "none"
  /\ \/ /\ quitting
        /\ pc' = "Apply"
        /\ UNCHANGED <<inq, State, quitting, requestbuf, RequestBody,
                       readFrame, framed>>
     \/ /\ ~quitting /\ inq = <<>>
        /\ Delete
        /\ pc' = "Apply"
        /\ UNCHANGED <<inq, requestbuf, RequestBody, readFrame, framed>>
     \/ /\ ~quitting /\ inq # <<>>
        /\ \E n \in 1 .. Len(inq) :
             /\ inq' = Drop(inq, n)
             /\ AddBuffer(Take(inq, n))
        /\ UNCHANGED <<State, quitting>>
  /\ UNCHANGED <<sockbuf, received, peer, interest, fatalFrame, cur,
                 RequestBodyLength, responseVars, keepalive,
                 RequestsCompleted, reqs, answers>>

\* The way back out of the handler: AddBuffer's check (ReadData then calls
\* Delete) and what SendError does after its flush when the error is fatal.
TooMuchData_OffByOne == readFrame /\ Len(requestbuf) > RequestBufLimit + 1
TooMuchData == readFrame /\ Len(requestbuf) > RequestBufLimit
Return ==
  /\ pc = "Return" /\ pc' = "Apply"
  /\ fatalFrame' = FALSE /\ readFrame' = FALSE
  /\ keepalive' = (keepalive /\ ~fatalFrame)
  /\ IF TooMuchData THEN Delete ELSE UNCHANGED <<State, quitting>>
  /\ UNCHANGED <<networkVars, event, interest, requestVars, responseVars,
                 RequestsCompleted, historyVars>>

\* CullList::Apply and Connection::~Connection.  Closing a socket that holds
\* unread bytes resets it, and the kernel may drop what it had yet to send.
Apply ==
  /\ pc = "Apply"
  /\ IF quitting
       THEN /\ pc' = "closed"
            /\ filefd' = "closed" /\ sendq' = <<>>
            /\ sockbuf' \in {sockbuf} \cup (IF inq # <<>> THEN {<<>>} ELSE {})
       ELSE /\ pc' = "Scan"
            /\ UNCHANGED <<filefd, sendq, sockbuf>>
  /\ UNCHANGED <<inq, received, peer, event, interest, stackVars, requestVars,
                 ResponseBackend, ResponseBufferDone, rfilesize, rfilesent,
                 lifeVars, historyVars>>

-----------------------------------------------------------------------------
(* request.cpp, Connection::SendError and buffer.cpp: the functions of the  *)
(* call chain.                                                              *)

\* SendHeaders, for the response to request i: the headers go to the send
\* queue, its data (if it is at hand) after them, and WantWrite is called.
SendHeaders(i, code, size, data, ka, fatal) ==
  LET n == Len(answers) + 1
  IN  /\ answers' = Append(answers, [req |-> i, code |-> code,
                                     size |-> size, close |-> ~ka,
                                     fatal |-> fatal])
      /\ sendq' = sendq \o [k \in 1 .. data + 1 |->
                              [resp |-> n, unit |-> k - 1]]
      /\ keepalive' = ka
      /\ WantWrite

\* SendError, up to the call of FlushWriteBuf.
SendError(i, code, fatal, ka) ==
  /\ SendHeaders(i, code, 1, 1, ka, fatal)
  /\ State' = "HTTP_SEND_DATA"
  /\ ResponseBackend' = "NULL"
  /\ ResponseBufferDone' = TRUE
  /\ fatalFrame' = (fatalFrame \/ fatal)
  /\ pc' = "FlushWriteBuf"

\* The blank lines in a buffer, and the request in a head.  A head that is
\* not the bytes of one request is an unparsable request line or one with an
\* unknown method.
Ends(buf) == {e \in DOMAIN buf : buf[e].part = "end"}
Garbled ==
  [form : {"badline", "ok"}, method : {"OTHER"}, version : {"HTTP/1.1"},
   connection : {"none"}, length : {0}, chunked : {FALSE}]
Parse(head) ==
  IF Len(head) = 2 /\ head[1].part = "top" /\ head[1].of = head[2].of
    THEN {[of |-> head[2].of, req |-> reqs[head[2].of]]}
    ELSE [of : {0}, req : Garbled]

\* keepalive after the request line, and after the headers and the limit.
KeepAliveLine(r) ==
  keepalive /\ ~(r.version = "HTTP/1.0" /\ RequestsCompleted = 0)
KeepAliveHead_OffByOne(r) ==
  /\ \/ r.connection = "keep-alive"
     \/ r.connection = "none" /\ KeepAliveLine(r)
  /\ RequestsCompleted + 1 <= KeepAliveMax
KeepAliveHead(r) ==
  /\ \/ r.connection = "keep-alive"
     \/ r.connection = "none" /\ KeepAliveLine(r)
  /\ RequestsCompleted + 1 < KeepAliveMax

\* CheckRequest once request r, the i-th, is out of requestbuf.
CheckHead(i, r) ==
  LET ka == KeepAliveHead(r)
      tooLarge == r.length > MaxPostBody
      noBody == r.length > 0 /\ r.method # "POST"
      respond(code, fatal) ==
        SendError(i, code, fatal, ka) /\ RequestBodyLength' = r.length
  IN
  \/ /\ r.form = "badline" /\ SendError(i, 400, FALSE, keepalive)
     /\ UNCHANGED RequestBodyLength
  \/ /\ r.form = "badversion" /\ SendError(i, 505, FALSE, keepalive)
     /\ UNCHANGED RequestBodyLength
  \/ /\ r.form = "badheader" /\ SendError(i, 400, FALSE, KeepAliveLine(r))
     /\ UNCHANGED RequestBodyLength
  \/ r.form = "ok" /\ tooLarge /\ respond(413, TRUE)
  \/ r.form = "ok" /\ ~tooLarge /\ r.chunked /\ respond(500, TRUE)
  \/ r.form = "ok" /\ ~tooLarge /\ ~r.chunked /\ noBody /\ respond(500, TRUE)
  \/ /\ r.form = "ok" /\ ~tooLarge /\ ~r.chunked /\ r.length > 0 /\ ~noBody
     /\ State' = "HTTP_RECV_REQBODY"
     /\ RequestBodyLength' = r.length
     /\ keepalive' = ka
     /\ pc' = "Return"
     /\ UNCHANGED <<answers, sendq, interest, ResponseBackend,
                    ResponseBufferDone, fatalFrame>>
  \/ /\ r.form = "ok" /\ r.length = 0 /\ ~r.chunked /\ r.method = "OTHER"
     /\ respond(501, TRUE)
  \/ /\ r.form = "ok" /\ r.length = 0 /\ ~r.chunked /\ r.method # "OTHER"
     /\ keepalive' = ka
     /\ pc' = "ServeData"
     /\ UNCHANGED <<RequestBodyLength, State, answers, sendq, interest,
                    ResponseBackend, ResponseBufferDone, fatalFrame>>

\* CheckRequest: nothing to do until requestbuf holds a whole head, which is
\* erased from it, with its blank line, before anything is answered.
AfterHead_KeepsBlank(e) == Drop(requestbuf, e - 1)
AfterHead(e) == Drop(requestbuf, e)
CheckRequest ==
  /\ pc = "CheckRequest"
  /\ \/ /\ Ends(requestbuf) = {}
        /\ pc' = "Return"
        /\ UNCHANGED <<requestbuf, cur, RequestBodyLength, answers, sendq,
                       keepalive, interest, State, ResponseBackend,
                       ResponseBufferDone, fatalFrame>>
     \/ \E e \in Ends(requestbuf) :
          /\ \A f \in Ends(requestbuf) : e <= f
          /\ requestbuf' = AfterHead(e)
          /\ \E p \in Parse(Take(requestbuf, e)) :
               cur' = p.of /\ CheckHead(p.of, p.req)
  /\ UNCHANGED <<networkVars, event, readFrame, RequestBody, fileVars,
                 RequestsCompleted, quitting, reqs, framed>>

\* ServeData: CheckFilePath or open() fails, or the file's headers are queued.
ServeData ==
  /\ pc = "ServeData"
  /\ \/ /\ \E code \in FileErrors : SendError(cur, code, FALSE, keepalive)
        /\ UNCHANGED fileVars
     \/ \E size \in FileSizes :
          /\ filefd' = "open" /\ rfilesize' = size /\ rfilesent' = 0
          /\ ResponseBackend' = "WriteBackend"
          /\ SendHeaders(cur, 200, size, 0, keepalive, FALSE)
          /\ State' = "HTTP_SEND_HEADERS"
          /\ pc' = IF size = 0 THEN "EndRequest" ELSE "Return"
          /\ UNCHANGED <<ResponseBufferDone, fatalFrame>>
  /\ UNCHANGED <<networkVars, event, readFrame, requestVars,
                 RequestsCompleted, quitting, reqs, framed>>

\* How many units of a buffer send() takes: as many as there is room for, or
\* fewer.  It fails with EAGAIN when there is no room.
Sendable(len) ==
  {n \in 1 .. len : Len(sockbuf) + n <= SockBufSize}

\* FlushWriteBuf with an empty sendq: the end of a response made of buffers,
\* the beginning of a file's data, or nothing.
Flushed ==
  \/ /\ State = "HTTP_SEND_DATA" /\ ResponseBufferDone
     /\ pc' = "EndRequest"
     /\ UNCHANGED State
  \/ /\ State = "HTTP_SEND_HEADERS" /\ ResponseBackend # "NULL"
     /\ State' = "HTTP_SEND_DATA"
     /\ pc' = "SendStaticData"
  \/ /\ ~(State = "HTTP_SEND_DATA" /\ ResponseBufferDone)
     /\ ~(State = "HTTP_SEND_HEADERS" /\ ResponseBackend # "NULL")
     /\ pc' = "Return"
     /\ UNCHANGED State

\* Not all of sendq was taken.
Partial_NoWantWrite == pc' = "Return" /\ UNCHANGED <<interest, State>>
Partial_EndsRequest ==
  /\ pc' = IF ResponseBufferDone THEN "EndRequest" ELSE "Return"
  /\ WantWrite /\ UNCHANGED State
Partial == pc' = "Return" /\ WantWrite /\ UNCHANGED State

FlushWriteBuf ==
  /\ pc = "FlushWriteBuf"
  /\ \/ /\ sendq = <<>>
        /\ Flushed
        /\ UNCHANGED <<sendq, sockbuf, interest, quitting>>
     \/ /\ sendq # <<>> /\ peer = "gone"
        /\ Delete
        /\ pc' = "Return"
        /\ UNCHANGED <<sendq, sockbuf, interest>>
     \/ /\ sendq # <<>> /\ peer # "gone" /\ Sendable(Len(sendq)) = {}
        /\ Partial
        /\ UNCHANGED <<sendq, sockbuf, quitting>>
     \/ /\ sendq # <<>> /\ peer # "gone"
        /\ \E n \in Sendable(Len(sendq)) :
             /\ sockbuf' = sockbuf \o Take(sendq, n)
             /\ sendq' = Drop(sendq, n)
             /\ IF n = Len(sendq)
                  THEN Flushed /\ UNCHANGED interest
                  ELSE Partial
        /\ UNCHANGED quitting
  /\ UNCHANGED <<inq, received, peer, event, stackVars, requestVars,
                 ResponseBackend, ResponseBufferDone, fileVars, keepalive,
                 RequestsCompleted, historyVars>>

\* WriteBackend::ServeFile: the rest of the file goes straight to the socket,
\* as much of it as there is room for.
ServeFile ==
  /\ filefd = "open" /\ peer # "gone"
  /\ \/ /\ Sendable(rfilesize - rfilesent) = {}
        /\ UNCHANGED <<sockbuf, rfilesent>>
     \/ \E n \in Sendable(rfilesize - rfilesent) :
          /\ rfilesent' = rfilesent + n
          /\ sockbuf' = sockbuf \o
               [k \in 1 .. n |-> [resp |-> Len(answers),
                                  unit |-> rfilesent + k]]

\* SendStaticData.  ServeFile fails when the connection is reset, when there
\* is no file, or when mmap() fails.
SendStaticData ==
  /\ pc = "SendStaticData"
  /\ \/ /\ Delete
        /\ pc' = "Return"
        /\ UNCHANGED <<sockbuf, rfilesent, interest>>
     \/ /\ ServeFile
        /\ IF rfilesent' = rfilesize
             THEN pc' = "EndRequest" /\ UNCHANGED interest
             ELSE pc' = "Return" /\ WantWrite
        /\ UNCHANGED <<State, quitting>>
  /\ UNCHANGED <<inq, received, peer, event, stackVars, requestVars, sendq,
                 ResponseBackend, ResponseBufferDone, filefd, rfilesize,
                 keepalive, RequestsCompleted, historyVars>>

\* EndRequest: the connection ends, or it is made ready for the next request,
\* which may be in requestbuf already.
LastRequest_LimitHere == ~keepalive \/ RequestsCompleted' + 1 >= KeepAliveMax
LastRequest_IfNoMore == ~keepalive /\ requestbuf = <<>>
LastRequest == ~keepalive

ClearFile == filefd' = "closed" /\ rfilesize' = 0 /\ rfilesent' = 0

ClearResponse == ResponseBufferDone' = FALSE /\ ResponseBackend' = "NULL"

NextRequest_OnReadOnly == "Return"
NextRequest == IF requestbuf # <<>> THEN "CheckRequest" ELSE "Return"

EndRequest ==
  /\ pc = "EndRequest"
  /\ RequestsCompleted' = RequestsCompleted + 1
  /\ \/ /\ LastRequest
        /\ Delete
        /\ pc' = "Return"
        /\ UNCHANGED <<cur, RequestBodyLength, RequestBody, ResponseBackend,
                       ResponseBufferDone, fileVars>>
     \/ /\ ~LastRequest
        /\ State' = "HTTP_WAIT_REQUEST"
        /\ cur' = 0 /\ RequestBodyLength' = 0 /\ RequestBody' = <<>>
        /\ ClearResponse
        /\ ClearFile
        /\ pc' = NextRequest
        /\ UNCHANGED quitting
  /\ UNCHANGED <<networkVars, event, interest, stackVars, requestbuf, sendq,
                 keepalive, historyVars>>

-----------------------------------------------------------------------------
Client == ClientRequest \/ ClientReceive \/ ClientShut \/ ClientReset

Loop == Scan \/ Poll \/ HandleError \/ HandleWrite \/ HandleRead \/ Apply

Server ==
  \/ Loop \/ Return
  \/ CheckRequest \/ ServeData \/ FlushWriteBuf \/ SendStaticData \/ EndRequest

Next == Client \/ Server

\* Safety needs no fairness.  For liveness the process runs, and a client
\* that has not reset the connection takes what reaches it.
Spec == Init /\ [][Next]_vars
FairSpec == Spec /\ WF_vars(Server) /\ WF_vars(ClientReceive)
=============================================================================
