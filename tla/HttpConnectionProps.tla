------------------------ MODULE HttpConnectionProps ------------------------
(***************************************************************************)
(* The properties of HttpConnection, and the abstract specification it     *)
(* implements.                                                             *)
(***************************************************************************)
EXTENDS HttpConnection, FiniteSets

\* No handler is running.
AtRest == pc \in {"Scan", "Poll", "HandleEvent", "Apply"}

\* Every variable has its type: the sizes of the buffers are those of the
\* code's counters (rfilesent never passes rfilesize, and the kernel never
\* holds more than it has room for).
TypeOK ==
  /\ reqs \in Seq(Requests)
  /\ inq \in Seq(Token) /\ requestbuf \in Seq(Token) /\ RequestBody \in Seq(Token)
  /\ sockbuf \in Seq(Unit) /\ received \in Seq(Unit) /\ sendq \in Seq(Unit)
  /\ Len(sockbuf) <= SockBufSize
  /\ answers \in Seq(Answer)
  /\ peer \in {"open", "shut", "gone"}
  /\ pc \in {"Scan", "Poll", "HandleEvent", "Apply", "closed", "Return",
             "CheckRequest", "ServeData", "FlushWriteBuf", "SendStaticData",
             "EndRequest"}
  /\ event \in {"none", "ERROR", "WRITE", "READ"}
  /\ interest \in {"IN", "OUT"}
  /\ fatalFrame \in BOOLEAN /\ readFrame \in BOOLEAN
  /\ State \in States
  /\ cur \in Nat /\ RequestBodyLength \in Nat
  /\ keepalive \in BOOLEAN
  /\ ResponseBackend \in {"NULL", "WriteBackend"}
  /\ ResponseBufferDone \in BOOLEAN
  /\ filefd \in {"open", "closed"}
  /\ rfilesize \in Nat /\ rfilesent \in Nat /\ rfilesent <= rfilesize
  /\ RequestsCompleted \in Nat
  /\ quitting \in BOOLEAN /\ framed \in BOOLEAN

\* The bytes the server has produced, in the order the client gets them.
Stream == received \o sockbuf \o sendq

\* The unit that must follow unit u in the stream.
Successor(u) ==
  IF u.unit < answers[u.resp].size
    THEN [resp |-> u.resp, unit |-> u.unit + 1]
    ELSE [resp |-> u.resp + 1, unit |-> 0]

\* Responses leave in the order they were begun, each with its headers first
\* and its data whole: SendStaticData writes to the socket past sendq, so a
\* file's bytes could overtake headers still in sendq (buffer.cpp:179-193,
\* connections.cpp:209-212).
StreamIntact ==
  /\ Stream # <<>> => Stream[1] = [resp |-> 1, unit |-> 0]
  /\ \A j \in 1 .. Len(Stream) - 1 : Stream[j + 1] = Successor(Stream[j])

\* Nothing of a response begun is lost while the connection lives: what is
\* neither received, nor in the kernel, nor in sendq is the part of the file
\* that the backend has yet to send (request.cpp:369-371, 492-501).
NothingMissing ==
  (~quitting /\ answers # <<>>) =>
     /\ Stream # <<>>
     /\ Stream[Len(Stream)] =
          [resp |-> Len(answers),
           unit |-> IF ResponseBackend # "NULL"
                      THEN rfilesent ELSE answers[Len(answers)].size]

\* The answers HTTP allows to a request: what CheckRequest rejects is told
\* apart by its code; the rest is served or reported by ServeData.
AllowedCodes(r) ==
  IF r.form = "badversion" THEN {505}
  ELSE IF r.form # "ok" THEN {400}
  ELSE IF r.length > MaxPostBody THEN {413}
  ELSE IF r.chunked \/ (r.length > 0 /\ r.method # "POST") THEN {500}
  ELSE IF r.method = "OTHER" THEN {501}
  ELSE {200} \cup FileErrors

\* As long as heads and bodies are told apart, the n-th response answers the
\* n-th request, with a code that fits it: pipelined requests are neither
\* skipped, nor answered twice, nor answered out of turn (request.cpp:34-38,
\* 466-473).
AnswersMatch ==
  framed => \A n \in DOMAIN answers :
              /\ answers[n].req = n
              /\ answers[n].code \in AllowedCodes(reqs[n])

\* When the loop waits for events, a connection with something left to send
\* is watched for writing, in whatever way the previous handler ended:
\* the engine drops the interest on every EPOLLOUT
\* (socketengine_epoll.cpp:143-149) and each path has to ask for it again.
NoLostWakeup ==
  (AtRest /\ ~quitting
     /\ (sendq # <<>> \/ State \in {"HTTP_SEND_HEADERS", "HTTP_SEND_DATA"}))
  => interest = "OUT"

\* The file is open exactly while a backend response is being sent: a backend
\* never runs without a file (request.cpp:480-486 goes on after Delete if it
\* does), and no connection that waits for a request holds one.
BackendHasFile ==
  /\ (filefd = "open" /\ pc # "closed") <=> (ResponseBackend # "NULL" /\ pc # "closed")
  /\ pc = "closed" => filefd = "closed"
  /\ (AtRest /\ State \in {"HTTP_WAIT_REQUEST", "HTTP_RECV_REQBODY"})
       => filefd = "closed"

\* The bytes of a body never outnumber its length, so that the unsigned
\* subtraction in AddBuffer (buffer.cpp:95) does not wrap, and a connection
\* that waits for a body still lacks some of it.
BodyBounded ==
  /\ Len(RequestBody) <= RequestBodyLength
  /\ (AtRest /\ State = "HTTP_RECV_REQBODY") =>
       /\ Len(RequestBody) < RequestBodyLength
       /\ RequestBodyLength <= MaxPostBody

\* A connection that is kept holds no more unparsed bytes than the limit of
\* AddBuffer, which is checked after everything that the same read started
\* (buffer.cpp:129-134).  This is about requests without a body: the read that
\* completes a body returns before the check (buffer.cpp:112).
BufferBounded ==
  (AtRest /\ ~quitting) => Len(requestbuf) <= RequestBufLimit

\* A connection is closed after the number of requests the configuration
\* allows (request.cpp:125-130, docs/hottpd.conf.example:51-60).
KeepAliveLimit ==
  RequestsCompleted <= IF KeepAliveMax > 1 THEN KeepAliveMax ELSE 1

\* Once a connection is on the cull list nothing more is answered on it, even
\* though write events still reach it before CullList::Apply runs
\* (connectionmanager.cpp:48-53, connections.cpp:208-213).
QuitIsFinal ==
  [][quitting => UNCHANGED <<answers, RequestsCompleted>>]_vars

\* The step by which EndRequest closes the connection.
EndsConnection == pc = "EndRequest" /\ ~quitting /\ quitting'

\* The server closes a connection after a response only if that response said
\* so, or if there was a fatal error on the connection (request.cpp:416-421,
\* connections.cpp:79-83).
KeepAlivePromise ==
  [][EndsConnection =>
       \/ answers[Len(answers)].close
       \/ \E n \in DOMAIN answers : answers[n].fatal]_vars

\* "Connection's send queue.  Lines waiting to be sent are stored here until
\* their buffer is flushed" (connections.h:138-141): a connection that ends
\* with its last response has handed all of it to the kernel.
FlushedBeforeClose == [][EndsConnection => sendq = <<>>]_vars

\* Nothing is answered after a fatal error: "This will kill the connection,
\* which we must do because the client will send the request body anyway"
\* (request.cpp:158), and "connection is closed ASAP" (connections.cpp:81).
FatalIsLast ==
  \A n \in DOMAIN answers : answers[n].fatal => n = Len(answers)

\* "Waiting to finish recieving request data" (connections.h:27): a connection
\* in that state lacks bytes of the body, it has not read them already.
WaitsForMissingBytes ==
  (AtRest /\ State = "HTTP_RECV_REQBODY") =>
     LET early == {j \in DOMAIN requestbuf :
                     requestbuf[j] = [of |-> cur, part |-> "body"]}
     IN  Len(RequestBody) + Cardinality(early) < RequestBodyLength

\* What State means for the rest of the Connection object, between any two of
\* its functions: the inductive invariant behind QuitIsFinal, NoLostWakeup
\* and BackendHasFile.  Each function is called only in the states it expects,
\* and each leaves the connection waiting for writability when it leaves it
\* with something to send (request.cpp:308-502, buffer.cpp:145-194,
\* connections.cpp:63-84).
Waiting == State \in {"HTTP_WAIT_REQUEST", "HTTP_RECV_REQBODY"}
Sending == State \in {"HTTP_SEND_HEADERS", "HTTP_SEND_DATA"}

StateMeansBackend ==
  /\ quitting <=> State = "HTTP_FINISHED"
  /\ pc # "closed" => (filefd = "open" <=> ResponseBackend # "NULL")
  /\ pc = "closed" => quitting /\ filefd = "closed"
  /\ Waiting => ResponseBackend = "NULL" /\ ~ResponseBufferDone
  /\ State = "HTTP_SEND_HEADERS" => ResponseBackend # "NULL" /\ ~ResponseBufferDone
  /\ State = "HTTP_SEND_DATA" =>
       \/ ResponseBackend # "NULL" /\ ~ResponseBufferDone /\ sendq = <<>>
       \/ ResponseBackend = "NULL" /\ ResponseBufferDone

CalledInState ==
  /\ pc \in {"CheckRequest", "ServeData"} => Waiting
  /\ pc = "FlushWriteBuf" => ~(State = "HTTP_SEND_DATA" /\ ResponseBackend # "NULL")
  /\ pc = "SendStaticData" => State = "HTTP_SEND_DATA" /\ ResponseBackend # "NULL"
  /\ pc = "EndRequest" => Sending

WatchedForWriting ==
  (~quitting /\ pc # "FlushWriteBuf"
     /\ (sendq # <<>> \/ (Sending /\ (AtRest \/ pc = "Return"))))
  => interest = "OUT"

ControlInv == StateMeansBackend /\ CalledInState /\ WatchedForWriting

-----------------------------------------------------------------------------
\* The n-th response has reached the client.
Answered(n) ==
  /\ n <= Len(answers)
  /\ \E j \in DOMAIN received :
       received[j] = [resp |-> n, unit |-> answers[n].size]

\* Every request is answered in full, unless the connection ends or a body
\* was mixed up with a head: no response is left in a buffer and no pipelined
\* request in requestbuf (request.cpp:466-473, buffer.cpp:116-126).
RequestAnswered ==
  \A n \in 1 .. MaxRequests :
    (n <= Len(reqs)) ~>
      (Answered(n) \/ pc = "closed" \/ peer # "open" \/ ~framed)

\* When the client has closed or reset the connection, the server finds out
\* and frees its end: it comes back to reading after whatever it was sending
\* (socketengine_epoll.cpp:143-149, buffer.cpp:70-74).
PeerGoneIsReaped == (peer # "open") ~> (pc = "closed")

-----------------------------------------------------------------------------
\* The connection seen by its client.
Exchange ==
  INSTANCE HttpExchange
    WITH requests <- reqs, responses <- answers, delivered <- received,
         open <- (pc # "closed")

\* HttpConnection implements HttpExchange: responses in turn, none after one
\* that announced the end, each delivered whole (request.cpp:378-474).
ImplementsExchange == Exchange!Spec
=============================================================================
