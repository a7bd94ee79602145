------------------------- MODULE HttpExchangeProofs -------------------------
(***************************************************************************)
(* Theorems about what the client of HttpConnection may rely on: how its   *)
(* connection ends, the limits it is kept within, and that it implements   *)
(* HttpExchange, for every value of the constants.                         *)
(***************************************************************************)
EXTENDS HttpOrderProofs

-----------------------------------------------------------------------------
(* How a connection ends.                                                   *)

USE DEF vars, networkVars, stackVars, requestVars, fileVars, responseVars,
        lifeVars, historyVars

\* EndRequest runs with an empty sendq, unless a file without data was opened:
\* ServeData then calls it right after the headers were queued
\* (request.cpp:369-371).
EndsFlushed == pc = "EndRequest" => sendq = <<>>

LEMMA EndsFlushedNext ==
  ASSUME 0 \notin FileSizes
  PROVE  TypeOK /\ ControlInv /\ EndsFlushed /\ [Next]_vars => EndsFlushed'
<1> SUFFICES ASSUME TypeOK, ControlInv, EndsFlushed, [Next]_vars,
                    pc' = "EndRequest"
             PROVE  sendq' = <<>>
  BY DEF EndsFlushed
<1>1. CASE Client \/ UNCHANGED vars
  BY <1>1 DEF EndsFlushed, Client, ClientRequest, ClientReceive, ClientShut,
              ClientReset
<1>2. CASE SendStaticData
  <2>1. pc = "SendStaticData" /\ sendq' = sendq
    BY <1>2 DEF SendStaticData
  <2> QED BY <2>1 DEF ControlInv, CalledInState, StateMeansBackend
<1>3. CASE FlushWriteBuf
  <2>1. CASE sendq = <<>> /\ sendq' = sendq
    BY <2>1
  <2>2. CASE \E n \in Sendable(Len(sendq)) :
               sendq' = Drop(sendq, n) /\ (n = Len(sendq) \/ Partial)
    <3>1. sendq' = Drop(sendq, Len(sendq)) /\ Len(sendq) \in Nat
      BY <2>2, LenProperties DEF Partial, TypeOK
    <3>2. sendq' \in Seq(Unit) /\ Len(sendq') = Len(sendq) - Len(sendq)
      <4>1. sendq \in Seq(Unit) /\ Len(sendq) \in 0 .. Len(sendq)
        BY <3>1 DEF TypeOK
      <4>2. /\ Drop(sendq, Len(sendq)) \in Seq(Unit)
            /\ Len(Drop(sendq, Len(sendq))) = Len(sendq) - Len(sendq)
        BY <4>1, TakeDrop
      <4> QED BY <3>1, <4>2
    <3>3. Len(sendq') = 0
      BY <3>1, <3>2
    <3> QED BY <3>2, <3>3, EmptySeq
  <2> QED BY <1>3, <2>1, <2>2 DEF FlushWriteBuf, Partial
<1>4. CASE ServeData
  <2>1. pc' # "EndRequest"
    BY <1>4 DEF ServeData, SendError
  <2> QED BY <2>1
<1>5. CASE CheckRequest
  <2>1. pc' # "EndRequest"
    BY <1>5, CheckRequestCases DEF TurnedDown, Accepted, SendError
  <2> QED BY <2>1
<1>6. CASE Loop \/ Return \/ EndRequest
  <2>1. pc' # "EndRequest"
    BY <1>6, Zenon DEF Loop, Scan, Poll, HandleError, HandleWrite, HandleRead,
       AddBuffer, Apply, Return, EndRequest, NextRequest
  <2> QED BY <2>1
<1> QED BY <1>1, <1>2, <1>3, <1>4, <1>5, <1>6 DEF Next, Server

\* The step that ends the connection is EndRequest, after a response that is
\* not to be followed by another.
LEMMA EndingStep ==
  ASSUME ControlInv, Next, EndsConnection
  PROVE  Sending /\ ~keepalive
<1>1. EndRequest
  <2>1. ~Client
    BY DEF EndsConnection, Client, ClientRequest, ClientReceive, ClientShut,
           ClientReset
  <2>2. pc = "EndRequest"
    BY DEF EndsConnection
  <2> QED BY <2>1, <2>2
          DEF Next, Server, Loop, Scan, Poll, HandleError, HandleWrite,
              HandleRead, Apply, Return, CheckRequest, ServeData,
              FlushWriteBuf, SendStaticData
<1>2. LastRequest
  BY <1>1 DEF EndRequest, EndsConnection
<1> QED BY <1>1, <1>2 DEF EndRequest, LastRequest, ControlInv, CalledInState

\* What the headers said about the connection.  A response that announces its
\* end is the last; keepalive is cleared after the headers only for a fatal
\* error (connections.cpp:79-83), and one was reported by then.
FatalSaid == \E n \in DOMAIN answers : answers[n].fatal

PromiseInv ==
  /\ fatalFrame => FatalSaid
  /\ Sending =>
       /\ answers # <<>>
       /\ answers[Len(answers)].close => ~keepalive
       /\ ~keepalive => answers[Len(answers)].close \/ FatalSaid
  /\ \A n \in DOMAIN answers : answers[n].close => n = Len(answers) /\ ~Waiting

\* A response is begun: its headers say what keepalive is.
LEMMA PromiseSendHeaders ==
  ASSUME TypeOK, PromiseInv, Waiting, Sending',
         NEW i \in Nat, NEW code \in Nat, NEW size \in Nat, NEW data,
         NEW ka \in BOOLEAN, NEW fatal \in BOOLEAN,
         SendHeaders(i, code, size, data, ka, fatal),
         fatalFrame' => fatalFrame \/ fatal
  PROVE  PromiseInv'
<1> DEFINE n == Len(answers) + 1
           ans == [req |-> i, code |-> code, size |-> size,
                   close |-> ~ka, fatal |-> fatal]
<1>1. answers' = Append(answers, ans) /\ keepalive' = ka
  BY DEF SendHeaders
<1>2. /\ answers' \in Seq(Answer) /\ Len(answers') = n /\ answers'[n] = ans
      /\ \A k \in 1 .. Len(answers) : answers'[k] = answers[k]
      /\ Len(answers) \in Nat
  <2>1. ans \in Answer /\ answers \in Seq(Answer)
    BY DEF Answer, TypeOK
  <2> HIDE DEF ans
  <2> QED BY <1>1, <2>1, AppendProperties, LenProperties
<1>3. DOMAIN answers = 1 .. Len(answers) /\ DOMAIN answers' = 1 .. n
  BY <1>2, LenProperties DEF TypeOK
<1>4. answers'[n].close = ~ka /\ answers'[n].fatal = fatal
  BY <1>2
<1>5. fatalFrame' => FatalSaid'
  <2>1. CASE fatalFrame
    <3>1. PICK k \in DOMAIN answers : answers[k].fatal
      BY <2>1 DEF PromiseInv, FatalSaid
    <3>2. k \in DOMAIN answers' /\ answers'[k] = answers[k]
      BY <1>2, <1>3, <3>1
    <3> QED BY <3>1, <3>2 DEF FatalSaid
  <2>2. CASE fatal
    <3>1. n \in DOMAIN answers'
      BY <1>2, <1>3
    <3> QED BY <1>4, <2>2, <3>1 DEF FatalSaid
  <2> QED BY <2>1, <2>2
<1>6. answers' # <<>>
  BY <1>2, EmptySeq
<1>7. ASSUME NEW k \in DOMAIN answers', answers'[k].close PROVE k = n
  <2>1. CASE k \in 1 .. Len(answers)
    BY <1>2, <1>3, <1>7, <2>1 DEF PromiseInv
  <2> QED BY <1>2, <1>3, <2>1
<1>8. ~Waiting'
  BY DEF Sending, Waiting
<1>9. /\ answers'[n].close => ~keepalive'
      /\ ~keepalive' => answers'[n].close
  BY <1>1, <1>4, Zenon
<1> HIDE DEF ans, n
<1> QED BY <1>2, <1>5, <1>6, <1>7, <1>8, <1>9 DEF PromiseInv

LEMMA PromiseSame ==
  ASSUME PromiseInv, UNCHANGED answers,
         fatalFrame' => FatalSaid,
         Waiting' => Waiting,
         Sending' => Sending
                     /\ (keepalive' = keepalive \/ (FatalSaid /\ ~keepalive'))
  PROVE  PromiseInv'
BY DEF PromiseInv, FatalSaid

LEMMA PromiseSendError ==
  ASSUME TypeOK, PromiseInv, Waiting,
         NEW i \in Nat, NEW code \in Nat, NEW fatal \in BOOLEAN,
         NEW ka \in BOOLEAN, SendError(i, code, fatal, ka)
  PROVE  PromiseInv'
<1> DEFINE size == 1
<1>1. SendHeaders(i, code, size, size, ka, fatal) /\ Sending'
  BY DEF SendError, Sending
<1>2. fatalFrame' => fatalFrame \/ fatal
  BY DEF SendError
<1>3. size \in Nat
  OBVIOUS
<1> HIDE DEF size
<1> QED BY <1>1, <1>2, <1>3, PromiseSendHeaders

LEMMA PromiseNext == TypeOK /\ ControlInv /\ PromiseInv /\ [Next]_vars => PromiseInv'
<1> SUFFICES ASSUME TypeOK, ControlInv, PromiseInv, [Next]_vars
             PROVE  PromiseInv'
  OBVIOUS
<1>1. CASE Client \/ Loop \/ UNCHANGED vars
  <2>1. /\ UNCHANGED <<answers, fatalFrame, keepalive>>
        /\ State' \in {State, "HTTP_FINISHED"}
    BY <1>1, Zenon DEF Client, ClientRequest, ClientReceive, ClientShut,
       ClientReset, Loop, Scan, Poll, HandleError, HandleWrite, HandleRead,
       Apply, Delete
  <2> QED BY <2>1, PromiseSame DEF PromiseInv, Waiting, Sending
<1>2. CASE Return
  <2>1. /\ UNCHANGED answers /\ ~fatalFrame' /\ State' \in {State, "HTTP_FINISHED"}
        /\ keepalive' = (keepalive /\ ~fatalFrame)
    BY <1>2 DEF Return, Delete
  <2>2. CASE fatalFrame
    BY <2>1, <2>2, PromiseSame DEF PromiseInv, Waiting, Sending
  <2>3. CASE ~fatalFrame
    <3>1. keepalive' = keepalive
      BY <2>1, <2>3 DEF TypeOK
    <3> QED BY <2>1, <3>1, PromiseSame DEF Waiting, Sending
  <2> QED BY <2>2, <2>3
<1>3. CASE FlushWriteBuf \/ SendStaticData
  <2>1. UNCHANGED <<answers, fatalFrame, keepalive>>
    BY <1>3 DEF FlushWriteBuf, SendStaticData
  <2>2. \/ State' = State \/ State' = "HTTP_FINISHED"
        \/ State = "HTTP_SEND_HEADERS" /\ State' = "HTTP_SEND_DATA"
    BY <1>3 DEF FlushWriteBuf, Flushed, Partial, SendStaticData, Delete
  <2> QED BY <2>1, <2>2, PromiseSame DEF PromiseInv, Waiting, Sending
<1>4. CASE CheckRequest
  <2>1. Waiting
    BY <1>4 DEF CheckRequest, ControlInv, CalledInState
  <2>2. CASE UNCHANGED answers /\ UNCHANGED fatalFrame /\ Waiting'
    <3>1. ~Sending'
      BY <2>2 DEF Waiting, Sending
    <3> QED BY <2>1, <2>2, <3>1, PromiseSame DEF PromiseInv
  <2>3. CASE \E i \in Nat, r \in Request : TurnedDown(i, r)
    <3> PICK i \in Nat, r \in Request : TurnedDown(i, r)
      BY <2>3
    <3> PICK code \in AllowedCodes(r) \cap Nat, fatal \in BOOLEAN, ka \in BOOLEAN :
          SendError(i, code, fatal, ka)
      BY Zenon DEF TurnedDown
    <3> QED BY <2>1, PromiseSendError
  <2> QED BY <1>4, <2>1, <2>2, <2>3, CheckRequestCases DEF Accepted, Waiting
<1>5. CASE ServeData
  <2>1. Waiting /\ cur \in Nat /\ keepalive \in BOOLEAN
    BY <1>5 DEF ServeData, ControlInv, CalledInState, TypeOK
  <2> DEFINE fatal == FALSE
  <2>2. fatal \in BOOLEAN
    BY Zenon
  <2>3. CASE \E code \in FileErrors : SendError(cur, code, fatal, keepalive)
    <3> PICK code \in FileErrors : SendError(cur, code, fatal, keepalive)
      BY <2>3
    <3>1. code \in Nat
      BY FilesAssumption
    <3> HIDE DEF fatal
    <3> QED BY <2>1, <2>2, <3>1, PromiseSendError
  <2>4. CASE \E size \in FileSizes :
               /\ SendHeaders(cur, 200, size, 0, keepalive, fatal)
               /\ State' = "HTTP_SEND_HEADERS" /\ UNCHANGED fatalFrame
    <3> PICK size \in FileSizes :
          /\ SendHeaders(cur, 200, size, 0, keepalive, fatal)
          /\ State' = "HTTP_SEND_HEADERS" /\ UNCHANGED fatalFrame
      BY <2>4
    <3> DEFINE code == 200  data == 0
    <3>1. code \in Nat /\ size \in Nat
      BY FilesAssumption
    <3>2. SendHeaders(cur, code, size, data, keepalive, fatal)
      BY Zenon
    <3>3. Sending' /\ (fatalFrame' => fatalFrame \/ fatal)
      BY DEF Sending
    <3> HIDE DEF fatal, code, data
    <3> QED BY <2>1, <2>2, <3>1, <3>2, <3>3, PromiseSendHeaders
  <2> QED BY <1>5, <2>3, <2>4, Zenon DEF ServeData
<1>6. CASE EndRequest
  <2>1. UNCHANGED <<answers, fatalFrame, keepalive>> /\ Sending
    BY <1>6 DEF EndRequest, ControlInv, CalledInState
  <2>2. CASE LastRequest
    <3>1. State' = "HTTP_FINISHED"
      BY <1>6, <2>2 DEF EndRequest, Delete
    <3> QED BY <2>1, <3>1, PromiseSame DEF PromiseInv, Waiting, Sending
  <2>3. CASE ~LastRequest
    <3>1. State' = "HTTP_WAIT_REQUEST"
      BY <1>6, <2>3 DEF EndRequest
    <3>2. \A k \in DOMAIN answers : ~answers[k].close
      BY <2>1, <2>3 DEF PromiseInv, LastRequest
    <3> QED BY <2>1, <3>1, <3>2 DEF PromiseInv, FatalSaid, Sending
  <2> QED BY <2>2, <2>3
<1> QED BY <1>1, <1>2, <1>3, <1>4, <1>5, <1>6 DEF Next, Server

HIDE DEF vars, networkVars, stackVars, requestVars, fileVars, responseVars,
         lifeVars, historyVars

LEMMA PromiseCorrect == Spec => []PromiseInv
<1>1. Init => PromiseInv
  <2>1. DOMAIN <<>> = {}
    OBVIOUS
  <2> QED BY <2>1 DEF Init, PromiseInv, Sending
<1>2. TypeOK /\ ControlInv /\ PromiseInv /\ [Next]_vars => PromiseInv'
  BY PromiseNext
<1> QED BY <1>1, <1>2, TypeCorrect, ControlCorrect, PTL DEF Spec

\* A connection ends with a response only if that response announced it, or
\* after a fatal error: the client can rely on the Connection header.
THEOREM PromiseKept == Spec => KeepAlivePromise
<1>1. ControlInv /\ PromiseInv /\ [Next]_vars
        => [EndsConnection =>
              \/ answers[Len(answers)].close
              \/ \E n \in DOMAIN answers : answers[n].fatal]_vars
  BY EndingStep DEF PromiseInv, FatalSaid
<1> QED BY <1>1, ControlCorrect, PromiseCorrect, PTL DEF Spec, KeepAlivePromise

\* Unless a file without data is served, what closes a connection with its
\* last response leaves nothing of it in sendq.
THEOREM FlushedWhenClosed ==
  ASSUME 0 \notin FileSizes PROVE Spec => FlushedBeforeClose
<1>1. Init => EndsFlushed
  BY DEF Init, EndsFlushed
<1>2. TypeOK /\ ControlInv /\ EndsFlushed /\ [Next]_vars => EndsFlushed'
  BY EndsFlushedNext
<1>3. EndsFlushed => [EndsConnection => sendq = <<>>]_vars
  BY DEF EndsFlushed, EndsConnection
<1> QED BY <1>1, <1>2, <1>3, TypeCorrect, ControlCorrect, PTL
        DEF Spec, FlushedBeforeClose

-----------------------------------------------------------------------------
(* The limits of a connection.                                              *)

USE DEF vars, networkVars, stackVars, requestVars, fileVars, responseVars,
        lifeVars, historyVars

\* The inductive invariant behind KeepAliveLimit: the limit is applied when a
\* head is read, one request before the connection ends (request.cpp:125-130),
\* and the request counter is only advanced when its response is done.
LimitInv ==
  framed =>
    /\ ~quitting => RequestsCompleted = 0 \/ RequestsCompleted < KeepAliveMax
    /\ (Sending \/ BeingServed) /\ keepalive => RequestsCompleted + 1 < KeepAliveMax
    /\ KeepAliveLimit

\* A step that completes no request, and serves one only with what keepalive
\* was already.
LEMMA LimitSame ==
  ASSUME LimitInv, framed' => framed, UNCHANGED RequestsCompleted,
         ~quitting' => ~quitting,
         (Sending' \/ BeingServed') /\ keepalive' =>
            \/ (Sending \/ BeingServed) /\ keepalive
            \/ RequestsCompleted + 1 < KeepAliveMax
  PROVE  LimitInv'
BY DEF LimitInv, KeepAliveLimit

LEMMA LimitEndRequest == TypeOK /\ ControlInv /\ LimitInv /\ EndRequest => LimitInv'
<1> SUFFICES ASSUME TypeOK, ControlInv, LimitInv, EndRequest, framed
             PROVE  LimitInv'
  BY DEF LimitInv, EndRequest
<1>1. /\ RequestsCompleted' = RequestsCompleted + 1 /\ UNCHANGED keepalive
      /\ Sending /\ ~quitting /\ pc' # "ServeData"
      /\ RequestsCompleted \in Nat /\ KeepAliveMax \in Int
  BY LimitsAssumption DEF EndRequest, NextRequest, ControlInv, CalledInState,
     StateMeansBackend, Sending, TypeOK
<1>2. RequestsCompleted = 0 \/ RequestsCompleted < KeepAliveMax
  BY <1>1 DEF LimitInv
<1>3. KeepAliveLimit'
  BY <1>1, <1>2 DEF KeepAliveLimit
<1>4. ~Sending' /\ ~BeingServed'
  BY <1>1 DEF EndRequest, Delete, Sending, BeingServed
<1>5. ~quitting' => RequestsCompleted' < KeepAliveMax
  <2> SUFFICES ASSUME ~quitting' PROVE RequestsCompleted' < KeepAliveMax
    OBVIOUS
  <2>1. keepalive
    BY DEF EndRequest, Delete, LastRequest
  <2> QED BY <1>1, <2>1 DEF LimitInv
<1> QED BY <1>3, <1>4, <1>5 DEF LimitInv

LEMMA LimitCheckRequest ==
  ASSUME \A r \in Requests : r.form = "ok"
  PROVE  TypeOK /\ ControlInv /\ BodyInv /\ OrderInv /\ LimitInv /\ CheckRequest
           => LimitInv'
<1> SUFFICES ASSUME TypeOK, ControlInv, BodyInv, OrderInv, LimitInv,
                    CheckRequest, framed
             PROVE  LimitInv'
  BY DEF LimitInv, CheckRequest
<1>1. /\ UNCHANGED <<framed, RequestsCompleted, quitting>> /\ pc = "CheckRequest"
      /\ State = "HTTP_WAIT_REQUEST" /\ ~quitting
  BY DEF CheckRequest, BodyInv, ControlInv, StateMeansBackend
<1>2. CASE UNCHANGED State /\ pc' = "Return"
  BY <1>1, <1>2, LimitSame DEF Sending, BeingServed
<1>3. CASE \E e \in Ends(requestbuf) : \E p \in Parse(Take(requestbuf, e)) :
             /\ \A f \in Ends(requestbuf) : e <= f
             /\ TurnedDown(p.of, p.req) \/ Accepted(p.req)
  <2> PICK e \in Ends(requestbuf) : \E p \in Parse(Take(requestbuf, e)) :
             /\ \A f \in Ends(requestbuf) : e <= f
             /\ TurnedDown(p.of, p.req) \/ Accepted(p.req)
    BY <1>3
  <2> PICK p \in Parse(Take(requestbuf, e)) :
             /\ \A f \in Ends(requestbuf) : e <= f
             /\ TurnedDown(p.of, p.req) \/ Accepted(p.req)
    OBVIOUS
  <2>1. p.of \in 1 .. Len(reqs) /\ p.req = reqs[p.of]
    <3>1. FirstHead(e, p)
      BY <1>1 DEF FirstHead
    <3> QED BY <3>1, FirstHeadIsNext
  <2>2. p.req.form = "ok"
    <3>1. reqs \in Seq(Requests)
      BY DEF TypeOK
    <3>2. reqs[p.of] \in Requests
      BY <2>1, <3>1, ElementOfSeq
    <3> QED BY <2>1, <3>2
  <2>3. keepalive' = KeepAliveHead(p.req)
    <3>1. CASE Accepted(p.req)
      BY <3>1 DEF Accepted
    <3>2. CASE TurnedDown(p.of, p.req)
      <4>1. PICK code, fatal, ka : SendError(p.of, code, fatal, ka)
                                     /\ ka = KeepAliveHead(p.req)
        BY <2>2, <3>2, Zenon DEF TurnedDown
      <4> QED BY <4>1 DEF SendError, SendHeaders
    <3> QED BY <3>1, <3>2
  <2>4. keepalive' => RequestsCompleted + 1 < KeepAliveMax
    BY <2>3 DEF KeepAliveHead
  <2> QED BY <1>1, <2>4, LimitSame
<1> QED BY <1>2, <1>3, CheckRequestCases

LEMMA LimitNext ==
  ASSUME \A r \in Requests : r.form = "ok"
  PROVE  TypeOK /\ ControlInv /\ BodyInv /\ OrderInv /\ LimitInv /\ [Next]_vars
           => LimitInv'
<1> SUFFICES ASSUME TypeOK, ControlInv, BodyInv, OrderInv, LimitInv, [Next]_vars
             PROVE  LimitInv'
  OBVIOUS
<1>1. CASE UNCHANGED vars \/ Client
  <2>1. UNCHANGED <<framed, RequestsCompleted, quitting, State, pc, keepalive>>
    BY <1>1 DEF Client, ClientRequest, ClientReceive, ClientShut, ClientReset
  <2> QED BY <2>1, LimitSame DEF Sending, BeingServed
<1>2. CASE Scan \/ Poll \/ HandleError \/ HandleWrite \/ Apply \/ Return
             \/ FlushWriteBuf \/ SendStaticData
  <2>1. /\ UNCHANGED <<framed, RequestsCompleted>> /\ (~quitting' => ~quitting)
        /\ pc' # "ServeData" /\ (State' \in {State, "HTTP_FINISHED"} \/ Sending)
    BY <1>2 DEF Scan, Poll, HandleError, HandleWrite, Apply, Return, Delete,
       FlushWriteBuf, Flushed, Partial, SendStaticData, Sending
  <2>2. keepalive' => keepalive
    <3>1. CASE Return
      BY <3>1 DEF Return
    <3>2. CASE ~Return
      BY <1>2, <3>2, Zenon DEF Scan, Poll, HandleError, HandleWrite, Apply,
         FlushWriteBuf, SendStaticData
    <3> QED BY <3>1, <3>2
  <2> QED BY <2>1, <2>2, LimitSame DEF Sending, BeingServed
<1>3. CASE HandleRead
  <2>1. UNCHANGED <<RequestsCompleted, keepalive>> /\ (~quitting' => ~quitting)
    BY <1>3 DEF HandleRead, Delete
  <2>2. framed' => framed
    <3>1. UNCHANGED framed \/ \E n \in 1 .. Len(inq) : AddBuffer(Take(inq, n))
      BY <1>3 DEF HandleRead
    <3>2. ASSUME NEW a, AddBuffer(a) PROVE framed' => framed
      BY <3>2 DEF AddBuffer
    <3> QED BY <3>1, <3>2
  <2>3. /\ State' \in {State, "HTTP_FINISHED"}
        /\ pc' = "ServeData" => State = "HTTP_RECV_REQBODY"
    <3>1. \/ pc' = "Apply" /\ (UNCHANGED State \/ Delete)
          \/ UNCHANGED State /\ \E n \in 1 .. Len(inq) : AddBuffer(Take(inq, n))
      BY <1>3 DEF HandleRead
    <3>2. ASSUME NEW a, AddBuffer(a)
          PROVE  pc' = "ServeData" => State = "HTTP_RECV_REQBODY"
      BY <3>2 DEF AddBuffer
    <3> QED BY <3>1, <3>2 DEF Delete
  <2> QED BY <2>1, <2>2, <2>3, LimitSame DEF Sending, BeingServed
<1>4. CASE ServeData
  <2>1. /\ UNCHANGED <<framed, RequestsCompleted, quitting>>
        /\ keepalive' = keepalive /\ BeingServed
    BY <1>4 DEF ServeData, SendError, SendHeaders, BeingServed
  <2> QED BY <2>1, LimitSame
<1> QED BY <1>1, <1>2, <1>3, <1>4, LimitEndRequest, LimitCheckRequest
        DEF Next, Server, Loop

HIDE DEF vars, networkVars, stackVars, requestVars, fileVars, responseVars,
         lifeVars, historyVars

\* A connection whose requests can all be parsed ends after as many of them as
\* the configuration allows.  A request that is turned down before its headers
\* are read escapes the limit (request.cpp:57, 88, 100): the hypothesis is
\* needed.
THEOREM LimitKept ==
  ASSUME \A r \in Requests : r.form = "ok"
  PROVE  Spec => [](framed => KeepAliveLimit)
<1>1. Init => LimitInv
  <2> SUFFICES ASSUME Init PROVE LimitInv
    OBVIOUS
  <2>1. RequestsCompleted = 0 /\ ~Sending /\ ~BeingServed /\ KeepAliveMax \in Int
    BY LimitsAssumption DEF Init, Sending, BeingServed
  <2> QED BY <2>1 DEF LimitInv, KeepAliveLimit
<1>2. TypeOK /\ ControlInv /\ BodyInv /\ OrderInv /\ LimitInv /\ [Next]_vars
        => LimitInv'
  BY LimitNext
<1>3. LimitInv => (framed => KeepAliveLimit)
  BY DEF LimitInv
<1> QED BY <1>1, <1>2, <1>3, TypeCorrect, ControlCorrect, BodyCorrect,
        OrderCorrect, PTL DEF Spec

USE DEF vars, networkVars, stackVars, requestVars, fileVars, responseVars,
        lifeVars, historyVars

\* The inductive invariant behind BufferBounded: while no handler that began
\* with a read is on its way back, requestbuf has been checked.
BufferInv ==
  /\ State # "HTTP_RECV_REQBODY"
  /\ ~quitting /\ (AtRest \/ ~readFrame) => Len(requestbuf) <= RequestBufLimit

\* A step that ends no read and adds nothing to requestbuf.
LEMMA BufferSame ==
  ASSUME TypeOK, BufferInv, ~quitting' => ~quitting, UNCHANGED readFrame,
         Len(requestbuf') <= Len(requestbuf), Len(requestbuf') \in Nat,
         AtRest' => AtRest, State' # "HTTP_RECV_REQBODY"
  PROVE  BufferInv'
<1>1. Len(requestbuf) \in Nat /\ RequestBufLimit \in Nat
  BY LenProperties, LimitsAssumption DEF TypeOK
<1> QED BY <1>1 DEF BufferInv

LEMMA BufferCheckRequest ==
  ASSUME \A r \in Requests : r.length = 0
  PROVE  TypeOK /\ ControlInv /\ BufferInv /\ CheckRequest => BufferInv'
<1> SUFFICES ASSUME TypeOK, ControlInv, BufferInv, CheckRequest PROVE BufferInv'
  OBVIOUS
<1>1. /\ UNCHANGED <<readFrame, quitting>> /\ requestbuf \in Seq(Token)
      /\ Len(requestbuf) \in Nat /\ pc = "CheckRequest"
  BY LenProperties DEF CheckRequest, TypeOK
<1>2. CASE UNCHANGED <<requestbuf, State>> /\ pc' = "Return"
  BY <1>1, <1>2, BufferSame DEF AtRest, BufferInv
<1>3. CASE \E e \in Ends(requestbuf) : \E p \in Parse(Take(requestbuf, e)) :
             /\ requestbuf' = Drop(requestbuf, e)
             /\ TurnedDown(p.of, p.req) \/ Accepted(p.req)
  <2> PICK e \in Ends(requestbuf) : \E p \in Parse(Take(requestbuf, e)) :
             /\ requestbuf' = Drop(requestbuf, e)
             /\ TurnedDown(p.of, p.req) \/ Accepted(p.req)
    BY <1>3
  <2> PICK p \in Parse(Take(requestbuf, e)) :
             /\ requestbuf' = Drop(requestbuf, e)
             /\ TurnedDown(p.of, p.req) \/ Accepted(p.req)
    OBVIOUS
  <2> DEFINE head == Take(requestbuf, e)
  <2>1. e \in 1 .. Len(requestbuf) /\ e \in 0 .. Len(requestbuf)
    BY <1>1, LenProperties DEF Ends
  <2>2. Len(requestbuf') = Len(requestbuf) - e
    BY <1>1, <2>1, TakeDrop
  <2>3. Len(requestbuf') <= Len(requestbuf) /\ Len(requestbuf') \in Nat
    BY <1>1, <2>1, <2>2
  <2>4. head \in Seq(Token)
    BY <1>1, <2>1, TakeDrop
  <2> HIDE DEF head
  <2>5. p.req.length = 0
    <3>1. CASE p \in [of : {0}, req : Garbled]
      BY <3>1 DEF Garbled
    <3>2. CASE /\ Len(head) = 2
               /\ p \in {[of |-> head[2].of, req |-> reqs[head[2].of]]}
      <4>1. head[2] \in Token
        BY <2>4, <3>2, ElementOfSeq
      <4>2. head[2].of \in 1 .. Len(reqs) /\ reqs \in Seq(Requests)
        BY <4>1 DEF Token, TypeOK
      <4>3. reqs[head[2].of] \in Requests
        BY <4>2, ElementOfSeq
      <4> QED BY <3>2, <4>3
    <3>3. p \in Parse(head)
      BY DEF head
    <3> QED BY <3>1, <3>2, <3>3 DEF Parse
  <2>6. State' # "HTTP_RECV_REQBODY" /\ ~AtRest'
    <3>1. CASE Accepted(p.req)
      BY <2>5, <3>1 DEF Accepted, BufferInv, AtRest
    <3>2. CASE TurnedDown(p.of, p.req)
      <4>1. PICK code, fatal, ka : SendError(p.of, code, fatal, ka)
        BY <3>2, Zenon DEF TurnedDown
      <4> QED BY <4>1 DEF SendError, AtRest
    <3> QED BY <3>1, <3>2
  <2> QED BY <1>1, <2>3, <2>6, BufferSame
<1> QED BY <1>2, <1>3, CheckRequestCases

LEMMA BufferNext ==
  ASSUME \A r \in Requests : r.length = 0
  PROVE  TypeOK /\ ControlInv /\ BufferInv /\ [Next]_vars => BufferInv'
<1> SUFFICES ASSUME TypeOK, ControlInv, BufferInv, [Next]_vars PROVE BufferInv'
  OBVIOUS
<1>1. Len(requestbuf) \in Nat /\ RequestBufLimit \in Nat
  BY LenProperties, LimitsAssumption DEF TypeOK
<1>2. CASE UNCHANGED vars \/ Client
  <2>1. UNCHANGED <<quitting, State, pc, requestbuf, readFrame>>
    BY <1>2 DEF Client, ClientRequest, ClientReceive, ClientShut, ClientReset
  <2> QED BY <1>1, <2>1, BufferSame DEF AtRest, BufferInv
<1>3. CASE Scan \/ Poll \/ HandleError \/ HandleWrite \/ Apply
             \/ ServeData \/ FlushWriteBuf \/ SendStaticData \/ EndRequest
  <2>1. UNCHANGED <<requestbuf, readFrame>>
    BY <1>3, Zenon DEF Scan, Poll, HandleError, HandleWrite, Apply, ServeData,
       FlushWriteBuf, SendStaticData, EndRequest
  <2>2. ~quitting' => ~quitting
    BY <1>3 DEF Scan, Poll, HandleError, HandleWrite, Apply, Delete, ServeData,
       FlushWriteBuf, SendStaticData, EndRequest
  <2>3. AtRest' => AtRest
    <3>1. CASE Scan \/ Poll \/ HandleError \/ HandleWrite \/ Apply
      BY <3>1 DEF Scan, Poll, HandleError, HandleWrite, Apply, AtRest
    <3>2. CASE ServeData
      BY <3>2 DEF ServeData, SendError, AtRest
    <3>3. CASE FlushWriteBuf \/ SendStaticData \/ EndRequest
      BY <3>3 DEF FlushWriteBuf, Flushed, Partial, SendStaticData, EndRequest,
         NextRequest, AtRest
    <3> QED BY <1>3, <3>1, <3>2, <3>3
  <2>4. State' # "HTTP_RECV_REQBODY"
    BY <1>3 DEF Scan, Poll, HandleError, HandleWrite, Apply, Delete, ServeData,
       SendError, FlushWriteBuf, Flushed, Partial, SendStaticData, EndRequest,
       BufferInv
  <2> QED BY <1>1, <2>1, <2>2, <2>3, <2>4, BufferSame
<1>4. CASE Return
  <2>1. /\ UNCHANGED requestbuf /\ State' # "HTTP_RECV_REQBODY"
        /\ ~quitting' => ~quitting /\ ~TooMuchData
    BY <1>4 DEF Return, Delete, BufferInv
  <2>2. ~quitting' => Len(requestbuf) <= RequestBufLimit
    BY <1>1, <2>1 DEF TooMuchData, BufferInv, TypeOK
  <2> QED BY <2>1, <2>2 DEF BufferInv
<1>5. CASE HandleRead
  <2>1. CASE UNCHANGED <<requestbuf, readFrame>> /\ (UNCHANGED <<State, quitting>> \/ Delete)
    <3>1. AtRest /\ State' # "HTTP_RECV_REQBODY"
      BY <1>5, <2>1 DEF HandleRead, AtRest, BufferInv, Delete
    <3> QED BY <1>1, <2>1, <3>1, BufferSame DEF Delete, TypeOK
  <2>2. CASE UNCHANGED State /\ \E n \in 1 .. Len(inq) : AddBuffer(Take(inq, n))
    <3>1. ASSUME NEW a, AddBuffer(a) PROVE readFrame' /\ ~AtRest'
      BY <3>1 DEF AddBuffer, BufferInv, AtRest
    <3> QED BY <2>2, <3>1 DEF BufferInv
  <2> QED BY <1>5, <2>1, <2>2 DEF HandleRead
<1> QED BY <1>2, <1>3, <1>4, <1>5, BufferCheckRequest DEF Next, Server, Loop

HIDE DEF vars, networkVars, stackVars, requestVars, fileVars, responseVars,
         lifeVars, historyVars

LEMMA BufferCorrect ==
  ASSUME \A r \in Requests : r.length = 0
  PROVE  Spec => []BufferInv
<1>1. Init => BufferInv
  <2>1. Len(<<>>) = 0
    OBVIOUS
  <2> QED BY <2>1, LimitsAssumption DEF Init, BufferInv
<1>2. TypeOK /\ ControlInv /\ BufferInv /\ [Next]_vars => BufferInv'
  BY BufferNext
<1> QED BY <1>1, <1>2, TypeCorrect, ControlCorrect, PTL DEF Spec

\* However many requests are pipelined, a connection that is kept never holds
\* more unparsed bytes than AddBuffer allows.  The hypothesis is the one under
\* which the check is reached: a read that completes a body returns before it
\* (buffer.cpp:112).
THEOREM BufferLimitHolds ==
  ASSUME \A r \in Requests : r.length = 0
  PROVE  Spec => []BufferBounded
<1>1. BufferInv => BufferBounded
  BY DEF BufferInv, BufferBounded
<1> QED BY <1>1, BufferCorrect, PTL

-----------------------------------------------------------------------------
(* Connections without bodies.                                              *)

USE DEF vars, networkVars, stackVars, requestVars, fileVars, responseVars,
        lifeVars, historyVars

\* There is no body byte anywhere, so that none can be taken for a head.
NoBody(s) == \A j \in 1 .. Len(s) : s[j].part # "body"
FramedInv == framed /\ RequestBody = <<>> /\ NoBody(requestbuf) /\ NoBody(inq)

LEMMA NoBodyConcat ==
  ASSUME NEW S, NEW s \in Seq(S), NEW t \in Seq(S), NoBody(s), NoBody(t)
  PROVE  NoBody(s \o t)
<1>1. /\ Len(s \o t) = Len(s) + Len(t) /\ Len(s) \in Nat /\ Len(t) \in Nat
      /\ \A j \in 1 .. Len(s) : (s \o t)[j] = s[j]
      /\ \A j \in 1 .. Len(t) : (s \o t)[Len(s) + j] = t[j]
  BY ConcatElements
<1>2. ASSUME NEW j \in 1 .. Len(s \o t) PROVE (s \o t)[j].part # "body"
  <2>1. CASE j <= Len(s)
    BY <1>1, <2>1 DEF NoBody
  <2>2. CASE j > Len(s)
    <3> DEFINE k == j - Len(s)
    <3>1. k \in 1 .. Len(t) /\ Len(s) + k = j
      BY <1>1, <2>2
    <3> HIDE DEF k
    <3> QED BY <1>1, <3>1 DEF NoBody
  <2> QED BY <1>1, <2>1, <2>2
<1> QED BY <1>2 DEF NoBody

LEMMA NoBodyCut ==
  ASSUME NEW S, NEW s \in Seq(S), NEW n \in 0 .. Len(s), NoBody(s)
  PROVE  NoBody(Take(s, n)) /\ NoBody(Drop(s, n))
<1>1. Len(Take(s, n)) = n /\ \A j \in 1 .. n : Take(s, n)[j] = s[j]
  BY TakeElements
<1>2. /\ Len(Drop(s, n)) = Len(s) - n /\ Len(s) \in Nat /\ n \in Nat
      /\ \A j \in 1 .. Len(Drop(s, n)) : Drop(s, n)[j] = s[n + j]
  BY DropElements
<1>3. NoBody(Take(s, n))
  <2> DEFINE a == Take(s, n)
  <2> HIDE DEF a
  <2>1. Len(a) = n /\ \A j \in 1 .. n : a[j] = s[j]
    BY <1>1 DEF a
  <2>2. NoBody(a)
    BY <1>2, <2>1 DEF NoBody
  <2> QED BY <2>2 DEF a
<1>4. NoBody(Drop(s, n))
  <2> DEFINE d == Drop(s, n)
  <2> HIDE DEF d
  <2>1. Len(d) = Len(s) - n /\ \A j \in 1 .. Len(d) : d[j] = s[n + j]
    BY <1>2 DEF d
  <2>2. ASSUME NEW j \in 1 .. Len(d) PROVE d[j].part # "body"
    <3>1. n + j \in 1 .. Len(s)
      BY <1>2, <2>1
    <3> QED BY <2>1, <3>1 DEF NoBody
  <2> QED BY <2>2 DEF NoBody, d
<1> QED BY <1>3, <1>4

LEMMA FramedClient ==
  ASSUME \A r \in Requests : r.length = 0 /\ ~r.chunked
  PROVE  TypeOK /\ TypeOK' /\ FramedInv /\ Client => FramedInv'
<1> SUFFICES ASSUME TypeOK, TypeOK', FramedInv, Client PROVE FramedInv'
  OBVIOUS
<1>1. UNCHANGED <<framed, RequestBody, requestbuf>>
  BY DEF Client, ClientRequest, ClientReceive, ClientShut, ClientReset
<1>2. NoBody(inq')
  <2>1. CASE ClientRequest
    <3>1. PICK r \in Requests : inq' = inq \o Bytes(Len(reqs) + 1, r)
      BY <2>1 DEF ClientRequest
    <3> DEFINE n == Len(reqs) + 1
    <3>2. /\ r \in Request /\ n \in Nat \ {0} /\ inq \in Seq(Token)
          /\ Len(reqs) \in Nat /\ Len(reqs') = n
      <4>1. reqs \in Seq(Requests) /\ inq \in Seq(Token) /\ r \in Request
        BY RequestsAssumption DEF TypeOK
      <4>2. Len(reqs) \in Nat /\ Len(reqs') = n
        BY <2>1, <4>1, AppendProperties, LenProperties DEF ClientRequest
      <4> QED BY <4>1, <4>2
    <3>3. BodyTokens(r) = 0
      BY DEF BodyTokens
    <3> HIDE DEF n
    <3>4. /\ Len(Bytes(n, r)) = 2
          /\ Bytes(n, r)[1].part = "top" /\ Bytes(n, r)[2].part = "end"
      <4>1. r \in Request /\ n \in Nat \ {0}
        BY <3>2
      <4>2. /\ Len(Bytes(n, r)) = BodyTokens(r) + 2
            /\ Bytes(n, r)[1] = [of |-> n, part |-> "top"]
            /\ Bytes(n, r)[2] = [of |-> n, part |-> "end"]
        BY <4>1, BytesElements
      <4> QED BY <3>3, <4>2
    <3>5. NoBody(Bytes(n, r))
      BY <3>4 DEF NoBody
    <3>6. inq \in Seq(Token') /\ Bytes(n, r) \in Seq(Token')
      <4>1. Token \subseteq Token' /\ [of : 1 .. n, part : {"top", "end", "body"}] = Token'
        BY <3>2 DEF Token, n
      <4> QED BY <3>2, <4>1, BytesType, SeqMonotonic
    <3>7. NoBody(inq \o Bytes(n, r))
      BY <3>5, <3>6, NoBodyConcat DEF FramedInv
    <3> QED BY <3>1, <3>7 DEF n
  <2>2. CASE ClientReceive
    BY <2>2 DEF ClientReceive, FramedInv
  <2>3. CASE ClientShut
    <3>1. PICK n \in 0 .. Len(inq) : inq' = Take(inq, n)
      BY <2>3 DEF ClientShut
    <3>2. inq \in Seq(Token) /\ NoBody(inq)
      BY DEF TypeOK, FramedInv
    <3> QED BY <3>1, <3>2, NoBodyCut
  <2>4. CASE ClientReset
    <3>1. Len(<<>>) = 0
      OBVIOUS
    <3> QED BY <2>4, <3>1 DEF ClientReset, NoBody
  <2> QED BY <2>1, <2>2, <2>3, <2>4 DEF Client
<1> QED BY <1>1, <1>2 DEF FramedInv

LEMMA FramedHandleRead == TypeOK /\ BufferInv /\ FramedInv /\ HandleRead => FramedInv'
<1> SUFFICES ASSUME TypeOK, BufferInv, FramedInv, HandleRead PROVE FramedInv'
  OBVIOUS
<1>1. CASE UNCHANGED <<inq, requestbuf, RequestBody, framed>>
  BY <1>1 DEF FramedInv
<1>2. CASE \E n \in 1 .. Len(inq) : inq' = Drop(inq, n) /\ AddBuffer(Take(inq, n))
  <2> PICK n \in 1 .. Len(inq) : inq' = Drop(inq, n) /\ AddBuffer(Take(inq, n))
    BY <1>2
  <2>1. requestbuf \in Seq(Token) /\ inq \in Seq(Token) /\ n \in 0 .. Len(inq)
    BY LenProperties DEF TypeOK
  <2>2. NoBody(requestbuf) /\ NoBody(inq) /\ framed /\ RequestBody = <<>>
    BY DEF FramedInv
  <2>3. NoBody(Take(inq, n)) /\ NoBody(Drop(inq, n)) /\ Take(inq, n) \in Seq(Token)
    BY <2>1, <2>2, NoBodyCut, TakeDrop
  <2>4. /\ requestbuf' = requestbuf \o Take(inq, n) /\ RequestBody' = RequestBody
        /\ framed' = /\ framed
                     /\ \A j \in DOMAIN requestbuf' : requestbuf'[j].part # "body"
                     /\ \A j \in DOMAIN RequestBody' : RequestBody'[j].part = "body"
    BY DEF AddBuffer, BufferInv
  <2>5. NoBody(requestbuf') /\ requestbuf' \in Seq(Token)
    <3>1. NoBody(requestbuf \o Take(inq, n)) /\ requestbuf \o Take(inq, n) \in Seq(Token)
      BY <2>1, <2>2, <2>3, NoBodyConcat, ConcatProperties
    <3> QED BY <2>4, <3>1
  <2>6. \A j \in DOMAIN requestbuf' : requestbuf'[j].part # "body"
    BY <2>5, LenProperties DEF NoBody
  <2>7. DOMAIN <<>> = {}
    OBVIOUS
  <2>8. framed'
    BY <2>2, <2>4, <2>6, <2>7
  <2> QED BY <2>2, <2>3, <2>4, <2>5, <2>8 DEF FramedInv
<1> QED BY <1>1, <1>2 DEF HandleRead

LEMMA FramedNext ==
  ASSUME \A r \in Requests : r.length = 0 /\ ~r.chunked
  PROVE  TypeOK /\ TypeOK' /\ BufferInv /\ FramedInv /\ [Next]_vars => FramedInv'
<1> SUFFICES ASSUME TypeOK, TypeOK', BufferInv, FramedInv, [Next]_vars
             PROVE  FramedInv'
  OBVIOUS
<1>1. CASE CheckRequest
  <2>1. UNCHANGED <<inq, framed, RequestBody>>
    BY <1>1 DEF CheckRequest
  <2>2. CASE UNCHANGED requestbuf
    BY <2>1, <2>2 DEF FramedInv
  <2>3. CASE \E e \in Ends(requestbuf) : requestbuf' = Drop(requestbuf, e)
    <3>1. PICK e \in Ends(requestbuf) : requestbuf' = Drop(requestbuf, e)
      BY <2>3
    <3>2. requestbuf \in Seq(Token) /\ e \in 0 .. Len(requestbuf)
      <4>1. requestbuf \in Seq(Token) /\ e \in DOMAIN requestbuf
        BY DEF TypeOK, Ends
      <4> QED BY <4>1, LenProperties
    <3>3. NoBody(requestbuf')
      BY <3>1, <3>2, NoBodyCut DEF FramedInv
    <3> QED BY <2>1, <3>3 DEF FramedInv
  <2> QED BY <1>1, <2>2, <2>3, CheckRequestCases
<1>2. CASE \/ UNCHANGED vars \/ Scan \/ Poll \/ HandleError \/ HandleWrite
           \/ Apply \/ Return \/ ServeData \/ FlushWriteBuf \/ SendStaticData
  <2>1. UNCHANGED <<inq, framed, RequestBody, requestbuf>>
    BY <1>2, Zenon DEF Scan, Poll, HandleError, HandleWrite, Apply, Return,
       ServeData, FlushWriteBuf, SendStaticData
  <2> QED BY <2>1 DEF FramedInv
<1>3. CASE EndRequest
  <2>1. UNCHANGED <<inq, framed, requestbuf>> /\ RequestBody' \in {RequestBody, <<>>}
    BY <1>3 DEF EndRequest
  <2> QED BY <2>1 DEF FramedInv
<1> QED BY <1>1, <1>2, <1>3, FramedClient, FramedHandleRead DEF Next, Server, Loop

HIDE DEF vars, networkVars, stackVars, requestVars, fileVars, responseVars,
         lifeVars, historyVars

\* On a connection without bodies no body is ever mixed up with a head, so
\* that what is proved of framed connections is proved of it.
LEMMA FramedCorrect ==
  ASSUME \A r \in Requests : r.length = 0 /\ ~r.chunked
  PROVE  Spec => []framed
<1>1. Init => FramedInv
  <2>1. Len(<<>>) = 0
    OBVIOUS
  <2> QED BY <2>1 DEF Init, FramedInv, NoBody
<1>2. TypeOK /\ TypeOK' /\ BufferInv /\ FramedInv /\ [Next]_vars => FramedInv'
  BY FramedNext
<1>3. FramedInv => framed
  BY DEF FramedInv
<1>4. Spec => []BufferInv
  BY BufferCorrect
<1> QED BY <1>1, <1>2, <1>3, <1>4, TypeCorrect, PTL DEF Spec

-----------------------------------------------------------------------------
(* HttpConnection implements HttpExchange.                                  *)

USE DEF vars, networkVars, stackVars, requestVars, fileVars, responseVars,
        lifeVars, historyVars

\* The response that CheckRequest or ServeData begins is one that HttpExchange
\* allows: there is a request for it, and no response said it was the last.
LEMMA RespondStep ==
  ASSUME TypeOK, PromiseInv, framed, MatchInv', framed', Waiting,
         pc # "closed", pc' # "closed", NEW ans, answers' = Append(answers, ans),
         UNCHANGED <<reqs, received>>
  PROVE  Exchange!Respond
<1>1. /\ Len(answers') = Len(answers) + 1 /\ Len(answers) \in Nat
      /\ \A k \in 1 .. Len(answers) : answers'[k] = answers[k]
      /\ answers \in Seq(Answer) /\ DOMAIN answers = 1 .. Len(answers)
  BY DEF TypeOK
<1>2. Len(answers) < Len(reqs)
  <2>1. Len(answers') <= Len(reqs) /\ Len(reqs) \in Nat
    BY LenProperties DEF MatchInv, TypeOK
  <2> QED BY <1>1, <2>1
<1>3. \A n \in DOMAIN answers : ~answers[n].close
  BY DEF PromiseInv
<1>4. SubSeq(answers', 1, Len(answers)) = answers
  <2>1. SubSeq(answers', 1, Len(answers)) = SubSeq(answers, 1, Len(answers))
    BY <1>1
  <2>2. SubSeq(answers, 1, Len(answers)) = answers
    BY <1>1, SubSeqFull
  <2> QED BY <2>1, <2>2
<1> QED BY <1>1, <1>2, <1>3, <1>4 DEF Exchange!Respond

\* What the client receives next is what HttpExchange delivers next.
LEMMA DeliverStep ==
  ASSUME TypeOK, StreamIntact, ClientReceive
  PROVE  Exchange!Deliver
<1>1. /\ received \in Seq(Unit) /\ sockbuf \in Seq(Unit) /\ sendq \in Seq(Unit)
      /\ sockbuf # <<>> /\ received' = Append(received, Head(sockbuf))
      /\ UNCHANGED <<reqs, answers, pc>>
  BY DEF TypeOK, ClientReceive
<1>2. Head(sockbuf) = sockbuf[1] /\ sockbuf[1] \in Unit /\ 1 \in 1 .. Len(sockbuf)
  <2>1. Len(sockbuf) \in Nat \ {0}
    BY <1>1, EmptySeq
  <2>2. 1 \in 1 .. Len(sockbuf)
    BY <2>1
  <2> QED BY <1>1, <2>2, ElementOfSeq, HeadTailProperties
<1> DEFINE s == received \o sockbuf
<1>3. /\ s \in Seq(Unit) /\ Len(s) = Len(received) + Len(sockbuf)
      /\ \A j \in 1 .. Len(received) : s[j] = received[j]
      /\ \A j \in 1 .. Len(sockbuf) : s[Len(received) + j] = sockbuf[j]
      /\ Len(received) \in Nat /\ Len(sockbuf) \in Nat
  <2>1. received \in Seq(Unit) /\ sockbuf \in Seq(Unit)
    BY <1>1
  <2> QED BY <2>1, ConcatElements
<1> HIDE DEF s
<1>4. /\ Len(Stream) = Len(s) + Len(sendq) /\ Len(sendq) \in Nat
      /\ \A j \in 1 .. Len(s) : Stream[j] = s[j]
  <2>1. s \in Seq(Unit) /\ sendq \in Seq(Unit)
    BY <1>1, <1>3
  <2>2. /\ Len(s \o sendq) = Len(s) + Len(sendq) /\ Len(sendq) \in Nat
        /\ \A j \in 1 .. Len(s) : (s \o sendq)[j] = s[j]
    BY <2>1, ConcatElements
  <2> QED BY <2>2 DEF Stream, s
<1> DEFINE n == Len(received)
<1>5. Stream[n + 1] = Head(sockbuf) /\ n + 1 \in 1 .. Len(Stream)
  <2>1. n + 1 \in 1 .. Len(s)
    BY <1>2, <1>3
  <2> QED BY <1>2, <1>3, <1>4, <2>1
<1>6. Head(sockbuf) = Exchange!NextUnit
  <2>1. CASE received = <<>>
    <3>1. n = 0 /\ Stream # <<>>
      <4>1. n = 0 /\ Len(Stream) # 0
        BY <1>5, <2>1, EmptySeq
      <4> QED BY <4>1, EmptySeq
    <3>2. Stream[1] = [resp |-> 1, unit |-> 0]
      BY <3>1 DEF StreamIntact
    <3> QED BY <1>5, <2>1, <3>1, <3>2 DEF Exchange!NextUnit
  <2>2. CASE received # <<>>
    <3>1. n # 0
      BY <1>1, <2>2, EmptySeq
    <3>2. n \in 1 .. Len(Stream) - 1 /\ n \in 1 .. Len(received) /\ n \in 1 .. Len(s)
      BY <1>2, <1>3, <1>5, <3>1
    <3>3. Stream[n + 1] = Successor(Stream[n]) /\ Stream[n] = received[n]
      BY <1>3, <1>4, <3>2 DEF StreamIntact
    <3> QED BY <1>5, <2>2, <3>3 DEF Exchange!NextUnit, Exchange!After, Successor
  <2> QED BY <2>1, <2>2
<1>7. Head(sockbuf).resp <= Len(answers)
  BY <1>2 DEF Unit
<1> QED BY <1>1, <1>6, <1>7 DEF Exchange!Deliver

\* Every step of HttpConnection is a step of HttpExchange, or changes nothing
\* of what the client and the server have agreed on.
LEMMA ExchangeStep ==
  ASSUME TypeOK, ControlInv, BodyInv, PromiseInv, StreamIntact, MatchInv',
         framed, framed', [Next]_vars
  PROVE  [Exchange!Next]_Exchange!vars
<1> SUFFICES ASSUME TRUE
             PROVE  Exchange!Next \/ UNCHANGED <<reqs, answers, received, pc # "closed">>
  BY DEF Exchange!vars
<1>1. CASE ClientRequest
  <2>1. Exchange!Ask
    BY <1>1 DEF ClientRequest, Exchange!Ask
  <2> QED BY <2>1 DEF Exchange!Next
<1>2. CASE ClientReceive
  BY <1>2, DeliverStep DEF Exchange!Next
<1>3. CASE ClientShut \/ ClientReset \/ UNCHANGED vars
  BY <1>3 DEF ClientShut, ClientReset
<1>4. CASE Apply
  <2>1. UNCHANGED <<reqs, answers, received>> /\ pc # "closed"
    BY <1>4 DEF Apply
  <2>2. CASE pc' = "closed"
    BY <2>1, <2>2 DEF Exchange!Close, Exchange!Next
  <2>3. CASE pc' # "closed"
    BY <2>1, <2>3
  <2> QED BY <2>2, <2>3
<1>5. CASE Scan \/ Poll \/ HandleError \/ HandleWrite \/ HandleRead \/ Return
             \/ FlushWriteBuf \/ SendStaticData \/ EndRequest
  <2>1. UNCHANGED <<reqs, answers, received>>
    BY <1>5, Zenon DEF Scan, Poll, HandleError, HandleWrite, HandleRead, Return,
       FlushWriteBuf, SendStaticData, EndRequest
  <2>2. pc # "closed" /\ pc' # "closed"
    <3>1. CASE HandleRead
      <4>1. pc = "HandleEvent"
              /\ (pc' = "Apply" \/ \E n \in 1 .. Len(inq) : AddBuffer(Take(inq, n)))
        BY <3>1 DEF HandleRead
      <4>2. ASSUME NEW a, AddBuffer(a) PROVE pc' # "closed"
        BY <4>2 DEF AddBuffer
      <4> QED BY <4>1, <4>2
    <3>2. CASE ~HandleRead
      BY <1>5, <3>2 DEF Scan, Poll, HandleError, HandleWrite, Return,
         FlushWriteBuf, Flushed, Partial, SendStaticData, EndRequest, NextRequest
    <3> QED BY <3>1, <3>2
  <2> QED BY <2>1, <2>2
<1>6. CASE CheckRequest
  <2>1. UNCHANGED <<reqs, received>> /\ pc = "CheckRequest" /\ Waiting
    BY <1>6 DEF CheckRequest, ControlInv, CalledInState
  <2>2. CASE UNCHANGED answers /\ pc' \in {"Return", "ServeData"}
    BY <2>1, <2>2
  <2>3. CASE \E i, r : TurnedDown(i, r)
    <3>1. PICK i, code, fatal, ka : SendError(i, code, fatal, ka)
      BY <2>3, Zenon DEF TurnedDown
    <3>2. pc' = "FlushWriteBuf" /\ \E ans : answers' = Append(answers, ans)
      BY <3>1 DEF SendError, SendHeaders
    <3>3. Exchange!Respond
      BY <2>1, <3>2, RespondStep
    <3> QED BY <3>3 DEF Exchange!Next
  <2> QED BY <1>6, <2>2, <2>3, CheckRequestCases DEF Accepted
<1>7. CASE ServeData
  <2>1. UNCHANGED <<reqs, received>> /\ pc = "ServeData" /\ Waiting
    BY <1>7 DEF ServeData, ControlInv, CalledInState
  <2>2. pc' # "closed" /\ \E ans : answers' = Append(answers, ans)
    BY <1>7 DEF ServeData, SendError, SendHeaders
  <2>3. Exchange!Respond
    BY <2>1, <2>2, RespondStep
  <2> QED BY <2>3 DEF Exchange!Next
<1> QED BY <1>1, <1>2, <1>3, <1>4, <1>5, <1>6, <1>7 DEF Next, Client, Server, Loop

HIDE DEF vars, networkVars, stackVars, requestVars, fileVars, responseVars,
         lifeVars, historyVars

\* As long as no byte of a body is taken for a head, what the client sees is
\* what HttpExchange promises, however its bytes are cut into reads, whatever
\* the socket has room for, and whenever it resets the connection.
THEOREM ExchangeImplemented == Spec /\ []framed => ImplementsExchange
<1>1. Init => Exchange!Init
  BY DEF Init, Exchange!Init
<1>2. TypeOK /\ ControlInv /\ BodyInv /\ PromiseInv /\ StreamIntact /\ MatchInv'
        /\ framed /\ framed' /\ [Next]_vars
        => [Exchange!Next]_Exchange!vars
  BY ExchangeStep
<1> QED BY <1>1, <1>2, TypeCorrect, ControlCorrect, BodyCorrect, PromiseCorrect,
        StreamAlwaysIntact, MatchCorrect, PTL
        DEF Spec, ImplementsExchange, Exchange!Spec

\* On a connection without bodies the promise is kept unconditionally.
THEOREM ExchangeWithoutBodies ==
  ASSUME \A r \in Requests : r.length = 0 /\ ~r.chunked
  PROVE  Spec => ImplementsExchange
<1>1. Spec => []framed
  BY FramedCorrect
<1> QED BY <1>1, ExchangeImplemented, PTL

\* A connection without bodies whose requests can all be parsed ends after as
\* many of them as the configuration allows.
THEOREM LimitKeptWithoutBodies ==
  ASSUME \A r \in Requests : r.form = "ok" /\ r.length = 0 /\ ~r.chunked
  PROVE  Spec => []KeepAliveLimit
<1>1. Spec => []framed
  BY FramedCorrect
<1>2. Spec => [](framed => KeepAliveLimit)
  BY LimitKept
<1> QED BY <1>1, <1>2, PTL
=============================================================================
