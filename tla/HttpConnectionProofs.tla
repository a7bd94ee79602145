------------------------ MODULE HttpConnectionProofs ------------------------
(***************************************************************************)
(* Theorems about HttpConnection, for every value of its constants: its    *)
(* types, what its states mean, and the stream of its responses in sendq,  *)
(* in the kernel and at the client.                                        *)
(***************************************************************************)
EXTENDS HttpConnectionProps, SequenceTheorems, TLAPS

-----------------------------------------------------------------------------
(* Facts about the sequences the model is built from.                       *)

\* Cutting a buffer in two loses and invents nothing (substr and erase in
\* FlushWriteBuf, AddBuffer and CheckRequest).
LEMMA TakeDrop ==
  ASSUME NEW S, NEW s \in Seq(S), NEW n \in 0 .. Len(s)
  PROVE  /\ Take(s, n) \in Seq(S) /\ Len(Take(s, n)) = n
         /\ Drop(s, n) \in Seq(S) /\ Len(Drop(s, n)) = Len(s) - n
         /\ Take(s, n) \o Drop(s, n) = s
<1>1. Len(s) \in Nat /\ n \in Int
  BY LenProperties
<1>2. \A i \in 1 .. Len(s) : s[i] \in S
  BY ElementOfSeq
<1>3. Take(s, n) \in Seq(S) /\ Len(Take(s, n)) = n
  BY <1>1, <1>2, SubSeqProperties DEF Take
<1>4. Drop(s, n) \in Seq(S) /\ Len(Drop(s, n)) = Len(s) - n
  BY <1>1, <1>2, SubSeqProperties DEF Drop
<1>5. Take(s, n) \o Drop(s, n) = s
  <2>1. SubSeq(s, 1, n) \o SubSeq(s, n + 1, Len(s)) = SubSeq(s, 1, Len(s))
    <3>1. /\ 1 \in 1 .. Len(s) + 1 /\ n \in 1 - 1 .. Len(s)
          /\ Len(s) \in n .. Len(s)
      BY <1>1
    <3> QED BY <3>1, ConcatAdjacentSubSeq
  <2> QED BY <2>1, SubSeqFull DEF Take, Drop
<1> QED BY <1>3, <1>4, <1>5

\* The first n tokens of a buffer that is longer than n, for any integer n.
LEMMA TakeInt ==
  ASSUME NEW S, NEW s \in Seq(S), NEW n \in Int, n < Len(s)
  PROVE  /\ Take(s, n) \in Seq(S)
         /\ n >= 0 => Len(Take(s, n)) = n
<1>1. \A i \in 1 .. n : s[i] \in S
  BY ElementOfSeq, LenProperties
<1> QED BY <1>1, SubSeqProperties DEF Take

\* A function on 1 .. n is a sequence.
LEMMA FunctionIsSeq ==
  ASSUME NEW S, NEW n \in Nat, NEW f \in [1 .. n -> S]
  PROVE  f \in Seq(S) /\ Len(f) = n
<1>1. f \in Seq(S)
  BY SeqDef
<1> QED BY <1>1, LenProperties

\* What the client sends for a request are tokens of that request.
LEMMA BytesType ==
  ASSUME NEW i \in Nat \ {0}, NEW r \in Request
  PROVE  Bytes(i, r) \in Seq([of : 1 .. i, part : {"top", "end", "body"}])
<1> DEFINE T == [of : 1 .. i, part : {"top", "end", "body"}]
           body == [k \in 1 .. BodyTokens(r) |-> [of |-> i, part |-> "body"]]
           head == <<[of |-> i, part |-> "top"], [of |-> i, part |-> "end"]>>
<1>1. BodyTokens(r) \in Nat
  BY DEF BodyTokens, Request
<1>2. body \in Seq(T)
  <2>1. body \in [1 .. BodyTokens(r) -> T]
    OBVIOUS
  <2> QED BY <1>1, <2>1, FunctionIsSeq
<1>3. head \in Seq(T)
  OBVIOUS
<1>4. Bytes(i, r) = head \o body
  BY DEF Bytes
<1> HIDE DEF T, body, head
<1>5. head \o body \in Seq(T)
  BY <1>2, <1>3, ConcatProperties
<1> QED BY <1>4, <1>5 DEF T

-----------------------------------------------------------------------------
(* Type correctness.                                                        *)

USE DEF vars, networkVars, stackVars, requestVars, fileVars, responseVars,
        lifeVars, historyVars

LEMMA TypeInit == Init => TypeOK
<1> SUFFICES ASSUME Init PROVE TypeOK
  OBVIOUS
<1>1. <<>> \in Seq(Requests) /\ <<>> \in Seq(Token) /\ <<>> \in Seq(Unit)
        /\ <<>> \in Seq(Answer)
  BY EmptySeq
<1>2. Len(sockbuf) <= SockBufSize
  BY EmptySeq, LimitsAssumption DEF Init
<1>3. /\ fatalFrame \in BOOLEAN /\ readFrame \in BOOLEAN /\ keepalive \in BOOLEAN
      /\ ResponseBufferDone \in BOOLEAN /\ quitting \in BOOLEAN
      /\ framed \in BOOLEAN
  BY DEF Init
<1> QED BY <1>1, <1>2, <1>3 DEF Init, TypeOK, States

\* The client and the network.
LEMMA TypeClient == TypeOK /\ Client => TypeOK'
<1> SUFFICES ASSUME TypeOK, Client PROVE TypeOK'
  OBVIOUS
<1>1. CASE ClientRequest
  <2> PICK r \in Requests : /\ reqs' = Append(reqs, r)
                            /\ inq' = inq \o Bytes(Len(reqs) + 1, r)
    BY <1>1 DEF ClientRequest
  <2>1. reqs' \in Seq(Requests) /\ Len(reqs') = Len(reqs) + 1
    BY AppendProperties DEF TypeOK
  <2>2. Token \subseteq Token' /\ Unit' = Unit
    BY <1>1, <2>1 DEF Token, Unit, TypeOK, ClientRequest
  <2>3. requestbuf' \in Seq(Token') /\ RequestBody' \in Seq(Token')
    BY <1>1, <2>2, SeqMonotonic DEF TypeOK, ClientRequest
  <2>4. inq \in Seq(Token')
    BY <2>2, SeqMonotonic DEF TypeOK
  <2>5. Bytes(Len(reqs) + 1, r) \in Seq(Token')
    <3>1. Len(reqs) + 1 \in Nat \ {0} /\ r \in Request
      BY RequestsAssumption, LenProperties DEF TypeOK
    <3> QED BY <2>1, <3>1, BytesType DEF Token
  <2>6. inq' \in Seq(Token')
    BY <2>4, <2>5, ConcatProperties
  <2> QED BY <1>1, <2>1, <2>2, <2>3, <2>6 DEF TypeOK, ClientRequest
<1>2. CASE ClientReceive
  <2>1. Head(sockbuf) \in Unit /\ Tail(sockbuf) \in Seq(Unit)
          /\ Len(Tail(sockbuf)) = Len(sockbuf) - 1
    BY <1>2, HeadTailProperties DEF TypeOK, ClientReceive
  <2>2. received' \in Seq(Unit)
    BY <1>2, <2>1, AppendProperties DEF TypeOK, ClientReceive
  <2>3. Unit' = Unit /\ Token' = Token
    BY <1>2 DEF ClientReceive, Unit, Token
  <2>4. Len(sockbuf') <= SockBufSize
    BY <1>2, <2>1, LenProperties, LimitsAssumption DEF TypeOK, ClientReceive
  <2> QED BY <1>2, <2>1, <2>2, <2>3, <2>4 DEF TypeOK, ClientReceive
<1>3. CASE ClientShut
  <2>1. inq' \in Seq(Token)
    BY <1>3, TakeDrop DEF TypeOK, ClientShut
  <2>2. Unit' = Unit /\ Token' = Token
    BY <1>3 DEF ClientShut, Unit, Token
  <2> QED BY <1>3, <2>1, <2>2 DEF TypeOK, ClientShut
<1>4. CASE ClientReset
  <2>1. Unit' = Unit /\ Token' = Token
    BY <1>4 DEF ClientReset, Unit, Token
  <2>2. inq' \in Seq(Token)
    BY <1>4, EmptySeq DEF ClientReset
  <2> QED BY <1>4, <2>1, <2>2 DEF TypeOK, ClientReset
<1> QED BY <1>1, <1>2, <1>3, <1>4 DEF Client

\* The loop.
LEMMA TypeLoop == TypeOK /\ (Loop \/ Return) => TypeOK'
<1> SUFFICES ASSUME TypeOK, Loop \/ Return PROVE TypeOK'
  OBVIOUS
<1>a. Unit' = Unit /\ Token' = Token
  BY DEF Loop, Scan, Poll, HandleError, HandleWrite, HandleRead, Return,
         Apply, Unit, Token
<1>1. CASE Scan
  <2>1. quitting' \in BOOLEAN /\ State' \in States
    BY <1>1 DEF Scan, Delete, TypeOK, States
  <2> QED BY <1>1, <1>a, <2>1 DEF Scan, TypeOK
<1>2. CASE Poll
  BY <1>2, <1>a DEF Poll, TypeOK
<1>3. CASE HandleError
  BY <1>3, <1>a DEF HandleError, Delete, TypeOK, States
<1>4. CASE HandleWrite
  BY <1>4, <1>a DEF HandleWrite, Rearm, SendsFile, TypeOK
<1>5. CASE HandleRead
  <2>1. CASE quitting
    BY <1>5, <2>1, <1>a DEF HandleRead, TypeOK
  <2>2. CASE ~quitting /\ inq = <<>>
    BY <1>5, <2>2, <1>a DEF HandleRead, Delete, TypeOK, States
  <2>3. CASE ~quitting /\ inq # <<>>
    <3> PICK n \in 1 .. Len(inq) : /\ inq' = Drop(inq, n)
                                   /\ AddBuffer(Take(inq, n))
      BY <1>5, <2>3 DEF HandleRead
    <3> DEFINE a == Take(inq, n)
    <3>1. inq' \in Seq(Token) /\ a \in Seq(Token)
      BY TakeDrop DEF TypeOK
    <3> HIDE DEF a
    <3>2. BodyPart(a) \in Seq(Token)
      <4>1. CASE remains < Len(a)
        <5>1. Take(a, remains) \in Seq(Token)
          BY <3>1, <4>1, TakeInt, LenProperties DEF TypeOK, remains
        <5> QED BY <4>1, <5>1 DEF BodyPart
      <4>2. CASE ~(remains < Len(a))
        BY <3>1, <4>2 DEF BodyPart
      <4> QED BY <4>1, <4>2
    <3>3. <<>> \in Seq(Token)
      BY EmptySeq
    <3>4. requestbuf' \in Seq(Token) /\ RequestBody' \in Seq(Token)
      <4>1. /\ requestbuf' \in {requestbuf \o a, requestbuf \o <<>>}
            /\ RequestBody' \in {RequestBody, RequestBody \o BodyPart(a)}
        BY DEF AddBuffer, a
      <4>2. requestbuf \in Seq(Token) /\ RequestBody \in Seq(Token)
        BY DEF TypeOK
      <4>3. requestbuf \o a \in Seq(Token)
        BY <3>1, <4>2, ConcatProperties
      <4>4. requestbuf \o <<>> \in Seq(Token)
        BY <3>3, <4>2, ConcatProperties
      <4>5. RequestBody \o BodyPart(a) \in Seq(Token)
        BY <3>2, <4>2, ConcatProperties
      <4> QED BY <4>1, <4>2, <4>3, <4>4, <4>5
    <3>5. framed' \in BOOLEAN /\ readFrame' \in BOOLEAN
            /\ pc' \in {"ServeData", "Return", "CheckRequest"}
      BY DEF AddBuffer
    <3>6. UNCHANGED <<State, quitting, sockbuf, received, peer, interest,
                      fatalFrame, cur, RequestBodyLength, responseVars,
                      keepalive, RequestsCompleted, reqs, answers>>
            /\ event' = "none"
      BY <1>5, <2>3 DEF HandleRead
    <3> QED BY <3>1, <3>4, <3>5, <3>6, <1>a DEF TypeOK
  <2> QED BY <2>1, <2>2, <2>3
<1>6. CASE Return
  <2>1. quitting' \in BOOLEAN /\ State' \in States
    BY <1>6 DEF Return, Delete, TypeOK, States
  <2>2. fatalFrame' \in BOOLEAN /\ readFrame' \in BOOLEAN /\ keepalive' \in BOOLEAN
    BY <1>6 DEF Return
  <2> QED BY <1>6, <1>a, <2>1, <2>2 DEF Return, TypeOK
<1>7. CASE Apply
  <2>1. sockbuf' \in Seq(Unit) /\ Len(sockbuf') <= SockBufSize
          /\ sendq' \in Seq(Unit)
    <3>1. <<>> \in Seq(Unit) /\ Len(<<>>) = 0
      BY EmptySeq
    <3>2. sockbuf' \in {sockbuf, <<>>} /\ sendq' \in {sendq, <<>>}
      BY <1>7 DEF Apply
    <3>3. /\ sockbuf \in Seq(Unit) /\ Len(sockbuf) <= SockBufSize
          /\ sendq \in Seq(Unit) /\ 0 <= SockBufSize
      BY LimitsAssumption DEF TypeOK
    <3>4. sockbuf' \in Seq(Unit) /\ Len(sockbuf') <= SockBufSize
      BY <3>1, <3>2, <3>3
    <3>5. sendq' \in Seq(Unit)
      BY <3>1, <3>2, <3>3
    <3> QED BY <3>4, <3>5
  <2> QED BY <1>7, <2>1, <1>a DEF Apply, TypeOK
<1> QED BY <1>1, <1>2, <1>3, <1>4, <1>5, <1>6, <1>7 DEF Loop

\* Queueing the headers of a response, and the data that is at hand.
LEMMA SendHeadersType ==
  ASSUME TypeOK,
         NEW i \in Nat, NEW code \in Nat, NEW size \in Nat, NEW data \in Nat,
         NEW ka \in BOOLEAN, NEW fatal \in BOOLEAN,
         SendHeaders(i, code, size, data, ka, fatal)
  PROVE  /\ answers' \in Seq(Answer) /\ Len(answers') = Len(answers) + 1
         /\ sendq' \in Seq(Unit') /\ Unit \subseteq Unit'
         /\ keepalive' \in BOOLEAN /\ interest' = "OUT"
<1> DEFINE n == Len(answers) + 1
           q == [k \in 1 .. data + 1 |-> [resp |-> n, unit |-> k - 1]]
           ans == [req |-> i, code |-> code, size |-> size,
                   close |-> ~ka, fatal |-> fatal]
<1>1. answers' = Append(answers, ans) /\ sendq' = sendq \o q
        /\ keepalive' = ka /\ interest' = "OUT"
  BY DEF SendHeaders, WantWrite
<1>2. ans \in Answer
  BY DEF Answer
<1>3. answers' \in Seq(Answer) /\ Len(answers') = n
  <2> HIDE DEF ans
  <2> QED BY <1>1, <1>2, AppendProperties DEF TypeOK
<1>4. Len(answers) \in Nat
  BY LenProperties DEF TypeOK
<1>5. Unit \subseteq Unit'
  BY <1>3, <1>4 DEF Unit
<1>6. q \in Seq(Unit')
  <2>1. q \in [1 .. data + 1 -> Unit']
    BY <1>3, <1>4 DEF Unit
  <2> HIDE DEF q
  <2> QED BY <2>1, FunctionIsSeq
<1>7. sendq \in Seq(Unit')
  BY <1>5, SeqMonotonic DEF TypeOK
<1>8. sendq' \in Seq(Unit')
  <2> HIDE DEF q
  <2> QED BY <1>1, <1>6, <1>7, ConcatProperties
<1> QED BY <1>1, <1>3, <1>5, <1>8

LEMMA SendErrorType ==
  ASSUME TypeOK, NEW i \in Nat, NEW code \in Nat, NEW ka \in BOOLEAN,
         NEW fatal \in BOOLEAN, SendError(i, code, fatal, ka)
  PROVE  /\ answers' \in Seq(Answer) /\ Len(answers') = Len(answers) + 1
         /\ sendq' \in Seq(Unit') /\ Unit \subseteq Unit'
         /\ keepalive' \in BOOLEAN /\ interest' = "OUT"
         /\ State' = "HTTP_SEND_DATA" /\ ResponseBackend' = "NULL"
         /\ ResponseBufferDone' = TRUE /\ fatalFrame' \in BOOLEAN
         /\ pc' = "FlushWriteBuf"
<1>1. SendHeaders(i, code, 1, 1, ka, fatal)
  BY DEF SendError
<1>2. /\ State' = "HTTP_SEND_DATA" /\ ResponseBackend' = "NULL"
      /\ ResponseBufferDone' = TRUE /\ fatalFrame' = (fatalFrame \/ fatal)
      /\ pc' = "FlushWriteBuf"
  BY DEF SendError
<1>3. fatalFrame' \in BOOLEAN
  BY <1>2
<1>4. 1 \in Nat
  OBVIOUS
<1> QED BY <1>1, <1>2, <1>3, <1>4, SendHeadersType

\* What CheckRequest finds in a head is one of the requests sent, or stands
\* for a head it cannot make sense of.
LEMMA ParseType ==
  ASSUME TypeOK, NEW e \in Ends(requestbuf),
         NEW p \in Parse(Take(requestbuf, e))
  PROVE  p.of \in Nat /\ p.req \in Request
<1> DEFINE head == Take(requestbuf, e)
<1>1. requestbuf \in Seq(Token) /\ reqs \in Seq(Requests)
  BY DEF TypeOK
<1>2. e \in 1 .. Len(requestbuf)
  BY <1>1, LenProperties DEF Ends
<1>3. head \in Seq(Token) /\ Len(head) = e
  BY <1>1, <1>2, TakeDrop
<1>4. CASE Len(head) = 2 /\ head[1].part = "top" /\ head[1].of = head[2].of
  <2>1. p = [of |-> head[2].of, req |-> reqs[head[2].of]]
    BY <1>4 DEF Parse
  <2>2. head[2] \in Token
    <3> HIDE DEF head
    <3> QED BY <1>3, <1>4, ElementOfSeq
  <2>3. head[2].of \in 1 .. Len(reqs)
    BY <2>2 DEF Token
  <2>4. reqs[head[2].of] \in Requests
    <3> HIDE DEF head
    <3> QED BY <1>1, <2>3, ElementOfSeq
  <2> QED BY <2>1, <2>3, <2>4, <1>1, LenProperties, RequestsAssumption
<1>5. CASE ~(Len(head) = 2 /\ head[1].part = "top" /\ head[1].of = head[2].of)
  <2>1. p \in [of : {0}, req : Garbled]
    BY <1>5 DEF Parse
  <2>2. Garbled \subseteq Request
    <3>1. {FALSE} \subseteq BOOLEAN /\ {0} \subseteq Nat
      OBVIOUS
    <3> QED BY <3>1 DEF Garbled, Request
  <2> QED BY <2>1, <2>2
<1> QED BY <1>4, <1>5

LEMMA CheckHeadType ==
  ASSUME TypeOK, NEW i \in Nat, NEW r \in Request, CheckHead(i, r)
  PROVE  /\ answers' \in Seq(Answer) /\ sendq' \in Seq(Unit') /\ Unit \subseteq Unit'
         /\ keepalive' \in BOOLEAN /\ interest' \in {"IN", "OUT"}
         /\ State' \in States /\ ResponseBackend' \in {"NULL", "WriteBackend"}
         /\ ResponseBufferDone' \in BOOLEAN /\ fatalFrame' \in BOOLEAN
         /\ pc' \in {"FlushWriteBuf", "Return", "ServeData"}
         /\ RequestBodyLength' \in Nat
         /\ Len(answers') >= Len(answers)
<1> DEFINE Typed ==
      /\ answers' \in Seq(Answer) /\ sendq' \in Seq(Unit') /\ Unit \subseteq Unit'
      /\ keepalive' \in BOOLEAN /\ interest' \in {"IN", "OUT"}
      /\ State' \in States /\ ResponseBackend' \in {"NULL", "WriteBackend"}
      /\ ResponseBufferDone' \in BOOLEAN /\ fatalFrame' \in BOOLEAN
      /\ pc' \in {"FlushWriteBuf", "Return", "ServeData"}
      /\ Len(answers') >= Len(answers)
<1>1. keepalive \in BOOLEAN /\ KeepAliveLine(r) \in BOOLEAN
        /\ KeepAliveHead(r) \in BOOLEAN /\ FALSE \in BOOLEAN /\ TRUE \in BOOLEAN
  BY DEF TypeOK, KeepAliveLine, KeepAliveHead
<1>3. ASSUME NEW code \in Nat, NEW ka \in BOOLEAN, NEW fatal \in BOOLEAN,
             SendError(i, code, fatal, ka)
      PROVE  Typed
  <2>1. /\ answers' \in Seq(Answer) /\ Len(answers') = Len(answers) + 1
        /\ sendq' \in Seq(Unit') /\ Unit \subseteq Unit'
        /\ keepalive' \in BOOLEAN /\ interest' = "OUT"
        /\ State' = "HTTP_SEND_DATA" /\ ResponseBackend' = "NULL"
        /\ ResponseBufferDone' = TRUE /\ fatalFrame' \in BOOLEAN
        /\ pc' = "FlushWriteBuf"
    BY <1>3, SendErrorType
  <2>2. ResponseBufferDone' \in BOOLEAN
    BY <2>1
  <2>3. Len(answers') >= Len(answers)
    <3>1. Len(answers) \in Nat
      BY LenProperties DEF TypeOK
    <3>2. Len(answers') = Len(answers) + 1
      BY <2>1
    <3> QED BY <3>1, <3>2
  <2> QED BY <2>1, <2>2, <2>3 DEF States
<1>4. ASSUME UNCHANGED <<answers, sendq, interest, ResponseBackend,
                         ResponseBufferDone, fatalFrame>>,
             keepalive' = KeepAliveHead(r),
             State' \in {State, "HTTP_RECV_REQBODY"},
             pc' \in {"Return", "ServeData"}
      PROVE  Typed
  <2>1. Unit' = Unit
    BY <1>4 DEF Unit
  <2>2. Len(answers') >= Len(answers)
    BY <1>4, LenProperties DEF TypeOK
  <2> QED BY <1>1, <1>4, <2>1, <2>2 DEF TypeOK, States
<1>5. RequestBodyLength' \in {RequestBodyLength, r.length}
  BY DEF CheckHead
<1>6. RequestBodyLength' \in Nat
  BY <1>5 DEF TypeOK, Request
<1>7. \/ SendError(i, 400, FALSE, keepalive)
      \/ SendError(i, 505, FALSE, keepalive)
      \/ SendError(i, 400, FALSE, KeepAliveLine(r))
      \/ SendError(i, 413, TRUE, KeepAliveHead(r))
      \/ SendError(i, 500, TRUE, KeepAliveHead(r))
      \/ SendError(i, 501, TRUE, KeepAliveHead(r))
      \/ /\ UNCHANGED <<answers, sendq, interest, ResponseBackend,
                        ResponseBufferDone, fatalFrame>>
         /\ keepalive' = KeepAliveHead(r)
         /\ State' \in {State, "HTTP_RECV_REQBODY"}
         /\ pc' \in {"Return", "ServeData"}
  BY Zenon DEF CheckHead
<1> HIDE DEF Typed
<1>8. Typed
  <2>1. CASE SendError(i, 400, FALSE, keepalive)
    <3> DEFINE code == 400  fatal == FALSE  ka == keepalive
    <3>1. code \in Nat
      OBVIOUS
    <3>2. fatal \in BOOLEAN /\ ka \in BOOLEAN
      BY <1>1, Zenon
    <3>3. SendError(i, code, fatal, ka)
      BY <2>1, Zenon
    <3> HIDE DEF code, fatal, ka
    <3> QED BY <1>3, <3>1, <3>2, <3>3, Zenon
  <2>2. CASE SendError(i, 505, FALSE, keepalive)
    <3> DEFINE code == 505  fatal == FALSE  ka == keepalive
    <3>1. code \in Nat
      OBVIOUS
    <3>2. fatal \in BOOLEAN /\ ka \in BOOLEAN
      BY <1>1, Zenon
    <3>3. SendError(i, code, fatal, ka)
      BY <2>2, Zenon
    <3> HIDE DEF code, fatal, ka
    <3> QED BY <1>3, <3>1, <3>2, <3>3, Zenon
  <2>3. CASE SendError(i, 400, FALSE, KeepAliveLine(r))
    <3> DEFINE code == 400  fatal == FALSE  ka == KeepAliveLine(r)
    <3>1. code \in Nat
      OBVIOUS
    <3>2. fatal \in BOOLEAN /\ ka \in BOOLEAN
      BY <1>1, Zenon
    <3>3. SendError(i, code, fatal, ka)
      BY <2>3, Zenon
    <3> HIDE DEF code, fatal, ka
    <3> QED BY <1>3, <3>1, <3>2, <3>3, Zenon
  <2>4. CASE SendError(i, 413, TRUE, KeepAliveHead(r))
    <3> DEFINE code == 413  fatal == TRUE  ka == KeepAliveHead(r)
    <3>1. code \in Nat
      OBVIOUS
    <3>2. fatal \in BOOLEAN /\ ka \in BOOLEAN
      BY <1>1, Zenon
    <3>3. SendError(i, code, fatal, ka)
      BY <2>4, Zenon
    <3> HIDE DEF code, fatal, ka
    <3> QED BY <1>3, <3>1, <3>2, <3>3, Zenon
  <2>5. CASE SendError(i, 500, TRUE, KeepAliveHead(r))
    <3> DEFINE code == 500  fatal == TRUE  ka == KeepAliveHead(r)
    <3>1. code \in Nat
      OBVIOUS
    <3>2. fatal \in BOOLEAN /\ ka \in BOOLEAN
      BY <1>1, Zenon
    <3>3. SendError(i, code, fatal, ka)
      BY <2>5, Zenon
    <3> HIDE DEF code, fatal, ka
    <3> QED BY <1>3, <3>1, <3>2, <3>3, Zenon
  <2>6. CASE SendError(i, 501, TRUE, KeepAliveHead(r))
    <3> DEFINE code == 501  fatal == TRUE  ka == KeepAliveHead(r)
    <3>1. code \in Nat
      OBVIOUS
    <3>2. fatal \in BOOLEAN /\ ka \in BOOLEAN
      BY <1>1, Zenon
    <3>3. SendError(i, code, fatal, ka)
      BY <2>6, Zenon
    <3> HIDE DEF code, fatal, ka
    <3> QED BY <1>3, <3>1, <3>2, <3>3, Zenon
  <2>7. CASE /\ UNCHANGED <<answers, sendq, interest, ResponseBackend,
                            ResponseBufferDone, fatalFrame>>
             /\ keepalive' = KeepAliveHead(r)
             /\ State' \in {State, "HTTP_RECV_REQBODY"}
             /\ pc' \in {"Return", "ServeData"}
    BY <1>4, <2>7, Zenon
  <2> QED BY <1>7, <2>1, <2>2, <2>3, <2>4, <2>5, <2>6, <2>7, Zenon
<1> QED BY <1>6, <1>8 DEF Typed

\* The functions of the call chain.
LEMMA TypeCheckRequest ==
  TypeOK /\ CheckRequest => TypeOK' /\ Len(answers') >= Len(answers)
<1> SUFFICES ASSUME TypeOK, CheckRequest
             PROVE  TypeOK' /\ Len(answers') >= Len(answers)
  OBVIOUS
<1>a. Token' = Token
  BY DEF CheckRequest, Token
<1>b. UNCHANGED <<networkVars, event, readFrame, RequestBody, fileVars,
                  RequestsCompleted, quitting, reqs, framed>>
  BY DEF CheckRequest
<1>1. CASE Ends(requestbuf) = {}
  <2>1. UNCHANGED <<requestbuf, cur, RequestBodyLength, answers, sendq,
                    keepalive, interest, State, ResponseBackend,
                    ResponseBufferDone, fatalFrame>> /\ pc' = "Return"
    BY <1>1 DEF CheckRequest
  <2>2. Unit' = Unit
    BY <2>1 DEF Unit
  <2>3. Len(answers') >= Len(answers)
    BY <2>1, LenProperties DEF TypeOK
  <2> QED BY <1>a, <1>b, <2>1, <2>2, <2>3 DEF TypeOK
<1>2. CASE Ends(requestbuf) # {}
  <2> PICK e \in Ends(requestbuf) :
        /\ requestbuf' = AfterHead(e)
        /\ \E p \in Parse(Take(requestbuf, e)) :
             cur' = p.of /\ CheckHead(p.of, p.req)
    BY <1>2 DEF CheckRequest
  <2> PICK p \in Parse(Take(requestbuf, e)) :
        cur' = p.of /\ CheckHead(p.of, p.req)
    OBVIOUS
  <2>1. p.of \in Nat /\ p.req \in Request
    BY ParseType
  <2>2. e \in 1 .. Len(requestbuf)
    BY LenProperties DEF Ends, TypeOK
  <2>3. requestbuf' \in Seq(Token)
    <3>1. requestbuf \in Seq(Token) /\ e \in 0 .. Len(requestbuf)
      BY <2>2, LenProperties DEF TypeOK
    <3> QED BY <3>1, TakeDrop DEF AfterHead
  <2>4. /\ answers' \in Seq(Answer) /\ sendq' \in Seq(Unit') /\ Unit \subseteq Unit'
        /\ keepalive' \in BOOLEAN /\ interest' \in {"IN", "OUT"}
        /\ State' \in States /\ ResponseBackend' \in {"NULL", "WriteBackend"}
        /\ ResponseBufferDone' \in BOOLEAN /\ fatalFrame' \in BOOLEAN
        /\ pc' \in {"FlushWriteBuf", "Return", "ServeData"}
        /\ RequestBodyLength' \in Nat
        /\ Len(answers') >= Len(answers)
    <3> DEFINE i == p.of  r == p.req
    <3>1. i \in Nat /\ r \in Request /\ CheckHead(i, r)
      BY <2>1
    <3> HIDE DEF i, r
    <3> QED BY <3>1, CheckHeadType
  <2>5. sockbuf' \in Seq(Unit') /\ received' \in Seq(Unit')
    <3>1. sockbuf \in Seq(Unit') /\ received \in Seq(Unit')
      BY <2>4, SeqMonotonic DEF TypeOK
    <3> QED BY <3>1, <1>b
  <2> QED BY <1>a, <1>b, <2>1, <2>3, <2>4, <2>5 DEF TypeOK
<1> QED BY <1>1, <1>2

LEMMA TypeServeData == TypeOK /\ ServeData => TypeOK'
<1> SUFFICES ASSUME TypeOK, ServeData PROVE TypeOK'
  OBVIOUS
<1>a. Token' = Token
  BY DEF ServeData, Token
<1>b. UNCHANGED <<networkVars, event, readFrame, requestVars,
                  RequestsCompleted, quitting, reqs, framed>>
  BY DEF ServeData
<1>c. ASSUME Unit \subseteq Unit'
      PROVE  sockbuf' \in Seq(Unit') /\ received' \in Seq(Unit')
  <2>1. sockbuf \in Seq(Unit') /\ received \in Seq(Unit')
    BY <1>c, SeqMonotonic DEF TypeOK
  <2> QED BY <2>1, <1>b
<1>1. CASE \E code \in FileErrors :
             SendError(cur, code, FALSE, keepalive) /\ UNCHANGED fileVars
  <2> PICK code \in FileErrors :
        SendError(cur, code, FALSE, keepalive) /\ UNCHANGED fileVars
    BY <1>1
  <2> DEFINE fatal == FALSE
  <2>1. cur \in Nat /\ code \in Nat
    BY FilesAssumption DEF TypeOK
  <2>2. keepalive \in BOOLEAN /\ fatal \in BOOLEAN
    BY Zenon DEF TypeOK
  <2>3. SendError(cur, code, fatal, keepalive)
    BY Zenon
  <2> HIDE DEF fatal
  <2>4. /\ answers' \in Seq(Answer) /\ Len(answers') = Len(answers) + 1
        /\ sendq' \in Seq(Unit') /\ Unit \subseteq Unit'
        /\ keepalive' \in BOOLEAN /\ interest' = "OUT"
        /\ State' = "HTTP_SEND_DATA" /\ ResponseBackend' = "NULL"
        /\ ResponseBufferDone' = TRUE /\ fatalFrame' \in BOOLEAN
        /\ pc' = "FlushWriteBuf"
    BY <2>1, <2>2, <2>3, SendErrorType
  <2>5. ResponseBufferDone' \in BOOLEAN
    BY <2>4
  <2> QED BY <1>a, <1>b, <1>c, <2>4, <2>5 DEF TypeOK, States
<1>2. CASE \E size \in FileSizes :
             /\ filefd' = "open" /\ rfilesize' = size /\ rfilesent' = 0
             /\ ResponseBackend' = "WriteBackend"
             /\ SendHeaders(cur, 200, size, 0, keepalive, FALSE)
             /\ State' = "HTTP_SEND_HEADERS"
             /\ pc' = IF size = 0 THEN "EndRequest" ELSE "Return"
             /\ UNCHANGED <<ResponseBufferDone, fatalFrame>>
  <2> PICK size \in FileSizes :
        /\ filefd' = "open" /\ rfilesize' = size /\ rfilesent' = 0
        /\ ResponseBackend' = "WriteBackend"
        /\ SendHeaders(cur, 200, size, 0, keepalive, FALSE)
        /\ State' = "HTTP_SEND_HEADERS"
        /\ pc' = IF size = 0 THEN "EndRequest" ELSE "Return"
        /\ UNCHANGED <<ResponseBufferDone, fatalFrame>>
    BY <1>2
  <2> DEFINE fatal == FALSE  code == 200  data == 0
  <2>1. cur \in Nat /\ code \in Nat /\ size \in Nat /\ data \in Nat
          /\ keepalive \in BOOLEAN /\ fatal \in BOOLEAN
          /\ SendHeaders(cur, code, size, data, keepalive, fatal)
    BY FilesAssumption DEF TypeOK
  <2> HIDE DEF fatal, code, data
  <2>2. /\ answers' \in Seq(Answer) /\ Len(answers') = Len(answers) + 1
        /\ sendq' \in Seq(Unit') /\ Unit \subseteq Unit'
        /\ keepalive' \in BOOLEAN /\ interest' = "OUT"
    BY <2>1, SendHeadersType
  <2>3. rfilesize' \in Nat /\ rfilesent' \in Nat /\ rfilesent' <= rfilesize'
    BY FilesAssumption
  <2> QED BY <1>a, <1>b, <1>c, <2>2, <2>3 DEF TypeOK, States
<1> QED BY <1>1, <1>2 DEF ServeData

\* What send() takes of a queue of units, however much that is, is moved to
\* the kernel's buffer, which has room for it.
LEMMA SendableType ==
  ASSUME TypeOK, NEW len \in Nat, NEW n \in Sendable(len)
  PROVE  n \in 1 .. len /\ Len(sockbuf) + n <= SockBufSize
BY DEF Sendable

LEMMA TypeFlushWriteBuf == TypeOK /\ FlushWriteBuf => TypeOK'
<1> SUFFICES ASSUME TypeOK, FlushWriteBuf PROVE TypeOK'
  OBVIOUS
<1>a. Token' = Token /\ Unit' = Unit
  BY DEF FlushWriteBuf, Token, Unit
<1>b. UNCHANGED <<inq, received, peer, event, stackVars, requestVars,
                  ResponseBackend, ResponseBufferDone, fileVars, keepalive,
                  RequestsCompleted, historyVars>>
  BY DEF FlushWriteBuf
<1>c. /\ State' \in {State, "HTTP_SEND_DATA", "HTTP_FINISHED"}
      /\ interest' \in {interest, "OUT"}
      /\ pc' \in {"EndRequest", "SendStaticData", "Return"}
  BY DEF FlushWriteBuf, Flushed, Partial, Delete, WantWrite
<1>d. quitting' \in BOOLEAN
  BY DEF FlushWriteBuf, Flushed, Partial, Delete, WantWrite, TypeOK
<1>e. /\ sendq' \in Seq(Unit) /\ sockbuf' \in Seq(Unit)
      /\ Len(sockbuf') <= SockBufSize
  <2>1. CASE UNCHANGED <<sendq, sockbuf>>
    BY <2>1 DEF TypeOK
  <2>2. CASE \E n \in Sendable(Len(sendq)) :
               sockbuf' = sockbuf \o Take(sendq, n) /\ sendq' = Drop(sendq, n)
    <3> PICK n \in Sendable(Len(sendq)) :
          sockbuf' = sockbuf \o Take(sendq, n) /\ sendq' = Drop(sendq, n)
      BY <2>2
    <3>1. n \in 0 .. Len(sendq) /\ Len(sockbuf) + n <= SockBufSize
      BY LenProperties DEF Sendable, TypeOK
    <3>2. /\ sendq \in Seq(Unit) /\ sockbuf \in Seq(Unit)
      BY DEF TypeOK
    <3>3. Take(sendq, n) \in Seq(Unit) /\ Len(Take(sendq, n)) = n
            /\ Drop(sendq, n) \in Seq(Unit)
      BY <3>1, <3>2, TakeDrop
    <3>4. /\ sockbuf \o Take(sendq, n) \in Seq(Unit)
          /\ Len(sockbuf \o Take(sendq, n)) = Len(sockbuf) + n
      BY <3>2, <3>3, ConcatProperties
    <3> QED BY <3>1, <3>3, <3>4
  <2> QED BY <2>1, <2>2 DEF FlushWriteBuf
<1> QED BY <1>a, <1>b, <1>c, <1>d, <1>e DEF TypeOK, States

\* A file is sent as part of a response: what ServeFile writes belongs to the
\* last response begun.
FileHasAnswer == filefd = "open" => Len(answers) > 0

LEMMA TypeSendStaticData == TypeOK /\ FileHasAnswer /\ SendStaticData => TypeOK'
<1> SUFFICES ASSUME TypeOK, FileHasAnswer, SendStaticData PROVE TypeOK'
  OBVIOUS
<1>a. Token' = Token /\ Unit' = Unit
  BY DEF SendStaticData, Token, Unit
<1>b. UNCHANGED <<inq, received, peer, event, stackVars, requestVars, sendq,
                  ResponseBackend, ResponseBufferDone, filefd, rfilesize,
                  keepalive, RequestsCompleted, historyVars>>
  BY DEF SendStaticData
<1>c. /\ State' \in {State, "HTTP_FINISHED"} /\ interest' \in {interest, "OUT"}
      /\ pc' \in {"EndRequest", "Return"}
  BY DEF SendStaticData, Delete, WantWrite
<1>d. quitting' \in BOOLEAN
  BY DEF SendStaticData, Delete, TypeOK
<1>e. /\ sockbuf' \in Seq(Unit) /\ Len(sockbuf') <= SockBufSize
      /\ rfilesent' \in Nat /\ rfilesent' <= rfilesize
  <2>1. CASE UNCHANGED <<sockbuf, rfilesent>>
    BY <2>1 DEF TypeOK
  <2>2. CASE /\ filefd = "open"
             /\ \E n \in Sendable(rfilesize - rfilesent) :
                  /\ rfilesent' = rfilesent + n
                  /\ sockbuf' = sockbuf \o
                       [k \in 1 .. n |-> [resp |-> Len(answers),
                                          unit |-> rfilesent + k]]
    <3> PICK n \in Sendable(rfilesize - rfilesent) :
          /\ rfilesent' = rfilesent + n
          /\ sockbuf' = sockbuf \o
               [k \in 1 .. n |-> [resp |-> Len(answers),
                                  unit |-> rfilesent + k]]
      BY <2>2
    <3> DEFINE q == [k \in 1 .. n |-> [resp |-> Len(answers),
                                       unit |-> rfilesent + k]]
    <3>1. n \in Nat /\ n <= rfilesize - rfilesent
            /\ Len(sockbuf) + n <= SockBufSize
      BY DEF Sendable
    <3>2. /\ sockbuf \in Seq(Unit) /\ rfilesent \in Nat /\ rfilesize \in Nat
          /\ Len(answers) \in 1 .. Len(answers)
      BY <2>2, LenProperties DEF TypeOK, FileHasAnswer
    <3>3. q \in [1 .. n -> Unit]
      BY <3>1, <3>2 DEF Unit
    <3> HIDE DEF q
    <3>4. q \in Seq(Unit) /\ Len(q) = n
      BY <3>1, <3>3, FunctionIsSeq
    <3>5. sockbuf \o q \in Seq(Unit) /\ Len(sockbuf \o q) = Len(sockbuf) + n
      BY <3>2, <3>4, ConcatProperties
    <3>6. sockbuf' = sockbuf \o q /\ rfilesent' = rfilesent + n
      BY DEF q
    <3>7. sockbuf' \in Seq(Unit) /\ Len(sockbuf') <= SockBufSize
      BY <3>1, <3>5, <3>6
    <3>8. rfilesent' \in Nat /\ rfilesent' <= rfilesize
      BY <3>1, <3>2, <3>6
    <3> QED BY <3>7, <3>8
  <2> QED BY <2>1, <2>2 DEF SendStaticData, ServeFile
<1> QED BY <1>a, <1>b, <1>c, <1>d, <1>e DEF TypeOK, States

LEMMA TypeEndRequest == TypeOK /\ EndRequest => TypeOK'
<1> SUFFICES ASSUME TypeOK, EndRequest PROVE TypeOK'
  OBVIOUS
<1>a. Token' = Token /\ Unit' = Unit
  BY DEF EndRequest, Token, Unit
<1>b. UNCHANGED <<networkVars, event, interest, stackVars, requestbuf, sendq,
                  keepalive, historyVars>>
  BY DEF EndRequest
<1>1. /\ RequestsCompleted' \in Nat /\ cur' \in Nat /\ RequestBodyLength' \in Nat
      /\ rfilesize' \in Nat /\ rfilesent' \in Nat /\ rfilesent' <= rfilesize'
      /\ filefd' \in {"open", "closed"}
  BY DEF EndRequest, ClearFile, TypeOK
<1>2. RequestBody' \in Seq(Token)
  <2>1. RequestBody' \in {RequestBody, <<>>}
    BY DEF EndRequest
  <2>2. <<>> \in Seq(Token)
    BY EmptySeq
  <2> QED BY <2>1, <2>2 DEF TypeOK
<1>3. ResponseBufferDone' \in BOOLEAN /\ quitting' \in BOOLEAN
  BY DEF EndRequest, ClearResponse, Delete, TypeOK
<1>4. /\ State' \in States /\ ResponseBackend' \in {"NULL", "WriteBackend"}
      /\ pc' \in {"Return", "CheckRequest"}
  BY DEF EndRequest, ClearResponse, Delete, NextRequest, TypeOK, States
<1> QED BY <1>a, <1>b, <1>1, <1>2, <1>3, <1>4 DEF TypeOK

\* The type invariant, with the fact that its preservation rests on.
TypeInv == TypeOK /\ FileHasAnswer

LEMMA TypeNext == TypeInv /\ [Next]_vars => TypeInv'
<1> SUFFICES ASSUME TypeInv, [Next]_vars PROVE TypeInv'
  OBVIOUS
<1>a. TypeOK /\ FileHasAnswer
  BY DEF TypeInv
<1>1. TypeOK'
  <2>1. CASE UNCHANGED vars
    BY <1>a, <2>1 DEF TypeOK, Token, Unit
  <2>2. CASE Client
    BY <1>a, <2>2, TypeClient
  <2>3. CASE Loop \/ Return
    BY <1>a, <2>3, TypeLoop
  <2>4. CASE CheckRequest
    BY <1>a, <2>4, TypeCheckRequest
  <2>5. CASE ServeData
    BY <1>a, <2>5, TypeServeData
  <2>6. CASE FlushWriteBuf
    BY <1>a, <2>6, TypeFlushWriteBuf
  <2>7. CASE SendStaticData
    BY <1>a, <2>7, TypeSendStaticData
  <2>8. CASE EndRequest
    BY <1>a, <2>8, TypeEndRequest
  <2> QED BY <2>1, <2>2, <2>3, <2>4, <2>5, <2>6, <2>7, <2>8 DEF Next, Server
<1>2. FileHasAnswer'
  <2>1. CASE ServeData
    <3>1. Len(answers') = Len(answers) + 1
      <4>1. \E ans : answers' = Append(answers, ans)
        BY <2>1 DEF ServeData, SendError, SendHeaders
      <4> QED BY <4>1, <1>a DEF TypeOK
    <3> QED BY <3>1, <1>a, LenProperties DEF TypeOK, FileHasAnswer
  <2>2. CASE CheckRequest
    <3>1. filefd' = filefd
      BY <2>2 DEF CheckRequest
    <3>2. Len(answers') >= Len(answers)
      BY <1>a, <2>2, TypeCheckRequest
    <3> QED BY <3>1, <3>2, <1>a, LenProperties DEF TypeOK, FileHasAnswer
  <2>3. CASE ~ServeData /\ ~CheckRequest
    <3>1. answers' = answers /\ filefd' \in {filefd, "closed"}
      BY <2>3, Zenon
         DEF Next, Client, ClientRequest, ClientReceive, ClientShut, ClientReset,
             Server, Loop, Scan, Poll, HandleError, HandleWrite, HandleRead,
             Apply, Return, FlushWriteBuf, SendStaticData, EndRequest, ClearFile
    <3> QED BY <3>1, <1>a DEF FileHasAnswer
  <2> QED BY <2>1, <2>2, <2>3
<1> QED BY <1>1, <1>2 DEF TypeInv

LEMMA TypeInvariant == Spec => []TypeInv
<1>1. Init => TypeInv
  BY TypeInit DEF TypeInv, FileHasAnswer, Init
<1>2. TypeInv /\ [Next]_vars => TypeInv'
  BY TypeNext
<1> HIDE DEF vars, networkVars, stackVars, requestVars, fileVars,
        responseVars, lifeVars, historyVars
<1> QED BY <1>1, <1>2, PTL DEF Spec

\* Every reachable state is well typed, for any set of requests and any
\* limits: the byte counters of sendq, of the socket and of the file stay
\* within what they count.
THEOREM TypeCorrect == Spec => []TypeOK
<1>1. TypeInv => TypeOK
  BY DEF TypeInv
<1> QED BY <1>1, TypeInvariant, PTL

-----------------------------------------------------------------------------
(* What State means: the inductive invariant ControlInv.                    *)

USE DEF Waiting, Sending, AtRest, StateMeansBackend, CalledInState,
        WatchedForWriting, ControlInv

LEMMA ControlInit == Init => ControlInv
BY DEF Init

LEMMA ControlClient == TypeOK /\ ControlInv /\ Client => ControlInv'
BY DEF Client, ClientRequest, ClientReceive, ClientShut, ClientReset

LEMMA ControlLoop == TypeOK /\ ControlInv /\ (Loop \/ Return) => ControlInv'
<1> SUFFICES ASSUME TypeOK, ControlInv, Loop \/ Return PROVE ControlInv'
  OBVIOUS
<1>1. CASE Scan
  BY <1>1 DEF Scan, Delete
<1>2. CASE Poll
  BY <1>2 DEF Poll
<1>3. CASE HandleError
  BY <1>3 DEF HandleError, Delete
<1>4. CASE HandleWrite
  BY <1>4 DEF HandleWrite, Rearm, SendsFile
<1>5. CASE HandleRead
  <2>a. UNCHANGED <<interest, sendq, filefd, ResponseBackend, ResponseBufferDone>>
          /\ pc = "HandleEvent"
    BY <1>5 DEF HandleRead
  <2>1. CASE UNCHANGED <<State, quitting>> /\ pc' = "Apply"
    BY <2>1, <2>a
  <2>2. CASE Delete /\ pc' = "Apply"
    BY <2>2, <2>a DEF Delete
  <2>3. CASE ~quitting /\ UNCHANGED <<State, quitting>> /\ \E a : AddBuffer(a)
    <3>1. \/ State = "HTTP_RECV_REQBODY" /\ pc' \in {"ServeData", "Return"}
          \/ State = "HTTP_WAIT_REQUEST" /\ pc' = "CheckRequest"
          \/ pc' = "Return"
      BY <2>3, Zenon DEF AddBuffer
    <3> QED BY <2>3, <2>a, <3>1
  <2> QED BY <1>5, <2>1, <2>2, <2>3 DEF HandleRead
<1>6. CASE Return
  BY <1>6 DEF Return, Delete
<1>7. CASE Apply
  BY <1>7 DEF Apply
<1> QED BY <1>1, <1>2, <1>3, <1>4, <1>5, <1>6, <1>7 DEF Loop

LEMMA ControlEndRequest == TypeOK /\ ControlInv /\ EndRequest => ControlInv'
<1> SUFFICES ASSUME TypeOK, ControlInv, EndRequest PROVE ControlInv'
  OBVIOUS
<1>1. UNCHANGED <<interest, sendq>> /\ pc = "EndRequest"
  BY DEF EndRequest
<1>2. CASE LastRequest
  <2>1. /\ quitting' = TRUE /\ State' = "HTTP_FINISHED" /\ pc' = "Return"
        /\ UNCHANGED <<ResponseBackend, filefd>>
    BY <1>2 DEF EndRequest, Delete
  <2> QED BY <1>1, <2>1
<1>3. CASE ~LastRequest
  <2>1. /\ quitting' = quitting /\ State' = "HTTP_WAIT_REQUEST"
        /\ pc' \in {"Return", "CheckRequest"}
        /\ ResponseBackend' = "NULL" /\ ~ResponseBufferDone' /\ filefd' = "closed"
    BY <1>3 DEF EndRequest, ClearResponse, ClearFile, NextRequest
  <2> QED BY <1>1, <2>1
<1> QED BY <1>2, <1>3

LEMMA ControlSendStaticData == TypeOK /\ ControlInv /\ SendStaticData => ControlInv'
BY DEF SendStaticData, Delete, WantWrite

LEMMA ControlFlushWriteBuf == TypeOK /\ ControlInv /\ FlushWriteBuf => ControlInv'
<1> SUFFICES ASSUME TypeOK, ControlInv, FlushWriteBuf PROVE ControlInv'
  OBVIOUS
<1>1. CASE sendq = <<>> /\ Flushed
           /\ UNCHANGED <<sendq, sockbuf, interest, quitting>>
  BY <1>1 DEF FlushWriteBuf, Flushed
<1>2. CASE Delete /\ pc' = "Return" /\ UNCHANGED <<sendq, sockbuf, interest>>
  BY <1>2 DEF FlushWriteBuf, Delete
<1>3. CASE Partial /\ UNCHANGED quitting
  BY <1>3 DEF FlushWriteBuf, Partial, WantWrite
<1>4. CASE \E n \in Sendable(Len(sendq)) :
             sendq' = Drop(sendq, n) /\ n = Len(sendq) /\ Flushed
             /\ UNCHANGED <<interest, quitting>>
  <2>1. sendq' = <<>>
    <3>1. sendq \in Seq(Unit) /\ Len(sendq) \in 0 .. Len(sendq)
      BY LenProperties DEF TypeOK
    <3>2. Drop(sendq, Len(sendq)) \in Seq(Unit)
            /\ Len(Drop(sendq, Len(sendq))) = Len(sendq) - Len(sendq)
      BY <3>1, TakeDrop
    <3>3. Len(Drop(sendq, Len(sendq))) = 0
      BY <3>1, <3>2
    <3>4. Drop(sendq, Len(sendq)) = <<>>
      BY <3>2, <3>3, EmptySeq
    <3> QED BY <1>4, <3>4
  <2> QED BY <1>4, <2>1 DEF FlushWriteBuf, Flushed
<1> QED BY <1>1, <1>2, <1>3, <1>4 DEF FlushWriteBuf

\* A response that CheckRequest or ServeData makes of buffers.
LEMMA ControlSendError ==
  ASSUME ControlInv, Waiting, UNCHANGED <<quitting, filefd>>, pc # "closed",
         NEW i, NEW code, NEW fatal, NEW ka, SendError(i, code, fatal, ka)
  PROVE  ControlInv'
BY DEF SendError, SendHeaders, WantWrite

LEMMA ControlCheckRequest == TypeOK /\ ControlInv /\ CheckRequest => ControlInv'
<1> SUFFICES ASSUME TypeOK, ControlInv, CheckRequest PROVE ControlInv'
  OBVIOUS
<1>a. Waiting /\ pc = "CheckRequest" /\ UNCHANGED <<quitting, filefd>>
  BY DEF CheckRequest
<1>1. \/ \E i, code, fatal, ka : SendError(i, code, fatal, ka)
      \/ /\ UNCHANGED <<sendq, interest, ResponseBackend, ResponseBufferDone>>
         /\ State' \in {State, "HTTP_RECV_REQBODY"}
         /\ pc' \in {"Return", "ServeData"}
  <2>1. CASE Ends(requestbuf) = {}
    BY <2>1 DEF CheckRequest
  <2>2. CASE \E i, r : CheckHead(i, r)
    <3> PICK i, r : CheckHead(i, r)
      BY <2>2
    <3> QED BY Zenon DEF CheckHead
  <2> QED BY <2>1, <2>2, Zenon DEF CheckRequest
<1>2. CASE \E i, code, fatal, ka : SendError(i, code, fatal, ka)
  BY <1>2, <1>a, ControlSendError
<1>3. CASE /\ UNCHANGED <<sendq, interest, ResponseBackend, ResponseBufferDone>>
           /\ State' \in {State, "HTTP_RECV_REQBODY"}
           /\ pc' \in {"Return", "ServeData"}
  BY <1>3, <1>a
<1> QED BY <1>1, <1>2, <1>3

LEMMA ControlServeData == TypeOK /\ ControlInv /\ ServeData => ControlInv'
<1> SUFFICES ASSUME TypeOK, ControlInv, ServeData PROVE ControlInv'
  OBVIOUS
<1>a. Waiting /\ pc = "ServeData" /\ UNCHANGED quitting
  BY DEF ServeData
<1>1. CASE \E code : SendError(cur, code, FALSE, keepalive) /\ UNCHANGED fileVars
  BY <1>1, <1>a, ControlSendError
<1>2. CASE /\ filefd' = "open" /\ ResponseBackend' = "WriteBackend"
           /\ interest' = "OUT" /\ State' = "HTTP_SEND_HEADERS"
           /\ pc' \in {"EndRequest", "Return"}
           /\ UNCHANGED ResponseBufferDone
  BY <1>2, <1>a
<1> QED BY <1>1, <1>2 DEF ServeData, SendHeaders, WantWrite

LEMMA ControlNext == TypeOK /\ ControlInv /\ [Next]_vars => ControlInv'
<1>1. CASE UNCHANGED vars
  BY <1>1
<1> QED BY <1>1, ControlClient, ControlLoop, ControlCheckRequest,
           ControlServeData, ControlFlushWriteBuf, ControlSendStaticData,
           ControlEndRequest DEF Next, Server

\* In every reachable state, the functions of the call chain are called only
\* in the states of the Connection object they expect, and State tells which
\* backend, buffer and file it holds.
THEOREM ControlCorrect == Spec => []ControlInv
<1>1. Init => ControlInv
  BY ControlInit
<1>2. TypeOK /\ ControlInv /\ [Next]_vars => ControlInv'
  BY ControlNext
<1> HIDE DEF vars, networkVars, stackVars, requestVars, fileVars,
        responseVars, lifeVars, historyVars, ControlInv
<1> QED BY <1>1, <1>2, TypeCorrect, PTL DEF Spec

\* No connection with something left to send is ever left waiting for the
\* client instead of for room in the socket.
THEOREM NeverLosesWakeup == Spec => []NoLostWakeup
<1>1. ControlInv => NoLostWakeup
  BY DEF NoLostWakeup
<1> HIDE DEF ControlInv
<1> QED BY <1>1, ControlCorrect, PTL

\* A backend runs only with its file open, and the file is closed as soon as
\* the response, or the connection, ends.
THEOREM BackendAlwaysHasFile == Spec => []BackendHasFile
<1>1. TypeOK /\ ControlInv => BackendHasFile
  BY DEF BackendHasFile, TypeOK
<1> HIDE DEF ControlInv
<1> QED BY <1>1, TypeCorrect, ControlCorrect, PTL

\* Delete is final: nothing is answered on a connection that waits on the cull
\* list for its end, whichever events still reach it.
THEOREM NothingAfterQuit == Spec => QuitIsFinal
<1>1. ControlInv /\ [Next]_vars
        => [quitting => UNCHANGED <<answers, RequestsCompleted>>]_vars
  <2> SUFFICES ASSUME ControlInv, Next, quitting
               PROVE  UNCHANGED <<answers, RequestsCompleted>>
    OBVIOUS
  <2>1. pc \notin {"CheckRequest", "ServeData", "EndRequest"}
    OBVIOUS
  <2>2. ~CheckRequest /\ ~ServeData /\ ~EndRequest
    BY <2>1 DEF CheckRequest, ServeData, EndRequest
  <2> QED BY <2>2, Zenon
          DEF Next, Client, ClientRequest, ClientReceive, ClientShut,
              ClientReset, Server, Loop, Scan, Poll, HandleError, HandleWrite,
              HandleRead, Apply, Return, FlushWriteBuf, SendStaticData
<1> HIDE DEF vars, networkVars, stackVars, requestVars, fileVars,
        responseVars, lifeVars, historyVars, ControlInv
<1> QED BY <1>1, ControlCorrect, PTL DEF Spec, QuitIsFinal

HIDE DEF vars, networkVars, stackVars, requestVars, fileVars, responseVars,
         lifeVars, historyVars, Waiting, Sending, AtRest, StateMeansBackend,
         CalledInState, WatchedForWriting, ControlInv

-----------------------------------------------------------------------------
(* Sequences of units.                                                      *)

\* What Successor is when the responses begun are ans, and what it means for
\* a sequence of their units to be in order.
SuccessorIn(ans, u) ==
  IF u.unit < ans[u.resp].size
    THEN [resp |-> u.resp, unit |-> u.unit + 1]
    ELSE [resp |-> u.resp + 1, unit |-> 0]

Orderly(ans, s) ==
  /\ s # <<>> => s[1] = [resp |-> 1, unit |-> 0]
  /\ \A j \in 1 .. Len(s) - 1 : s[j + 1] = SuccessorIn(ans, s[j])

LEMMA StreamIsOrderly == StreamIntact <=> Orderly(answers, Stream)
BY DEF StreamIntact, Orderly, Successor, SuccessorIn

\* The elements of two sequences put together.
LEMMA ConcatElements ==
  ASSUME NEW S, NEW s \in Seq(S), NEW t \in Seq(S)
  PROVE  /\ s \o t \in Seq(S) /\ Len(s \o t) = Len(s) + Len(t)
         /\ \A j \in 1 .. Len(s) : (s \o t)[j] = s[j]
         /\ \A j \in 1 .. Len(t) : (s \o t)[Len(s) + j] = t[j]
         /\ Len(s) \in Nat /\ Len(t) \in Nat
<1>1. s \o t \in Seq(S) /\ Len(s \o t) = Len(s) + Len(t)
  BY ConcatProperties
<1>2. Len(s) \in Nat /\ Len(t) \in Nat
  BY LenProperties
<1>3. \A j \in 1 .. Len(s) + Len(t) :
        (s \o t)[j] = IF j <= Len(s) THEN s[j] ELSE t[j - Len(s)]
  BY ConcatProperties
<1>4. ASSUME NEW j \in 1 .. Len(s) PROVE (s \o t)[j] = s[j]
  BY <1>2, <1>3
<1>5. ASSUME NEW j \in 1 .. Len(t) PROVE (s \o t)[Len(s) + j] = t[j]
  <2>1. Len(s) + j \in 1 .. Len(s) + Len(t) /\ ~(Len(s) + j <= Len(s))
          /\ Len(s) + j - Len(s) = j
    BY <1>2
  <2> QED BY <1>3, <2>1
<1> QED BY <1>1, <1>2, <1>4, <1>5

\* A part of the stream that is lost at its end leaves the rest in order.
LEMMA OrderlyPrefix ==
  ASSUME NEW S, NEW s \in Seq(S), NEW t \in Seq(S), NEW ans,
         Orderly(ans, s \o t)
  PROVE  Orderly(ans, s)
<1>1. /\ Len(s) \in Nat /\ Len(t) \in Nat /\ Len(s \o t) = Len(s) + Len(t)
      /\ \A j \in 1 .. Len(s) : (s \o t)[j] = s[j]
  BY ConcatElements
<1>2. ASSUME s # <<>> PROVE s[1] = [resp |-> 1, unit |-> 0]
  <2>1. Len(s) # 0
    BY <1>2, EmptySeq
  <2>2. 1 \in 1 .. Len(s) /\ s \o t # <<>>
    BY <1>1, <2>1, EmptySeq
  <2> QED BY <1>1, <2>2 DEF Orderly
<1>3. ASSUME NEW j \in 1 .. Len(s) - 1 PROVE s[j + 1] = SuccessorIn(ans, s[j])
  <2>1. /\ j \in 1 .. Len(s) /\ j + 1 \in 1 .. Len(s)
        /\ j \in 1 .. Len(s \o t) - 1
    BY <1>1
  <2>2. (s \o t)[j] = s[j] /\ (s \o t)[j + 1] = s[j + 1]
    BY <1>1, <2>1
  <2> QED BY <2>1, <2>2 DEF Orderly
<1> QED BY <1>2, <1>3 DEF Orderly

\* A stream is prolonged by units that follow one another, the first of which
\* follows its last.
LEMMA OrderlyConcat ==
  ASSUME NEW S, NEW s \in Seq(S), NEW t \in Seq(S), NEW ans,
         Orderly(ans, s), t # <<>>,
         s = <<>> => t[1] = [resp |-> 1, unit |-> 0],
         s # <<>> => t[1] = SuccessorIn(ans, s[Len(s)]),
         \A j \in 1 .. Len(t) - 1 : t[j + 1] = SuccessorIn(ans, t[j])
  PROVE  Orderly(ans, s \o t)
<1>1. /\ Len(s) \in Nat /\ Len(t) \in Nat /\ Len(s \o t) = Len(s) + Len(t)
      /\ \A j \in 1 .. Len(s) : (s \o t)[j] = s[j]
      /\ \A j \in 1 .. Len(t) : (s \o t)[Len(s) + j] = t[j]
  BY ConcatElements
<1>2. Len(t) >= 1
  BY <1>1, EmptySeq
<1>3. (s \o t)[1] = [resp |-> 1, unit |-> 0]
  <2>1. CASE s = <<>>
    <3>1. Len(s) + 1 = 1 /\ 1 \in 1 .. Len(t)
      BY <1>1, <1>2, <2>1
    <3> QED BY <1>1, <2>1, <3>1
  <2>2. CASE s # <<>>
    <3>1. 1 \in 1 .. Len(s)
      BY <1>1, <2>2, EmptySeq
    <3> QED BY <1>1, <2>2, <3>1 DEF Orderly
  <2> QED BY <2>1, <2>2
<1>4. ASSUME NEW j \in 1 .. Len(s \o t) - 1
      PROVE  (s \o t)[j + 1] = SuccessorIn(ans, (s \o t)[j])
  <2>1. CASE j + 1 <= Len(s)
    <3>1. j \in 1 .. Len(s) /\ j + 1 \in 1 .. Len(s) /\ j \in 1 .. Len(s) - 1
      BY <1>1, <2>1
    <3> QED BY <1>1, <3>1 DEF Orderly
  <2>2. CASE j = Len(s)
    <3>1. j \in 1 .. Len(s) /\ 1 \in 1 .. Len(t) /\ s # <<>>
      BY <1>1, <1>2, <2>2
    <3>2. (s \o t)[j] = s[Len(s)] /\ (s \o t)[j + 1] = t[1]
      BY <1>1, <2>2, <3>1
    <3> QED BY <3>1, <3>2
  <2>3. CASE j > Len(s)
    <3> DEFINE k == j - Len(s)
    <3>1. /\ k \in 1 .. Len(t) - 1 /\ k \in 1 .. Len(t) /\ k + 1 \in 1 .. Len(t)
          /\ Len(s) + k = j /\ Len(s) + (k + 1) = j + 1
      BY <1>1, <2>3
    <3> HIDE DEF k
    <3>2. (s \o t)[j] = t[k] /\ (s \o t)[j + 1] = t[k + 1]
      BY <1>1, <3>1
    <3> QED BY <3>1, <3>2
  <2> QED BY <1>1, <2>1, <2>2, <2>3
<1> QED BY <1>3, <1>4 DEF Orderly

\* A response more does not change the order of the units of the others.
LEMMA OrderlyGrows ==
  ASSUME NEW A, NEW ans \in Seq(A), NEW x \in A,
         NEW s \in Seq([resp : 1 .. Len(ans), unit : Nat]), Orderly(ans, s)
  PROVE  Orderly(Append(ans, x), s)
<1>1. ASSUME NEW j \in 1 .. Len(s) - 1
      PROVE  SuccessorIn(Append(ans, x), s[j]) = SuccessorIn(ans, s[j])
  <2>1. j \in 1 .. Len(s)
    BY LenProperties
  <2>2. s[j] \in [resp : 1 .. Len(ans), unit : Nat]
    BY <2>1, ElementOfSeq
  <2>3. s[j].resp \in 1 .. Len(ans)
    BY <2>2
  <2>4. Append(ans, x)[s[j].resp] = ans[s[j].resp]
    BY <2>3, AppendProperties
  <2> QED BY <2>4 DEF SuccessorIn
<1> QED BY <1>1 DEF Orderly

-----------------------------------------------------------------------------
(* The stream of a connection.                                              *)

\* The inductive invariant: the stream is in order and, as long as the
\* connection lives, ends where the last response has got to.  The size that
\* rfilesize holds is the one the headers announced, and a file is at its end
\* when EndRequest runs (request.cpp:369-371, buffer.cpp:186-193).
StreamInv ==
  /\ StreamIntact
  /\ NothingMissing
  /\ answers = <<>> => Stream = <<>>
  /\ (~quitting /\ ResponseBackend # "NULL")
       => rfilesize = answers[Len(answers)].size
  /\ (pc = "EndRequest" /\ ResponseBackend # "NULL") => rfilesent = rfilesize

USE DEF vars, networkVars, stackVars, requestVars, fileVars, responseVars,
        lifeVars, historyVars

LEMMA StreamType ==
  TypeOK => /\ Stream \in Seq(Unit) /\ received \o sockbuf \in Seq(Unit)
            /\ received \in Seq(Unit) /\ sockbuf \in Seq(Unit)
            /\ sendq \in Seq(Unit)
<1> SUFFICES ASSUME TypeOK
             PROVE  Stream \in Seq(Unit) /\ received \o sockbuf \in Seq(Unit)
    BY DEF TypeOK
<1>1. received \in Seq(Unit) /\ sockbuf \in Seq(Unit) /\ sendq \in Seq(Unit)
  BY DEF TypeOK
<1>2. received \o sockbuf \in Seq(Unit)
  BY <1>1, ConcatProperties
<1>3. (received \o sockbuf) \o sendq \in Seq(Unit)
  BY <1>1, <1>2, ConcatProperties
<1> QED BY <1>2, <1>3 DEF Stream

\* Units queued at the end of sendq are at the end of the stream, and so are
\* those written to the socket while sendq is empty.
LEMMA StreamGrows ==
  ASSUME TypeOK, NEW q \in Seq([resp : Nat, unit : Nat]),
         received' = received,
         \/ sendq' = sendq \o q /\ sockbuf' = sockbuf
         \/ sendq = <<>> /\ sendq' = <<>> /\ sockbuf' = sockbuf \o q
  PROVE  Stream' = Stream \o q
<1> DEFINE U == [resp : Nat, unit : Nat]
<1>0. Len(answers) \in Nat
  BY LenProperties DEF TypeOK
<1>1. Unit \subseteq U
  BY <1>0 DEF Unit
<1>2. received \in Seq(U) /\ sockbuf \in Seq(U) /\ sendq \in Seq(U) /\ q \in Seq(U)
  BY <1>1, SeqMonotonic DEF TypeOK
<1> HIDE DEF U
<1>3. received \o sockbuf \in Seq(U)
  BY <1>2, ConcatProperties
<1>a. \A x, y, z \in Seq(U) : (x \o y) \o z = x \o (y \o z)
  BY ConcatAssociative
<1>4. CASE sendq' = sendq \o q /\ sockbuf' = sockbuf
  <2>1. ((received \o sockbuf) \o sendq) \o q = (received \o sockbuf) \o (sendq \o q)
    BY <1>2, <1>3, <1>a
  <2> QED BY <1>4, <2>1 DEF Stream
<1>5. CASE sendq = <<>> /\ sendq' = <<>> /\ sockbuf' = sockbuf \o q
  <2>1. (received \o sockbuf) \o q = received \o (sockbuf \o q)
    BY <1>2, <1>a
  <2>2. (received \o sockbuf) \o <<>> = received \o sockbuf
    BY <1>3, ConcatEmptySeq
  <2>3. received \o (sockbuf \o q) \in Seq(U)
    BY <1>2, ConcatProperties
  <2>4. (received \o (sockbuf \o q)) \o <<>> = received \o (sockbuf \o q)
    BY <2>3, ConcatEmptySeq
  <2> QED BY <1>5, <2>1, <2>2, <2>4 DEF Stream
<1> QED BY <1>4, <1>5

\* What leaves sendq for the kernel, or the kernel for the client, stays in
\* its place in the stream.
LEMMA FlushKeepsStream ==
  ASSUME TypeOK, NEW n \in 0 .. Len(sendq), received' = received,
         sockbuf' = sockbuf \o Take(sendq, n), sendq' = Drop(sendq, n)
  PROVE  Stream' = Stream
<1>1. received \in Seq(Unit) /\ sockbuf \in Seq(Unit) /\ sendq \in Seq(Unit)
        /\ received \o sockbuf \in Seq(Unit)
  BY StreamType
<1> DEFINE t == Take(sendq, n)  d == Drop(sendq, n)
<1>2. t \in Seq(Unit) /\ d \in Seq(Unit) /\ t \o d = sendq
  BY <1>1, TakeDrop
<1>3. sockbuf' = sockbuf \o t /\ sendq' = d
  OBVIOUS
<1> HIDE DEF t, d
<1>a. \A x, y, z \in Seq(Unit) : (x \o y) \o z = x \o (y \o z)
  BY ConcatAssociative
<1>4. (received \o sockbuf) \o t = received \o (sockbuf \o t)
  <2>1. received \in Seq(Unit) /\ sockbuf \in Seq(Unit) /\ t \in Seq(Unit)
    BY <1>1, <1>2
  <2> QED BY <2>1, <1>a
<1>5. ((received \o sockbuf) \o t) \o d = (received \o sockbuf) \o (t \o d)
  BY <1>1, <1>2, <1>a
<1> QED BY <1>2, <1>3, <1>4, <1>5 DEF Stream

LEMMA ReceiveKeepsStream ==
  TypeOK /\ ClientReceive => Stream' = Stream
<1> SUFFICES ASSUME TypeOK, ClientReceive PROVE Stream' = Stream
  OBVIOUS
<1> DEFINE h == Head(sockbuf)  t == Tail(sockbuf)
<1>1. /\ sockbuf # <<>> /\ received' = Append(received, h) /\ sockbuf' = t
      /\ sendq' = sendq
  BY DEF ClientReceive
<1>2. received \in Seq(Unit) /\ sockbuf \in Seq(Unit)
  BY DEF TypeOK
<1>3. h \in Unit /\ t \in Seq(Unit) /\ sockbuf = <<h>> \o t
  BY <1>1, <1>2, HeadTailProperties
<1> HIDE DEF h, t
<1>4. Append(received, h) = received \o <<h>> /\ <<h>> \in Seq(Unit)
  BY <1>2, <1>3, AppendIsConcat
<1>a. \A x, y, z \in Seq(Unit) : (x \o y) \o z = x \o (y \o z)
  BY ConcatAssociative
<1>5. (received \o <<h>>) \o t = received \o (<<h>> \o t)
  BY <1>2, <1>3, <1>4, <1>a
<1> QED BY <1>1, <1>3, <1>4, <1>5 DEF Stream

\* A response is begun when the one before it is complete, whether that is at
\* the client, in the kernel or still in sendq: its first units follow.
LEMMA NewResponse ==
  ASSUME TypeOK, StreamInv, ~quitting, ResponseBackend = "NULL",
         NEW i \in Nat, NEW code \in Nat, NEW size \in Nat, NEW data \in Nat,
         NEW ka \in BOOLEAN, NEW fatal \in BOOLEAN, data <= size,
         SendHeaders(i, code, size, data, ka, fatal),
         received' = received, sockbuf' = sockbuf
  PROVE  /\ StreamIntact'
         /\ answers' # <<>> /\ answers'[Len(answers')].size = size
         /\ Stream' # <<>>
         /\ Stream'[Len(Stream')] = [resp |-> Len(answers'), unit |-> data]
<1> DEFINE n == Len(answers) + 1
           q == [k \in 1 .. data + 1 |-> [resp |-> n, unit |-> k - 1]]
           ans == [req |-> i, code |-> code, size |-> size,
                   close |-> ~ka, fatal |-> fatal]
           U == [resp : Nat, unit : Nat]
<1>1. answers' = Append(answers, ans) /\ sendq' = sendq \o q
  BY DEF SendHeaders
<1>2. Len(answers) \in Nat /\ n \in Nat \ {0}
  BY LenProperties DEF TypeOK
<1>3. /\ answers' \in Seq(Answer) /\ Len(answers') = n /\ answers'[n] = ans
      /\ \A k \in 1 .. Len(answers) : answers'[k] = answers[k]
  <2>1. ans \in Answer /\ answers \in Seq(Answer)
    BY DEF Answer, TypeOK
  <2> HIDE DEF ans
  <2> QED BY <1>1, <2>1, AppendProperties
<1>4. q \in Seq(U) /\ Len(q) = data + 1
  <2>1. q \in [1 .. data + 1 -> U]
    BY <1>2
  <2> HIDE DEF q, U
  <2> QED BY <2>1, FunctionIsSeq
<1>5. q # <<>> /\ q[1] = [resp |-> n, unit |-> 0]
        /\ q[data + 1] = [resp |-> n, unit |-> data]
  <2>1. 1 \in 1 .. data + 1 /\ data + 1 \in 1 .. data + 1
    OBVIOUS
  <2>2. q[1] = [resp |-> n, unit |-> 0] /\ q[data + 1] = [resp |-> n, unit |-> data]
    BY <2>1
  <2>3. q # <<>>
    <3> HIDE DEF q, U
    <3> QED BY <1>4, EmptySeq
  <2> QED BY <2>2, <2>3
<1>6. ASSUME NEW j \in 1 .. Len(q) - 1
      PROVE  q[j + 1] = SuccessorIn(answers', q[j])
  <2>1. j \in 1 .. data + 1 /\ j + 1 \in 1 .. data + 1 /\ j - 1 < size
    BY <1>4
  <2>2. /\ q[j] = [resp |-> n, unit |-> j - 1]
        /\ q[j + 1] = [resp |-> n, unit |-> (j - 1) + 1]
    BY <2>1
  <2>3. answers'[n].size = size
    BY <1>3
  <2> HIDE DEF q
  <2> QED BY <2>1, <2>2, <2>3 DEF SuccessorIn
<1>7. Stream \in Seq(U) /\ Stream \in Seq(Unit)
  <2>1. Stream \in Seq(Unit) /\ Unit \subseteq U
    BY <1>2, StreamType DEF Unit
  <2> HIDE DEF U
  <2> QED BY <2>1, SeqMonotonic
<1>8. Stream' = Stream \o q
  <2> HIDE DEF q
  <2> QED BY <1>1, <1>4, StreamGrows
<1>9. Orderly(answers', Stream)
  <2>1. /\ ans \in Answer /\ answers \in Seq(Answer) /\ Orderly(answers, Stream)
        /\ Stream \in Seq([resp : 1 .. Len(answers), unit : Nat])
    BY <1>7, StreamIsOrderly DEF Answer, TypeOK, StreamInv, Unit
  <2> HIDE DEF ans
  <2> QED BY <1>1, <2>1, OrderlyGrows
<1>10. Stream = <<>> => q[1] = [resp |-> 1, unit |-> 0]
  <2>1. Stream = <<>> => answers = <<>>
    BY DEF StreamInv, NothingMissing
  <2>2. Stream = <<>> => n = 1
    BY <2>1, EmptySeq
  <2> QED BY <1>5, <2>2
<1>11. Stream # <<>> => q[1] = SuccessorIn(answers', Stream[Len(Stream)])
  <2> SUFFICES ASSUME Stream # <<>>
               PROVE  q[1] = SuccessorIn(answers', Stream[Len(Stream)])
    OBVIOUS
  <2>1. answers # <<>>
    BY DEF StreamInv
  <2>2. Stream[Len(Stream)] = [resp |-> Len(answers),
                               unit |-> answers[Len(answers)].size]
    BY <2>1 DEF StreamInv, NothingMissing
  <2>3. Len(answers) \in 1 .. Len(answers)
    BY <1>2, <2>1, EmptySeq DEF TypeOK
  <2>4. answers[Len(answers)] \in Answer
    BY <2>3, ElementOfSeq DEF TypeOK
  <2>5. answers'[Len(answers)].size = answers[Len(answers)].size
          /\ answers[Len(answers)].size \in Nat
    BY <1>3, <2>3, <2>4 DEF Answer
  <2> HIDE DEF q
  <2> QED BY <1>5, <2>2, <2>5 DEF SuccessorIn
<1> HIDE DEF q, U
<1>12. Orderly(answers', Stream \o q)
  BY <1>4, <1>5, <1>6, <1>7, <1>9, <1>10, <1>11, OrderlyConcat
<1>13. StreamIntact'
  BY <1>8, <1>12 DEF StreamIntact, Orderly, Successor, SuccessorIn
<1>14. Stream' # <<>> /\ Stream'[Len(Stream')] = q[data + 1]
  <2>1. /\ Len(Stream \o q) = Len(Stream) + Len(q) /\ Len(Stream) \in Nat
        /\ \A j \in 1 .. Len(q) : (Stream \o q)[Len(Stream) + j] = q[j]
    <3>1. Stream \in Seq(U) /\ q \in Seq(U)
      BY <1>4, <1>7
    <3> QED BY <3>1, ConcatElements
  <2>2. Len(Stream \o q) = Len(Stream) + (data + 1) /\ data + 1 \in 1 .. Len(q)
    BY <1>4, <2>1
  <2>3. Stream \o q # <<>>
    <3>1. Len(Stream \o q) # 0
      BY <2>1, <2>2
    <3> QED BY <3>1, EmptySeq
  <2>4. (Stream \o q)[Len(Stream) + (data + 1)] = q[data + 1]
    BY <2>1, <2>2
  <2> QED BY <1>8, <2>2, <2>3, <2>4
<1>15. answers' # <<>>
  BY <1>2, <1>3, EmptySeq
<1> QED BY <1>3, <1>5, <1>13, <1>14, <1>15

LEMMA StreamInit == Init => StreamInv
<1> SUFFICES ASSUME Init PROVE StreamInv
  OBVIOUS
<1>1. received = <<>> /\ sockbuf = <<>> /\ sendq = <<>> /\ answers = <<>>
        /\ ResponseBackend = "NULL"
  BY DEF Init
<1>2. Stream = <<>>
  <2>1. <<>> \o <<>> = <<>>
    OBVIOUS
  <2> QED BY <1>1, <2>1 DEF Stream
<1>3. StreamIntact
  <2>1. Len(Stream) = 0
    BY <1>2
  <2> QED BY <1>2, <2>1 DEF StreamIntact
<1> QED BY <1>1, <1>2, <1>3 DEF StreamInv, NothingMissing

\* Steps that neither send nor begin nor end a response.
LEMMA StreamSame ==
  ASSUME StreamInv, Stream' = Stream,
         UNCHANGED <<answers, ResponseBackend, rfilesize, rfilesent>>,
         quitting => quitting',
         pc' # "EndRequest" \/ pc' = pc \/ ResponseBackend' = "NULL"
           \/ rfilesent' = rfilesize'
  PROVE  StreamInv'
<1>1. StreamIntact'
  BY DEF StreamInv, StreamIntact, Successor
<1>2. NothingMissing'
  BY DEF StreamInv, NothingMissing
<1> QED BY <1>1, <1>2 DEF StreamInv

LEMMA StreamClient == TypeOK /\ StreamInv /\ Client => StreamInv'
<1> SUFFICES ASSUME TypeOK, StreamInv, Client PROVE StreamInv'
  OBVIOUS
<1>1. UNCHANGED <<answers, ResponseBackend, rfilesize, rfilesent, quitting, pc>>
  BY DEF Client, ClientRequest, ClientReceive, ClientShut, ClientReset
<1>2. CASE ClientReceive
  <2>1. Stream' = Stream
    BY <1>2, ReceiveKeepsStream
  <2> QED BY <1>1, <2>1, StreamSame
<1>3. CASE ~ClientReceive
  <2>1. UNCHANGED <<received, sockbuf, sendq>>
    BY <1>3 DEF Client, ClientRequest, ClientShut, ClientReset
  <2>2. Stream' = Stream
    BY <2>1 DEF Stream
  <2> QED BY <1>1, <2>2, StreamSame
<1> QED BY <1>2, <1>3

\* Closing the connection may lose the end of its stream, and nothing else.
LEMMA StreamApply == TypeOK /\ ControlInv /\ StreamInv /\ Apply => StreamInv'
<1> SUFFICES ASSUME TypeOK, ControlInv, StreamInv, Apply PROVE StreamInv'
  OBVIOUS
<1>a. UNCHANGED <<received, answers, ResponseBackend, rfilesize, rfilesent,
                  quitting>> /\ pc' \in {"closed", "Scan"}
  BY DEF Apply
<1>1. CASE ~quitting
  <2>1. UNCHANGED <<sendq, sockbuf>>
    BY <1>1 DEF Apply
  <2>2. Stream' = Stream
    BY <1>a, <2>1 DEF Stream
  <2> QED BY <1>a, <2>2, StreamSame
<1>2. CASE quitting
  <2> DEFINE s == received \o sockbuf
  <2>1. sendq' = <<>> /\ sockbuf' \in {sockbuf, <<>>}
    BY <1>2 DEF Apply
  <2>2. received \in Seq(Unit) /\ sockbuf \in Seq(Unit) /\ sendq \in Seq(Unit)
          /\ s \in Seq(Unit)
    BY StreamType
  <2>3. Stream = s \o sendq
    BY DEF Stream
  <2>4. Stream' \in {s, received}
    <3>1. received \o <<>> = received /\ s \o <<>> = s
      <4> HIDE DEF s
      <4> QED BY <2>2, ConcatEmptySeq
    <3>2. Stream' = (received \o sockbuf') \o <<>>
      BY <1>a, <2>1 DEF Stream
    <3> QED BY <2>1, <3>1, <3>2
  <2>5. Orderly(answers, s) /\ Orderly(answers, received)
    <3>1. Orderly(answers, s \o sendq)
      BY <2>3, StreamIsOrderly DEF StreamInv
    <3>2. Orderly(answers, s)
      <4> HIDE DEF s
      <4> QED BY <2>2, <3>1, OrderlyPrefix
    <3>3. Orderly(answers, received \o sockbuf)
      BY <3>2
    <3>4. Orderly(answers, received)
      BY <2>2, <3>3, OrderlyPrefix
    <3> QED BY <3>2, <3>4
  <2>6. StreamIntact'
    <3>1. Orderly(answers, Stream')
      BY <2>4, <2>5
    <3> QED BY <1>a, <3>1 DEF StreamIntact, Orderly, Successor, SuccessorIn
  <2>7. answers = <<>> => Stream' = <<>>
    <3> SUFFICES ASSUME s \o sendq = <<>> PROVE s = <<>> /\ received = <<>>
      BY <2>3, <2>4 DEF StreamInv
    <3>1. s = <<>>
      <4> HIDE DEF s
      <4> QED BY <2>2, ConcatEqualIffEmpty
    <3>2. received = <<>>
      BY <2>2, <3>1, ConcatEqualIffEmpty
    <3> QED BY <3>1, <3>2
  <2> QED BY <1>2, <1>a, <2>6, <2>7 DEF StreamInv, NothingMissing
<1> QED BY <1>1, <1>2

LEMMA StreamLoop ==
  TypeOK /\ ControlInv /\ StreamInv /\ (Loop \/ Return) => StreamInv'
<1> SUFFICES ASSUME TypeOK, ControlInv, StreamInv, Loop \/ Return, ~Apply
             PROVE  StreamInv'
  BY StreamApply
<1>1. UNCHANGED <<received, sockbuf, sendq, answers, ResponseBackend,
                  rfilesize, rfilesent>>
  BY DEF Loop, Scan, Poll, HandleError, HandleWrite, HandleRead, Return
<1>2. quitting => quitting'
  BY DEF Loop, Scan, Poll, HandleError, HandleWrite, HandleRead, Return, Delete
<1>3. pc' # "EndRequest"
  BY Zenon DEF Loop, Scan, Poll, HandleError, HandleWrite, HandleRead, Return,
         AddBuffer
<1>4. Stream' = Stream
  BY <1>1 DEF Stream
<1> QED BY <1>1, <1>2, <1>3, <1>4, StreamSame

-----------------------------------------------------------------------------
(* The two outcomes of CheckRequest once it has a head.                     *)

\* The request is turned down with a code that fits it.
TurnedDown(i, r) ==
  \E code \in AllowedCodes(r) \cap Nat, fatal \in BOOLEAN, ka \in BOOLEAN :
    /\ SendError(i, code, fatal, ka)
    /\ r.form = "ok" => ka = KeepAliveHead(r)

\* The request is accepted: its body is awaited, or ServeData is called.
Accepted(r) ==
  /\ r.form = "ok" /\ AllowedCodes(r) = {200} \cup FileErrors
  /\ r.length <= MaxPostBody /\ ~r.chunked
  /\ keepalive' = KeepAliveHead(r)
  /\ UNCHANGED <<answers, sendq, interest, ResponseBackend,
                 ResponseBufferDone, fatalFrame>>
  /\ \/ /\ r.length > 0
        /\ State' = "HTTP_RECV_REQBODY" /\ pc' = "Return"
        /\ RequestBodyLength' = r.length
     \/ /\ r.length = 0
        /\ pc' = "ServeData"
        /\ UNCHANGED <<State, RequestBodyLength>>

LEMMA CheckHeadCases ==
  ASSUME TypeOK, NEW i \in Nat, NEW r \in Request, CheckHead(i, r)
  PROVE  TurnedDown(i, r) \/ Accepted(r)
<1>1. keepalive \in BOOLEAN /\ KeepAliveLine(r) \in BOOLEAN
        /\ KeepAliveHead(r) \in BOOLEAN
  BY DEF TypeOK, KeepAliveLine, KeepAliveHead
<1>2. ASSUME NEW code \in AllowedCodes(r) \cap Nat, NEW ka \in BOOLEAN,
             SendError(i, code, TRUE, ka) \/ SendError(i, code, FALSE, ka),
             r.form = "ok" => ka = KeepAliveHead(r)
      PROVE  TurnedDown(i, r)
  <2>1. TRUE \in BOOLEAN /\ FALSE \in BOOLEAN
    OBVIOUS
  <2> QED BY <1>2, <2>1, Zenon DEF TurnedDown
<1>3. r.length \in Nat /\ r.form \in {"ok", "badline", "badversion", "badheader"}
        /\ r.method \in {"GET", "POST", "OTHER"} /\ MaxPostBody \in Nat
  BY LimitsAssumption DEF Request
<1>4. CASE r.form = "badline" /\ SendError(i, 400, FALSE, keepalive)
  <2> DEFINE code == 400  ka == keepalive
  <2>1. code \in AllowedCodes(r) \cap Nat
    BY <1>4 DEF AllowedCodes
  <2>2. ka \in BOOLEAN /\ SendError(i, code, FALSE, ka)
          /\ (r.form = "ok" => ka = KeepAliveHead(r))
    BY <1>1, <1>4, Zenon
  <2> HIDE DEF code, ka
  <2> QED BY <1>2, <2>1, <2>2, Zenon
<1>5. CASE r.form = "badversion" /\ SendError(i, 505, FALSE, keepalive)
  <2> DEFINE code == 505  ka == keepalive
  <2>1. code \in AllowedCodes(r) \cap Nat
    BY <1>5 DEF AllowedCodes
  <2>2. ka \in BOOLEAN /\ SendError(i, code, FALSE, ka)
          /\ (r.form = "ok" => ka = KeepAliveHead(r))
    BY <1>1, <1>5, Zenon
  <2> HIDE DEF code, ka
  <2> QED BY <1>2, <2>1, <2>2, Zenon
<1>6. CASE r.form = "badheader" /\ SendError(i, 400, FALSE, KeepAliveLine(r))
  <2> DEFINE code == 400  ka == KeepAliveLine(r)
  <2>1. code \in AllowedCodes(r) \cap Nat
    BY <1>6 DEF AllowedCodes
  <2>2. ka \in BOOLEAN /\ SendError(i, code, FALSE, ka)
          /\ (r.form = "ok" => ka = KeepAliveHead(r))
    BY <1>1, <1>6, Zenon
  <2> HIDE DEF code, ka
  <2> QED BY <1>2, <2>1, <2>2, Zenon
<1>7. CASE /\ r.form = "ok" /\ r.length > MaxPostBody
           /\ SendError(i, 413, TRUE, KeepAliveHead(r))
  <2> DEFINE code == 413  ka == KeepAliveHead(r)
  <2>1. code \in AllowedCodes(r) \cap Nat
    BY <1>7 DEF AllowedCodes
  <2>2. ka \in BOOLEAN /\ SendError(i, code, TRUE, ka)
          /\ (r.form = "ok" => ka = KeepAliveHead(r))
    BY <1>1, <1>7, Zenon
  <2> HIDE DEF code, ka
  <2> QED BY <1>2, <2>1, <2>2, Zenon
<1>8. CASE /\ r.form = "ok" /\ ~(r.length > MaxPostBody)
           /\ r.chunked \/ (r.length > 0 /\ r.method # "POST")
           /\ SendError(i, 500, TRUE, KeepAliveHead(r))
  <2> DEFINE code == 500  ka == KeepAliveHead(r)
  <2>1. code \in AllowedCodes(r) \cap Nat
    BY <1>8 DEF AllowedCodes
  <2>2. ka \in BOOLEAN /\ SendError(i, code, TRUE, ka)
          /\ (r.form = "ok" => ka = KeepAliveHead(r))
    BY <1>1, <1>8, Zenon
  <2> HIDE DEF code, ka
  <2> QED BY <1>2, <2>1, <2>2, Zenon
<1>9. CASE /\ r.form = "ok" /\ r.length = 0 /\ ~r.chunked /\ r.method = "OTHER"
           /\ SendError(i, 501, TRUE, KeepAliveHead(r))
  <2> DEFINE code == 501  ka == KeepAliveHead(r)
  <2>1. code \in AllowedCodes(r) \cap Nat
    BY <1>3, <1>9 DEF AllowedCodes
  <2>2. ka \in BOOLEAN /\ SendError(i, code, TRUE, ka)
          /\ (r.form = "ok" => ka = KeepAliveHead(r))
    BY <1>1, <1>9, Zenon
  <2> HIDE DEF code, ka
  <2> QED BY <1>2, <2>1, <2>2, Zenon
<1>10. CASE /\ r.form = "ok" /\ ~(r.length > MaxPostBody) /\ ~r.chunked
            /\ r.length > 0 /\ ~(r.length > 0 /\ r.method # "POST")
            /\ State' = "HTTP_RECV_REQBODY" /\ RequestBodyLength' = r.length
            /\ keepalive' = KeepAliveHead(r) /\ pc' = "Return"
            /\ UNCHANGED <<answers, sendq, interest, ResponseBackend,
                           ResponseBufferDone, fatalFrame>>
  <2>1. AllowedCodes(r) = {200} \cup FileErrors /\ r.length <= MaxPostBody
    BY <1>3, <1>10 DEF AllowedCodes
  <2> QED BY <1>10, <2>1 DEF Accepted
<1>11. CASE /\ r.form = "ok" /\ r.length = 0 /\ ~r.chunked /\ r.method # "OTHER"
            /\ keepalive' = KeepAliveHead(r) /\ pc' = "ServeData"
            /\ UNCHANGED <<RequestBodyLength, State, answers, sendq, interest,
                           ResponseBackend, ResponseBufferDone, fatalFrame>>
  <2>1. AllowedCodes(r) = {200} \cup FileErrors /\ r.length <= MaxPostBody
    BY <1>3, <1>11 DEF AllowedCodes
  <2> QED BY <1>11, <2>1 DEF Accepted
<1> QED BY <1>4, <1>5, <1>6, <1>7, <1>8, <1>9, <1>10, <1>11 DEF CheckHead

\* CheckRequest waits for the rest of the head, or takes the head up to its
\* first blank line out of requestbuf and acts on the request it finds.
LEMMA CheckRequestCases ==
  ASSUME TypeOK, CheckRequest
  PROVE  \/ /\ Ends(requestbuf) = {} /\ pc' = "Return"
            /\ UNCHANGED <<requestbuf, cur, RequestBodyLength, answers, sendq,
                           keepalive, interest, State, ResponseBackend,
                           ResponseBufferDone, fatalFrame>>
         \/ \E e \in Ends(requestbuf) : \E p \in Parse(Take(requestbuf, e)) :
              /\ \A f \in Ends(requestbuf) : e <= f
              /\ requestbuf' = Drop(requestbuf, e) /\ cur' = p.of
              /\ p.of \in Nat /\ p.req \in Request
              /\ TurnedDown(p.of, p.req) \/ Accepted(p.req)
<1>1. CASE Ends(requestbuf) = {}
  BY <1>1 DEF CheckRequest
<1>2. CASE Ends(requestbuf) # {}
  <2>1. PICK e \in Ends(requestbuf) :
          /\ \A f \in Ends(requestbuf) : e <= f
          /\ requestbuf' = AfterHead(e)
          /\ \E p \in Parse(Take(requestbuf, e)) :
               cur' = p.of /\ CheckHead(p.of, p.req)
    BY <1>2 DEF CheckRequest
  <2>2. PICK p \in Parse(Take(requestbuf, e)) :
          cur' = p.of /\ CheckHead(p.of, p.req)
    BY <2>1
  <2>3. p.of \in Nat /\ p.req \in Request
    BY ParseType
  <2>4. TurnedDown(p.of, p.req) \/ Accepted(p.req)
    <3> DEFINE i == p.of  r == p.req
    <3>1. i \in Nat /\ r \in Request /\ CheckHead(i, r)
      BY <2>2, <2>3
    <3> HIDE DEF i, r
    <3>2. TurnedDown(i, r) \/ Accepted(r)
      BY <3>1, CheckHeadCases
    <3> QED BY <3>2 DEF i, r
  <2> QED BY <2>1, <2>2, <2>3, <2>4 DEF AfterHead
<1> QED BY <1>1, <1>2

-----------------------------------------------------------------------------
(* The functions of the call chain preserve StreamInv.                      *)

\* A connection that waits for a request, or for its body, has no backend.
LEMMA WaitingHasNoBackend ==
  ASSUME ControlInv, Waiting
  PROVE  ~quitting /\ ResponseBackend = "NULL"
BY DEF ControlInv, StateMeansBackend, Waiting

LEMMA StreamSendError ==
  ASSUME TypeOK, ControlInv, StreamInv, Waiting,
         NEW i \in Nat, NEW code \in Nat, NEW fatal \in BOOLEAN,
         NEW ka \in BOOLEAN, SendError(i, code, fatal, ka),
         received' = received, sockbuf' = sockbuf
  PROVE  StreamInv'
<1> DEFINE size == 1
<1>1. ~quitting /\ ResponseBackend = "NULL"
  BY WaitingHasNoBackend
<1>2. SendHeaders(i, code, size, size, ka, fatal) /\ ResponseBackend' = "NULL"
  BY DEF SendError
<1>3. size \in Nat /\ size <= size
  OBVIOUS
<1> HIDE DEF size
<1>4. /\ StreamIntact' /\ answers' # <<>> /\ answers'[Len(answers')].size = size
      /\ Stream' # <<>>
      /\ Stream'[Len(Stream')] = [resp |-> Len(answers'), unit |-> size]
  BY <1>1, <1>2, <1>3, NewResponse
<1> QED BY <1>2, <1>4 DEF StreamInv, NothingMissing

LEMMA StreamCheckRequest ==
  TypeOK /\ ControlInv /\ StreamInv /\ CheckRequest => StreamInv'
<1> SUFFICES ASSUME TypeOK, ControlInv, StreamInv, CheckRequest
             PROVE  StreamInv'
  OBVIOUS
<1>1. UNCHANGED <<received, sockbuf, rfilesize, rfilesent, quitting>>
        /\ pc = "CheckRequest"
  BY DEF CheckRequest
<1>2. Waiting
  BY <1>1 DEF ControlInv, CalledInState
<1>3. CASE UNCHANGED <<sendq, answers, ResponseBackend>> /\ pc' # "EndRequest"
  <2>1. Stream' = Stream
    BY <1>1, <1>3 DEF Stream
  <2> QED BY <1>1, <1>3, <2>1, StreamSame
<1>4. CASE \E i \in Nat, r \in Request : TurnedDown(i, r)
  <2> PICK i \in Nat, r \in Request : TurnedDown(i, r)
    BY <1>4
  <2> PICK code \in AllowedCodes(r) \cap Nat, fatal \in BOOLEAN, ka \in BOOLEAN :
        SendError(i, code, fatal, ka)
    BY Zenon DEF TurnedDown
  <2> QED BY <1>1, <1>2, StreamSendError
<1>5. \/ UNCHANGED <<sendq, answers, ResponseBackend>> /\ pc' # "EndRequest"
      \/ \E i \in Nat, r \in Request : TurnedDown(i, r)
  BY CheckRequestCases DEF Accepted
<1> QED BY <1>3, <1>4, <1>5

LEMMA StreamServeData ==
  TypeOK /\ ControlInv /\ StreamInv /\ ServeData => StreamInv'
<1> SUFFICES ASSUME TypeOK, ControlInv, StreamInv, ServeData
             PROVE  StreamInv'
  OBVIOUS
<1>1. UNCHANGED <<received, sockbuf, quitting>> /\ pc = "ServeData"
  BY DEF ServeData
<1>2. Waiting /\ ~quitting /\ ResponseBackend = "NULL"
  BY <1>1, WaitingHasNoBackend DEF ControlInv, CalledInState
<1>3. cur \in Nat /\ keepalive \in BOOLEAN
  BY DEF TypeOK
<1>4. CASE \E code \in FileErrors : SendError(cur, code, FALSE, keepalive)
  <2> PICK code \in FileErrors : SendError(cur, code, FALSE, keepalive)
    BY <1>4
  <2> DEFINE fatal == FALSE
  <2>1. code \in Nat
    BY FilesAssumption
  <2>2. fatal \in BOOLEAN /\ SendError(cur, code, fatal, keepalive)
    BY Zenon
  <2> HIDE DEF fatal
  <2> QED BY <1>1, <1>2, <1>3, <2>1, <2>2, StreamSendError
<1>5. CASE \E size \in FileSizes :
             /\ rfilesize' = size /\ rfilesent' = 0
             /\ ResponseBackend' = "WriteBackend"
             /\ SendHeaders(cur, 200, size, 0, keepalive, FALSE)
             /\ pc' = IF size = 0 THEN "EndRequest" ELSE "Return"
  <2> PICK size \in FileSizes :
        /\ rfilesize' = size /\ rfilesent' = 0
        /\ ResponseBackend' = "WriteBackend"
        /\ SendHeaders(cur, 200, size, 0, keepalive, FALSE)
        /\ pc' = IF size = 0 THEN "EndRequest" ELSE "Return"
    BY <1>5
  <2> DEFINE fatal == FALSE  code == 200  data == 0
  <2>1. code \in Nat /\ size \in Nat /\ data \in Nat /\ data <= size
    BY FilesAssumption
  <2>2. data = 0
    OBVIOUS
  <2>4. fatal \in BOOLEAN /\ SendHeaders(cur, code, size, data, keepalive, fatal)
    BY Zenon
  <2> HIDE DEF fatal, code, data
  <2>3. /\ StreamIntact' /\ answers' # <<>> /\ answers'[Len(answers')].size = size
        /\ Stream' # <<>>
        /\ Stream'[Len(Stream')] = [resp |-> Len(answers'), unit |-> data]
    BY <1>1, <1>2, <1>3, <2>1, <2>4, NewResponse
  <2> QED BY <2>2, <2>3 DEF StreamInv, NothingMissing
<1> QED BY <1>4, <1>5 DEF ServeData

\* FlushWriteBuf moves units of sendq on and calls EndRequest only for a
\* response made of buffers.
LEMMA StreamFlushWriteBuf ==
  TypeOK /\ ControlInv /\ StreamInv /\ FlushWriteBuf => StreamInv'
<1> SUFFICES ASSUME TypeOK, ControlInv, StreamInv, FlushWriteBuf
             PROVE  StreamInv'
  OBVIOUS
<1>1. UNCHANGED <<received, answers, ResponseBackend, rfilesize, rfilesent>>
  BY DEF FlushWriteBuf
<1>2. quitting => quitting'
  BY DEF FlushWriteBuf, Delete
<1>3. pc' = "EndRequest" => ResponseBackend' = "NULL"
  <2>1. pc' = "EndRequest" => State = "HTTP_SEND_DATA" /\ ResponseBufferDone
    BY DEF FlushWriteBuf, Flushed, Partial
  <2> QED BY <1>1, <2>1 DEF ControlInv, StateMeansBackend
<1>4. Stream' = Stream
  <2>1. CASE UNCHANGED <<sendq, sockbuf>>
    BY <1>1, <2>1 DEF Stream
  <2>2. CASE \E n \in Sendable(Len(sendq)) :
               sockbuf' = sockbuf \o Take(sendq, n) /\ sendq' = Drop(sendq, n)
    <3> PICK n \in Sendable(Len(sendq)) :
          sockbuf' = sockbuf \o Take(sendq, n) /\ sendq' = Drop(sendq, n)
      BY <2>2
    <3>1. n \in 0 .. Len(sendq)
      BY LenProperties DEF Sendable, TypeOK
    <3> QED BY <1>1, <3>1, FlushKeepsStream
  <2> QED BY <2>1, <2>2 DEF FlushWriteBuf
<1> QED BY <1>1, <1>2, <1>3, <1>4, StreamSame

\* ServeFile writes past sendq, which is empty by then, and goes on where it
\* stopped the last time.
LEMMA StreamSendStaticData ==
  TypeOK /\ FileHasAnswer /\ ControlInv /\ StreamInv /\ SendStaticData
    => StreamInv'
<1> SUFFICES ASSUME TypeOK, FileHasAnswer, ControlInv, StreamInv, SendStaticData
             PROVE  StreamInv'
  OBVIOUS
<1>1. /\ UNCHANGED <<received, sendq, answers, ResponseBackend, rfilesize>>
      /\ pc = "SendStaticData"
  BY DEF SendStaticData
<1>2. quitting => quitting'
  BY DEF SendStaticData, Delete
<1>3. pc' = "EndRequest" => rfilesent' = rfilesize'
  BY <1>1 DEF SendStaticData
<1>4. CASE UNCHANGED <<sockbuf, rfilesent>>
  <2>1. Stream' = Stream
    BY <1>1, <1>4 DEF Stream
  <2> QED BY <1>1, <1>2, <1>3, <1>4, <2>1, StreamSame
<1>5. CASE /\ filefd = "open" /\ UNCHANGED quitting
           /\ \E n \in Sendable(rfilesize - rfilesent) :
                /\ rfilesent' = rfilesent + n
                /\ sockbuf' = sockbuf \o
                     [k \in 1 .. n |-> [resp |-> Len(answers),
                                        unit |-> rfilesent + k]]
  <2> DEFINE U == [resp : Nat, unit : Nat]
             last == Len(answers)
  <2> PICK n \in Sendable(rfilesize - rfilesent) :
        /\ rfilesent' = rfilesent + n
        /\ sockbuf' = sockbuf \o
             [k \in 1 .. n |-> [resp |-> Len(answers), unit |-> rfilesent + k]]
    BY <1>5
  <2> DEFINE q == [k \in 1 .. n |-> [resp |-> last, unit |-> rfilesent + k]]
  <2>1. /\ n \in Nat /\ n >= 1 /\ n <= rfilesize - rfilesent
        /\ rfilesent \in Nat /\ rfilesize \in Nat /\ last \in Nat \ {0}
    BY <1>5, LenProperties DEF Sendable, TypeOK, FileHasAnswer
  <2>2. State = "HTTP_SEND_DATA" /\ ResponseBackend # "NULL" /\ sendq = <<>>
          /\ ~quitting
    BY <1>1 DEF ControlInv, CalledInState, StateMeansBackend
  <2>3. q \in Seq(U) /\ Len(q) = n
    <3>1. q \in [1 .. n -> U]
      BY <2>1
    <3> HIDE DEF q, U
    <3> QED BY <2>1, <3>1, FunctionIsSeq
  <2>4. /\ q[1] = [resp |-> last, unit |-> rfilesent + 1]
        /\ q[n] = [resp |-> last, unit |-> rfilesent + n]
    <3>1. 1 \in 1 .. n /\ n \in 1 .. n
      BY <2>1
    <3> QED BY <3>1
  <2>5. answers # <<>> /\ answers[last].size = rfilesize
    BY <2>1, <2>2, EmptySeq DEF StreamInv
  <2>6. Stream # <<>> /\ Stream[Len(Stream)] = [resp |-> last, unit |-> rfilesent]
    BY <2>2, <2>5 DEF StreamInv, NothingMissing
  <2>7. q[1] = SuccessorIn(answers, Stream[Len(Stream)])
    <3> HIDE DEF q
    <3> QED BY <2>1, <2>4, <2>5, <2>6 DEF SuccessorIn
  <2>8. ASSUME NEW j \in 1 .. Len(q) - 1
        PROVE  q[j + 1] = SuccessorIn(answers, q[j])
    <3>1. j \in 1 .. n /\ j + 1 \in 1 .. n
      BY <2>1, <2>3
    <3>2. /\ q[j] = [resp |-> last, unit |-> rfilesent + j]
          /\ q[j + 1] = [resp |-> last, unit |-> rfilesent + j + 1]
      BY <2>1, <3>1
    <3> HIDE DEF q
    <3> QED BY <2>1, <2>5, <3>1, <3>2 DEF SuccessorIn
  <2>9. Stream \in Seq(U) /\ Orderly(answers, Stream)
    <3>1. Stream \in Seq(Unit) /\ Unit \subseteq U
      BY <2>1, StreamType DEF Unit
    <3> HIDE DEF U
    <3> QED BY <3>1, SeqMonotonic, StreamIsOrderly DEF StreamInv
  <2>10. sockbuf' = sockbuf \o q
    OBVIOUS
  <2> HIDE DEF q, U, last
  <2>11. Stream' = Stream \o q
    BY <1>1, <2>2, <2>3, <2>10, StreamGrows DEF U
  <2>12. /\ Len(Stream \o q) = Len(Stream) + Len(q) /\ Len(Stream) \in Nat
         /\ \A j \in 1 .. Len(q) : (Stream \o q)[Len(Stream) + j] = q[j]
    <3>1. Stream \in Seq(U) /\ q \in Seq(U)
      BY <2>3, <2>9
    <3> QED BY <3>1, ConcatElements
  <2>13. q # <<>>
    BY <2>1, <2>3, EmptySeq
  <2>14. Orderly(answers, Stream \o q)
    BY <2>3, <2>6, <2>7, <2>8, <2>9, <2>13, OrderlyConcat
  <2>15. StreamIntact'
    BY <1>1, <2>11, <2>14 DEF StreamIntact, Orderly, Successor, SuccessorIn
  <2>16. Stream' # <<>> /\ Stream'[Len(Stream')] = [resp |-> last, unit |-> rfilesent']
    <3>1. Len(Stream') = Len(Stream) + n /\ n \in 1 .. Len(q)
      BY <2>1, <2>3, <2>11, <2>12
    <3>2. Stream'[Len(Stream')] = q[n]
      BY <2>11, <2>12, <3>1
    <3>3. Len(Stream') # 0
      BY <2>1, <2>12, <3>1
    <3> QED BY <2>4, <3>2, <3>3, EmptySeq
  <2> QED BY <1>1, <1>3, <2>2, <2>5, <2>15, <2>16
          DEF StreamInv, NothingMissing, last
<1> QED BY <1>4, <1>5 DEF SendStaticData, ServeFile

LEMMA StreamEndRequest ==
  TypeOK /\ ControlInv /\ StreamInv /\ EndRequest => StreamInv'
<1> SUFFICES ASSUME TypeOK, ControlInv, StreamInv, EndRequest
             PROVE  StreamInv'
  OBVIOUS
<1>1. UNCHANGED <<received, sockbuf, sendq, answers>> /\ pc = "EndRequest"
        /\ pc' # "EndRequest"
  BY DEF EndRequest, NextRequest
<1>2. Stream' = Stream
  BY <1>1 DEF Stream
<1>3. CASE LastRequest
  <2>1. UNCHANGED <<ResponseBackend, rfilesize, rfilesent>> /\ quitting'
    BY <1>3 DEF EndRequest, Delete
  <2> QED BY <1>1, <1>2, <2>1, StreamSame
<1>4. CASE ~LastRequest
  <2>1. ResponseBackend' = "NULL" /\ quitting' = quitting
    BY <1>4 DEF EndRequest, ClearResponse
  <2>2. ResponseBackend # "NULL" => rfilesent = answers[Len(answers)].size
    BY <1>1 DEF StreamInv, ControlInv, CalledInState, StateMeansBackend, Sending
  <2>3. NothingMissing'
    BY <1>1, <1>2, <2>1, <2>2 DEF StreamInv, NothingMissing
  <2>4. StreamIntact'
    BY <1>1, <1>2 DEF StreamInv, StreamIntact, Successor
  <2> QED BY <1>1, <1>2, <2>1, <2>3, <2>4 DEF StreamInv
<1> QED BY <1>3, <1>4

LEMMA StreamNext ==
  TypeInv /\ ControlInv /\ StreamInv /\ [Next]_vars => StreamInv'
<1> SUFFICES ASSUME TypeInv, ControlInv, StreamInv, [Next]_vars
             PROVE  StreamInv'
  OBVIOUS
<1>1. TypeOK /\ FileHasAnswer
  BY DEF TypeInv
<1>2. CASE UNCHANGED vars
  <2>1. Stream' = Stream
    BY <1>2 DEF Stream
  <2> QED BY <1>2, <2>1, StreamSame
<1> QED BY <1>1, <1>2, StreamClient, StreamLoop, StreamCheckRequest,
           StreamServeData, StreamFlushWriteBuf, StreamSendStaticData,
           StreamEndRequest DEF Next, Server

HIDE DEF vars, networkVars, stackVars, requestVars, fileVars, responseVars,
         lifeVars, historyVars

LEMMA StreamCorrect == Spec => []StreamInv
<1>1. Init => StreamInv
  BY StreamInit
<1>2. TypeInv /\ ControlInv /\ StreamInv /\ [Next]_vars => StreamInv'
  BY StreamNext
<1> QED BY <1>1, <1>2, TypeInvariant, ControlCorrect, PTL DEF Spec

\* Responses reach the client in the order they were begun, each with its
\* headers first and whole, although SendStaticData writes a file's bytes to
\* the socket past sendq.
THEOREM StreamAlwaysIntact == Spec => []StreamIntact
<1>1. StreamInv => StreamIntact
  BY DEF StreamInv
<1> QED BY <1>1, StreamCorrect, PTL

\* As long as the connection lives, every unit of the responses begun is at
\* the client, in the kernel, in sendq or still in the file.
THEOREM NothingEverMissing == Spec => []NothingMissing
<1>1. StreamInv => NothingMissing
  BY DEF StreamInv
<1> QED BY <1>1, StreamCorrect, PTL
=============================================================================
