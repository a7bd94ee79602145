--------------------------- MODULE HttpOrderProofs ---------------------------
(***************************************************************************)
(* Theorems about what HttpConnection reads: the body of a request, the    *)
(* order of the client's bytes on their way through the socket and         *)
(* requestbuf, and that the n-th response answers the n-th request, for    *)
(* every value of the constants.                                           *)
(***************************************************************************)
EXTENDS HttpConnectionProofs

USE DEF vars, networkVars, stackVars, requestVars, fileVars, responseVars,
        lifeVars, historyVars

-----------------------------------------------------------------------------
(* The body of a request.                                                   *)

\* The inductive invariant behind BodyBounded: the counters of the body are
\* reset before the next head is read, and AddBuffer runs in the state
\* HTTP_RECV_REQBODY only while something is missing (buffer.cpp:93-114,
\* request.cpp:456-464).
BodyInv ==
  /\ pc = "CheckRequest" => State = "HTTP_WAIT_REQUEST"
  /\ State = "HTTP_WAIT_REQUEST" => RequestBody = <<>>
  /\ Len(RequestBody) <= RequestBodyLength
  /\ State = "HTTP_RECV_REQBODY" =>
       /\ RequestBodyLength <= MaxPostBody
       /\ pc # "ServeData" => Len(RequestBody) < RequestBodyLength

\* The part of a read that AddBuffer takes for the body is what is missing of
\* it at most.
LEMMA BodyPartFits ==
  ASSUME NEW S, NEW a \in Seq(S), remains \in Nat
  PROVE  BodyPart(a) \in Seq(S) /\ Len(BodyPart(a)) <= remains
<1>1. Len(a) \in Nat
  BY LenProperties
<1>2. CASE remains < Len(a)
  <2>1. Take(a, remains) \in Seq(S) /\ Len(Take(a, remains)) = remains
    BY <1>1, <1>2, TakeInt
  <2> QED BY <1>2, <2>1 DEF BodyPart
<1>3. CASE ~(remains < Len(a))
  BY <1>1, <1>3 DEF BodyPart
<1> QED BY <1>2, <1>3

LEMMA BodyHandleRead == TypeOK /\ BodyInv /\ HandleRead => BodyInv'
<1> SUFFICES ASSUME TypeOK, BodyInv, HandleRead PROVE BodyInv'
  OBVIOUS
<1>1. UNCHANGED RequestBodyLength /\ pc = "HandleEvent"
  BY DEF HandleRead
<1>2. CASE UNCHANGED <<State, RequestBody>> /\ pc' = "Apply"
  BY <1>1, <1>2 DEF BodyInv
<1>3. CASE Delete /\ UNCHANGED RequestBody /\ pc' = "Apply"
  BY <1>1, <1>3 DEF BodyInv, Delete
<1>4. CASE \E n \in 1 .. Len(inq) : AddBuffer(Take(inq, n)) /\ UNCHANGED State
  <2> PICK n \in 1 .. Len(inq) : AddBuffer(Take(inq, n)) /\ UNCHANGED State
    BY <1>4
  <2> DEFINE a == Take(inq, n)
  <2>1. a \in Seq(Token)
    BY TakeDrop DEF TypeOK
  <2>2. AddBuffer(a) /\ UNCHANGED State
    OBVIOUS
  <2> HIDE DEF a
  <2>3. CASE State = "HTTP_RECV_REQBODY"
    <3>1. /\ RequestBody' = RequestBody \o BodyPart(a)
          /\ IF Len(RequestBody') = RequestBodyLength
               THEN pc' = "ServeData" ELSE pc' = "Return"
      BY <2>2, <2>3 DEF AddBuffer
    <3>2. Len(RequestBody) < RequestBodyLength /\ Len(RequestBody) \in Nat
            /\ RequestBodyLength \in Nat
      BY <1>1, <2>3, LenProperties DEF BodyInv, TypeOK
    <3>3. remains \in Nat
      BY <3>2 DEF remains
    <3>4. BodyPart(a) \in Seq(Token) /\ Len(BodyPart(a)) <= remains
      BY <2>1, <3>3, BodyPartFits
    <3>5. Len(RequestBody') = Len(RequestBody) + Len(BodyPart(a))
            /\ Len(BodyPart(a)) \in Nat
      BY <3>1, <3>4, ConcatProperties, LenProperties DEF TypeOK
    <3>6. Len(RequestBody') <= RequestBodyLength
      BY <3>2, <3>4, <3>5 DEF remains
    <3>7. pc' = "ServeData" \/ Len(RequestBody') < RequestBodyLength
      BY <3>1, <3>2, <3>5, <3>6
    <3> QED BY <1>1, <2>2, <2>3, <3>1, <3>6, <3>7 DEF BodyInv
  <2>4. CASE State # "HTTP_RECV_REQBODY"
    <3>1. /\ UNCHANGED RequestBody
          /\ pc' = IF State = "HTTP_WAIT_REQUEST" THEN "CheckRequest" ELSE "Return"
      BY <2>2, <2>4 DEF AddBuffer
    <3> QED BY <1>1, <2>2, <2>4, <3>1 DEF BodyInv
  <2> QED BY <2>3, <2>4
<1> QED BY <1>2, <1>3, <1>4 DEF HandleRead

LEMMA BodyCheckRequest == TypeOK /\ BodyInv /\ CheckRequest => BodyInv'
<1> SUFFICES ASSUME TypeOK, BodyInv, CheckRequest PROVE BodyInv'
  OBVIOUS
<1>1. UNCHANGED RequestBody /\ pc = "CheckRequest"
  BY DEF CheckRequest
<1>2. State = "HTTP_WAIT_REQUEST" /\ RequestBody = <<>> /\ Len(RequestBody) = 0
  BY <1>1, EmptySeq DEF BodyInv
<1>3. RequestBodyLength' \in Nat
  BY TypeCheckRequest DEF TypeOK
<1>4. CASE UNCHANGED State /\ pc' \in {"Return", "ServeData"}
  BY <1>1, <1>2, <1>3, <1>4 DEF BodyInv
<1>5. CASE \E i, r : TurnedDown(i, r)
  <2>1. State' = "HTTP_SEND_DATA" /\ pc' = "FlushWriteBuf"
    BY <1>5 DEF TurnedDown, SendError
  <2> QED BY <1>1, <1>2, <1>3, <2>1 DEF BodyInv
<1>6. CASE \E r \in Request : /\ r.length > 0 /\ r.length <= MaxPostBody
                              /\ RequestBodyLength' = r.length
                              /\ State' = "HTTP_RECV_REQBODY" /\ pc' = "Return"
  BY <1>1, <1>2, <1>3, <1>6 DEF BodyInv
<1> QED BY <1>4, <1>5, <1>6, CheckRequestCases DEF Accepted

LEMMA BodyNext == TypeOK /\ BodyInv /\ [Next]_vars => BodyInv'
<1> SUFFICES ASSUME TypeOK, BodyInv, [Next]_vars PROVE BodyInv'
  OBVIOUS
<1>1. CASE EndRequest
  <2>1. \/ UNCHANGED <<RequestBody, RequestBodyLength>>
           /\ State' = "HTTP_FINISHED" /\ pc' = "Return"
        \/ RequestBody' = <<>> /\ RequestBodyLength' = 0
           /\ State' = "HTTP_WAIT_REQUEST"
    BY <1>1 DEF EndRequest, Delete
  <2>2. Len(<<>>) <= 0
    OBVIOUS
  <2> QED BY <2>1, <2>2 DEF BodyInv
<1>2. CASE ServeData
  <2>1. UNCHANGED <<RequestBody, RequestBodyLength>>
          /\ State' \in {"HTTP_SEND_DATA", "HTTP_SEND_HEADERS"}
          /\ pc' # "CheckRequest"
    BY <1>2 DEF ServeData, SendError
  <2> QED BY <2>1 DEF BodyInv
<1>3. CASE FlushWriteBuf \/ SendStaticData
  <2>1. /\ UNCHANGED <<RequestBody, RequestBodyLength>>
        /\ State' \in {State, "HTTP_SEND_DATA", "HTTP_FINISHED"}
        /\ pc # "ServeData" /\ pc' \notin {"CheckRequest", "ServeData"}
    BY <1>3 DEF FlushWriteBuf, Flushed, Partial, SendStaticData, Delete
  <2> QED BY <2>1 DEF BodyInv
<1>4. CASE Client \/ UNCHANGED vars
  <2>1. UNCHANGED <<RequestBody, RequestBodyLength, State, pc>>
    BY <1>4 DEF Client, ClientRequest, ClientReceive, ClientShut, ClientReset
  <2> QED BY <2>1 DEF BodyInv
<1>5. CASE Scan \/ Poll \/ HandleError \/ HandleWrite \/ Apply \/ Return
  <2>1. /\ UNCHANGED <<RequestBody, RequestBodyLength>>
        /\ State' \in {State, "HTTP_FINISHED"}
        /\ pc # "ServeData" /\ pc' \notin {"CheckRequest", "ServeData"}
    BY <1>5 DEF Scan, Poll, HandleError, HandleWrite, Apply, Return, Delete
  <2> QED BY <2>1 DEF BodyInv
<1> QED BY <1>1, <1>2, <1>3, <1>4, <1>5, BodyHandleRead, BodyCheckRequest
        DEF Next, Server, Loop

HIDE DEF vars, networkVars, stackVars, requestVars, fileVars, responseVars,
         lifeVars, historyVars

LEMMA BodyCorrect == Spec => []BodyInv
<1>1. Init => BodyInv
  <2>1. Len(<<>>) <= 0
    OBVIOUS
  <2> QED BY <2>1 DEF Init, BodyInv
<1>2. TypeOK /\ BodyInv /\ [Next]_vars => BodyInv'
  BY BodyNext
<1> QED BY <1>1, <1>2, TypeCorrect, PTL DEF Spec

\* The unsigned subtraction of AddBuffer never wraps, whatever the client
\* sends after a head, and a connection waits for a body only while some of
\* it is missing.
THEOREM BodyNeverOverruns == Spec => []BodyBounded
<1>1. BodyInv => BodyBounded
  BY DEF BodyInv, BodyBounded, AtRest
<1> QED BY <1>1, BodyCorrect, PTL

-----------------------------------------------------------------------------
(* The order of the client's bytes.                                         *)

\* What may follow token t when the client sends the requests rs.
Follows(rs, t, u) ==
  \/ t.part = "top" /\ u = [of |-> t.of, part |-> "end"]
  \/ /\ t.part = "end" /\ BodyTokens(rs[t.of]) > 0
     /\ u = [of |-> t.of, part |-> "body"]
  \/ /\ t.part = "end" /\ BodyTokens(rs[t.of]) = 0
     /\ u = [of |-> t.of + 1, part |-> "top"]
  \/ /\ t.part = "body"
     /\ u \in {[of |-> t.of, part |-> "body"], [of |-> t.of + 1, part |-> "top"]}

\* Tokens in the order they were sent; requests are told apart by their tops.
InOrder(rs, s) ==
  /\ \A j \in 1 .. Len(s) - 1 : Follows(rs, s[j], s[j + 1])
  /\ \A i, j \in 1 .. Len(s) :
       i <= j => s[i].of = s[j].of \/ \E k \in i + 1 .. j : s[k].part = "top"

Tokens(n) == [of : 1 .. n, part : {"top", "end", "body"}]

\* The elements of what is left of a buffer.
LEMMA DropElements ==
  ASSUME NEW S, NEW s \in Seq(S), NEW n \in 0 .. Len(s)
  PROVE  /\ Drop(s, n) \in Seq(S) /\ Len(Drop(s, n)) = Len(s) - n
         /\ Len(s) \in Nat /\ n \in Nat
         /\ \A j \in 1 .. Len(Drop(s, n)) : Drop(s, n)[j] = s[n + j]
<1>1. Len(s) \in Nat /\ n \in Nat
  BY LenProperties
<1>2. Drop(s, n) \in Seq(S) /\ Len(Drop(s, n)) = Len(s) - n
  BY TakeDrop
<1>3. \A j \in 1 .. Len(s) - (n + 1) + 1 : Drop(s, n)[j] = s[(n + 1) + j - 1]
  <2>1. \A i \in n + 1 .. Len(s) : s[i] \in S
    BY <1>1, ElementOfSeq
  <2>2. n + 1 \in Int /\ Len(s) \in Int
    BY <1>1
  <2> QED BY <2>1, <2>2, SubSeqProperties DEF Drop
<1>4. ASSUME NEW j \in 1 .. Len(Drop(s, n)) PROVE Drop(s, n)[j] = s[n + j]
  <2>1. j \in 1 .. Len(s) - (n + 1) + 1 /\ (n + 1) + j - 1 = n + j
    BY <1>1, <1>2
  <2> QED BY <1>3, <2>1
<1> QED BY <1>1, <1>2, <1>4

LEMMA InOrderPrefix ==
  ASSUME NEW S, NEW s \in Seq(S), NEW t \in Seq(S), NEW rs, InOrder(rs, s \o t)
  PROVE  InOrder(rs, s)
<1>1. /\ Len(s) \in Nat /\ Len(t) \in Nat /\ Len(s \o t) = Len(s) + Len(t)
      /\ \A j \in 1 .. Len(s) : (s \o t)[j] = s[j]
  BY ConcatElements
<1>2. ASSUME NEW j \in 1 .. Len(s) - 1 PROVE Follows(rs, s[j], s[j + 1])
  <2>1. /\ j \in 1 .. Len(s) /\ j + 1 \in 1 .. Len(s)
        /\ j \in 1 .. Len(s \o t) - 1
    BY <1>1
  <2>2. (s \o t)[j] = s[j] /\ (s \o t)[j + 1] = s[j + 1]
    BY <1>1, <2>1
  <2> QED BY <2>1, <2>2 DEF InOrder
<1>3. ASSUME NEW i \in 1 .. Len(s), NEW j \in 1 .. Len(s), i <= j
      PROVE  s[i].of = s[j].of \/ \E k \in i + 1 .. j : s[k].part = "top"
  <2>1. i \in 1 .. Len(s \o t) /\ j \in 1 .. Len(s \o t)
    BY <1>1
  <2>2. (s \o t)[i] = s[i] /\ (s \o t)[j] = s[j]
    BY <1>1
  <2>3. \/ (s \o t)[i].of = (s \o t)[j].of
        \/ \E k \in i + 1 .. j : (s \o t)[k].part = "top"
    BY <1>3, <2>1 DEF InOrder
  <2>4. ASSUME NEW k \in i + 1 .. j PROVE (s \o t)[k] = s[k]
    <3>1. k \in 1 .. Len(s)
      BY <1>1
    <3> QED BY <1>1, <3>1
  <2> QED BY <2>2, <2>3, <2>4
<1> QED BY <1>2, <1>3 DEF InOrder

\* The end of a sequence of tokens in order is in order.
LEMMA InOrderSuffix ==
  ASSUME NEW S, NEW s \in Seq(S), NEW d \in Seq(S), NEW n \in Nat, NEW rs,
         InOrder(rs, s), Len(s) = n + Len(d),
         \A j \in 1 .. Len(d) : d[j] = s[n + j]
  PROVE  InOrder(rs, d)
<1>1. Len(d) = Len(s) - n /\ Len(s) \in Nat /\ Len(d) \in Nat
  BY LenProperties
<1>2. ASSUME NEW j \in 1 .. Len(d) - 1 PROVE Follows(rs, d[j], d[j + 1])
  <2>1. /\ j \in 1 .. Len(d) /\ j + 1 \in 1 .. Len(d)
        /\ n + j \in 1 .. Len(s) - 1 /\ n + (j + 1) = (n + j) + 1
    BY <1>1
  <2>2. d[j] = s[n + j] /\ d[j + 1] = s[(n + j) + 1]
    BY <1>1, <2>1
  <2> QED BY <2>1, <2>2 DEF InOrder
<1>3. ASSUME NEW i \in 1 .. Len(d), NEW j \in 1 .. Len(d), i <= j
      PROVE  d[i].of = d[j].of \/ \E k \in i + 1 .. j : d[k].part = "top"
  <2>1. n + i \in 1 .. Len(s) /\ n + j \in 1 .. Len(s) /\ n + i <= n + j
    BY <1>1, <1>3
  <2>2. d[i] = s[n + i] /\ d[j] = s[n + j]
    BY <1>1
  <2>3. \/ s[n + i].of = s[n + j].of
        \/ \E k \in (n + i) + 1 .. n + j : s[k].part = "top"
    BY <2>1 DEF InOrder
  <2>4. ASSUME NEW k \in (n + i) + 1 .. n + j
        PROVE  k - n \in i + 1 .. j /\ d[k - n] = s[k]
    <3>1. k - n \in i + 1 .. j /\ k - n \in 1 .. Len(d) /\ n + (k - n) = k
      BY <1>1
    <3> QED BY <1>1, <3>1
  <2> QED BY <2>2, <2>3, <2>4
<1> QED BY <1>2, <1>3 DEF InOrder

LEMMA InOrderDrop ==
  ASSUME NEW S, NEW s \in Seq(S), NEW n \in 0 .. Len(s), NEW rs, InOrder(rs, s)
  PROVE  InOrder(rs, Drop(s, n))
<1> DEFINE d == Drop(s, n)
<1>1. /\ d \in Seq(S) /\ Len(d) = Len(s) - n /\ Len(s) \in Nat /\ n \in Nat
      /\ \A j \in 1 .. Len(d) : d[j] = s[n + j]
  BY DropElements
<1>2. Len(s) = n + Len(d)
  BY <1>1
<1> HIDE DEF d
<1>3. InOrder(rs, d)
  BY <1>1, <1>2, InOrderSuffix
<1> QED BY <1>3 DEF d

\* Another request of the client does not change the order of what it sent.
LEMMA InOrderGrows ==
  ASSUME NEW R, NEW rs \in Seq(R), NEW r \in R,
         NEW s \in Seq(Tokens(Len(rs))), InOrder(rs, s)
  PROVE  InOrder(Append(rs, r), s)
<1>1. ASSUME NEW j \in 1 .. Len(s) - 1
      PROVE  Follows(Append(rs, r), s[j], s[j + 1])
  <2>1. j \in 1 .. Len(s)
    BY LenProperties
  <2>2. s[j] \in Tokens(Len(rs))
    BY <2>1, ElementOfSeq
  <2>3. s[j].of \in 1 .. Len(rs)
    BY <2>2 DEF Tokens
  <2>4. Append(rs, r)[s[j].of] = rs[s[j].of]
    BY <2>3, AppendProperties
  <2>5. Follows(rs, s[j], s[j + 1])
    BY DEF InOrder
  <2> QED BY <2>4, <2>5 DEF Follows
<1> QED BY <1>1 DEF InOrder

\* A request is sent behind the last one.
LEMMA InOrderConcat ==
  ASSUME NEW S, NEW s \in Seq(S), NEW t \in Seq(S), NEW rs,
         InOrder(rs, s), InOrder(rs, t), t # <<>>, t[1].part = "top",
         s # <<>> => Follows(rs, s[Len(s)], t[1])
  PROVE  InOrder(rs, s \o t)
<1>1. /\ Len(s) \in Nat /\ Len(t) \in Nat /\ Len(s \o t) = Len(s) + Len(t)
      /\ \A j \in 1 .. Len(s) : (s \o t)[j] = s[j]
      /\ \A j \in 1 .. Len(t) : (s \o t)[Len(s) + j] = t[j]
  BY ConcatElements
<1>2. Len(t) >= 1
  BY <1>1, EmptySeq
<1>3. ASSUME NEW j \in Len(s) + 1 .. Len(s) + Len(t)
      PROVE  j - Len(s) \in 1 .. Len(t) /\ (s \o t)[j] = t[j - Len(s)]
  <2>1. j - Len(s) \in 1 .. Len(t) /\ Len(s) + (j - Len(s)) = j
    BY <1>1
  <2> QED BY <1>1, <2>1
<1>4. ASSUME NEW j \in 1 .. Len(s \o t) - 1
      PROVE  Follows(rs, (s \o t)[j], (s \o t)[j + 1])
  <2>1. CASE j + 1 <= Len(s)
    <3>1. j \in 1 .. Len(s) /\ j + 1 \in 1 .. Len(s) /\ j \in 1 .. Len(s) - 1
      BY <1>1, <2>1
    <3> QED BY <1>1, <3>1 DEF InOrder
  <2>2. CASE j = Len(s)
    <3>1. j \in 1 .. Len(s) /\ 1 \in 1 .. Len(t) /\ s # <<>>
      BY <1>1, <1>2, <2>2
    <3>2. (s \o t)[j] = s[Len(s)] /\ (s \o t)[j + 1] = t[1]
      BY <1>1, <2>2, <3>1
    <3> QED BY <3>1, <3>2
  <2>3. CASE j > Len(s)
    <3> DEFINE k == j - Len(s)
    <3>1. /\ k \in 1 .. Len(t) - 1 /\ k \in 1 .. Len(t) /\ k + 1 \in 1 .. Len(t)
          /\ Len(s) + k = j /\ Len(s) + (k + 1) = j + 1
      BY <1>1, <2>3
    <3> HIDE DEF k
    <3>2. (s \o t)[j] = t[k] /\ (s \o t)[j + 1] = t[k + 1]
      BY <1>1, <3>1
    <3> QED BY <3>1, <3>2 DEF InOrder
  <2> QED BY <1>1, <2>1, <2>2, <2>3
<1>5. ASSUME NEW i \in 1 .. Len(s \o t), NEW j \in 1 .. Len(s \o t), i <= j
      PROVE  \/ (s \o t)[i].of = (s \o t)[j].of
             \/ \E k \in i + 1 .. j : (s \o t)[k].part = "top"
  <2>1. CASE j <= Len(s)
    <3>1. i \in 1 .. Len(s) /\ j \in 1 .. Len(s)
      BY <1>1, <1>5, <2>1
    <3>2. s[i].of = s[j].of \/ \E k \in i + 1 .. j : s[k].part = "top"
      BY <1>5, <3>1 DEF InOrder
    <3>3. ASSUME NEW k \in i + 1 .. j PROVE (s \o t)[k] = s[k]
      <4>1. k \in 1 .. Len(s)
        BY <3>1, <1>1
      <4> QED BY <1>1, <4>1
    <3> QED BY <1>1, <3>1, <3>2, <3>3
  <2>2. CASE i <= Len(s) /\ j > Len(s)
    <3>1. Len(s) + 1 \in i + 1 .. j /\ 1 \in 1 .. Len(t)
      BY <1>1, <1>2, <2>2
    <3>2. (s \o t)[Len(s) + 1] = t[1]
      BY <1>1, <3>1
    <3> QED BY <3>1, <3>2
  <2>3. CASE i > Len(s)
    <3> DEFINE a == i - Len(s)  b == j - Len(s)
    <3>1. i \in Len(s) + 1 .. Len(s) + Len(t) /\ j \in Len(s) + 1 .. Len(s) + Len(t)
            /\ a <= b
      BY <1>1, <1>5, <2>3
    <3>2. a \in 1 .. Len(t) /\ b \in 1 .. Len(t)
            /\ (s \o t)[i] = t[a] /\ (s \o t)[j] = t[b]
      BY <1>3, <3>1
    <3>3. t[a].of = t[b].of \/ \E k \in a + 1 .. b : t[k].part = "top"
      <4> HIDE DEF a, b
      <4> QED BY <3>1, <3>2 DEF InOrder
    <3>4. ASSUME NEW k \in a + 1 .. b
          PROVE  Len(s) + k \in i + 1 .. j /\ (s \o t)[Len(s) + k] = t[k]
      <4>1. k \in 1 .. Len(t) /\ Len(s) + k \in i + 1 .. j
        BY <1>1, <3>2
      <4> QED BY <1>1, <4>1
    <3> HIDE DEF a, b
    <3> QED BY <3>2, <3>3, <3>4
  <2> QED BY <1>1, <2>1, <2>2, <2>3
<1> QED BY <1>4, <1>5 DEF InOrder

\* The bytes of a request one by one.
LEMMA BytesElements ==
  ASSUME NEW i \in Nat \ {0}, NEW r \in Request
  PROVE  /\ BodyTokens(r) \in Nat /\ Len(Bytes(i, r)) = BodyTokens(r) + 2
         /\ Bytes(i, r)[1] = [of |-> i, part |-> "top"]
         /\ Bytes(i, r)[2] = [of |-> i, part |-> "end"]
         /\ \A j \in 3 .. BodyTokens(r) + 2 :
              Bytes(i, r)[j] = [of |-> i, part |-> "body"]
<1> DEFINE n == BodyTokens(r)
           T == Tokens(i)
           head == <<[of |-> i, part |-> "top"], [of |-> i, part |-> "end"]>>
           body == [k \in 1 .. n |-> [of |-> i, part |-> "body"]]
<1>1. n \in Nat
  BY DEF BodyTokens, Request
<1>2. body \in Seq(T) /\ Len(body) = n
  <2>1. body \in [1 .. n -> T]
    BY DEF Tokens
  <2> HIDE DEF body, n, T
  <2> QED BY <1>1, <2>1, FunctionIsSeq
<1>3. head \in Seq(T) /\ Len(head) = 2
  BY DEF Tokens
<1>4. Bytes(i, r) = head \o body
  BY DEF Bytes
<1>5. /\ head[1] = [of |-> i, part |-> "top"]
      /\ head[2] = [of |-> i, part |-> "end"]
      /\ \A j \in 1 .. n : body[j] = [of |-> i, part |-> "body"]
  <2>1. \A j \in 1 .. n : body[j] = [of |-> i, part |-> "body"]
    BY Zenon
  <2> HIDE DEF body
  <2> QED BY <2>1
<1> HIDE DEF head, body, T, n
<1>6. /\ Len(head \o body) = Len(head) + Len(body)
      /\ \A j \in 1 .. Len(head) : (head \o body)[j] = head[j]
      /\ \A j \in 1 .. Len(body) : (head \o body)[Len(head) + j] = body[j]
  <2>1. head \in Seq(T) /\ body \in Seq(T)
    BY <1>2, <1>3
  <2> QED BY <2>1, ConcatElements
<1>7. ASSUME NEW j \in 3 .. n + 2
      PROVE  (head \o body)[j] = [of |-> i, part |-> "body"]
  <2>1. j - 2 \in 1 .. n /\ 2 + (j - 2) = j
    BY <1>1
  <2> QED BY <1>2, <1>3, <1>5, <1>6, <2>1
<1>8. Len(head \o body) = n + 2
  BY <1>1, <1>2, <1>3, <1>6
<1>9. 1 \in 1 .. Len(head) /\ 2 \in 1 .. Len(head)
  BY <1>3
<1> QED BY <1>1, <1>4, <1>5, <1>6, <1>7, <1>8, <1>9 DEF n

\* The bytes of the i-th request are in order, and the last of them ends it.
EndsRequest(rs, t) ==
  t.part = "body" \/ (t.part = "end" /\ BodyTokens(rs[t.of]) = 0)

LEMMA BytesInOrder ==
  ASSUME NEW i \in Nat \ {0}, NEW r \in Request, NEW rs, rs[i] = r
  PROVE  /\ InOrder(rs, Bytes(i, r))
         /\ Bytes(i, r) # <<>> /\ Bytes(i, r)[1] = [of |-> i, part |-> "top"]
         /\ Bytes(i, r)[Len(Bytes(i, r))].of = i
         /\ EndsRequest(rs, Bytes(i, r)[Len(Bytes(i, r))])
<1> DEFINE n == BodyTokens(r)
           b == Bytes(i, r)
           top == [of |-> i, part |-> "top"]
           end == [of |-> i, part |-> "end"]
           unit == [of |-> i, part |-> "body"]
<1>1. /\ n \in Nat /\ Len(b) = n + 2 /\ b[1] = top /\ b[2] = end
      /\ \A j \in 3 .. n + 2 : b[j] = unit
  BY BytesElements
<1>2. b \in Seq(Tokens(i))
  BY BytesType DEF Tokens
<1>3. BodyTokens(rs[i]) = n
  OBVIOUS
<1> HIDE DEF n, b
<1>4. ASSUME NEW j \in 1 .. Len(b) PROVE b[j].of = i
  <2>1. j = 1 \/ j = 2 \/ j \in 3 .. n + 2
    BY <1>1
  <2> QED BY <1>1, <2>1
<1>5. ASSUME NEW j \in 1 .. Len(b) - 1 PROVE Follows(rs, b[j], b[j + 1])
  <2>1. CASE j = 1
    BY <1>1, <2>1 DEF Follows
  <2>2. CASE j = 2
    <3>1. n > 0 /\ j + 1 \in 3 .. n + 2
      BY <1>1, <2>2
    <3> QED BY <1>1, <1>3, <2>2, <3>1 DEF Follows
  <2>3. CASE j \in 3 .. n + 1
    <3>1. j \in 3 .. n + 2 /\ j + 1 \in 3 .. n + 2
      BY <1>1, <2>3
    <3> QED BY <1>1, <3>1 DEF Follows
  <2> QED BY <1>1, <2>1, <2>2, <2>3
<1>6. InOrder(rs, b)
  BY <1>4, <1>5 DEF InOrder
<1>7. b # <<>>
  BY <1>1, <1>2, EmptySeq
<1>8. Len(b) \in 1 .. Len(b)
  BY <1>1
<1>9. EndsRequest(rs, b[Len(b)])
  <2>1. CASE n = 0
    BY <1>1, <1>3, <2>1 DEF EndsRequest
  <2>2. CASE n > 0
    <3>1. Len(b) \in 3 .. n + 2
      BY <1>1, <2>2
    <3> QED BY <1>1, <3>1 DEF EndsRequest
  <2> QED BY <1>1, <2>1, <2>2
<1> QED BY <1>1, <1>4, <1>6, <1>7, <1>8, <1>9 DEF b

-----------------------------------------------------------------------------
(* Which request is answered next.                                          *)

USE DEF vars, networkVars, stackVars, requestVars, fileVars, responseVars,
        lifeVars, historyVars

\* What the client has sent and CheckRequest has not taken, and how many heads
\* it has taken: one for each response begun, and one for the request served.
Unread == requestbuf \o inq
BeingServed == pc = "ServeData" \/ State = "HTTP_RECV_REQBODY"
Heads == Len(answers) + (IF BeingServed THEN 1 ELSE 0)

\* The parts of OrderInv.  No byte of a body is in requestbuf, and none is
\* there at all while a body is awaited; the next byte begins the next
\* request or goes on with the body of the last; a client that can still send
\* has sent its requests whole; the request being served is the last one
\* taken, and one that ServeData may serve.
NoBodyBuffered ==
  /\ \A j \in 1 .. Len(requestbuf) : requestbuf[j].part # "body"
  /\ State = "HTTP_RECV_REQBODY" => requestbuf = <<>>
NextUnread ==
  Unread # <<>> => Unread[1] \in {[of |-> Heads + 1, part |-> "top"],
                                  [of |-> Heads, part |-> "body"]}
SentWhole ==
  peer = "open" =>
    IF Unread = <<>> THEN Heads = Len(reqs)
    ELSE /\ Unread[Len(Unread)].of = Len(reqs)
         /\ EndsRequest(reqs, Unread[Len(Unread)])
ServesLastHead ==
  BeingServed =>
    /\ cur = Heads /\ cur \in 1 .. Len(reqs)
    /\ AllowedCodes(reqs[cur]) = {200} \cup FileErrors

\* The inductive invariant behind AnswersMatch: it holds for as long as heads
\* and bodies are told apart and the connection is kept.
OrderInv ==
  framed /\ ~quitting =>
    /\ NoBodyBuffered /\ InOrder(reqs, Unread) /\ NextUnread /\ SentWhole
    /\ ServesLastHead

LEMMA UnreadType ==
  ASSUME TypeOK
  PROVE  /\ requestbuf \in Seq(Token) /\ inq \in Seq(Token)
         /\ Unread \in Seq(Token)
         /\ Len(reqs) \in Nat /\ Len(answers) \in Nat /\ Heads \in Nat
<1>1. requestbuf \in Seq(Token) /\ inq \in Seq(Token)
        /\ reqs \in Seq(Requests) /\ answers \in Seq(Answer)
  BY DEF TypeOK
<1>2. Unread \in Seq(Token)
  BY <1>1, ConcatProperties DEF Unread
<1>3. Len(reqs) \in Nat /\ Len(answers) \in Nat
  BY <1>1, LenProperties
<1> QED BY <1>1, <1>2, <1>3 DEF Heads

\* A step that takes no head and reads nothing of a body.
LEMMA OrderSame ==
  ASSUME OrderInv, UNCHANGED reqs, Unread' = Unread,
         framed' => framed, peer' = "open" => peer = "open",
         framed' /\ ~quitting' =>
           /\ ~quitting /\ Heads' = Heads
           /\ NoBodyBuffered'
           /\ BeingServed' => BeingServed /\ cur' = cur
  PROVE  OrderInv'
BY DEF OrderInv, NextUnread, SentWhole, ServesLastHead

\* A step that does not touch the buffers or the answers.
LEMMA OrderUntouched ==
  ASSUME OrderInv,
         UNCHANGED <<reqs, answers, inq, requestbuf, framed>>,
         peer' = "open" => peer = "open",
         ~quitting' => ~quitting /\ (BeingServed' <=> BeingServed)
                         /\ (BeingServed' => cur' = cur)
                         /\ (State' = "HTTP_RECV_REQBODY"
                               => State = "HTTP_RECV_REQBODY")
  PROVE  OrderInv'
<1>1. Unread' = Unread
  BY DEF Unread
<1>2. ~quitting' => Heads' = Heads
  BY DEF Heads
<1>3. framed' /\ ~quitting' => NoBodyBuffered'
  BY DEF OrderInv, NoBodyBuffered
<1> QED BY <1>1, <1>2, <1>3, OrderSame

\* The client sends a request behind what it has sent.
LEMMA OrderClientRequest == TypeOK /\ TypeOK' /\ OrderInv /\ ClientRequest => OrderInv'
<1> SUFFICES ASSUME TypeOK, TypeOK', OrderInv, ClientRequest, framed', ~quitting'
             PROVE  OrderInv'
  BY DEF OrderInv
<1> PICK r \in Requests : /\ reqs' = Append(reqs, r)
                          /\ inq' = inq \o Bytes(Len(reqs) + 1, r)
  BY DEF ClientRequest
<1> DEFINE n == Len(reqs) + 1
           b == Bytes(n, r)
<1>1. /\ UNCHANGED <<requestbuf, answers, State, pc, cur, peer, framed, quitting>>
      /\ peer = "open" /\ framed /\ ~quitting
  BY DEF ClientRequest
<1>2. /\ requestbuf \in Seq(Token) /\ inq \in Seq(Token) /\ Unread \in Seq(Token)
      /\ Len(reqs) \in Nat /\ Heads \in Nat
  BY UnreadType
<1>3. /\ r \in Request /\ n \in Nat \ {0} /\ reqs \in Seq(Requests)
      /\ reqs' \in Seq(Requests) /\ Len(reqs') = n /\ reqs'[n] = r
      /\ \A k \in 1 .. Len(reqs) : reqs'[k] = reqs[k]
  <2>1. reqs \in Seq(Requests)
    BY DEF TypeOK
  <2> QED BY <1>2, <2>1, RequestsAssumption, AppendProperties
<1>4. /\ InOrder(reqs', b) /\ b # <<>> /\ b[1] = [of |-> n, part |-> "top"]
      /\ b[Len(b)].of = n /\ EndsRequest(reqs', b[Len(b)])
  <2>1. n \in Nat \ {0} /\ r \in Request /\ reqs'[n] = r
    BY <1>3
  <2> HIDE DEF n
  <2>2. /\ InOrder(reqs', Bytes(n, r)) /\ Bytes(n, r) # <<>>
        /\ Bytes(n, r)[1] = [of |-> n, part |-> "top"]
        /\ Bytes(n, r)[Len(Bytes(n, r))].of = n
        /\ EndsRequest(reqs', Bytes(n, r)[Len(Bytes(n, r))])
    BY <2>1, BytesInOrder
  <2> QED BY <2>2
<1>5. Token = Tokens(Len(reqs)) /\ Token' = Tokens(n) /\ Token \subseteq Token'
  BY <1>2, <1>3 DEF Token, Tokens
<1>6. b \in Seq(Token')
  BY <1>3, <1>5, BytesType DEF Tokens
<1>7. Unread \in Seq(Token') /\ requestbuf \in Seq(Token') /\ inq \in Seq(Token')
  BY <1>2, <1>5, SeqMonotonic
<1> HIDE DEF n, b
<1>8. Unread' = Unread \o b
  <2>1. \A x, y, z \in Seq(Token') : (x \o y) \o z = x \o (y \o z)
    BY ConcatAssociative
  <2> QED BY <1>1, <1>6, <1>7, <2>1 DEF Unread, n, b
<1>9. Heads' = Heads
  BY <1>1 DEF Heads, BeingServed
<1>10. ASSUME Unread # <<>>
       PROVE  /\ Len(Unread) \in 1 .. Len(Unread)
              /\ Unread[Len(Unread)].of = Len(reqs)
              /\ EndsRequest(reqs, Unread[Len(Unread)])
              /\ Unread[Len(Unread)] \in Token
  <2>1. Len(Unread) \in 1 .. Len(Unread)
    BY <1>2, <1>10, EmptySeq, LenProperties
  <2>2. Unread[Len(Unread)] \in Token
    BY <1>2, <2>1, ElementOfSeq
  <2> QED BY <1>1, <1>10, <2>1, <2>2 DEF OrderInv, SentWhole
<1>11. InOrder(reqs', Unread')
  <2>1. InOrder(reqs', Unread)
    <3>1. InOrder(Append(reqs, r), Unread)
      BY <1>1, <1>2, <1>3, <1>5, InOrderGrows DEF OrderInv
    <3> QED BY <3>1
  <2>2. ASSUME Unread # <<>>
        PROVE  Follows(reqs', Unread[Len(Unread)], b[1])
    <3> DEFINE t == Unread[Len(Unread)]
    <3>1. t.of = Len(reqs) /\ EndsRequest(reqs, t) /\ t \in Token
      BY <1>10, <2>2
    <3>2. t.of \in 1 .. Len(reqs)
      BY <3>1 DEF Token
    <3>3. reqs'[t.of] = reqs[t.of] /\ t.of + 1 = n
      BY <1>3, <3>1, <3>2 DEF n
    <3> HIDE DEF t
    <3>4. Follows(reqs', t, b[1])
      BY <1>4, <3>1, <3>3 DEF EndsRequest, Follows
    <3> QED BY <3>4 DEF t
  <2>3. b[1].part = "top"
    BY <1>4
  <2>4. Unread \in Seq(Token') /\ b \in Seq(Token')
    BY <1>6, <1>7
  <2>5. InOrder(reqs', Unread \o b)
    BY <1>4, <2>1, <2>2, <2>3, <2>4, InOrderConcat
  <2> QED BY <1>8, <2>5
<1>12. /\ Len(Unread') = Len(Unread) + Len(b)
       /\ \A j \in 1 .. Len(Unread) : Unread'[j] = Unread[j]
       /\ \A j \in 1 .. Len(b) : Unread'[Len(Unread) + j] = b[j]
       /\ Len(Unread) \in Nat /\ Len(b) \in Nat
  <2>1. Unread \in Seq(Token') /\ b \in Seq(Token')
    BY <1>6, <1>7
  <2> HIDE DEF Unread
  <2>2. /\ Len(Unread \o b) = Len(Unread) + Len(b)
        /\ \A j \in 1 .. Len(Unread) : (Unread \o b)[j] = Unread[j]
        /\ \A j \in 1 .. Len(b) : (Unread \o b)[Len(Unread) + j] = b[j]
        /\ Len(Unread) \in Nat /\ Len(b) \in Nat
    BY <2>1, ConcatElements
  <2> QED BY <1>8, <2>2
<1>13. Len(b) > 0 /\ Len(b) \in 1 .. Len(b)
  <2>1. Len(b) # 0
    BY <1>4, <1>6, EmptySeq
  <2> QED BY <1>12, <2>1
<1>14. NextUnread'
  <2>1. CASE Unread = <<>>
    <3>1. Len(Unread) = 0 /\ 1 \in 1 .. Len(b)
      BY <1>12, <1>13, <2>1, EmptySeq
    <3>2. Unread'[1] = b[1]
      BY <1>12, <3>1
    <3>3. Heads + 1 = n
      BY <1>1, <2>1 DEF OrderInv, SentWhole, n
    <3> QED BY <1>4, <1>9, <3>2, <3>3 DEF NextUnread
  <2>2. CASE Unread # <<>>
    <3>1. 1 \in 1 .. Len(Unread)
      BY <1>10, <1>12, <2>2
    <3>2. Unread'[1] = Unread[1]
      BY <1>12, <3>1
    <3> QED BY <1>1, <1>9, <2>2, <3>2 DEF OrderInv, NextUnread
  <2> QED BY <2>1, <2>2
<1>15. SentWhole'
  <2>1. Unread'[Len(Unread')] = b[Len(b)] /\ Len(Unread') # 0
    BY <1>12, <1>13
  <2>2. Unread' # <<>>
    BY <2>1, EmptySeq
  <2> QED BY <1>3, <1>4, <2>1, <2>2 DEF SentWhole
<1>16. NoBodyBuffered'
  BY <1>1 DEF OrderInv, NoBodyBuffered
<1>17. ServesLastHead'
  <2>1. BeingServed' => BeingServed /\ cur' = cur
    BY <1>1 DEF BeingServed
  <2>2. BeingServed => cur \in 1 .. Len(reqs) /\ cur = Heads
          /\ AllowedCodes(reqs[cur]) = {200} \cup FileErrors
    BY <1>1 DEF OrderInv, ServesLastHead
  <2>3. BeingServed => cur \in 1 .. Len(reqs') /\ reqs'[cur] = reqs[cur]
    BY <1>2, <1>3, <2>2 DEF n
  <2> QED BY <1>9, <2>1, <2>2, <2>3 DEF ServesLastHead
<1> QED BY <1>11, <1>14, <1>15, <1>16, <1>17 DEF OrderInv

\* Bytes that move from one buffer to the one before it stay in order.
LEMMA MovedBytes ==
  ASSUME NEW S, NEW s \in Seq(S), NEW t \in Seq(S), NEW n \in 0 .. Len(t)
  PROVE  /\ s \o Take(t, n) \in Seq(S) /\ Drop(t, n) \in Seq(S)
         /\ (s \o Take(t, n)) \o Drop(t, n) = s \o t
<1> DEFINE a == Take(t, n)  b == Drop(t, n)
<1>1. a \in Seq(S) /\ b \in Seq(S) /\ a \o b = t
  BY TakeDrop
<1> HIDE DEF a, b
<1>2. (s \o a) \o b = s \o (a \o b)
  <2>1. s \in Seq(S) /\ a \in Seq(S) /\ b \in Seq(S)
    BY <1>1
  <2> QED BY <2>1, ConcatAssociative
<1>3. s \o a \in Seq(S)
  BY <1>1, ConcatProperties
<1> QED BY <1>1, <1>2, <1>3 DEF a, b

\* What the client sent last is lost.
LEMMA OrderInputLost ==
  ASSUME TypeOK, OrderInv, NEW n \in 0 .. Len(inq), inq' = Take(inq, n),
         peer' # "open",
         UNCHANGED <<reqs, answers, requestbuf, State, pc, cur, framed, quitting>>
  PROVE  OrderInv'
<1> SUFFICES ASSUME framed', ~quitting' PROVE OrderInv'
  BY DEF OrderInv
<1>1. requestbuf \in Seq(Token) /\ inq \in Seq(Token)
  BY DEF TypeOK
<1>2. /\ requestbuf \o Take(inq, n) \in Seq(Token) /\ Drop(inq, n) \in Seq(Token)
      /\ (requestbuf \o Take(inq, n)) \o Drop(inq, n) = requestbuf \o inq
  <2>1. requestbuf \in Seq(Token) /\ inq \in Seq(Token) /\ n \in 0 .. Len(inq)
    BY <1>1
  <2> QED BY <2>1, MovedBytes
<1>3. Unread' = requestbuf \o Take(inq, n)
  BY DEF Unread
<1>4. Heads' = Heads /\ (BeingServed' <=> BeingServed)
  BY DEF Heads, BeingServed
<1>5. NoBodyBuffered' /\ SentWhole' /\ ServesLastHead'
  BY <1>4 DEF OrderInv, NoBodyBuffered, SentWhole, ServesLastHead
<1> DEFINE u == Unread'
<1>6. InOrder(reqs, u \o Drop(inq, n))
  BY <1>2, <1>3 DEF OrderInv, Unread
<1>7. u \in Seq(Token) /\ Drop(inq, n) \in Seq(Token) /\ Unread = u \o Drop(inq, n)
  BY <1>2, <1>3 DEF Unread
<1>8. InOrder(reqs, u)
  <2> HIDE DEF u
  <2> QED BY <1>6, <1>7, InOrderPrefix
<1>9. ASSUME u # <<>> PROVE Unread # <<>> /\ Unread[1] = u[1]
  <2> HIDE DEF u, Unread
  <2>1. /\ Len(Unread) = Len(u) + Len(Drop(inq, n))
        /\ \A j \in 1 .. Len(u) : Unread[j] = u[j]
        /\ Len(u) \in Nat /\ Len(Drop(inq, n)) \in Nat
    BY <1>7, ConcatElements
  <2>2. Len(u) # 0
    BY <1>7, <1>9, EmptySeq
  <2>3. 1 \in 1 .. Len(u) /\ Len(Unread) # 0
    BY <2>1, <2>2
  <2> QED BY <2>1, <2>3, EmptySeq
<1>10. NextUnread'
  BY <1>4, <1>9 DEF OrderInv, NextUnread
<1> QED BY <1>5, <1>8, <1>10 DEF OrderInv

LEMMA OrderClient == TypeOK /\ TypeOK' /\ OrderInv /\ Client => OrderInv'
<1> SUFFICES ASSUME TypeOK, TypeOK', OrderInv, Client PROVE OrderInv'
  OBVIOUS
<1>1. CASE ClientReceive
  BY <1>1, OrderUntouched DEF ClientReceive, BeingServed
<1>2. CASE ClientShut
  BY <1>2, OrderInputLost DEF ClientShut
<1>3. CASE ClientReset
  <2>1. inq \in Seq(Token) /\ 0 \in 0 .. Len(inq)
    BY LenProperties DEF TypeOK
  <2>2. Take(inq, 0) \in Seq(Token) /\ Len(Take(inq, 0)) = 0
    BY <2>1, TakeDrop
  <2>3. Take(inq, 0) = <<>>
    BY <2>2, EmptySeq
  <2> QED BY <1>3, <2>1, <2>3, OrderInputLost DEF ClientReset
<1> QED BY <1>1, <1>2, <1>3, OrderClientRequest DEF Client

\* A read while no body is awaited moves bytes from the socket to requestbuf.
LEMMA OrderReadHead ==
  ASSUME TypeOK, OrderInv, NEW n \in 1 .. Len(inq), inq' = Drop(inq, n),
         AddBuffer(Take(inq, n)), State # "HTTP_RECV_REQBODY",
         pc = "HandleEvent",
         UNCHANGED <<reqs, answers, peer, State, cur, quitting>>
  PROVE  OrderInv'
<1>1. requestbuf \in Seq(Token) /\ inq \in Seq(Token) /\ n \in 0 .. Len(inq)
  BY LenProperties DEF TypeOK
<1>2. /\ requestbuf \o Take(inq, n) \in Seq(Token)
      /\ (requestbuf \o Take(inq, n)) \o Drop(inq, n) = requestbuf \o inq
  BY <1>1, MovedBytes
<1>3. requestbuf' = requestbuf \o Take(inq, n) /\ pc' \in {"CheckRequest", "Return"}
  BY DEF AddBuffer
<1>4. Unread' = Unread
  BY <1>2, <1>3 DEF Unread
<1>5. Heads' = Heads /\ ~BeingServed'
  BY <1>3 DEF Heads, BeingServed
<1>6. framed' => framed /\ \A j \in DOMAIN requestbuf' : requestbuf'[j].part # "body"
  BY DEF AddBuffer
<1>7. requestbuf' \in Seq(Token)
  BY <1>1, <1>2, <1>3, ConcatProperties
<1>8. framed' => NoBodyBuffered'
  BY <1>6, <1>7, LenProperties DEF NoBodyBuffered
<1> QED BY <1>4, <1>5, <1>6, <1>8, OrderSame

\* The elements of what a read returns.
LEMMA TakeElements ==
  ASSUME NEW S, NEW s \in Seq(S), NEW n \in 0 .. Len(s)
  PROVE  /\ Take(s, n) \in Seq(S) /\ Len(Take(s, n)) = n
         /\ \A j \in 1 .. n : Take(s, n)[j] = s[j]
<1> DEFINE a == Take(s, n)  b == Drop(s, n)
<1>1. a \in Seq(S) /\ Len(a) = n /\ b \in Seq(S) /\ a \o b = s
  BY TakeDrop
<1> HIDE DEF a, b
<1>2. \A j \in 1 .. Len(a) : (a \o b)[j] = a[j]
  <2>1. a \in Seq(S) /\ b \in Seq(S)
    BY <1>1
  <2> QED BY <2>1, ConcatElements
<1> QED BY <1>1, <1>2 DEF a

\* A read while a body is awaited: as long as framed holds it takes bytes of
\* that body and no others.
LEMMA OrderReadBody ==
  ASSUME TypeOK, BodyInv, OrderInv, NEW n \in 1 .. Len(inq),
         inq' = Drop(inq, n), AddBuffer(Take(inq, n)),
         State = "HTTP_RECV_REQBODY", pc = "HandleEvent",
         UNCHANGED <<reqs, answers, peer, State, cur, quitting>>
  PROVE  OrderInv'
<1> SUFFICES ASSUME framed', ~quitting' PROVE OrderInv'
  BY DEF OrderInv
<1> DEFINE a == Take(inq, n)
<1>1. /\ requestbuf \in Seq(Token) /\ inq \in Seq(Token) /\ n \in 0 .. Len(inq)
      /\ RequestBody \in Seq(Token) /\ Len(inq) \in Nat /\ n \in Nat /\ n > 0
  BY LenProperties DEF TypeOK
<1>2. a \in Seq(Token) /\ Len(a) = n /\ \A j \in 1 .. n : a[j] = inq[j]
  <2>1. inq \in Seq(Token) /\ n \in 0 .. Len(inq)
    BY <1>1
  <2> QED BY <2>1, TakeElements
<1>3. /\ RequestBody' = RequestBody \o BodyPart(a)
      /\ requestbuf' = requestbuf \o (IF remains < Len(a) THEN a ELSE <<>>)
      /\ framed
      /\ \A j \in DOMAIN requestbuf' : requestbuf'[j].part # "body"
      /\ \A j \in DOMAIN RequestBody' : RequestBody'[j].part = "body"
  BY DEF AddBuffer
<1>4. /\ ~quitting /\ requestbuf = <<>> /\ InOrder(reqs, Unread) /\ NextUnread
      /\ SentWhole /\ ServesLastHead
  BY <1>3 DEF OrderInv, NoBodyBuffered
<1>5. Unread = inq
  BY <1>1, <1>4, ConcatEmptySeq DEF Unread
<1>6. remains \in Nat /\ remains > 0
  <2>1. Len(RequestBody) < RequestBodyLength /\ Len(RequestBody) \in Nat
          /\ RequestBodyLength \in Nat
    BY <1>1, LenProperties DEF BodyInv, TypeOK
  <2> QED BY <2>1 DEF remains
<1> HIDE DEF a
<1>7. ~(remains < Len(a))
  <2> SUFFICES ASSUME remains < Len(a) PROVE FALSE
    OBVIOUS
  <2> DEFINE b == Take(a, remains)
  <2>1. b \in Seq(Token) /\ Len(b) = remains /\ \A j \in 1 .. remains : b[j] = a[j]
    <3>1. a \in Seq(Token) /\ remains \in 0 .. Len(a)
      BY <1>2, <1>6
    <3> QED BY <3>1, TakeElements
  <2>2. RequestBody' = RequestBody \o b
    BY <1>3 DEF BodyPart
  <2> HIDE DEF b
  <2>3. /\ Len(RequestBody \o b) = Len(RequestBody) + Len(b)
        /\ \A j \in 1 .. Len(b) : (RequestBody \o b)[Len(RequestBody) + j] = b[j]
        /\ Len(RequestBody) \in Nat /\ RequestBody \o b \in Seq(Token)
    <3>1. RequestBody \in Seq(Token) /\ b \in Seq(Token)
      BY <1>1, <2>1
    <3> QED BY <3>1, ConcatElements
  <2>4. Len(RequestBody) + 1 \in DOMAIN RequestBody' /\ 1 \in 1 .. remains
    <3>1. DOMAIN RequestBody' = 1 .. Len(RequestBody')
      BY <2>2, <2>3, LenProperties
    <3> QED BY <1>6, <2>1, <2>2, <2>3, <3>1
  <2>5. a[1].part = "body"
    <3>1. RequestBody'[Len(RequestBody) + 1] = a[1]
      BY <2>1, <2>2, <2>3, <2>4
    <3> QED BY <1>3, <2>4, <3>1
  <2>6. requestbuf' = a
    BY <1>2, <1>3, <1>4, ConcatEmptySeq
  <2>7. 1 \in DOMAIN a
    BY <1>1, <1>2, LenProperties
  <2> QED BY <1>3, <2>5, <2>6, <2>7
<1>8. requestbuf' = <<>> /\ RequestBody' = RequestBody \o a
  <2>1. <<>> \o <<>> = <<>>
    BY EmptySeq, ConcatEmptySeq
  <2> QED BY <1>3, <1>4, <1>7, <2>1 DEF BodyPart
<1>9. \A j \in 1 .. n : inq[j].part = "body"
  <2> TAKE j \in 1 .. n
  <2>1. /\ Len(RequestBody \o a) = Len(RequestBody) + Len(a)
        /\ \A k \in 1 .. Len(a) : (RequestBody \o a)[Len(RequestBody) + k] = a[k]
        /\ Len(RequestBody) \in Nat /\ RequestBody \o a \in Seq(Token)
    <3>1. RequestBody \in Seq(Token) /\ a \in Seq(Token)
      BY <1>1, <1>2
    <3> QED BY <3>1, ConcatElements
  <2>2. DOMAIN RequestBody' = 1 .. Len(RequestBody) + n
    BY <1>2, <1>8, <2>1, LenProperties
  <2>3. Len(RequestBody) + j \in DOMAIN RequestBody'
    BY <1>1, <2>1, <2>2
  <2>4. RequestBody'[Len(RequestBody) + j] = inq[j]
    BY <1>2, <1>8, <2>1
  <2> QED BY <1>3, <2>3, <2>4
<1>10. inq[1] = [of |-> Heads, part |-> "body"]
  <2>1. inq # <<>> /\ 1 \in 1 .. n
    BY <1>1, EmptySeq
  <2>2. inq[1].part = "body"
    BY <1>9, <2>1
  <2> QED BY <1>4, <1>5, <2>1, <2>2 DEF NextUnread
<1>11. inq[n].of = Heads /\ inq[n].part = "body"
  <2>1. 1 \in 1 .. Len(inq) /\ n \in 1 .. Len(inq) /\ 1 <= n
    BY <1>1
  <2>2. inq[1].of = inq[n].of \/ \E k \in 1 + 1 .. n : inq[k].part = "top"
    BY <1>4, <1>5, <2>1 DEF InOrder
  <2>3. ASSUME NEW k \in 1 + 1 .. n PROVE inq[k].part # "top"
    <3>1. k \in 1 .. n
      BY <1>1
    <3> QED BY <1>9, <3>1
  <2>4. n \in 1 .. n
    BY <1>1
  <2> QED BY <1>9, <1>10, <2>2, <2>3, <2>4
<1> DEFINE d == Drop(inq, n)
<1>12. /\ d \in Seq(Token) /\ Len(d) = Len(inq) - n
       /\ \A j \in 1 .. Len(d) : d[j] = inq[n + j]
  <2>1. inq \in Seq(Token) /\ n \in 0 .. Len(inq)
    BY <1>1
  <2> QED BY <2>1, DropElements
<1>13. Unread' = d
  BY <1>8, <1>12, ConcatEmptySeq DEF Unread
<1>14. InOrder(reqs, d)
  <2>1. inq \in Seq(Token) /\ n \in 0 .. Len(inq) /\ InOrder(reqs, inq)
    BY <1>1, <1>4, <1>5
  <2> QED BY <2>1, InOrderDrop
<1> HIDE DEF d
<1>15. Heads' = Heads /\ BeingServed' /\ BeingServed
  BY DEF Heads, BeingServed
<1>16. NextUnread'
  <2> SUFFICES ASSUME d # <<>>
               PROVE  d[1] \in {[of |-> Heads + 1, part |-> "top"],
                                [of |-> Heads, part |-> "body"]}
    BY <1>13, <1>15 DEF NextUnread
  <2>1. Len(d) # 0 /\ Len(d) \in Nat
    BY <1>12, EmptySeq, LenProperties
  <2>2. d[1] = inq[n + 1] /\ n \in 1 .. Len(inq) - 1
    BY <1>1, <1>12, <2>1
  <2>3. Follows(reqs, inq[n], inq[n + 1])
    BY <1>4, <1>5, <2>2 DEF InOrder
  <2> QED BY <1>11, <2>2, <2>3 DEF Follows
<1>17. SentWhole'
  <2> SUFFICES ASSUME peer = "open"
               PROVE  IF d = <<>> THEN Heads = Len(reqs)
                      ELSE /\ d[Len(d)].of = Len(reqs)
                           /\ EndsRequest(reqs, d[Len(d)])
    BY <1>13, <1>15 DEF SentWhole
  <2>1. inq # <<>>
    BY <1>1, EmptySeq
  <2>2. inq[Len(inq)].of = Len(reqs) /\ EndsRequest(reqs, inq[Len(inq)])
    BY <1>4, <1>5, <2>1 DEF SentWhole
  <2>3. CASE d = <<>>
    <3>1. n = Len(inq)
      BY <1>1, <1>12, <2>3, EmptySeq
    <3> QED BY <1>11, <2>2, <2>3, <3>1
  <2>4. CASE d # <<>>
    <3>1. Len(d) # 0 /\ Len(d) \in Nat
      BY <1>12, <2>4, EmptySeq, LenProperties
    <3>2. Len(d) \in 1 .. Len(d) /\ n + Len(d) = Len(inq)
      BY <1>1, <1>12, <3>1
    <3>3. d[Len(d)] = inq[Len(inq)]
      BY <1>12, <3>2
    <3> QED BY <2>2, <2>4, <3>3
  <2> QED BY <2>3, <2>4
<1>18. NoBodyBuffered'
  <2>1. Len(requestbuf') = 0
    BY <1>8, EmptySeq
  <2> QED BY <1>8, <2>1 DEF NoBodyBuffered
<1>19. ServesLastHead'
  BY <1>4, <1>15 DEF ServesLastHead
<1> QED BY <1>13, <1>14, <1>16, <1>17, <1>18, <1>19 DEF OrderInv

\* What CheckRequest takes out of requestbuf is the head of the next request,
\* and of no other.
FirstHead(e, p) ==
  /\ pc = "CheckRequest" /\ State = "HTTP_WAIT_REQUEST" /\ framed /\ ~quitting
  /\ e \in Ends(requestbuf) /\ p \in Parse(Take(requestbuf, e))
  /\ \A f \in Ends(requestbuf) : e <= f

LEMMA FirstHeadIsNext ==
  ASSUME TypeOK, OrderInv, NEW e, NEW p, FirstHead(e, p)
  PROVE  /\ e = 2 /\ Len(requestbuf) >= 2
         /\ requestbuf[2] = [of |-> Heads + 1, part |-> "end"]
         /\ p.of = Heads + 1 /\ p.of \in 1 .. Len(reqs) /\ p.req = reqs[p.of]
<1>1. /\ requestbuf \in Seq(Token) /\ inq \in Seq(Token)
      /\ Unread \in Seq(Token) /\ Len(reqs) \in Nat /\ Heads \in Nat
  BY UnreadType
<1>2. /\ NoBodyBuffered /\ InOrder(reqs, Unread) /\ NextUnread
      /\ e \in DOMAIN requestbuf /\ requestbuf[e].part = "end"
  BY DEF FirstHead, OrderInv, Ends
<1>3. /\ Len(Unread) = Len(requestbuf) + Len(inq)
      /\ \A j \in 1 .. Len(requestbuf) : Unread[j] = requestbuf[j]
      /\ Len(requestbuf) \in Nat /\ Len(inq) \in Nat
  <2>1. requestbuf \in Seq(Token) /\ inq \in Seq(Token)
    BY <1>1
  <2> QED BY <2>1, ConcatElements DEF Unread
<1>4. DOMAIN requestbuf = 1 .. Len(requestbuf)
  BY <1>1, LenProperties
<1>5. 1 \in 1 .. Len(requestbuf) /\ Unread # <<>>
  <2>1. 1 \in 1 .. Len(requestbuf) /\ Len(Unread) # 0
    BY <1>2, <1>3, <1>4
  <2> QED BY <2>1, EmptySeq
<1>6. requestbuf[1] = [of |-> Heads + 1, part |-> "top"]
  <2>1. requestbuf[1] \in {[of |-> Heads + 1, part |-> "top"],
                           [of |-> Heads, part |-> "body"]}
    BY <1>2, <1>3, <1>5 DEF NextUnread
  <2>2. requestbuf[1].part # "body"
    BY <1>2, <1>5 DEF NoBodyBuffered
  <2> QED BY <2>1, <2>2
<1>7. 2 \in 1 .. Len(requestbuf)
  BY <1>2, <1>3, <1>4, <1>6
<1>8. requestbuf[2] = [of |-> Heads + 1, part |-> "end"]
  <2>1. 1 \in 1 .. Len(Unread) - 1
    BY <1>3, <1>7
  <2>2. Follows(reqs, Unread[1], Unread[1 + 1])
    BY <1>2, <2>1 DEF InOrder
  <2>3. Unread[1] = requestbuf[1] /\ Unread[1 + 1] = requestbuf[2]
    BY <1>3, <1>5, <1>7
  <2> QED BY <1>6, <2>2, <2>3 DEF Follows
<1>9. e = 2
  <2>1. 2 \in Ends(requestbuf)
    BY <1>4, <1>7, <1>8 DEF Ends
  <2>2. e <= 2
    BY <2>1 DEF FirstHead
  <2> QED BY <1>2, <1>4, <1>6, <2>2
<1> DEFINE head == Take(requestbuf, 2)
<1>10. Len(head) = 2 /\ head[1] = requestbuf[1] /\ head[2] = requestbuf[2]
  <2>1. requestbuf \in Seq(Token) /\ 2 \in 0 .. Len(requestbuf)
    BY <1>1, <1>3, <1>7
  <2>2. Len(head) = 2 /\ \A j \in 1 .. 2 : head[j] = requestbuf[j]
    BY <2>1, TakeElements
  <2> QED BY <2>2
<1>11. p = [of |-> Heads + 1, req |-> reqs[Heads + 1]]
  <2>1. p \in Parse(head)
    BY <1>9 DEF FirstHead
  <2> HIDE DEF head
  <2> QED BY <1>6, <1>8, <1>10, <2>1 DEF Parse
<1>12. Heads + 1 \in 1 .. Len(reqs)
  <2>1. requestbuf[2] \in Token
    BY <1>1, <1>7, ElementOfSeq
  <2> QED BY <1>8, <2>1 DEF Token
<1> QED BY <1>3, <1>7, <1>8, <1>9, <1>11, <1>12

\* The head is taken, and its body follows it.
LEMMA OrderTakeHead ==
  ASSUME TypeOK, OrderInv, NEW e, NEW p, FirstHead(e, p),
         requestbuf' = Drop(requestbuf, e),
         UNCHANGED <<reqs, inq, peer, framed, quitting>>,
         Heads' = Heads + 1,
         State' = "HTTP_RECV_REQBODY" => BodyTokens(p.req) > 0,
         BeingServed' =>
           cur' = p.of /\ AllowedCodes(p.req) = {200} \cup FileErrors
  PROVE  OrderInv'
<1> DEFINE h == Heads + 1
           d == Drop(requestbuf, 2)
           u == d \o inq
<1>1. /\ requestbuf \in Seq(Token) /\ inq \in Seq(Token) /\ Unread \in Seq(Token)
      /\ Len(reqs) \in Nat /\ Heads \in Nat
  BY UnreadType
<1>2. /\ e = 2 /\ Len(requestbuf) >= 2
      /\ requestbuf[2] = [of |-> h, part |-> "end"]
      /\ p.of = h /\ h \in 1 .. Len(reqs) /\ p.req = reqs[h]
  BY FirstHeadIsNext
<1>3. NoBodyBuffered /\ InOrder(reqs, Unread) /\ SentWhole
  BY DEF FirstHead, OrderInv
<1>4. /\ d \in Seq(Token) /\ Len(d) = Len(requestbuf) - 2
      /\ Len(requestbuf) \in Nat
      /\ \A j \in 1 .. Len(d) : d[j] = requestbuf[2 + j]
  <2>1. requestbuf \in Seq(Token) /\ 2 \in 0 .. Len(requestbuf)
    BY <1>1, <1>2, LenProperties
  <2> QED BY <2>1, DropElements
<1> HIDE DEF d
<1>5. /\ Len(u) = Len(d) + Len(inq) /\ u \in Seq(Token)
      /\ \A j \in 1 .. Len(d) : u[j] = d[j]
      /\ \A j \in 1 .. Len(inq) : u[Len(d) + j] = inq[j]
      /\ Len(d) \in Nat /\ Len(inq) \in Nat
  <2>1. d \in Seq(Token) /\ inq \in Seq(Token)
    BY <1>1, <1>4
  <2> QED BY <2>1, ConcatElements
<1>6. /\ Len(Unread) = Len(requestbuf) + Len(inq)
      /\ \A j \in 1 .. Len(requestbuf) : Unread[j] = requestbuf[j]
      /\ \A j \in 1 .. Len(inq) : Unread[Len(requestbuf) + j] = inq[j]
  <2>1. requestbuf \in Seq(Token) /\ inq \in Seq(Token)
    BY <1>1
  <2> QED BY <2>1, ConcatElements DEF Unread
<1>7. Unread' = u
  BY <1>2 DEF Unread, d
<1> HIDE DEF u
<1>8. Len(Unread) = 2 + Len(u)
  BY <1>4, <1>5, <1>6
<1>9. ASSUME NEW j \in 1 .. Len(u) PROVE u[j] = Unread[2 + j]
  <2>1. CASE j <= Len(d)
    <3>1. j \in 1 .. Len(d) /\ 2 + j \in 1 .. Len(requestbuf)
      BY <1>4, <1>5, <2>1
    <3> QED BY <1>4, <1>5, <1>6, <3>1
  <2>2. CASE j > Len(d)
    <3> DEFINE k == j - Len(d)
    <3>1. k \in 1 .. Len(inq) /\ Len(d) + k = j /\ Len(requestbuf) + k = 2 + j
      BY <1>4, <1>5, <2>2
    <3> HIDE DEF k
    <3> QED BY <1>5, <1>6, <3>1
  <2> QED BY <1>5, <2>1, <2>2
<1>10. InOrder(reqs, u)
  <2>1. Unread \in Seq(Token) /\ u \in Seq(Token) /\ 2 \in Nat
    BY <1>1, <1>5
  <2> HIDE DEF Unread
  <2> QED BY <1>3, <1>8, <1>9, <2>1, InOrderSuffix
<1>11. u # <<>> => Follows(reqs, [of |-> h, part |-> "end"], u[1])
  <2> SUFFICES ASSUME u # <<>>
               PROVE  Follows(reqs, [of |-> h, part |-> "end"], u[1])
    OBVIOUS
  <2>1. Len(u) \in Nat /\ Len(u) # 0
    BY <1>5, EmptySeq, LenProperties
  <2>2. 2 \in 1 .. Len(Unread) - 1 /\ 2 \in 1 .. Len(requestbuf) /\ 1 \in 1 .. Len(u)
    BY <1>2, <1>4, <1>8, <2>1
  <2>3. u[1] = Unread[2 + 1] /\ Unread[2] = [of |-> h, part |-> "end"]
    BY <1>2, <1>6, <1>9, <2>2
  <2> QED BY <1>3, <2>2, <2>3 DEF InOrder
<1>12. NextUnread'
  <2>1. u # <<>> => u[1] \in {[of |-> h + 1, part |-> "top"], [of |-> h, part |-> "body"]}
    BY <1>11 DEF Follows
  <2> QED BY <1>7, <2>1 DEF NextUnread
<1>13. SentWhole'
  <2> SUFFICES ASSUME peer = "open"
               PROVE  IF u = <<>> THEN h = Len(reqs)
                      ELSE /\ u[Len(u)].of = Len(reqs)
                           /\ EndsRequest(reqs, u[Len(u)])
    BY <1>7 DEF SentWhole
  <2>1. Len(Unread) # 0 /\ Len(u) \in Nat
    BY <1>5, <1>8, LenProperties
  <2>2. Unread # <<>>
    BY <2>1, EmptySeq
  <2>3. /\ Unread[Len(Unread)].of = Len(reqs)
        /\ EndsRequest(reqs, Unread[Len(Unread)])
    BY <1>3, <2>2 DEF SentWhole
  <2>4. CASE u = <<>>
    <3>1. Len(Unread) = 2 /\ 2 \in 1 .. Len(requestbuf)
      BY <1>2, <1>4, <1>8, <2>4, EmptySeq
    <3>2. Unread[Len(Unread)] = [of |-> h, part |-> "end"]
      BY <1>2, <1>6, <3>1
    <3> QED BY <2>3, <2>4, <3>2
  <2>5. CASE u # <<>>
    <3>1. Len(u) # 0
      BY <1>5, <2>5, EmptySeq
    <3>2. Len(u) \in 1 .. Len(u) /\ 2 + Len(u) = Len(Unread)
      BY <1>8, <2>1, <3>1
    <3>3. u[Len(u)] = Unread[Len(Unread)]
      BY <1>9, <3>2
    <3> QED BY <2>3, <2>5, <3>3
  <2> QED BY <2>4, <2>5
<1>14. ASSUME NEW j \in 1 .. Len(d) PROVE d[j].part # "body"
  <2>1. 2 + j \in 1 .. Len(requestbuf) /\ d[j] = requestbuf[2 + j]
    BY <1>4
  <2> QED BY <1>3, <2>1 DEF NoBodyBuffered
<1>15. State' = "HTTP_RECV_REQBODY" => d = <<>>
  <2> SUFFICES ASSUME State' = "HTTP_RECV_REQBODY", d # <<>> PROVE FALSE
    OBVIOUS
  <2>1. Len(d) # 0
    BY <1>4, EmptySeq
  <2>2. 1 \in 1 .. Len(d) /\ Len(u) # 0
    BY <1>5, <2>1
  <2>3. u # <<>> /\ u[1] = d[1]
    BY <1>5, <2>2, EmptySeq
  <2>4. u[1].part = "body"
    BY <1>2, <1>11, <2>3 DEF Follows
  <2> QED BY <1>14, <2>2, <2>3, <2>4
<1>16. NoBodyBuffered'
  BY <1>2, <1>14, <1>15 DEF NoBodyBuffered, d
<1>17. ServesLastHead'
  BY <1>2 DEF ServesLastHead
<1> QED BY <1>7, <1>10, <1>12, <1>13, <1>16, <1>17 DEF OrderInv

\* SendError begins one response, and leaves no request being served.
LEMMA SendErrorHeads ==
  ASSUME TypeOK, NEW i, NEW code, NEW fatal, NEW ka, SendError(i, code, fatal, ka)
  PROVE  ~BeingServed' /\ Heads' = Len(answers) + 1
<1> DEFINE ans == [req |-> i, code |-> code, size |-> 1, close |-> ~ka,
                   fatal |-> fatal]
<1>1. answers' = Append(answers, ans) /\ State' = "HTTP_SEND_DATA"
        /\ pc' = "FlushWriteBuf"
  BY DEF SendError, SendHeaders
<1> HIDE DEF ans
<1>2. Len(answers') = Len(answers) + 1
  BY <1>1 DEF TypeOK
<1>3. ~BeingServed'
  BY <1>1 DEF BeingServed
<1> QED BY <1>2, <1>3 DEF Heads

LEMMA OrderCheckRequest ==
  TypeOK /\ ControlInv /\ BodyInv /\ OrderInv /\ CheckRequest => OrderInv'
<1> SUFFICES ASSUME TypeOK, ControlInv, BodyInv, OrderInv, CheckRequest,
                    framed', ~quitting'
             PROVE  OrderInv'
  BY DEF OrderInv
<1>1. /\ UNCHANGED <<reqs, inq, peer, framed, quitting>>
      /\ pc = "CheckRequest" /\ State = "HTTP_WAIT_REQUEST"
      /\ framed /\ ~quitting
  BY DEF CheckRequest, BodyInv
<1>2. Heads = Len(answers) /\ Len(answers) \in Nat
  BY <1>1, UnreadType DEF Heads, BeingServed
<1>3. CASE UNCHANGED <<requestbuf, cur, answers, State>> /\ pc' = "Return"
  <2>1. ~BeingServed' /\ ~BeingServed
    BY <1>1, <1>3 DEF BeingServed
  <2> QED BY <1>1, <1>3, <2>1, OrderUntouched
<1>4. CASE \E e \in Ends(requestbuf) : \E p \in Parse(Take(requestbuf, e)) :
             /\ \A f \in Ends(requestbuf) : e <= f
             /\ requestbuf' = Drop(requestbuf, e) /\ cur' = p.of
             /\ p.of \in Nat /\ p.req \in Request
             /\ TurnedDown(p.of, p.req) \/ Accepted(p.req)
  <2> PICK e \in Ends(requestbuf) : \E p \in Parse(Take(requestbuf, e)) :
             /\ \A f \in Ends(requestbuf) : e <= f
             /\ requestbuf' = Drop(requestbuf, e) /\ cur' = p.of
             /\ p.of \in Nat /\ p.req \in Request
             /\ TurnedDown(p.of, p.req) \/ Accepted(p.req)
    BY <1>4
  <2> PICK p \in Parse(Take(requestbuf, e)) :
             /\ \A f \in Ends(requestbuf) : e <= f
             /\ requestbuf' = Drop(requestbuf, e) /\ cur' = p.of
             /\ p.of \in Nat /\ p.req \in Request
             /\ TurnedDown(p.of, p.req) \/ Accepted(p.req)
    OBVIOUS
  <2>1. FirstHead(e, p)
    BY <1>1 DEF FirstHead
  <2>2. CASE TurnedDown(p.of, p.req)
    <3>1. PICK code, fatal, ka : SendError(p.of, code, fatal, ka)
      BY <2>2, Zenon DEF TurnedDown
    <3>2. ~BeingServed' /\ Heads' = Heads + 1
      BY <1>2, <3>1, SendErrorHeads
    <3> QED BY <1>1, <2>1, <3>2, OrderTakeHead DEF BeingServed
  <2>3. CASE Accepted(p.req)
    <3>1. /\ UNCHANGED answers /\ BeingServed'
          /\ AllowedCodes(p.req) = {200} \cup FileErrors
      BY <2>3 DEF Accepted, BeingServed
    <3>2. Heads' = Heads + 1
      BY <1>2, <3>1 DEF Heads
    <3>3. State' = "HTTP_RECV_REQBODY" => BodyTokens(p.req) > 0
      BY <1>1, <2>3 DEF Accepted, BodyTokens
    <3> QED BY <1>1, <2>1, <3>1, <3>2, <3>3, OrderTakeHead
  <2> QED BY <2>2, <2>3
<1> QED BY <1>3, <1>4, CheckRequestCases

LEMMA OrderServeData == TypeOK /\ OrderInv /\ ServeData => OrderInv'
<1> SUFFICES ASSUME TypeOK, OrderInv, ServeData PROVE OrderInv'
  OBVIOUS
<1>1. /\ UNCHANGED <<reqs, inq, requestbuf, peer, framed, quitting>>
      /\ pc = "ServeData"
  BY DEF ServeData
<1>2. Heads = Len(answers) + 1 /\ Unread' = Unread
  BY <1>1 DEF Heads, BeingServed, Unread
<1>3. ~BeingServed' /\ State' # "HTTP_RECV_REQBODY" /\ Heads' = Len(answers) + 1
  <2>1. CASE \E code \in FileErrors : SendError(cur, code, FALSE, keepalive)
    <3>1. PICK code \in FileErrors : SendError(cur, code, FALSE, keepalive)
      BY <2>1
    <3>2. ~BeingServed' /\ Heads' = Len(answers) + 1
      BY <3>1, SendErrorHeads, Zenon
    <3> QED BY <3>2 DEF BeingServed
  <2>2. CASE \E size \in FileSizes :
               /\ SendHeaders(cur, 200, size, 0, keepalive, FALSE)
               /\ State' = "HTTP_SEND_HEADERS" /\ pc' \in {"EndRequest", "Return"}
    <3>1. Len(answers') = Len(answers) + 1
      <4>1. PICK ans : answers' = Append(answers, ans)
        BY <2>2 DEF SendHeaders
      <4> QED BY <4>1 DEF TypeOK
    <3> QED BY <2>2, <3>1 DEF BeingServed, Heads
  <2> QED BY <2>1, <2>2 DEF ServeData
<1>4. framed' /\ ~quitting' => NoBodyBuffered'
  BY <1>1, <1>3 DEF OrderInv, NoBodyBuffered
<1> QED BY <1>1, <1>2, <1>3, <1>4, OrderSame

LEMMA OrderHandleRead == TypeOK /\ BodyInv /\ OrderInv /\ HandleRead => OrderInv'
<1> SUFFICES ASSUME TypeOK, BodyInv, OrderInv, HandleRead, ~quitting'
             PROVE  OrderInv'
  BY DEF OrderInv
<1>1. UNCHANGED <<reqs, answers, peer, cur>> /\ pc = "HandleEvent"
  BY DEF HandleRead
<1>2. PICK n \in 1 .. Len(inq) : /\ inq' = Drop(inq, n)
                                 /\ AddBuffer(Take(inq, n))
                                 /\ UNCHANGED <<State, quitting>>
  BY DEF HandleRead, Delete
<1> QED BY <1>1, <1>2, OrderReadHead, OrderReadBody

LEMMA OrderNext ==
  TypeOK /\ TypeOK' /\ ControlInv /\ BodyInv /\ OrderInv /\ [Next]_vars => OrderInv'
<1> SUFFICES ASSUME TypeOK, TypeOK', ControlInv, BodyInv, OrderInv, [Next]_vars
             PROVE  OrderInv'
  OBVIOUS
<1>1. CASE UNCHANGED vars
  BY <1>1, OrderUntouched DEF BeingServed
<1>2. CASE Scan \/ Poll \/ HandleError \/ HandleWrite \/ Apply \/ Return
  <2>1. /\ UNCHANGED <<reqs, answers, inq, requestbuf, framed, peer, cur>>
        /\ ~quitting' => ~quitting /\ UNCHANGED State
        /\ pc # "ServeData" /\ pc' # "ServeData"
    BY <1>2 DEF Scan, Poll, HandleError, HandleWrite, Apply, Return, Delete
  <2> QED BY <2>1, OrderUntouched DEF BeingServed
<1>3. CASE FlushWriteBuf \/ SendStaticData
  <2>1. /\ UNCHANGED <<reqs, answers, inq, requestbuf, framed, peer, cur>>
        /\ pc # "ServeData" /\ pc' # "ServeData"
        /\ ~quitting' => ~quitting /\ (UNCHANGED State \/ (Sending /\ Sending'))
    BY <1>3 DEF FlushWriteBuf, Flushed, Partial, SendStaticData, Delete, Sending
  <2> QED BY <2>1, OrderUntouched DEF BeingServed, Sending
<1>4. CASE EndRequest
  <2>1. /\ UNCHANGED <<reqs, answers, inq, requestbuf, framed, peer>>
        /\ pc = "EndRequest" /\ pc' # "ServeData"
        /\ ~quitting' => ~quitting /\ State' = "HTTP_WAIT_REQUEST"
    BY <1>4 DEF EndRequest, Delete, NextRequest
  <2>2. Sending
    BY <2>1 DEF ControlInv, CalledInState
  <2> QED BY <2>1, <2>2, OrderUntouched DEF BeingServed, Sending
<1> QED BY <1>1, <1>2, <1>3, <1>4, OrderClient, OrderHandleRead,
        OrderCheckRequest, OrderServeData DEF Next, Server, Loop

\* The inductive invariant of AnswersMatch itself: with OrderInv, a response
\* that is begun answers the head taken last.
MatchInv == framed => Len(answers) <= Len(reqs) /\ AnswersMatch

LEMMA MatchBegin ==
  ASSUME TypeOK, MatchInv, NEW ans, answers' = Append(answers, ans),
         UNCHANGED <<reqs, framed>>,
         framed => /\ ans.req = Len(answers) + 1 /\ ans.req \in 1 .. Len(reqs)
                   /\ ans.code \in AllowedCodes(reqs[ans.req])
  PROVE  MatchInv'
<1>1. /\ Len(answers') = Len(answers) + 1 /\ Len(answers) \in Nat
      /\ answers'[Len(answers) + 1] = ans
      /\ \A k \in 1 .. Len(answers) : answers'[k] = answers[k]
      /\ DOMAIN answers = 1 .. Len(answers)
      /\ DOMAIN answers' = 1 .. Len(answers) + 1
  BY DEF TypeOK
<1>2. ASSUME framed, NEW k \in 1 .. Len(answers) + 1
      PROVE  answers'[k].req = k /\ answers'[k].code \in AllowedCodes(reqs[k])
  <2>1. CASE k = Len(answers) + 1
    BY <1>1, <1>2, <2>1
  <2>2. CASE k \in 1 .. Len(answers)
    BY <1>1, <1>2, <2>2 DEF MatchInv, AnswersMatch
  <2> QED BY <1>1, <2>1, <2>2
<1>3. framed => Len(answers') <= Len(reqs')
  BY <1>1
<1>4. framed' => AnswersMatch'
  BY <1>1, <1>2 DEF AnswersMatch, AllowedCodes
<1> QED BY <1>3, <1>4 DEF MatchInv

LEMMA MatchSame ==
  ASSUME MatchInv, framed' => framed, UNCHANGED <<reqs, answers>>
  PROVE  MatchInv'
BY DEF MatchInv, AnswersMatch, AllowedCodes

LEMMA MatchClientRequest == TypeOK /\ MatchInv /\ ClientRequest => MatchInv'
<1> SUFFICES ASSUME TypeOK, MatchInv, ClientRequest, framed
             PROVE  Len(answers') <= Len(reqs') /\ AnswersMatch'
  BY DEF MatchInv, ClientRequest
<1>1. PICK r \in Requests : reqs' = Append(reqs, r)
  BY DEF ClientRequest
<1>2. /\ Len(reqs') = Len(reqs) + 1 /\ Len(reqs) \in Nat
      /\ \A k \in 1 .. Len(reqs) : reqs'[k] = reqs[k]
      /\ Len(answers) \in Nat /\ DOMAIN answers = 1 .. Len(answers)
  BY <1>1 DEF TypeOK
<1>3. UNCHANGED answers
  BY DEF ClientRequest
<1>4. Len(answers) <= Len(reqs)
  BY DEF MatchInv
<1>5. ASSUME NEW k \in DOMAIN answers
      PROVE  answers[k].req = k /\ answers[k].code \in AllowedCodes(reqs'[k])
  <2>1. k \in 1 .. Len(reqs)
    BY <1>2, <1>4
  <2> QED BY <1>2, <2>1 DEF MatchInv, AnswersMatch
<1> QED BY <1>2, <1>3, <1>4, <1>5 DEF AnswersMatch, AllowedCodes

LEMMA MatchCheckRequest ==
  TypeOK /\ ControlInv /\ BodyInv /\ OrderInv /\ MatchInv /\ CheckRequest => MatchInv'
<1> SUFFICES ASSUME TypeOK, ControlInv, BodyInv, OrderInv, MatchInv, CheckRequest
             PROVE  MatchInv'
  OBVIOUS
<1>1. /\ UNCHANGED <<reqs, framed>> /\ pc = "CheckRequest"
      /\ State = "HTTP_WAIT_REQUEST" /\ ~quitting
  BY DEF CheckRequest, BodyInv, ControlInv, StateMeansBackend
<1>2. Heads = Len(answers) /\ Len(answers) \in Nat
  BY <1>1, UnreadType DEF Heads, BeingServed
<1>3. CASE UNCHANGED answers
  BY <1>1, <1>3, MatchSame
<1>4. CASE \E e \in Ends(requestbuf) : \E p \in Parse(Take(requestbuf, e)) :
             /\ \A f \in Ends(requestbuf) : e <= f
             /\ TurnedDown(p.of, p.req)
  <2> PICK e \in Ends(requestbuf) : \E p \in Parse(Take(requestbuf, e)) :
             /\ \A f \in Ends(requestbuf) : e <= f
             /\ TurnedDown(p.of, p.req)
    BY <1>4
  <2> PICK p \in Parse(Take(requestbuf, e)) :
             /\ \A f \in Ends(requestbuf) : e <= f
             /\ TurnedDown(p.of, p.req)
    OBVIOUS
  <2> PICK code \in AllowedCodes(p.req) \cap Nat, fatal \in BOOLEAN, ka \in BOOLEAN :
        SendError(p.of, code, fatal, ka)
    BY Zenon DEF TurnedDown
  <2> DEFINE ans == [req |-> p.of, code |-> code, size |-> 1, close |-> ~ka,
                     fatal |-> fatal]
  <2>1. answers' = Append(answers, ans) /\ ans.req = p.of /\ ans.code = code
    BY DEF SendError, SendHeaders
  <2>2. ASSUME framed
        PROVE  p.of = Len(answers) + 1 /\ p.of \in 1 .. Len(reqs) /\ p.req = reqs[p.of]
    <3>1. FirstHead(e, p)
      BY <1>1, <2>2 DEF FirstHead
    <3> QED BY <1>2, <3>1, FirstHeadIsNext
  <2> HIDE DEF ans
  <2> QED BY <1>1, <2>1, <2>2, MatchBegin
<1> QED BY <1>3, <1>4, CheckRequestCases DEF Accepted

LEMMA MatchServeData ==
  TypeOK /\ ControlInv /\ OrderInv /\ MatchInv /\ ServeData => MatchInv'
<1> SUFFICES ASSUME TypeOK, ControlInv, OrderInv, MatchInv, ServeData
             PROVE  MatchInv'
  OBVIOUS
<1>1. UNCHANGED <<reqs, framed>> /\ pc = "ServeData" /\ ~quitting
  BY DEF ServeData, ControlInv, CalledInState, StateMeansBackend, Waiting
<1>2. ASSUME framed
      PROVE  /\ cur = Len(answers) + 1 /\ cur \in 1 .. Len(reqs)
             /\ AllowedCodes(reqs[cur]) = {200} \cup FileErrors
  BY <1>1, <1>2 DEF OrderInv, ServesLastHead, Heads, BeingServed
<1>3. PICK code \in {200} \cup FileErrors :
        \E size, close, fatal :
          answers' = Append(answers, [req |-> cur, code |-> code, size |-> size,
                                      close |-> close, fatal |-> fatal])
  <2>1. CASE \E code \in FileErrors : SendError(cur, code, FALSE, keepalive)
    BY <2>1 DEF SendError, SendHeaders
  <2>2. CASE \E size \in FileSizes :
               SendHeaders(cur, 200, size, 0, keepalive, FALSE)
    BY <2>2 DEF SendHeaders
  <2> QED BY <2>1, <2>2, Zenon DEF ServeData
<1>4. PICK ans : answers' = Append(answers, ans) /\ ans.req = cur /\ ans.code = code
  BY <1>3
<1> QED BY <1>1, <1>2, <1>4, MatchBegin

LEMMA MatchNext ==
  TypeOK /\ ControlInv /\ BodyInv /\ OrderInv /\ MatchInv /\ [Next]_vars => MatchInv'
<1> SUFFICES ASSUME TypeOK, ControlInv, BodyInv, OrderInv, MatchInv, [Next]_vars
             PROVE  MatchInv'
  OBVIOUS
<1>1. CASE UNCHANGED vars \/ Loop \/ Return \/ FlushWriteBuf
             \/ SendStaticData \/ EndRequest \/ ClientReceive \/ ClientShut
             \/ ClientReset
  <2>1. CASE HandleRead
    <3>1. UNCHANGED <<reqs, answers>>
      BY <2>1 DEF HandleRead
    <3>2. framed' => framed
      <4>1. UNCHANGED framed \/ \E n \in 1 .. Len(inq) : AddBuffer(Take(inq, n))
        BY <2>1 DEF HandleRead
      <4>2. ASSUME NEW a, AddBuffer(a) PROVE framed' => framed
        BY <4>2 DEF AddBuffer
      <4> QED BY <4>1, <4>2
    <3> QED BY <3>1, <3>2, MatchSame
  <2>2. CASE ~HandleRead
    <3>1. UNCHANGED <<reqs, answers, framed>>
      BY <1>1, <2>2, Zenon DEF Loop, Scan, Poll, HandleError, HandleWrite,
         Apply, Return, FlushWriteBuf, SendStaticData, EndRequest,
         ClientReceive, ClientShut, ClientReset
    <3> QED BY <3>1, MatchSame
  <2> QED BY <2>1, <2>2
<1> QED BY <1>1, MatchClientRequest, MatchCheckRequest, MatchServeData
        DEF Next, Server, Client

HIDE DEF vars, networkVars, stackVars, requestVars, fileVars, responseVars,
         lifeVars, historyVars

LEMMA OrderCorrect == Spec => []OrderInv
<1>1. Init => OrderInv
  <2> SUFFICES ASSUME Init PROVE OrderInv
    OBVIOUS
  <2>1. requestbuf = <<>> /\ inq = <<>> /\ answers = <<>> /\ reqs = <<>>
          /\ pc = "Scan" /\ State = "HTTP_WAIT_REQUEST"
    BY DEF Init
  <2>2. Unread = <<>> /\ Len(requestbuf) = 0 /\ Len(Unread) = 0
          /\ Len(answers) = 0 /\ Len(reqs) = 0
    BY <2>1, EmptySeq, ConcatEmptySeq DEF Unread
  <2>3. Heads = 0 /\ ~BeingServed
    BY <2>1, <2>2 DEF Heads, BeingServed
  <2>4. InOrder(reqs, Unread)
    BY <2>2 DEF InOrder
  <2> QED BY <2>1, <2>2, <2>3, <2>4
          DEF OrderInv, NoBodyBuffered, NextUnread, SentWhole, ServesLastHead
<1>2. TypeOK /\ TypeOK' /\ ControlInv /\ BodyInv /\ OrderInv /\ [Next]_vars => OrderInv'
  BY OrderNext
<1> QED BY <1>1, <1>2, TypeCorrect, ControlCorrect, BodyCorrect, PTL DEF Spec

LEMMA MatchCorrect == Spec => []MatchInv
<1>1. Init => MatchInv
  <2>1. Len(<<>>) = 0 /\ DOMAIN <<>> = {}
    OBVIOUS
  <2> QED BY <2>1 DEF Init, MatchInv, AnswersMatch
<1>2. TypeOK /\ ControlInv /\ BodyInv /\ OrderInv /\ MatchInv /\ [Next]_vars => MatchInv'
  BY MatchNext
<1> QED BY <1>1, <1>2, TypeCorrect, ControlCorrect, BodyCorrect, OrderCorrect, PTL
        DEF Spec

\* Pipelined requests are neither skipped, nor answered twice, nor answered
\* out of turn, whatever the client sends and however it arrives, as long as
\* no byte of a body was taken for a head.
THEOREM EveryAnswerFits == Spec => []AnswersMatch
<1>1. MatchInv => AnswersMatch
  BY DEF MatchInv, AnswersMatch
<1> QED BY <1>1, MatchCorrect, PTL
=============================================================================
