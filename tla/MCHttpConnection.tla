-------------------------- MODULE MCHttpConnection --------------------------
(***************************************************************************)
(* Sets of requests for model checking HttpConnection.                     *)
(***************************************************************************)
EXTENDS HttpConnectionProps

Get == [form |-> "ok", method |-> "GET", version |-> "HTTP/1.1",
        connection |-> "none", length |-> 0, chunked |-> FALSE]

\* Requests without a body that can be served, with every keepalive wish.
Gets ==
  {Get, [Get EXCEPT !.connection = "close"],
   [Get EXCEPT !.version = "HTTP/1.0"],
   [Get EXCEPT !.version = "HTTP/1.0", !.connection = "keep-alive"]}

\* One request of each kind that CheckRequest tells apart (MaxPostBody is 2).
Kinds ==
  {Get,
   [Get EXCEPT !.connection = "close"],
   [Get EXCEPT !.form = "badline"],
   [Get EXCEPT !.form = "badversion"],
   [Get EXCEPT !.form = "badheader", !.version = "HTTP/1.0"],
   [Get EXCEPT !.method = "OTHER"],
   [Get EXCEPT !.chunked = TRUE],
   [Get EXCEPT !.length = 1],
   [Get EXCEPT !.method = "POST", !.length = 2],
   [Get EXCEPT !.method = "POST", !.length = 3]}

\* For liveness: a request to keep alive, one to close, a rejected one, a
\* fatal one and one with a body.
LiveKinds ==
  {Get,
   [Get EXCEPT !.connection = "close"],
   [Get EXCEPT !.form = "badline"],
   [Get EXCEPT !.method = "OTHER"],
   [Get EXCEPT !.method = "POST", !.length = 1]}

\* The ones that disagreements with the documentation take.
LastGets   == {[Get EXCEPT !.connection = "close"]}
BadLines   == {[Get EXCEPT !.form = "badline"]}
GetBodies  == {Get, [Get EXCEPT !.length = 1]}
Posts      == {[Get EXCEPT !.method = "POST", !.length = 2]}
=============================================================================
