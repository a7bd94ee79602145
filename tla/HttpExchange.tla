---------------------------- MODULE HttpExchange ----------------------------
(***************************************************************************)
(* What one HTTP connection promises its client, whatever goes on inside   *)
(* the server: requests are answered in turn and no more than once each,   *)
(* nothing is answered after a response that announced the end of the      *)
(* connection, and the client receives each response whole, headers first, *)
(* before any of the next.  HttpConnection implements this specification.  *)
(***************************************************************************)
EXTENDS Naturals, Sequences

CONSTANT Requests

VARIABLES
  requests,   \* what the client has asked for, in order
  responses,  \* the responses decided on, in order
  delivered,  \* the units of the responses the client has received
  open        \* the server has not closed the connection

vars == <<requests, responses, delivered, open>>

\* The unit that follows u in the byte stream: the next one of the same
\* response or, after its last, the headers of the next response.
After(u) ==
  IF u.unit < responses[u.resp].size
    THEN [resp |-> u.resp, unit |-> u.unit + 1]
    ELSE [resp |-> u.resp + 1, unit |-> 0]

NextUnit ==
  IF delivered = <<>> THEN [resp |-> 1, unit |-> 0]
                      ELSE After(delivered[Len(delivered)])

Init ==
  /\ requests = <<>> /\ responses = <<>> /\ delivered = <<>>
  /\ open = TRUE

Ask ==
  /\ open
  /\ \E r \in Requests : requests' = Append(requests, r)
  /\ UNCHANGED <<responses, delivered, open>>

Respond ==
  /\ open
  /\ Len(responses) < Len(requests)
  /\ \A i \in DOMAIN responses : ~responses[i].close
  /\ Len(responses') = Len(responses) + 1
  /\ SubSeq(responses', 1, Len(responses)) = responses
  /\ UNCHANGED <<requests, delivered, open>>

Deliver ==
  /\ NextUnit.resp <= Len(responses)
  /\ delivered' = Append(delivered, NextUnit)
  /\ UNCHANGED <<requests, responses, open>>

Close ==
  /\ open /\ open' = FALSE
  /\ UNCHANGED <<requests, responses, delivered>>

Next == Ask \/ Respond \/ Deliver \/ Close

Spec == Init /\ [][Next]_vars
=============================================================================
