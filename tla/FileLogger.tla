----------------------------- MODULE FileLogger -----------------------------
(***************************************************************************)
(* FileLogger (src/filelogger.cpp): a buffer of log lines, a log that may  *)
(* not take them at once, and a registration for an event when it might.   *)
(* The engine reports what it does to the log, at the level DEBUG, so that *)
(* AddFd and DelFd come back to WriteLogLine.                              *)
(*                                                                         *)
(* A line is its number.  fprintf() is external: it takes everything, or   *)
(* it fails after a part, because the log would block or for another       *)
(* reason.  It never returns a short count.  What it took is in the log;   *)
(* that stdio holds it back until fflush() is left out.                    *)
(***************************************************************************)
EXTENDS Integers, Sequences

CONSTANTS
  Debug,     \* whether DEBUG messages are logged
  MaxLines   \* bound: lines

ASSUME LoggerInput == Debug \in BOOLEAN /\ MaxLines \in Nat

VARIABLE logfile

LoggerStart ==
  [log |-> "open", text |-> <<>>, buffer |-> <<>>, lines |-> 0,
   registered |-> FALSE]

\* How fprintf ends, how much it took before it failed, and whether the engine
\* accepts the log's descriptor if it is asked to.
Outcomes ==
  [result : {"all"}, took : {0}, accepted : {FALSE}]
    \cup [result : {"EAGAIN"}, took : 0 .. MaxLines, accepted : BOOLEAN]
    \cup [result : {"error"}, took : 0 .. MaxLines, accepted : {FALSE}]

Line(l) == [l EXCEPT !.lines = @ + 1, !.buffer = Append(@, l.lines + 1)]

Shorter(x, y) == IF x < y THEN x ELSE y
Fprintf(l, o) ==
  IF o.result = "all" THEN l.text \o l.buffer
  ELSE l.text \o SubSeq(l.buffer, 1, Shorter(o.took, Len(l.buffer)))

Put_Clears(l, o) == [l EXCEPT !.text = Fprintf(l, o), !.buffer = <<>>]
Put(l, o) ==
  [l EXCEPT !.text = Fprintf(l, o),
            !.buffer = IF o.result = "all" THEN <<>> ELSE @]

\* AddFd says "New file descriptor" before it has registered it; by then the
\* kernel knows the descriptor, and refuses it to the call within the call.
WriteLogLine(l, o, within) ==
  LET put == Put(l, o) IN
  IF put.registered \/ o.result # "EAGAIN" \/ ~o.accepted THEN put
  ELSE [(IF Debug THEN Put(Line(put), within) ELSE put)
          EXCEPT !.registered = TRUE]

\* DelFd says "Remove file descriptor" when it has: the call within may
\* register the log again.
DelFd(l, o, within) ==
  LET removed == [l EXCEPT !.registered = FALSE] IN
  IF Debug THEN WriteLogLine(Line(removed), o, within) ELSE removed

-----------------------------------------------------------------------------
LoggerInit == logfile = LoggerStart

LogLine ==
  /\ logfile.log = "open" /\ logfile.lines < MaxLines
  /\ \E o, within \in Outcomes :
       logfile' = WriteLogLine(Line(logfile), o, within)

HandleEvent ==
  /\ logfile.log = "open" /\ logfile.registered /\ logfile.lines < MaxLines
  /\ \E o, then, within \in Outcomes :
       logfile' = DelFd(Put(logfile, o), then, within)

\* The log blocks now.  The buffer is not cleared before DelFd reports itself,
\* so that what it holds is written again; what cannot be written is dropped.
Close ==
  /\ logfile.log = "open"
  /\ \E o, then \in {x \in Outcomes : x.result # "EAGAIN"} :
       LET written == [logfile EXCEPT !.text = Fprintf(logfile, o)]
           reported == logfile.registered /\ Debug
           last == IF logfile.registered THEN DelFd(written, then, then)
                   ELSE written
           failed == (IF reported THEN then ELSE o).result = "error" IN
       logfile' = [last EXCEPT !.buffer = <<>>,
                               !.log = IF failed THEN "failed" ELSE "closed"]

LoggerNext == LogLine \/ HandleEvent \/ Close

-----------------------------------------------------------------------------

\* Each line that was logged is in the log or waits in the buffer, and the last
\* copies of the lines are in the order in which they were logged, however often
\* the log would have blocked; a part that was taken before fprintf failed is
\* written twice (filelogger.cpp:45-98).
LinesKept ==
  LET all == logfile.text \o logfile.buffer
      Last(k) == {i \in DOMAIN all :
                    all[i] = k /\ \A j \in i + 1 .. Len(all) : all[j] # k} IN
  logfile.log # "failed" =>
    \A k \in 1 .. logfile.lines :
      /\ Last(k) # {}
      /\ \A m \in 1 .. k - 1 : \A i \in Last(m), j \in Last(k) : i < j
=============================================================================
