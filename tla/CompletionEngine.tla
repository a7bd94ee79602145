-------------------------- MODULE CompletionEngine --------------------------
(***************************************************************************)
(* The engine over Windows' I/O completion ports                           *)
(* (src/socketengines/socketengine_iocp.cpp).  A handler is listened to    *)
(* while an operation of its socket is under way; when it is over, the     *)
(* kernel puts a completion into one queue, with the key the socket was    *)
(* associated under and a pointer to the Overlapped of the operation.      *)
(* Keys are places in ref, "fake" descriptors that are used again.         *)
(*                                                                         *)
(* The Overlapped that a handler has waiting are in its extensions         *)
(* (include/base.h), named for the event; DelFd frees them, in the queue   *)
(* or not.  What a handler does when it is called is external, and what    *)
(* the kernel makes of an operation.  There are no UDP sockets.            *)
(***************************************************************************)
EXTENDS SocketEngine

CONSTANTS
  Acceptors,      \* the handlers that are listeners
  MaxCompletions  \* bound: completions in the queue

VARIABLES
  internal_fd,  \* the handlers' keys, or -1
  extensions,   \* Extensible: handlers with the Overlapped they wait for
  underway,     \* the operations of the kernel
  completions,  \* the queue
  looping,      \* within DispatchEvents' loop
  dying,        \* handlers that have been told of an error: they will go
  deaf,         \* history: a failure was taken for the end of the queue
  robbed,       \* history: DelFd gave up the place in ref of another handler
  undefined     \* history: freed memory was used

completionVars == <<internal_fd, extensions, underway, completions, looping,
                    dying, deaf, robbed, undefined>>

Extend(h, item) == extensions' = extensions \cup {<<h, item>>}
Shrink(h, item) == extensions' = extensions \ {<<h, item>>}
GetExt(h, item) == <<h, item>> \in extensions

MaxRefused == 1  \* bound: handlers that were not associated, one at a time

Awaited(h) == IF h \in Acceptors THEN "accept" ELSE "read"
Completion(h, ev, ok) ==
  [key |-> internal_fd[h], of |-> h, event |-> ev, ok |-> ok, freed |-> FALSE]
Queue(c) == Len(completions) < MaxCompletions
              /\ completions' = Append(completions, c)

CompletionInit ==
  /\ internal_fd = [h \in Handlers |-> -1]
  /\ extensions = {} /\ underway = {} /\ completions = <<>>
  /\ looping = FALSE /\ dying = {} /\ deaf = {} /\ robbed = FALSE
  /\ undefined = FALSE

-----------------------------------------------------------------------------
\* The place that the real descriptor is hashed to, or the first that is free.
GenerateFd(index_hash) ==
  LET free == {d \in Descriptors : ~Registered(d)} IN
  CASE index_hash \in free -> index_hash
    [] index_hash \notin free /\ free # {} ->
         CHOOSE d \in free : \A e \in free : d <= e
    [] free = {} -> -1

\* The operation is under way, or has failed at once: an error is posted.
PostReadEvent(c, queue) ==
  LET h == c.of  others == extensions \ {<<h, c.event>>} IN
  \/ /\ extensions' = others \cup {<<h, "read">>}
     /\ underway' = underway \cup {<<h, "read">>}
     /\ completions' = queue /\ UNCHANGED deaf
  \/ /\ extensions' = others
     /\ completions' = Append(queue, [c EXCEPT !.event = "error"])
     /\ UNCHANGED <<underway, deaf>>

\* A failure is only printed.
PostAcceptEvent(c, queue) ==
  LET h == c.of IN
  /\ extensions' = extensions \cup {<<h, "accept">>}
  /\ completions' = queue
  /\ \/ underway' = underway \cup {<<h, "accept">>} /\ UNCHANGED deaf
     \/ deaf' = deaf \cup {h} /\ UNCHANGED underway

Post(c, queue) ==
  IF c.of \in Acceptors THEN PostAcceptEvent(c, queue)
  ELSE PostReadEvent(c, queue)

\* A new handler.  If it cannot be associated with the port it keeps the key.
IOCPAddFd(h) ==
  /\ \A x \in Handlers : Fd(x) = Fd(h) => internal_fd[x] = -1
  /\ Len(completions) < MaxCompletions
  /\ \E index_hash \in Descriptors :
       /\ GenerateFd(index_hash) # -1
       /\ internal_fd' = [internal_fd EXCEPT ![h] = GenerateFd(index_hash)]
       /\ \/ /\ refused < MaxRefused
             /\ \A x \in Handlers : internal_fd[x] # -1 => ref[internal_fd[x]] = x
             /\ UNCHANGED <<extensions, underway, completions, deaf, tableVars>>
          \/ /\ Post([Completion(h, "none", TRUE) EXCEPT
                        !.key = internal_fd'[h]], completions)
             /\ ref' = [ref EXCEPT ![internal_fd'[h]] = h]
             /\ CurrentSetSize' = CurrentSetSize + 1
             /\ UNCHANGED refused
  /\ UNCHANGED <<looping, dying, robbed, undefined>>

\* Connections and listeners are deleted between two calls of DispatchEvents.
\* CancelIo makes the operations under way fail; the handler is gone after that,
\* with its extensions.
IOCPDelFd(h) ==
  LET key == internal_fd[h]
      Left(c) == IF c.of # h THEN c
                 ELSE [c EXCEPT !.of = NoHandler, !.freed = c.event # "error"]
      canceled == Left(Completion(h, Awaited(h), FALSE)) IN
  /\ key # -1 /\ ~looping /\ Len(completions) < MaxCompletions
  /\ completions' =
       [i \in DOMAIN completions |-> Left(completions[i])]
         \o (IF <<h, Awaited(h)>> \in underway THEN <<canceled>> ELSE <<>>)
  /\ underway' = underway \ {<<h, Awaited(h)>>}
  /\ extensions' = {x \in extensions : x[1] # h}
  /\ ref' = [ref EXCEPT ![key] = NoHandler]
  /\ internal_fd' = [internal_fd EXCEPT ![h] = -1]
  /\ CurrentSetSize' = CurrentSetSize - 1
  /\ refused' = IF Registered(key) THEN refused ELSE refused + 1
  /\ robbed' = (robbed \/ ref[key] \notin {h, NoHandler})
  /\ dying' = dying \ {h} /\ deaf' = deaf \ {h}
  /\ UNCHANGED <<looping, undefined>>

\* A connection that AddFd refused is deleted before it writes.
IOCPWantWrite(h) ==
  /\ internal_fd[h] # -1 /\ ref[internal_fd[h]] = h
  /\ ~GetExt(h, "write")
  /\ Extend(h, "write")
  /\ Queue(Completion(h, "write", TRUE))
  /\ UNCHANGED <<tableVars, internal_fd, underway, looping, dying,
                 deaf, robbed, undefined>>

\* The kernel: an operation is over, well or not.
Complete(h) ==
  /\ <<h, Awaited(h)>> \in underway
  /\ underway' = underway \ {<<h, Awaited(h)>>}
  /\ \E ok \in BOOLEAN : Queue(Completion(h, Awaited(h), ok))
  /\ UNCHANGED <<tableVars, internal_fd, extensions, looping, dying, deaf,
                 robbed, undefined>>

-----------------------------------------------------------------------------
(* DispatchEvents.                                                          *)

Dispatching == looping /\ completions # <<>>
Next1 == Head(completions)
Reaches(event) ==
  /\ Dispatching /\ Next1.ok /\ Registered(Next1.key) /\ ~Next1.freed
  /\ Next1.event = event
Rest == Tail(completions)

StartLoop ==
  /\ ~looping /\ looping' = TRUE
  /\ UNCHANGED <<tableVars, internal_fd, extensions, underway, completions,
                 dying, deaf, robbed, undefined>>

\* Nothing came for a second; or an operation has failed, and what failed is
\* not asked.
EndLoop ==
  /\ looping /\ ~(completions # <<>> /\ Next1.ok)
  /\ looping' = FALSE
  /\ completions' = IF completions = <<>> THEN <<>> ELSE Rest
  /\ deaf' = IF completions = <<>> \/ Next1.freed THEN deaf
             ELSE deaf \cup {Next1.of}
  /\ UNCHANGED <<tableVars, internal_fd, extensions, underway, dying, robbed,
                 undefined>>

DispatchToNoOne ==
  /\ Dispatching /\ Next1.ok /\ ~Registered(Next1.key)
  /\ completions' = Rest
  /\ UNCHANGED <<tableVars, internal_fd, extensions, underway, looping, dying,
                 deaf, robbed, undefined>>

\* The Overlapped was freed with the handler that had the key before.
DispatchFreed ==
  /\ Dispatching /\ Next1.ok /\ Registered(Next1.key) /\ Next1.freed
  /\ undefined' = TRUE /\ completions' = Rest
  /\ UNCHANGED <<tableVars, internal_fd, extensions, underway, looping, dying,
                 deaf, robbed>>

DispatchWrite_KeepsItem ==
  /\ Reaches("write")
  /\ UNCHANGED extensions
  /\ completions' = Rest
  /\ UNCHANGED <<tableVars, internal_fd, underway, looping, dying,
                 deaf, robbed, undefined>>
DispatchWrite ==
  /\ Reaches("write")
  /\ Shrink(ref[Next1.key], "write")
  /\ completions' = Rest
  /\ UNCHANGED <<tableVars, internal_fd, underway, looping, dying,
                 deaf, robbed, undefined>>

\* There is something to read, and the handler is listened to again after it
\* has read it; or it is the end of the file.
DispatchRead ==
  /\ \/ Reaches("read") \/ Reaches("accept")
  /\ LET h == ref[Next1.key]
         c == Completion(h, Next1.event, TRUE) IN
     \/ Post(c, Rest)
     \/ /\ Next1.event = "read"
        /\ Shrink(h, "read")
        /\ completions' = Append(Rest, [c EXCEPT !.event = "error"])
        /\ UNCHANGED <<underway, deaf>>
  /\ UNCHANGED <<tableVars, internal_fd, looping, dying, robbed, undefined>>

DispatchError ==
  /\ Reaches("error")
  /\ dying' = dying \cup {ref[Next1.key]}
  /\ completions' = Rest
  /\ UNCHANGED <<tableVars, internal_fd, extensions, underway, looping, deaf,
                 robbed, undefined>>

\* Once freed memory was used, anything may happen; here, nothing.
CompletionNext ==
  /\ engine = "iocp" /\ ~undefined /\ UNCHANGED engine
  /\ \/ \E h \in Handlers :
          IOCPAddFd(h) \/ IOCPDelFd(h) \/ IOCPWantWrite(h) \/ Complete(h)
     \/ StartLoop \/ EndLoop \/ DispatchToNoOne \/ DispatchFreed
     \/ DispatchWrite \/ DispatchRead \/ DispatchError

-----------------------------------------------------------------------------
Live(h, events) ==
  {i \in DOMAIN completions :
     LET c == completions[i] IN c.of = h /\ c.event \in events}

\* As long as no freed Overlapped was used, and no handler has lost its place in
\* ref to one that could not be associated (socketengine_iocp.cpp:79): each
\* handler is listened to by exactly one operation, under way or over, until it
\* has been told of an error, and has a write event to come exactly when it
\* wants to write; keys are not shared, and the extensions name what is not
\* freed.  Left out are handlers whose failure nobody was told of
\* (socketengine_iocp.cpp:289).
OneOperationEach ==
  engine = "iocp" /\ ~undefined /\ ~robbed =>
  /\ \A h \in Handlers :
       /\ internal_fd[h] # -1 /\ ref[internal_fd[h]] = h =>
            /\ Cardinality({x \in underway : x[1] = h})
                 + Cardinality(Live(h, {"read", "accept", "error"}))
                 = 1 \/ h \in dying \cup deaf
            /\ Cardinality(Live(h, {"write"})) = IF GetExt(h, "write") THEN 1
                                                 ELSE 0
            /\ <<h, Awaited(h)>> \in underway => GetExt(h, Awaited(h))
       /\ \A d \in Descriptors :
            ref[d] = h => internal_fd[h] = d
  /\ CurrentSetSize + refused = Cardinality({d \in Descriptors : Registered(d)})
=============================================================================
