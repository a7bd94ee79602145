---------------------------- MODULE QueueEngines ----------------------------
(***************************************************************************)
(* The engines over kqueue (src/socketengines/socketengine_kqueue.cpp) and *)
(* over event ports (socketengine_ports.cpp).  Both ask the kernel for a   *)
(* list of events and then call the handlers one by one, so that what the  *)
(* kernel is to watch for changes while there are events left.             *)
(*                                                                         *)
(* An association with a port is gone once it is reported, an event filter *)
(* of kqueue only when it was added as one-shot.  What a handler does when *)
(* it is called is external: it adds, deletes and closes handlers, and     *)
(* wants to write, for itself or for another.                              *)
(***************************************************************************)
EXTENDS SocketEngine

CONSTANT MAX_DESCRIPTORS

VARIABLES
  interest,  \* what the kernel watches each descriptor for
  events,    \* ke_list or this->events, as far as they are left
  closing,   \* descriptors deleted from the engine that are not closed yet
  waits,     \* handlers' descriptors: WantWrite, and not told since
  late       \* history: WantWrite with a read event of its own still to come

queueVars == <<interest, events, closing, waits, late>>

KEvent(d, filter, eof) == [fd |-> d, filter |-> filter, eof |-> eof]
Reads(d) == KEvent(d, "read", FALSE)
Writes(d) == KEvent(d, "write", FALSE)
About(d) == {e \in events : e.fd = d}

QueueInit ==
  /\ interest = [d \in Descriptors |-> {}] /\ events = {}
  /\ closing = {} /\ waits = {} /\ late = {}

\* Every handler of the server is Readable(), but for the log.
Added(h) ==
  LET d == Fd(h) IN
  /\ MAX_DESCRIPTORS - CurrentSetSize > 1
  /\ ref[d] = NoHandler /\ d \notin closing
  /\ ref' = [ref EXCEPT ![d] = h]
  /\ CurrentSetSize' = CurrentSetSize + 1
  /\ interest' = [interest EXCEPT ![d] = {"read"}]
  /\ UNCHANGED <<events, closing, waits, late, refused>>

KQueueAddFd(h) == engine = "kqueue" /\ Added(h)

\* The result of port_associate is not looked at.
PortsAddFd(h) == engine = "ports" /\ Added(h)

\* EV_ADD beside the filter for reading.
KQueueWantWrite(h) ==
  LET d == Fd(h) IN
  /\ engine = "kqueue" /\ ref[d] = h
  /\ interest' = [interest EXCEPT ![d] = @ \cup {"write"}]
  /\ waits' = waits \cup {d}
  /\ UNCHANGED <<tableVars, events, closing, late>>

\* The association for writing replaces the one for reading.
PortsWantWrite(h) ==
  LET d == Fd(h) IN
  /\ engine = "ports" /\ ref[d] = h
  /\ interest' = [interest EXCEPT ![d] = {"write"}]
  /\ waits' = waits \cup {d}
  /\ late' = IF Reads(d) \in events THEN late \cup {d} ELSE late \ {d}
  /\ UNCHANGED <<tableVars, events, closing>>

Deleted(h) ==
  LET d == Fd(h) IN
  /\ CurrentSetSize' = CurrentSetSize - 1
  /\ refused' = IF ref[d] = h THEN refused ELSE refused + 1
  /\ ref' = [ref EXCEPT ![d] = NoHandler]
  /\ interest' = [interest EXCEPT ![d] = {}]
  /\ closing' = IF ref[d] = h THEN closing \cup {d} ELSE closing
  /\ waits' = waits \ {d} /\ late' = late \ {d}

\* A handler that is registered, or that AddFd has refused for its number.
MayDelete(h) ==
  \/ ref[Fd(h)] = h
  \/ /\ ref[Fd(h)] = NoHandler /\ Fd(h) \notin closing
     /\ MAX_DESCRIPTORS - CurrentSetSize <= 1

\* EV_DELETE of both filters: it fails, and nothing changes, if the kernel
\* knows neither of them.
KQueueDelFd(h) ==
  /\ engine = "kqueue" /\ MayDelete(h)
  /\ interest[Fd(h)] # {}
  /\ Deleted(h)
  /\ UNCHANGED events

\* Nor is that of port_dissociate.
PortsDelFd(h) ==
  /\ engine = "ports" /\ MayDelete(h)
  /\ Deleted(h)
  /\ UNCHANGED events

\* The owner closes the descriptor: at once, or when the cull list is applied
\* after the events if a write event may be about it.
CloseFd(d) ==
  /\ d \in closing /\ Writes(d) \notin events
  /\ closing' = closing \ {d}
  /\ interest' = [interest EXCEPT ![d] = {}]
  /\ UNCHANGED <<tableVars, events, waits, late>>

-----------------------------------------------------------------------------
\* Any of the filters may have fired, with EV_EOF or without.
KQueueDispatchEvents ==
  /\ engine = "kqueue" /\ events = {}
  /\ \E read, write \in SUBSET Descriptors, eof \in [Descriptors -> BOOLEAN] :
       /\ \A d \in read : "read" \in interest[d]
       /\ \A d \in write : "write" \in interest[d]
       /\ events' = {KEvent(d, "read", eof[d]) : d \in read}
                      \cup {KEvent(d, "write", eof[d]) : d \in write}
       /\ interest' = [d \in Descriptors |-> IF d \in write
                                        THEN interest[d] \ {"write"}
                                        ELSE interest[d]]
  /\ UNCHANGED <<tableVars, closing, waits, late>>

\* An event without POLLRDNORM is an event for writing, POLLERR and POLLHUP
\* among them.
PortsDispatchEvents ==
  /\ engine = "ports" /\ events = {}
  /\ \E read, other \in SUBSET {d \in Descriptors : interest[d] # {}} :
       /\ read \cap other = {}
       /\ \A d \in read : "read" \in interest[d]
       /\ events' = {Reads(d) : d \in read} \cup {Writes(d) : d \in other}
       /\ interest' = [d \in Descriptors |-> IF d \in read \cup other THEN {}
                                        ELSE interest[d]]
  /\ UNCHANGED <<tableVars, closing, waits, late>>


\* EVENT_ERROR on EV_EOF; else a one-shot event, whose flags are not zero, is
\* one for writing, and reading is asked for again before ref is looked at.
KQueueDispatch(e) ==
  /\ engine = "kqueue" /\ e \in events
  /\ events' = events \ {e}
  /\ interest' = IF e.filter = "write" /\ ~e.eof
                 THEN [interest EXCEPT ![e.fd] = @ \cup {"read"}]
                 ELSE interest
  /\ IF Registered(e.fd) /\ (e.eof \/ e.filter = "write")
     THEN waits' = waits \ {e.fd}
     ELSE UNCHANGED waits
  /\ UNCHANGED <<tableVars, closing, late>>

PortsDispatch_NotAgain(e) ==
  /\ engine = "ports" /\ e \in events
  /\ events' = events \ {e}
  /\ UNCHANGED interest
  /\ IF Registered(e.fd) /\ e.filter = "write"
     THEN waits' = waits \ {e.fd} /\ late' = late \ {e.fd}
     ELSE UNCHANGED <<waits, late>>
  /\ UNCHANGED <<tableVars, closing>>
\* Associated again for reading, whatever the association was for by now.
PortsDispatch(e) ==
  /\ engine = "ports" /\ e \in events
  /\ events' = events \ {e}
  /\ interest' = IF Registered(e.fd)
                 THEN [interest EXCEPT ![e.fd] = {"read"}] ELSE interest
  /\ IF Registered(e.fd) /\ e.filter = "write"
     THEN waits' = waits \ {e.fd} /\ late' = late \ {e.fd}
     ELSE UNCHANGED <<waits, late>>
  /\ UNCHANGED <<tableVars, closing>>

QueueNext ==
  /\ UNCHANGED engine
  /\ \/ \E h \in Handlers :
          \/ KQueueAddFd(h) \/ PortsAddFd(h)
          \/ KQueueWantWrite(h) \/ PortsWantWrite(h)
          \/ KQueueDelFd(h) \/ PortsDelFd(h)
     \/ \E d \in Descriptors : CloseFd(d)
     \/ KQueueDispatchEvents \/ PortsDispatchEvents
     \/ \E e \in events : KQueueDispatch(e) \/ PortsDispatch(e)

-----------------------------------------------------------------------------
\* Between the table and the kernel: no handler goes deaf, and none that wants
\* to write is forgotten, whoever is added and deleted while events are left.
\* One order is the code's own flaw: with event ports, a wish that comes while
\* a read event of the same handler is left is overwritten when that event is
\* dispatched (socketengine_ports.cpp:114).
WishesAreHeard ==
  engine \in {"kqueue", "ports"} =>
  /\ \A d \in Descriptors :
       /\ Registered(d) =>
            /\ Fd(ref[d]) = d
            /\ "read" \in interest[d] \/ engine = "ports"
            /\ interest[d] # {} \/ About(d) # {}
            /\ d \in waits \ late =>
                 \/ "write" \in interest[d]
                 \/ \E e \in About(d) : e.filter = "write" \/ e.eof
       /\ interest[d] # {} => Registered(d) \/ d \in closing
  /\ CurrentSetSize + refused = Cardinality({d \in Descriptors : Registered(d)})
=============================================================================
