----------------------------- MODULE EventLoop -----------------------------
(***************************************************************************)
(* The server around its connections: the loop of inspircd.cpp, the        *)
(* listeners of socket.cpp, the table of the epoll engine, the connection  *)
(* manager and its cull list, the signals of server.cpp, and the pipes     *)
(* that m_cgi reads its scripts' output from.                              *)
(*                                                                         *)
(* What is kept is who owns which descriptor, and when.  A handler of the  *)
(* engine (ListenSocket, Connection or CGIRequest) is the value of its     *)
(* address: one deleted may come back as another, as the allocator may     *)
(* return the same block, and a descriptor closed may be given out again   *)
(* by the next accept() or pipe().  What a connection does with its data   *)
(* is HttpConnection's: here an event makes it go on, end, flush its       *)
(* buffer or take a request for a script.                                  *)
(*                                                                         *)
(* One pass of the loop is                                                 *)
(*                                                                         *)
(*   Scan -> Poll -> Dispatch <-> Accept, Handle -> Apply -> Signals       *)
(*                                                                         *)
(* with one action per loop iteration of the code.  Clients and signals    *)
(* come between any two of them.                                           *)
(***************************************************************************)
EXTENDS Integers, Sequences, FiniteSets

CONSTANTS
  Listeners,       \* the ListenSockets that BindPorts put in Config->ports
  Connections,     \* the addresses a Connection may have
  Pipes,           \* the addresses a CGIRequest may have
  NULL,
  Fds,             \* the descriptors the kernel may give this process
  MaxDescriptors,  \* MAX_DESCRIPTORS, the size of ref
  SoftLimit,       \* Config->SoftLimit
  MaxClients,      \* MAXCLIENTS
  MaxDynamic,      \* Config->MaximumDynamicProcesses; 0: no script is run
  MaxBacklog,      \* bound: clients waiting on one listener
  Sent             \* the signals the process may be sent

Handlers == Listeners \cup Connections \cup Pipes

ASSUME HandlersAssumption ==
  /\ IsFiniteSet(Listeners) /\ IsFiniteSet(Connections)
  /\ Listeners \cap Connections = {}
  /\ Pipes \cap (Listeners \cup Connections) = {}
  /\ NULL \notin Handlers
ASSUME FdsAssumption == Fds \subseteq Nat /\ IsFiniteSet(Fds)
\* The loop starts with every listener in the engine.
ASSUME StartupAssumption ==
  /\ MaxDescriptors \in Nat /\ Cardinality(Listeners) < MaxDescriptors
  /\ Cardinality(Listeners) <= Cardinality({f \in Fds : f < MaxDescriptors})
\* The allocator never runs out before accept() is refused.
ASSUME LimitAssumption ==
  /\ SoftLimit \in Nat /\ MaxClients \in Nat /\ MaxBacklog \in Nat
  /\ SoftLimit <= Cardinality(Connections)
  /\ MaxDynamic \in Nat
ASSUME SignalsAssumption == Sent \subseteq {"SIGHUP", "SIGTERM"}

VARIABLES
  \* the kernel
  owner,             \* [Fds -> who opened the descriptor, NULL if closed]
  watched,           \* the descriptors in the epoll set
  backlog,           \* [Listeners -> clients waiting to be accepted]
  s_signal,          \* "none", "SIGHUP" or "SIGTERM"
  \* the engine
  ref,               \* [Fds -> handler or NULL]
  CurrentSetSize,
  batch,             \* [fd, event, stale]: reported and not yet dispatched
  \* the server
  pc,
  running,           \* the handler whose HandleEvent runs, or NULL
  ShuttingDown,
  ports,             \* Config->ports
  local_connections,
  list,              \* GlobalCulls' list
  \* the objects
  alive,             \* the handlers that have not been deleted
  fd,                \* [Handlers -> Fds \cup {-1}]
  quitting,          \* the connections whose quitting is set
  \* m_cgi
  CGIRequests,       \* [Connections -> CGIRequest or NULL]
  parent             \* [Pipes -> the connection a CGIRequest answers]

kernelVars == <<owner, watched, backlog, s_signal>>
engineVars == <<ref, CurrentSetSize, batch>>
serverVars == <<pc, running, ShuttingDown, ports, local_connections, list>>
objectVars == <<alive, fd, quitting>>
cgiVars    == <<CGIRequests, parent>>
vars == <<kernelVars, engineVars, serverVars, objectVars, cgiVars>>

Ended == {"exited", "crashed"}
Event == [fd : Fds, event : {"IO", "ERROR"}, stale : BOOLEAN]

\* BindPorts has run: every port's listener has a descriptor and is watched.
Init ==
  /\ alive = Listeners /\ ports = Listeners
  /\ \E f \in [Listeners -> {n \in Fds : n < MaxDescriptors}] :
       /\ \A l, k \in Listeners : f[l] = f[k] => l = k
       /\ fd = [h \in Handlers |-> IF h \in Listeners THEN f[h] ELSE -1]
       /\ owner = [n \in Fds |-> IF \E l \in Listeners : f[l] = n
                                   THEN CHOOSE l \in Listeners : f[l] = n
                                   ELSE NULL]
       /\ watched = {f[l] : l \in Listeners}
  /\ ref = owner
  /\ CurrentSetSize = Cardinality(Listeners)
  /\ backlog = [l \in Listeners |-> 0]
  /\ s_signal = "none" /\ ShuttingDown = FALSE
  /\ batch = {} /\ list = <<>> /\ quitting = {} /\ local_connections = {}
  /\ pc = "Scan" /\ running = NULL
  /\ CGIRequests = [c \in Connections |-> NULL]
  /\ parent = [p \in Pipes |-> NULL]

-----------------------------------------------------------------------------
(* The clients and the operator.                                            *)

ClientConnects(l) ==
  /\ pc \notin Ended
  /\ l \in alive /\ backlog[l] < MaxBacklog
  /\ backlog' = [backlog EXCEPT ![l] = @ + 1]
  /\ UNCHANGED <<owner, watched, s_signal, engineVars, serverVars, objectVars,
                 cgiVars>>

\* A client gives up before it is accepted.
ClientAborts(l) ==
  /\ pc \notin Ended
  /\ backlog[l] > 0
  /\ backlog' = [backlog EXCEPT ![l] = @ - 1]
  /\ UNCHANGED <<owner, watched, s_signal, engineVars, serverVars, objectVars,
                 cgiVars>>

\* InspIRCd::SetSignal: one slot, and the last signal wins.
SetSignal(s) ==
  /\ pc \notin Ended
  /\ s_signal' = s
  /\ UNCHANGED <<owner, watched, backlog, engineVars, serverVars, objectVars,
                 cgiVars>>

-----------------------------------------------------------------------------
(* The engine.  close() takes a descriptor out of the epoll set, but not    *)
(* the events that epoll_wait has already returned for it.                  *)

Stale(events, closed) ==
  {[e EXCEPT !.stale = @ \/ e.fd \in closed] : e \in events}

\* DelFd, which leaves the table alone when epoll_ctl does not know the
\* descriptor, and then close(), for the handlers H, while events wait to be
\* dispatched.
CloseHandlers_NoDelFd(H, events) ==
  LET closed == {fd[h] : h \in H} \cap Fds IN
    /\ owner' = [f \in Fds |-> IF f \in closed THEN NULL ELSE owner[f]]
    /\ watched' = watched \ closed
    /\ batch' = Stale(events, closed)
    /\ fd' = [h \in Handlers |-> IF h \in H THEN -1 ELSE fd[h]]
    /\ UNCHANGED <<ref, CurrentSetSize>>
CloseHandlers_NoClose(H, events) ==
  LET closed == {fd[h] : h \in H} \cap watched IN
    /\ ref' = [f \in Fds |-> IF f \in closed THEN NULL ELSE ref[f]]
    /\ CurrentSetSize' = CurrentSetSize - Cardinality(closed)
    /\ watched' = watched \ closed
    /\ fd' = [h \in Handlers |-> IF h \in H THEN -1 ELSE fd[h]]
    /\ batch' = events /\ UNCHANGED owner
CloseHandlers(H, events) ==
  LET closed == {fd[h] : h \in H} \cap Fds IN
    /\ owner' = [f \in Fds |-> IF f \in closed THEN NULL ELSE owner[f]]
    /\ ref' = [f \in Fds |-> IF f \in closed \cap watched THEN NULL
                                                            ELSE ref[f]]
    /\ CurrentSetSize' = CurrentSetSize - Cardinality(closed \cap watched)
    /\ watched' = watched \ closed
    /\ batch' = Stale(events, closed)
    /\ fd' = [h \in Handlers |-> IF h \in H THEN -1 ELSE fd[h]]

\* AddFd's three reasons to refuse; GetRemainingFds is the second.
AddFdRefuses(f) ==
  \/ f > MaxDescriptors
  \/ MaxDescriptors - CurrentSetSize <= 1
  \/ ref[f] # NULL

\* ConnectionManager::Delete on CullList::AddItem.
AddItem_Again(c) == list' = Append(list, c)
AddItem_FlaggedFirst(c) == list' = list
AddItem(c) == list' = IF c \in quitting THEN list ELSE Append(list, c)
Delete(c) == AddItem(c) /\ quitting' = quitting \cup {c}

-----------------------------------------------------------------------------
(* The loop.                                                                *)

\* One connection of the scan for those that are too old or too idle.
TimesOut(c) ==
  /\ pc = "Scan"
  /\ c \in local_connections
  /\ Delete(c)
  /\ UNCHANGED <<kernelVars, engineVars, pc, running, ShuttingDown, ports,
                 local_connections, alive, fd, cgiVars>>

EndScan ==
  /\ pc = "Scan"
  /\ pc' = "Poll"
  /\ UNCHANGED <<kernelVars, engineVars, running, ShuttingDown, ports,
                 local_connections, list, objectVars, cgiVars>>

\* Exit and Cleanup.  Config->ports is deleted and cleared and every socket
\* is closed.  To delete a listener a second time is undefined: the process
\* dies of it, or does not.
Exit ==
  /\ \/ pc' = "exited"
     \/ ports \ alive # {} /\ pc' = "crashed"
  /\ ports' = {}
  /\ alive' = alive \ ports
  /\ owner' = [f \in Fds |-> NULL] /\ watched' = {} /\ batch' = {}
  /\ UNCHANGED <<backlog, s_signal, ref, CurrentSetSize, running, list,
                 ShuttingDown, local_connections, fd, quitting, cgiVars>>

\* Once a second: everyone has gone after a graceful shutdown.
ExitDrained ==
  /\ pc = "Scan"
  /\ ShuttingDown /\ local_connections = {}
  /\ Exit

\* epoll_wait: every listener with a client, and any of the others, ready.
Poll ==
  /\ pc = "Poll"
  /\ \E ready \in SUBSET {f \in watched : owner[f] \notin Listeners} :
     \E failed \in SUBSET ready :
       batch' = {[fd |-> f, event |-> IF f \in failed THEN "ERROR" ELSE "IO",
                  stale |-> FALSE] :
                 f \in ready \cup {f \in watched : owner[f] \in Listeners
                                                  /\ backlog[owner[f]] > 0}}
  /\ pc' = "Dispatch"
  /\ UNCHANGED <<kernelVars, ref, CurrentSetSize, running, ShuttingDown,
                 ports, local_connections, list, objectVars, cgiVars>>

\* An event whose descriptor has no handler any more is dropped.
DispatchToNobody(e) ==
  /\ pc = "Dispatch" /\ e \in batch
  /\ ref[e.fd] = NULL
  /\ batch' = batch \ {e}
  /\ UNCHANGED <<kernelVars, ref, CurrentSetSize, serverVars, objectVars,
                 cgiVars>>

DispatchToListener(e) ==
  /\ pc = "Dispatch" /\ e \in batch
  /\ ref[e.fd] \in Listeners
  /\ batch' = batch \ {e}
  /\ pc' = "Accept" /\ running' = ref[e.fd]
  /\ UNCHANGED <<kernelVars, ref, CurrentSetSize, ShuttingDown, ports,
                 local_connections, list, objectVars, cgiVars>>

\* Connection::HandleEvent.
DispatchToConnection(e) ==
  /\ pc = "Dispatch" /\ e \in batch
  /\ ref[e.fd] \in Connections
  /\ batch' = batch \ {e}
  /\ IF e.event = "ERROR"
       THEN Delete(ref[e.fd]) /\ UNCHANGED <<pc, running>>
       ELSE /\ pc' = "Handle" /\ running' = ref[e.fd]
            /\ UNCHANGED <<list, quitting>>
  /\ UNCHANGED <<kernelVars, ref, CurrentSetSize, ShuttingDown, ports,
                 local_connections, alive, fd, cgiVars>>

EndDispatch ==
  /\ pc = "Dispatch" /\ batch = {}
  /\ pc' = "Apply"
  /\ UNCHANGED <<kernelVars, engineVars, running, ShuttingDown, ports,
                 local_connections, list, objectVars, cgiVars>>

-----------------------------------------------------------------------------
(* What a connection does in an event, its own or that of its script's pipe. *)

conn == IF running \in Pipes THEN parent[running] ELSE running

\* The handler returns.  If what it did deleted it, it runs in freed memory.
Return ==
  /\ pc \in {"Handle", "Unwind"}
  /\ running' = NULL
  /\ \/ pc' = "Dispatch"
     \/ running \notin alive /\ pc' = "crashed"
  /\ UNCHANGED <<kernelVars, engineVars, ShuttingDown, ports,
                 local_connections, list, objectVars, cgiVars>>

\* A failed read or write, or the last request's end.
Fails ==
  /\ pc \in {"Handle", "Unwind"}
  /\ Delete(conn)
  /\ pc' = "Unwind"
  /\ UNCHANGED <<kernelVars, engineVars, running, ShuttingDown, ports,
                 local_connections, alive, fd, cgiVars>>

\* FlushWriteBuf has emptied sendq: m_cgi takes it that the script's response
\* is what has been sent, and deletes the CGIRequest.
OnBufferFlushed ==
  /\ pc = "Handle"
  /\ CGIRequests[conn] # NULL
  /\ CloseHandlers({CGIRequests[conn]}, batch)
  /\ alive' = alive \ {CGIRequests[conn]}
  /\ CGIRequests' = [CGIRequests EXCEPT ![conn] = NULL]
  /\ UNCHANGED <<backlog, s_signal, serverVars, quitting, parent>>

\* The head of a request for a script is complete: CGIRequest p is made for
\* pipe f.  The connection stays in HTTP_WAIT_REQUEST, so the head of another
\* may be completed while the script runs, but not while its response waits
\* in sendq, unless the response is empty and its own Close ended the
\* request.  When AddFd refuses p, it is deleted again and nothing is sent.
OnPreRequest(p, f) ==
  /\ pc = "Handle"
  /\ conn \notin quitting
  /\ CGIRequests[conn] # NULL /\ running \notin Pipes
       => fd[CGIRequests[conn]] # -1
  /\ Cardinality(alive \cap Pipes) < MaxDynamic
  /\ p \notin alive /\ owner[f] = NULL
  /\ ~AddFdRefuses(f)
  /\ owner' = [owner EXCEPT ![f] = p]
  /\ alive' = alive \cup {p}
  /\ fd' = [fd EXCEPT ![p] = f]
  /\ parent' = [parent EXCEPT ![p] = conn]
  /\ CGIRequests' = [CGIRequests EXCEPT ![conn] = p]
  /\ watched' = watched \cup {f}
  /\ ref' = [ref EXCEPT ![f] = p]
  /\ CurrentSetSize' = CurrentSetSize + 1
  /\ pc' = "Unwind"
  /\ UNCHANGED <<backlog, s_signal, batch, running, ShuttingDown, ports,
                 local_connections, list, quitting>>

\* CGIRequest::HandleEvent.  Output is kept in rbuf.  The end of it (EPOLLHUP)
\* closes the pipe and gives the connection its response; if that connection
\* is gone, freed memory gets it.
DispatchToPipe(e) ==
  /\ pc = "Dispatch" /\ e \in batch
  /\ ref[e.fd] \in Pipes
  /\ IF e.event = "IO"
       THEN /\ batch' = batch \ {e}
            /\ UNCHANGED <<owner, watched, ref, CurrentSetSize, fd, pc,
                           running>>
       ELSE LET p == ref[e.fd] IN
            /\ CloseHandlers({p}, batch \ {e})
            /\ IF parent[p] \in alive
                 THEN pc' = "Handle" /\ running' = p
                 ELSE pc' \in {"Dispatch", "crashed"} /\ UNCHANGED running
  /\ UNCHANGED <<backlog, s_signal, ShuttingDown, ports, local_connections,
                 list, alive, quitting, cgiVars>>

-----------------------------------------------------------------------------
(* ListenSocket::HandleEvent, one iteration of its loop.                    *)

Full_OffByOne ==
  \/ Cardinality(local_connections) > SoftLimit
  \/ Cardinality(local_connections) + 1 >= MaxClients
Full ==
  \/ Cardinality(local_connections) + 1 > SoftLimit
  \/ Cardinality(local_connections) + 1 >= MaxClients

\* The server is full, or accept() has nobody or no descriptor left to give.
EndAccept ==
  /\ pc = "Accept"
  /\ \/ Full
     \/ backlog[running] = 0
     \/ \A f \in Fds : owner[f] # NULL
  /\ pc' = "Dispatch" /\ running' = NULL
  /\ UNCHANGED <<kernelVars, engineVars, ShuttingDown, ports,
                 local_connections, list, objectVars, cgiVars>>

\* accept() gives descriptor f, which the table has no place for: it is
\* closed, and the loop left.
AcceptOutOfRange(f) ==
  /\ pc = "Accept" /\ ~Full
  /\ backlog[running] > 0 /\ owner[f] = NULL
  /\ f >= MaxDescriptors
  /\ backlog' = [backlog EXCEPT ![running] = @ - 1]
  /\ pc' = "Dispatch" /\ running' = NULL
  /\ UNCHANGED <<owner, watched, s_signal, engineVars, ShuttingDown, ports,
                 local_connections, list, objectVars, cgiVars>>

\* getsockname() fails: the client is dropped, and the loop goes on.
AcceptUnnamed(f) ==
  /\ pc = "Accept" /\ ~Full
  /\ backlog[running] > 0 /\ owner[f] = NULL
  /\ f < MaxDescriptors
  /\ backlog' = [backlog EXCEPT ![running] = @ - 1]
  /\ UNCHANGED <<owner, watched, s_signal, engineVars, serverVars, objectVars,
                 cgiVars>>

\* A new connection that AddFd has refused.
Refused_Kept(c) == UNCHANGED <<list, quitting>>
Refused(c) == Delete(c)

\* ConnectionManager::Add of a Connection at address c: it joins
\* local_connections before AddFd, and is deleted again when AddFd refuses.
Add(c, f) ==
  /\ pc = "Accept" /\ ~Full
  /\ backlog[running] > 0 /\ owner[f] = NULL
  /\ f < MaxDescriptors
  /\ c \notin alive
  /\ backlog' = [backlog EXCEPT ![running] = @ - 1]
  /\ owner' = [owner EXCEPT ![f] = c]
  /\ alive' = alive \cup {c}
  /\ fd' = [fd EXCEPT ![c] = f]
  /\ local_connections' = local_connections \cup {c}
  /\ IF AddFdRefuses(f)
       THEN Refused(c) /\ UNCHANGED <<watched, ref, CurrentSetSize>>
       ELSE /\ watched' = watched \cup {f}
            /\ ref' = [ref EXCEPT ![f] = c]
            /\ CurrentSetSize' = CurrentSetSize + 1
            /\ UNCHANGED <<list, quitting>>
  /\ UNCHANGED <<s_signal, batch, pc, running, ShuttingDown, ports, cgiVars>>

-----------------------------------------------------------------------------
(* CullList::Apply, one connection at a time.                               *)

\* m_cgi's OnConnectionDisconnect deletes the CGIRequest first.
Cull ==
  /\ pc = "Apply" /\ list # <<>>
  /\ LET c == Head(list)
         gone == {c, CGIRequests[c]} \ {NULL} IN
       /\ CloseHandlers(gone, batch)
       /\ alive' = alive \ gone
       /\ local_connections' = local_connections \ {c}
       /\ quitting' = quitting \ {c}
       /\ CGIRequests' = [CGIRequests EXCEPT ![c] = NULL]
  /\ list' = Tail(list)
  /\ UNCHANGED <<backlog, s_signal, pc, running, ShuttingDown, ports, parent>>

\* s_signal is looked at once a pass, when the list is empty.
AfterApply_HupOnly == IF s_signal # "SIGHUP" THEN "Scan" ELSE "Signals"
AfterApply == IF s_signal = "none" THEN "Scan" ELSE "Signals"

EndApply ==
  /\ pc = "Apply" /\ list = <<>>
  /\ pc' = AfterApply
  /\ UNCHANGED <<kernelVars, engineVars, running, ShuttingDown, ports,
                 local_connections, list, objectVars, cgiVars>>

-----------------------------------------------------------------------------
(* SignalHandler.                                                           *)

\* The listeners GracefulShutdown closes: all of them.
Closing_Idle == {l \in ports : backlog[l] = 0}
Closing == ports

\* GracefulShutdown deletes the listeners but leaves them in Config->ports.
\* A second one deletes them again, which is undefined.  Those who waited in
\* a closed listener's backlog are refused.
GracefulShutdown ==
  /\ pc = "Signals" /\ s_signal = "SIGHUP"
  /\ alive' = alive \ Closing
  /\ CloseHandlers(Closing, batch)
  /\ backlog' = [l \in Listeners |-> IF l \in Closing THEN 0 ELSE backlog[l]]
  /\ ShuttingDown' = TRUE
  /\ \/ pc' = "ClearSignal"
     \/ ports \ alive # {} /\ pc' = "crashed"
  /\ UNCHANGED <<s_signal, running, ports, local_connections, list, quitting,
                 cgiVars>>

ExitOnSignal ==
  /\ pc = "Signals" /\ s_signal = "SIGTERM"
  /\ Exit

\* s_signal = 0, whatever has come since it was looked at.
ClearSignal ==
  /\ pc = "ClearSignal"
  /\ s_signal' = "none"
  /\ pc' = "Scan"
  /\ UNCHANGED <<owner, watched, backlog, engineVars, running, ShuttingDown,
                 ports, local_connections, list, objectVars, cgiVars>>

-----------------------------------------------------------------------------
Environment ==
  \/ \E l \in Listeners : ClientConnects(l) \/ ClientAborts(l)
  \/ \E s \in Sent : SetSignal(s)

Dispatch ==
  \/ \E e \in batch : \/ DispatchToNobody(e)
                      \/ DispatchToListener(e)
                      \/ DispatchToConnection(e)
                      \/ DispatchToPipe(e)
  \/ EndDispatch

Handle ==
  \/ Return \/ Fails \/ OnBufferFlushed
  \/ \E p \in Pipes, f \in Fds : OnPreRequest(p, f)

Accept ==
  \/ EndAccept
  \/ \E f \in Fds : AcceptOutOfRange(f) \/ AcceptUnnamed(f)
  \/ \E f \in Fds, c \in Connections : Add(c, f)

Signals == GracefulShutdown \/ ExitOnSignal \/ ClearSignal

Server ==
  \/ \E c \in Connections : TimesOut(c)
  \/ EndScan \/ ExitDrained
  \/ Poll
  \/ Dispatch \/ Handle
  \/ Accept
  \/ Cull \/ EndApply
  \/ Signals

\* The process that has ended stays so.
Stopped == pc \in Ended /\ UNCHANGED vars

Next == Environment \/ Server \/ Stopped

Spec == Init /\ [][Next]_vars

\* The loop goes on whatever clients do; every connection reaches its total
\* lifetime, and TIME moves on at least once a second, so the two tests of
\* the scan come true again and again until they are acted on.  getsockname
\* does not fail for ever.
Fairness ==
  /\ WF_vars(EndScan) /\ WF_vars(Poll) /\ WF_vars(Dispatch)
  /\ WF_vars(Return)
  /\ WF_vars(EndAccept \/ \E f \in Fds : AcceptOutOfRange(f))
  /\ SF_vars(\E f \in Fds, c \in Connections : Add(c, f))
  /\ WF_vars(Cull \/ EndApply) /\ WF_vars(Signals)
  /\ SF_vars(ExitDrained)
  /\ \A c \in Connections : SF_vars(TimesOut(c))
LiveSpec == Spec /\ Fairness
=============================================================================
