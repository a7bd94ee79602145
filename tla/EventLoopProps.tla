-------------------------- MODULE EventLoopProps --------------------------
(***************************************************************************)
(* The properties of EventLoop.                                            *)
(***************************************************************************)
EXTENDS EventLoop

\* The values of the list.
Culled == {list[i] : i \in 1 .. Len(list)}

\* Every variable has its type.
TypeOK ==
  /\ owner \in [Fds -> Handlers \cup {NULL}]
  /\ ref \in [Fds -> Handlers \cup {NULL}]
  /\ watched \subseteq Fds
  /\ CurrentSetSize \in Nat
  /\ batch \subseteq Event
  /\ backlog \in [Listeners -> 0 .. MaxBacklog]
  /\ s_signal \in {"none", "SIGHUP", "SIGTERM"}
  /\ pc \in {"Scan", "Poll", "Dispatch", "Accept", "Handle", "Unwind", "Apply",
             "Signals", "ClearSignal"} \cup Ended
  /\ running \in Handlers \cup {NULL}
  /\ ShuttingDown \in BOOLEAN
  /\ ports \subseteq Listeners
  /\ local_connections \subseteq Connections /\ quitting \subseteq Connections
  /\ list \in Seq(Connections)
  /\ alive \subseteq Handlers
  /\ fd \in [Handlers -> Fds \cup {-1}]
  /\ CGIRequests \in [Connections -> Pipes \cup {NULL}]
  /\ parent \in [Pipes -> Connections \cup {NULL}]

\* The engine's table, the kernel's epoll set and the handlers agree: a handler
\* in the table is an object that exists, it owns the descriptor it is filed
\* under, and the kernel reports that descriptor.  A handler deleted without
\* DelFd, or a descriptor closed before DelFd, would leave a dangling pointer
\* (socketengine_epoll.cpp:41-108).
RefsAreOwners ==
  \A f \in Fds :
    /\ (ref[f] # NULL) <=> (f \in watched)
    /\ f \in watched => /\ ref[f] = owner[f]
                        /\ owner[f] \in alive
                        /\ fd[owner[f]] = f

\* CurrentSetSize, which GetRemainingFds subtracts from the size of the table,
\* counts the table's entries and never fills it.
SetSizeExact ==
  /\ CurrentSetSize = Cardinality(watched)
  /\ CurrentSetSize < MaxDescriptors

EngineConsistent == pc \notin Ended => RefsAreOwners /\ SetSizeExact

\* No descriptor outlives its handler and no handler its descriptor: the
\* kernel holds a descriptor open for h exactly when h knows it, and h exists,
\* so that its end will close that descriptor and no other
\* (cull_list.cpp:42-51, socket.cpp:39-49, m_cgi.cpp:34-39).
DescriptorsOwned ==
  /\ \A f \in Fds, h \in Handlers : owner[f] = h <=> fd[h] = f
  /\ \A h \in Handlers : fd[h] # -1 => h \in alive

NoDescriptorLeak == pc \notin Ended => DescriptorsOwned

\* The cull list holds each connection that is quitting once and no other:
\* Delete may be called for the same connection by the timeouts, by its events
\* and by the errors within them, and Apply must free it exactly once
\* (cull_list.cpp:24-31).
CulledOnce ==
  /\ Culled = quitting
  /\ \A i, j \in 1 .. Len(list) : list[i] = list[j] => i = j
  /\ quitting \subseteq local_connections

\* A connection lives as long as it is in local_connections, and until it is
\* quitting the engine watches it (connectionmanager.cpp:36-43).
ConnectionsWatched ==
  pc \notin Ended =>
    /\ alive \cap Connections = local_connections
    /\ \A c \in local_connections \ quitting :
         fd[c] \in watched /\ ref[fd[c]] = c

\* Accepting in a loop never passes the limits (socket.cpp:83-97).
LimitRespected ==
  /\ Cardinality(local_connections) <= SoftLimit
  /\ local_connections # {} => Cardinality(local_connections) < MaxClients

\* "EVENT_ERROR ... indicates a write error or read error on the socket"
\* (socketengine.h:26-28): an event reported for a descriptor that has been
\* closed since is dropped, and not given to whoever got the same number.
EventsReachTheirOwner ==
  \A e \in batch : e.stale => ref[e.fd] = NULL

\* "we close all listeners, and shut down when we can" (server.cpp:48-49): a
\* graceful shutdown ends without deleting a listener twice.
ShutdownIsClean == pc # "crashed"

\* Once it shuts down the server takes nobody new, even with connections in
\* the listeners' backlogs when the signal came (server.cpp:53-62).
NobodyNewAfterShutdown ==
  [][ShuttingDown => local_connections' \subseteq local_connections]_vars

\* Whoever is put on the cull list is freed in the same pass of the loop:
\* however many events are left, Apply comes (inspircd.cpp:591-594).
DeletedAreReaped ==
  \A c \in Connections : c \in quitting ~> (c \notin quitting \/ pc \in Ended)

\* A graceful shutdown comes to its end, because every connection's lifetime
\* is bounded (inspircd.cpp:524-535, 555-556).
ShutdownCompletes == ShuttingDown ~> pc \in Ended

\* SIGTERM ends the process unless another signal, or the reset of the slot
\* after an earlier signal, wipes it out first (inspircd.cpp:596-600).
SigTermEnds == s_signal = "SIGTERM" ~> (s_signal # "SIGTERM" \/ pc \in Ended)
=============================================================================
