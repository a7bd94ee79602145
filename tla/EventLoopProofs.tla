-------------------------- MODULE EventLoopProofs --------------------------
(***************************************************************************)
(* Theorems about EventLoop, for every value of its constants.             *)
(***************************************************************************)
EXTENDS EventLoopProps, FiniteSetTheorems, FunctionTheorems,
        SequenceTheorems, TLAPS

\* Who a handler runs for.
RunningOK ==
  /\ pc \in {"Handle", "Unwind"} => conn \in Connections
  /\ pc = "Accept" => running \in Listeners

\* What the engine, the kernel and the handlers agree on.
EngineOK == RefsAreOwners /\ SetSizeExact /\ DescriptorsOwned

\* The inductive invariant.
IInv == TypeOK /\ RunningOK /\ (pc \notin Ended => EngineOK)

USE DEF vars, kernelVars, engineVars, serverVars, objectVars, cgiVars

\* The types of what CloseHandlers, Add and OnPreRequest change.
EngineTypes ==
  /\ owner \in [Fds -> Handlers \cup {NULL}]
  /\ ref \in [Fds -> Handlers \cup {NULL}]
  /\ watched \subseteq Fds
  /\ CurrentSetSize \in Nat
  /\ alive \subseteq Handlers
  /\ fd \in [Handlers -> Fds \cup {-1}]

LEMMA Finite == IsFiniteSet(Fds) /\ Fds \subseteq Nat /\ NULL \notin Handlers
BY FdsAssumption, HandlersAssumption

LEMMA WatchedFinite ==
  ASSUME EngineTypes
  PROVE  IsFiniteSet(watched) /\ Cardinality(watched) \in Nat
<1>1. watched \subseteq Fds
  BY DEF EngineTypes
<1>2. IsFiniteSet(watched)
  BY <1>1, Finite, FS_Subset
<1> QED BY <1>2, FS_CardinalityType

-----------------------------------------------------------------------------
(* A batch.                                                                 *)

LEMMA StaleType ==
  ASSUME NEW events \in SUBSET Event, NEW closed
  PROVE  Stale(events, closed) \subseteq Event
<1> SUFFICES ASSUME NEW e \in events
             PROVE  [e EXCEPT !.stale = @ \/ e.fd \in closed] \in Event
  BY DEF Stale
<1>1. e \in Event
  OBVIOUS
<1>2. PICK b \in BOOLEAN : b = (e.stale \/ e.fd \in closed)
  OBVIOUS
<1>3. [e EXCEPT !.stale = b] \in Event
  BY <1>1 DEF Event
<1> QED BY <1>2, <1>3

-----------------------------------------------------------------------------
(* Handlers close their descriptors.                                        *)

\* DelFd and close for any handlers keep the table, the epoll set and the
\* descriptors in agreement, if only those handlers are deleted.
LEMMA CloseHandlersKeeps ==
  ASSUME NEW H \in SUBSET Handlers, NEW events,
         EngineTypes, EngineOK, CloseHandlers(H, events),
         alive \ H \subseteq alive', alive' \subseteq Handlers
  PROVE  EngineTypes' /\ EngineOK'
<1> DEFINE closed == {fd[h] : h \in H} \cap Fds
<1>1. /\ owner' = [f \in Fds |-> IF f \in closed THEN NULL ELSE owner[f]]
      /\ ref' = [f \in Fds |-> IF f \in closed \cap watched THEN NULL
                                                            ELSE ref[f]]
      /\ CurrentSetSize' = CurrentSetSize - Cardinality(closed \cap watched)
      /\ watched' = watched \ closed
      /\ fd' = [h \in Handlers |-> IF h \in H THEN -1 ELSE fd[h]]
  BY DEF CloseHandlers
<1>2. \A f \in Fds : f \in closed <=> \E h \in H : fd[h] = f
  OBVIOUS
<1>3. closed \subseteq Fds
  OBVIOUS
<1> HIDE DEF closed
<1>4. CurrentSetSize' = Cardinality(watched') /\ CurrentSetSize' \in Nat
      /\ CurrentSetSize' <= CurrentSetSize
  <2>1. IsFiniteSet(watched)
    BY WatchedFinite
  <2>2. /\ IsFiniteSet(watched \ closed)
        /\ Cardinality(watched \ closed)
             = Cardinality(watched) - Cardinality(watched \cap closed)
    BY <2>1, FS_Difference
  <2>3. IsFiniteSet(watched \cap closed)
    BY <2>1, FS_Subset
  <2>4. /\ Cardinality(watched \cap closed) \in Nat
        /\ Cardinality(watched \ closed) \in Nat
    BY <2>2, <2>3, FS_CardinalityType
  <2>5. watched \cap closed = closed \cap watched
    OBVIOUS
  <2>6. CurrentSetSize = Cardinality(watched) /\ CurrentSetSize \in Nat
    BY DEF EngineOK, SetSizeExact, EngineTypes
  <2> DEFINE n == Cardinality(watched \cap closed)
             m == Cardinality(watched \ closed)
  <2>7. CurrentSetSize' = CurrentSetSize - n
    BY <1>1, <2>5, Zenon
  <2>8. Cardinality(watched') = m
    BY <1>1, Zenon
  <2>9. m = CurrentSetSize - n
    BY <2>2, <2>6, Zenon
  <2>10. n \in Nat /\ m \in Nat
    BY <2>4
  <2> HIDE DEF n, m
  <2> QED BY <2>6, <2>7, <2>8, <2>9, <2>10
<1>5. EngineTypes'
  BY <1>1, <1>4, Finite DEF EngineTypes
<1>6. SetSizeExact'
  <2>1. CurrentSetSize < MaxDescriptors /\ CurrentSetSize \in Nat
    BY DEF EngineOK, SetSizeExact, EngineTypes
  <2> QED BY <1>4, <2>1, StartupAssumption DEF SetSizeExact
<1>7. RefsAreOwners'
  <2> SUFFICES ASSUME NEW f \in Fds
               PROVE  /\ (ref'[f] # NULL) <=> (f \in watched')
                      /\ f \in watched' => /\ ref'[f] = owner'[f]
                                           /\ owner'[f] \in alive'
                                           /\ fd'[owner'[f]] = f
    BY DEF RefsAreOwners
  <2>1. /\ (ref[f] # NULL) <=> (f \in watched)
        /\ f \in watched => /\ ref[f] = owner[f]
                            /\ owner[f] \in alive
                            /\ fd[owner[f]] = f
    BY DEF EngineOK, RefsAreOwners
  <2>2. CASE f \in watched'
    <3>1. f \in watched /\ f \notin closed
      BY <1>1, <2>2
    <3>2. owner'[f] = owner[f] /\ ref'[f] = ref[f]
      BY <1>1, <3>1
    <3>3. owner[f] \notin H
      BY <1>2, <2>1, <3>1
    <3>4. owner[f] \in alive' /\ owner[f] \in Handlers
      BY <2>1, <3>1, <3>3 DEF EngineTypes
    <3> QED BY <1>1, <2>1, <2>2, <3>1, <3>2, <3>3, <3>4
  <2>3. CASE f \notin watched'
    BY <1>1, <2>1, <2>3
  <2> QED BY <2>2, <2>3
<1>8. DescriptorsOwned'
  <2>1. ASSUME NEW f \in Fds, NEW h \in Handlers
        PROVE  owner'[f] = h <=> fd'[h] = f
    <3>1. f # -1 /\ h # NULL
      BY Finite
    <3>2. \A k \in Handlers : owner[f] = k <=> fd[k] = f
      BY DEF EngineOK, DescriptorsOwned
    <3> QED BY <1>1, <1>2, <3>1, <3>2
  <2>2. ASSUME NEW h \in Handlers, fd'[h] # -1
        PROVE  h \in alive'
    <3>1. h \notin H /\ fd[h] # -1
      BY <1>1, <2>2
    <3> QED BY <3>1 DEF EngineOK, DescriptorsOwned
  <2> QED BY <2>1, <2>2 DEF DescriptorsOwned
<1> QED BY <1>5, <1>6, <1>7, <1>8 DEF EngineOK

-----------------------------------------------------------------------------
(* A handler is made for a new descriptor.                                  *)

\* h, deleted until now, is given descriptor f, which nobody had.
Opens(h, f) ==
  /\ owner' = [owner EXCEPT ![f] = h]
  /\ alive' = alive \cup {h}
  /\ fd' = [fd EXCEPT ![h] = f]

LEMMA OpensKeepsDescriptors ==
  ASSUME NEW h \in Handlers, NEW f \in Fds, EngineTypes, EngineOK,
         owner[f] = NULL, h \notin alive, Opens(h, f)
  PROVE  /\ DescriptorsOwned'
         /\ f \notin watched
         /\ owner'[f] = h /\ fd'[h] = f /\ h \in alive'
         /\ \A g \in watched : /\ owner'[g] = owner[g]
                               /\ owner[g] \in alive'
                               /\ fd'[owner[g]] = fd[owner[g]]
<1>1. /\ owner' = [owner EXCEPT ![f] = h] /\ fd' = [fd EXCEPT ![h] = f]
      /\ alive' = alive \cup {h}
  BY DEF Opens
<1>2. /\ owner \in [Fds -> Handlers \cup {NULL}]
      /\ fd \in [Handlers -> Fds \cup {-1}]
      /\ watched \subseteq Fds /\ alive \subseteq Handlers
  BY DEF EngineTypes
<1>3. fd[h] = -1
  BY DEF EngineOK, DescriptorsOwned
<1>4. \A g \in Fds : g \in watched => owner[g] \in alive
  BY DEF EngineOK, RefsAreOwners
<1>5. f \notin watched
  BY <1>2, <1>4, Finite
<1>6. ASSUME NEW g \in Fds, NEW k \in Handlers
      PROVE  owner'[g] = k <=> fd'[k] = g
  <2>1. owner[g] = k <=> fd[k] = g
    BY DEF EngineOK, DescriptorsOwned
  <2>2. owner[f] = k <=> fd[k] = f
    BY DEF EngineOK, DescriptorsOwned
  <2>3. k # NULL /\ g # -1
    BY Finite
  <2> QED BY <1>1, <1>2, <1>3, <2>1, <2>2, <2>3
<1>7. ASSUME NEW k \in Handlers, fd'[k] # -1
      PROVE  k \in alive'
  <2>1. k = h \/ fd[k] # -1
    BY <1>1, <1>2, <1>7
  <2> QED BY <1>1, <2>1 DEF EngineOK, DescriptorsOwned
<1>8. DescriptorsOwned'
  BY <1>6, <1>7 DEF DescriptorsOwned
<1> QED BY <1>1, <1>2, <1>4, <1>5, <1>8

\* AddFd refuses the new handler: it is left out of the table.
LEMMA RefusedKeeps ==
  ASSUME NEW h \in Handlers, NEW f \in Fds, EngineTypes, EngineOK,
         owner[f] = NULL, h \notin alive, Opens(h, f),
         UNCHANGED <<watched, ref, CurrentSetSize>>
  PROVE  EngineTypes' /\ EngineOK'
<1>1. EngineTypes'
  BY DEF Opens, EngineTypes
<1>2. SetSizeExact'
  BY DEF EngineOK, SetSizeExact
<1>3. RefsAreOwners'
  BY OpensKeepsDescriptors DEF EngineOK, RefsAreOwners, EngineTypes
<1> QED BY <1>1, <1>2, <1>3, OpensKeepsDescriptors DEF EngineOK

\* AddFd takes it.
LEMMA TakenKeeps ==
  ASSUME NEW h \in Handlers, NEW f \in Fds, EngineTypes, EngineOK,
         owner[f] = NULL, h \notin alive, Opens(h, f), ~AddFdRefuses(f),
         watched' = watched \cup {f}, ref' = [ref EXCEPT ![f] = h],
         CurrentSetSize' = CurrentSetSize + 1
  PROVE  EngineTypes' /\ EngineOK'
<1>1. EngineTypes'
  BY DEF Opens, EngineTypes
<1>2. SetSizeExact'
  <2>1. CurrentSetSize = Cardinality(watched) /\ CurrentSetSize \in Nat
    BY DEF EngineOK, SetSizeExact, EngineTypes
  <2>2. IsFiniteSet(watched)
    BY WatchedFinite
  <2>3. f \notin watched
    BY OpensKeepsDescriptors
  <2>4. Cardinality(watched \cup {f}) = Cardinality(watched) + 1
    BY <2>2, <2>3, FS_AddElement
  <2>5. CurrentSetSize + 1 < MaxDescriptors
    BY <2>1, StartupAssumption DEF AddFdRefuses
  <2> QED BY <2>1, <2>4, <2>5 DEF SetSizeExact
<1>3. RefsAreOwners'
  <2> SUFFICES ASSUME NEW g \in Fds
               PROVE  /\ (ref'[g] # NULL) <=> (g \in watched')
                      /\ g \in watched' => /\ ref'[g] = owner'[g]
                                           /\ owner'[g] \in alive'
                                           /\ fd'[owner'[g]] = g
    BY DEF RefsAreOwners
  <2>1. /\ (ref[g] # NULL) <=> (g \in watched)
        /\ g \in watched => ref[g] = owner[g] /\ fd[owner[g]] = g
    BY DEF EngineOK, RefsAreOwners
  <2>2. ref \in [Fds -> Handlers \cup {NULL}] /\ h # NULL
    BY Finite DEF EngineTypes
  <2>3. CASE g = f
    BY <2>2, <2>3, OpensKeepsDescriptors
  <2>4. CASE g # f
    BY <2>1, <2>2, <2>4, OpensKeepsDescriptors
  <2> QED BY <2>3, <2>4
<1> QED BY <1>1, <1>2, <1>3, OpensKeepsDescriptors DEF EngineOK

-----------------------------------------------------------------------------
(* The inductive invariant.                                                 *)

\* The types of the other variables.
RestTypes ==
  /\ batch \subseteq Event
  /\ backlog \in [Listeners -> 0 .. MaxBacklog]
  /\ s_signal \in {"none", "SIGHUP", "SIGTERM"}
  /\ pc \in {"Scan", "Poll", "Dispatch", "Accept", "Handle", "Unwind", "Apply",
             "Signals", "ClearSignal"} \cup Ended
  /\ running \in Handlers \cup {NULL}
  /\ ShuttingDown \in BOOLEAN
  /\ ports \subseteq Listeners
  /\ local_connections \subseteq Connections /\ quitting \subseteq Connections
  /\ list \in Seq(Connections)
  /\ CGIRequests \in [Connections -> Pipes \cup {NULL}]
  /\ parent \in [Pipes -> Connections \cup {NULL}]

LEMMA Types == TypeOK <=> EngineTypes /\ RestTypes
BY DEF TypeOK, EngineTypes, RestTypes

LEMMA EngineUnchanged ==
  ASSUME UNCHANGED <<owner, watched, ref, CurrentSetSize, alive, fd>>
  PROVE  /\ EngineTypes <=> EngineTypes'
         /\ EngineOK <=> EngineOK'
BY DEF EngineTypes, EngineOK, RefsAreOwners, SetSizeExact, DescriptorsOwned

LEMMA InvInit == Init => IInv
<1> SUFFICES ASSUME Init PROVE IInv
  OBVIOUS
<1>1. PICK f \in [Listeners -> {n \in Fds : n < MaxDescriptors}] :
        /\ \A l, k \in Listeners : f[l] = f[k] => l = k
        /\ fd = [h \in Handlers |-> IF h \in Listeners THEN f[h] ELSE -1]
        /\ owner = [n \in Fds |-> IF \E l \in Listeners : f[l] = n
                                    THEN CHOOSE l \in Listeners : f[l] = n
                                    ELSE NULL]
        /\ watched = {f[l] : l \in Listeners}
  BY Zenon DEF Init
<1>2. /\ alive = Listeners /\ ref = owner
      /\ CurrentSetSize = Cardinality(Listeners)
  BY DEF Init
<1>3. Listeners \subseteq Handlers /\ IsFiniteSet(Listeners)
  BY HandlersAssumption DEF Handlers
<1>4. \A n \in Fds : \/ \E l \in Listeners : f[l] = n /\ owner[n] = l
                     \/ owner[n] = NULL /\ \A l \in Listeners : f[l] # n
  BY <1>1
<1>5. CurrentSetSize \in Nat
  BY <1>2, <1>3, FS_CardinalityType
<1>6. EngineTypes
  <2>1. owner \in [Fds -> Handlers \cup {NULL}]
    <3>1. \A n \in Fds : owner[n] \in Handlers \cup {NULL}
      BY <1>3, <1>4
    <3> QED BY <1>1, <3>1
  <2>2. watched \subseteq Fds
    BY <1>1
  <2>3. fd \in [Handlers -> Fds \cup {-1}]
    BY <1>1
  <2> QED BY <1>2, <1>3, <1>5, <2>1, <2>2, <2>3 DEF EngineTypes
<1>7. RestTypes
  <2>1. list \in Seq(Connections)
    BY EmptySeq DEF Init
  <2>2. backlog \in [Listeners -> 0 .. MaxBacklog]
    BY LimitAssumption DEF Init
  <2>3. pc = "Scan" /\ running = NULL /\ batch = {} /\ s_signal = "none"
        /\ ShuttingDown \in BOOLEAN
    BY DEF Init
  <2> QED BY <2>1, <2>2, <2>3 DEF Init, RestTypes
<1>8. RunningOK
  BY DEF Init, RunningOK
<1>9. RefsAreOwners
  BY <1>1, <1>2, <1>3, <1>4, Finite DEF RefsAreOwners
<1>10. SetSizeExact
  <2>1. f \in Bijection(Listeners, watched)
    BY <1>1, Fun_IsBij
  <2>2. Cardinality(watched) = Cardinality(Listeners)
    BY <1>3, <2>1, FS_Bijection, Fun_ExistsBij
  <2> QED BY <1>2, <2>2, StartupAssumption DEF SetSizeExact
<1>11. DescriptorsOwned
  BY <1>1, <1>2, <1>3, <1>4, Finite DEF DescriptorsOwned
<1> QED BY <1>6, <1>7, <1>8, <1>9, <1>10, <1>11, Types DEF IInv, EngineOK

LEMMA DeleteType ==
  ASSUME RestTypes, NEW c \in Connections, Delete(c)
  PROVE  list' \in Seq(Connections) /\ quitting' \subseteq Connections
<1>1. Append(list, c) \in Seq(Connections)
  BY AppendProperties DEF RestTypes
<1> QED BY <1>1 DEF RestTypes, Delete, AddItem

\* What Exit leaves of the types.
LEMMA ExitType ==
  ASSUME EngineTypes, RestTypes, Exit
  PROVE  EngineTypes' /\ RestTypes' /\ RunningOK' /\ pc' \in Ended
<1>1. pc' \in Ended
  BY DEF Exit, Ended
<1>2. EngineTypes'
  BY DEF Exit, EngineTypes
<1>3. RestTypes'
  BY <1>1 DEF Exit, RestTypes
<1> QED BY <1>1, <1>2, <1>3 DEF RunningOK, Ended

LEMMA InvNext == IInv /\ [Next]_vars => IInv'
<1> SUFFICES ASSUME IInv, [Next]_vars PROVE IInv'
  OBVIOUS
<1>1. EngineTypes /\ RestTypes /\ RunningOK
  BY Types DEF IInv
<1>2. pc \notin Ended => EngineOK
  BY DEF IInv
<1>3. SUFFICES EngineTypes' /\ RestTypes' /\ RunningOK'
               /\ (pc' \notin Ended => EngineOK')
  BY DEF IInv, TypeOK, EngineTypes, RestTypes
<1> USE Finite
<1>4. ASSUME UNCHANGED <<owner, watched, ref, CurrentSetSize, alive, fd>>,
             pc' \notin Ended => pc \notin Ended
      PROVE  EngineTypes' /\ (pc' \notin Ended => EngineOK')
  BY <1>1, <1>2, <1>4, EngineUnchanged
<1> DEFINE Keeps == /\ EngineTypes' /\ RestTypes' /\ RunningOK'
                    /\ pc' \notin Ended => EngineOK'
<1>5. CASE UNCHANGED vars
  BY <1>1, <1>4, <1>5 DEF RestTypes, RunningOK, conn
<1>6. ASSUME NEW l \in Listeners, ClientConnects(l) \/ ClientAborts(l)
      PROVE  Keeps
  <2>1. backlog' \in [Listeners -> 0 .. MaxBacklog]
    BY <1>1, <1>6, LimitAssumption DEF ClientConnects, ClientAborts, RestTypes
  <2> QED BY <1>1, <1>4, <1>6, <2>1
          DEF ClientConnects, ClientAborts, RestTypes, RunningOK, conn
<1>7. ASSUME NEW s \in Sent, SetSignal(s)
      PROVE  Keeps
  BY <1>1, <1>4, <1>7, SignalsAssumption DEF SetSignal, RestTypes, RunningOK,
     conn
<1>8. ASSUME NEW c \in Connections, TimesOut(c)
      PROVE  Keeps
  BY <1>1, <1>4, <1>8, DeleteType DEF TimesOut, RestTypes, RunningOK, Ended
<1>9. CASE EndScan
  BY <1>1, <1>4, <1>9 DEF EndScan, RestTypes, RunningOK, Ended
<1>10. CASE ExitDrained
  BY <1>1, <1>10, ExitType DEF ExitDrained
<1>11. CASE Poll
  <2>1. batch' \subseteq Event
    <3>1. PICK ready \in SUBSET watched, failed \in SUBSET watched :
            batch' = {[fd |-> f, event |-> IF f \in failed THEN "ERROR"
                                                           ELSE "IO",
                       stale |-> FALSE] :
                      f \in ready \cup {f \in watched :
                                          /\ owner[f] \in Listeners
                                          /\ backlog[owner[f]] > 0}}
      BY <1>11 DEF Poll
    <3>2. watched \subseteq Fds
      BY <1>1 DEF EngineTypes
    <3>3. \A f \in Fds : \A b \in {"IO", "ERROR"} :
            [fd |-> f, event |-> b, stale |-> FALSE] \in Event
      BY DEF Event
    <3> QED BY <3>1, <3>2, <3>3
  <2> QED BY <1>1, <1>4, <1>11, <2>1 DEF Poll, RestTypes, RunningOK, Ended
<1>12. ASSUME NEW e \in batch, DispatchToNobody(e)
       PROVE  Keeps
  BY <1>1, <1>4, <1>12 DEF DispatchToNobody, RestTypes, RunningOK, conn, Ended
<1>13. ASSUME NEW e \in batch, DispatchToListener(e)
       PROVE  Keeps
  BY <1>1, <1>4, <1>13 DEF DispatchToListener, RestTypes, RunningOK, Ended,
     Handlers
<1>14. ASSUME NEW e \in batch, DispatchToConnection(e)
       PROVE  Keeps
  <2>1. CASE e.event = "ERROR"
    BY <1>1, <1>4, <1>14, <2>1, DeleteType
       DEF DispatchToConnection, RestTypes, RunningOK, Ended
  <2>2. CASE e.event # "ERROR"
    BY <1>1, <1>4, <1>14, <2>2, HandlersAssumption
       DEF DispatchToConnection, RestTypes, RunningOK, Ended, Handlers, conn
  <2> QED BY <2>1, <2>2
<1>15. ASSUME NEW e \in batch, DispatchToPipe(e)
       PROVE  Keeps
  <2>1. e \in Event /\ ref[e.fd] \in Pipes /\ pc = "Dispatch"
        /\ batch \ {e} \subseteq Event
    BY <1>1, <1>15 DEF DispatchToPipe, RestTypes
  <2>2. CASE e.event = "IO"
    BY <1>1, <1>4, <1>15, <2>1, <2>2
       DEF DispatchToPipe, RestTypes, RunningOK, Ended
  <2>3. CASE e.event # "IO"
    <3> DEFINE p == ref[e.fd]
    <3>1. /\ CloseHandlers({p}, batch \ {e}) /\ alive' = alive
          /\ \/ parent[p] \in alive /\ pc' = "Handle" /\ running' = p
             \/ pc' \in {"Dispatch", "crashed"} /\ UNCHANGED running
      BY <1>15, <2>3 DEF DispatchToPipe
    <3>2. p \in Pipes /\ p \in Handlers
      BY <2>1 DEF Handlers
    <3>3. pc \notin Ended
      BY <2>1 DEF Ended
    <3>4. batch' \subseteq Event
      BY <2>1, <3>1, StaleType DEF CloseHandlers
    <3> HIDE DEF p
    <3>5. EngineTypes' /\ EngineOK'
      BY <1>1, <1>2, <3>1, <3>2, <3>3, CloseHandlersKeeps DEF EngineTypes
    <3>6. RestTypes'
      BY <1>1, <1>15, <3>1, <3>2, <3>4
         DEF DispatchToPipe, RestTypes, Handlers, Ended
    <3>7. RunningOK'
      <4>1. CASE parent[p] \in alive /\ pc' = "Handle" /\ running' = p
        BY <1>1, <1>15, <3>2, <4>1
           DEF DispatchToPipe, RunningOK, conn, RestTypes, EngineTypes
      <4>2. CASE pc' \in {"Dispatch", "crashed"}
        BY <4>2 DEF RunningOK
      <4> QED BY <3>1, <4>1, <4>2
    <3> QED BY <3>5, <3>6, <3>7
  <2> QED BY <2>2, <2>3
<1>16. CASE EndDispatch
  BY <1>1, <1>4, <1>16 DEF EndDispatch, RestTypes, RunningOK, Ended
<1>17. CASE Return
  BY <1>1, <1>4, <1>17 DEF Return, RestTypes, RunningOK, Ended
<1>18. CASE Fails
  BY <1>1, <1>4, <1>18, DeleteType
     DEF Fails, RestTypes, RunningOK, conn, Ended
<1>19. CASE OnBufferFlushed
  <2>1. /\ pc = "Handle" /\ conn \in Connections /\ pc \notin Ended
        /\ CGIRequests[conn] \in Pipes
    BY <1>1, <1>19 DEF OnBufferFlushed, RunningOK, RestTypes, Ended
  <2> DEFINE p == CGIRequests[conn]
  <2>2. p \in Pipes /\ p \in Handlers
    BY <2>1 DEF Handlers
  <2>3. CloseHandlers({p}, batch) /\ alive' = alive \ {p}
    BY <1>19 DEF OnBufferFlushed
  <2>4. batch' \subseteq Event
    BY <1>1, <2>3, StaleType DEF CloseHandlers, RestTypes
  <2> HIDE DEF p
  <2>5. EngineTypes' /\ EngineOK'
    BY <1>1, <1>2, <2>1, <2>2, <2>3, CloseHandlersKeeps DEF EngineTypes
  <2>6. RestTypes'
    BY <1>1, <1>19, <2>4 DEF OnBufferFlushed, RestTypes
  <2>7. RunningOK'
    BY <1>1, <1>19 DEF OnBufferFlushed, RunningOK, conn
  <2> QED BY <2>5, <2>6, <2>7
<1>20. ASSUME NEW p \in Pipes, NEW f \in Fds, OnPreRequest(p, f)
       PROVE  Keeps
  <2>1. pc = "Handle" /\ conn \in Connections /\ pc \notin Ended
        /\ p \in Handlers
    BY <1>1, <1>20 DEF OnPreRequest, RunningOK, Ended, Handlers
  <2>2. EngineTypes' /\ EngineOK'
    <3>1. /\ owner[f] = NULL /\ p \notin alive /\ Opens(p, f)
          /\ ~AddFdRefuses(f)
          /\ watched' = watched \cup {f} /\ ref' = [ref EXCEPT ![f] = p]
          /\ CurrentSetSize' = CurrentSetSize + 1
      BY <1>20 DEF OnPreRequest, Opens
    <3> QED BY <1>1, <1>2, <2>1, <3>1, TakenKeeps
  <2>3. RestTypes'
    BY <1>1, <1>20, <2>1 DEF OnPreRequest, RestTypes
  <2>4. conn' \in Connections
    <3>1. /\ parent' = [parent EXCEPT ![p] = conn] /\ running' = running
          /\ parent \in [Pipes -> Connections \cup {NULL}]
      BY <1>1, <1>20 DEF OnPreRequest, RestTypes
    <3>2. CASE running \in Pipes
      BY <2>1, <3>1, <3>2 DEF conn
    <3>3. CASE running \notin Pipes
      BY <2>1, <3>1, <3>3 DEF conn
    <3> QED BY <3>2, <3>3
  <2>5. RunningOK'
    BY <1>20, <2>4 DEF OnPreRequest, RunningOK
  <2> QED BY <2>2, <2>3, <2>5
<1>21. CASE EndAccept
  BY <1>1, <1>4, <1>21 DEF EndAccept, RestTypes, RunningOK, Ended
<1>22. ASSUME NEW f \in Fds, AcceptOutOfRange(f) \/ AcceptUnnamed(f)
       PROVE  Keeps
  <2>1. backlog' \in [Listeners -> 0 .. MaxBacklog]
    BY <1>1, <1>22, LimitAssumption
       DEF AcceptOutOfRange, AcceptUnnamed, RestTypes, RunningOK
  <2> QED BY <1>1, <1>4, <1>22, <2>1
          DEF AcceptOutOfRange, AcceptUnnamed, RestTypes, RunningOK, Ended
<1>23. ASSUME NEW f \in Fds, NEW c \in Connections, Add(c, f)
       PROVE  Keeps
  <2>1. /\ pc = "Accept" /\ pc \notin Ended /\ running \in Listeners
        /\ c \in Handlers /\ owner[f] = NULL /\ c \notin alive /\ Opens(c, f)
    BY <1>1, <1>23 DEF Add, RunningOK, Ended, Handlers, Opens
  <2>2. backlog' \in [Listeners -> 0 .. MaxBacklog]
    BY <1>1, <1>23, <2>1, LimitAssumption DEF Add, RestTypes
  <2>3. RunningOK'
    BY <1>23, <2>1 DEF Add, RunningOK
  <2>4. CASE AddFdRefuses(f)
    <3>1. Delete(c) /\ UNCHANGED <<watched, ref, CurrentSetSize>>
      BY <1>23, <2>4 DEF Add, Refused
    <3>2. list' \in Seq(Connections) /\ quitting' \subseteq Connections
      BY <1>1, <3>1, DeleteType
    <3>3. RestTypes'
      BY <1>1, <1>23, <2>2, <3>2 DEF Add, RestTypes
    <3> QED BY <1>1, <1>2, <2>1, <2>3, <3>1, <3>3, RefusedKeeps
  <2>5. CASE ~AddFdRefuses(f)
    <3>1. /\ watched' = watched \cup {f} /\ ref' = [ref EXCEPT ![f] = c]
          /\ CurrentSetSize' = CurrentSetSize + 1
          /\ UNCHANGED <<list, quitting>>
      BY <1>23, <2>5 DEF Add
    <3>2. RestTypes'
      BY <1>1, <1>23, <2>2, <3>1 DEF Add, RestTypes
    <3> QED BY <1>1, <1>2, <2>1, <2>3, <2>5, <3>1, <3>2, TakenKeeps
  <2> QED BY <2>4, <2>5
<1>24. CASE Cull
  <2> DEFINE c == Head(list)
             gone == {c, CGIRequests[c]} \ {NULL}
  <2>1. /\ pc = "Apply" /\ pc \notin Ended /\ list # <<>>
        /\ CloseHandlers(gone, batch) /\ alive' = alive \ gone
        /\ list' = Tail(list)
    BY <1>24 DEF Cull, Ended
  <2>2. c \in Connections /\ Tail(list) \in Seq(Connections)
    BY <1>1, <2>1, HeadTailProperties DEF RestTypes
  <2>3. gone \subseteq Handlers
    BY <1>1, <2>2 DEF RestTypes, Handlers
  <2>4. batch' \subseteq Event
    BY <1>1, <2>1, StaleType DEF CloseHandlers, RestTypes
  <2>5. RestTypes'
    BY <1>1, <1>24, <2>1, <2>2, <2>4 DEF Cull, RestTypes
  <2>6. RunningOK'
    BY <1>24, <2>1 DEF Cull, RunningOK
  <2> HIDE DEF c, gone
  <2>7. EngineTypes' /\ EngineOK'
    BY <1>1, <1>2, <2>1, <2>3, CloseHandlersKeeps DEF EngineTypes
  <2> QED BY <2>5, <2>6, <2>7
<1>25. CASE EndApply
  BY <1>1, <1>4, <1>25
     DEF EndApply, AfterApply, RestTypes, RunningOK, Ended
<1>26. CASE GracefulShutdown
  <2>1. /\ pc \notin Ended /\ CloseHandlers(Closing, batch)
        /\ alive' = alive \ Closing
        /\ pc' \in {"ClearSignal", "crashed"}
    BY <1>26 DEF GracefulShutdown, Ended
  <2>2. Closing \subseteq Handlers
    BY <1>1 DEF Closing, RestTypes, Handlers
  <2>3. batch' \subseteq Event
    BY <1>1, <2>1, StaleType DEF CloseHandlers, RestTypes
  <2>4. backlog' \in [Listeners -> 0 .. MaxBacklog]
    BY <1>1, <1>26, LimitAssumption DEF GracefulShutdown, RestTypes
  <2>5. RestTypes'
    BY <1>1, <1>26, <2>1, <2>3, <2>4 DEF GracefulShutdown, RestTypes, Ended
  <2>6. EngineTypes' /\ EngineOK'
    BY <1>1, <1>2, <2>1, <2>2, CloseHandlersKeeps DEF EngineTypes
  <2>7. RunningOK'
    BY <2>1 DEF RunningOK
  <2> QED BY <2>5, <2>6, <2>7
<1>27. CASE ExitOnSignal
  BY <1>1, <1>27, ExitType DEF ExitOnSignal
<1>28. CASE ClearSignal
  BY <1>1, <1>4, <1>28 DEF ClearSignal, RestTypes, RunningOK, Ended
<1>29. CASE Next
  <2>1. CASE Environment
    BY <1>6, <1>7, <2>1 DEF Environment
  <2>2. CASE Dispatch
    BY <1>12, <1>13, <1>14, <1>15, <1>16, <2>2 DEF Dispatch
  <2>3. CASE Handle
    BY <1>17, <1>18, <1>19, <1>20, <2>3 DEF Handle
  <2>4. CASE Accept
    BY <1>21, <1>22, <1>23, <2>4 DEF Accept
  <2>5. CASE Signals
    BY <1>26, <1>27, <1>28, <2>5 DEF Signals
  <2>6. CASE Server
    BY <1>8, <1>9, <1>10, <1>11, <1>24, <1>25, <2>2, <2>3, <2>4, <2>5, <2>6
       DEF Server
  <2>7. CASE Stopped
    BY <1>5, <2>7 DEF Stopped
  <2> QED BY <1>29, <2>1, <2>6, <2>7 DEF Next
<1> QED BY <1>5, <1>29

LEMMA Invariant == Spec => []IInv
BY InvInit, InvNext, PTL DEF Spec

-----------------------------------------------------------------------------
(* The connections and the cull list.                                       *)

\* What the connection manager keeps, the invariant behind CulledOnce and
\* ConnectionsWatched.
ConnectionsOK ==
  /\ alive \cap Connections = local_connections
  /\ CulledOnce
  /\ pc \in {"Handle", "Unwind"} => conn \in local_connections
  /\ pc \notin Ended =>
       \A c \in local_connections \ quitting : fd[c] \in watched

\* What a shutdown leaves.
ShutdownOK ==
  /\ pc \notin Ended => ports = Listeners
  /\ pc = "Accept" => running \in alive
  /\ ShuttingDown /\ pc \notin Ended => alive \cap Listeners = {}

\* Delete puts a connection on the list unless it is there.
LEMMA DeleteCulls ==
  ASSUME TypeOK, CulledOnce, NEW c \in Connections, Delete(c),
         local_connections \subseteq local_connections',
         c \in local_connections'
  PROVE  CulledOnce' /\ quitting' = quitting \cup {c}
<1>1. /\ list \in Seq(Connections) /\ Culled = quitting
      /\ \A i, j \in 1 .. Len(list) : list[i] = list[j] => i = j
  BY DEF TypeOK, CulledOnce
<1>2. /\ quitting' = quitting \cup {c}
      /\ list' = IF c \in quitting THEN list ELSE Append(list, c)
  BY DEF Delete, AddItem
<1>3. quitting' \subseteq local_connections'
  BY <1>2 DEF CulledOnce
<1>4. CASE c \in quitting
  BY <1>1, <1>2, <1>3, <1>4 DEF CulledOnce, Culled
<1>5. CASE c \notin quitting
  <2>1. Len(list) \in Nat
    BY <1>1, LenProperties
  <2>2. Len(list') = Len(list) + 1
    BY <1>1, <1>2, <1>5, AppendProperties
  <2>3. list'[Len(list) + 1] = c
    BY <1>1, <1>2, <1>5, AppendProperties
  <2>4. \A i \in 1 .. Len(list) : list'[i] = list[i]
    BY <1>1, <1>2, <1>5, AppendProperties
  <2>5. \A i \in 1 .. Len(list) : list[i] # c
    BY <1>1, <1>5 DEF Culled
  <2>6. \A i \in 1 .. Len(list') : i \in 1 .. Len(list) \/ i = Len(list) + 1
    BY <2>1, <2>2
  <2>7. \A i, j \in 1 .. Len(list') : list'[i] = list'[j] => i = j
    BY <1>1, <2>3, <2>4, <2>5, <2>6
  <2>8. Culled' = Culled \cup {c}
    BY <2>1, <2>2, <2>3, <2>4, <2>6 DEF Culled
  <2> QED BY <1>1, <1>2, <1>3, <2>7, <2>8 DEF CulledOnce
<1> QED BY <1>2, <1>4, <1>5

\* Apply takes the first off the list.
LEMMA CullTakes ==
  ASSUME TypeOK, CulledOnce, list # <<>>, list' = Tail(list),
         quitting' = quitting \ {Head(list)},
         local_connections' = local_connections \ {Head(list)}
  PROVE  CulledOnce'
<1>1. /\ list \in Seq(Connections) /\ Culled = quitting
      /\ \A i, j \in 1 .. Len(list) : list[i] = list[j] => i = j
  BY DEF TypeOK, CulledOnce
<1>2. Len(list) \in Nat \ {0} /\ Head(list) = list[1]
  BY <1>1, EmptySeq
<1>3. Len(list') = Len(list) - 1
  BY <1>1, HeadTailProperties
<1>4. \A i \in 1 .. Len(list') : list'[i] = list[i + 1]
  BY <1>1, HeadTailProperties
<1>5. \A i \in 1 .. Len(list') : i + 1 \in 1 .. Len(list) /\ i + 1 # 1
  BY <1>2, <1>3
<1>6. \A i \in 1 .. Len(list) : i = 1 \/ (i - 1 \in 1 .. Len(list')
                                          /\ (i - 1) + 1 = i)
  BY <1>2, <1>3
<1>7. \A i, j \in 1 .. Len(list') : list'[i] = list'[j] => i = j
  BY <1>1, <1>4, <1>5
<1>8. Culled' = Culled \ {Head(list)}
  <2>1. 1 \in 1 .. Len(list)
    BY <1>2
  <2>2. \A i \in 1 .. Len(list') : list'[i] \in Culled
                                   /\ list'[i] # Head(list)
    BY <1>1, <1>2, <1>4, <1>5, <2>1 DEF Culled
  <2>3. \A i \in 1 .. Len(list) : list[i] = Head(list)
                                  \/ \E j \in 1 .. Len(list') :
                                       list'[j] = list[i]
    BY <1>2, <1>4, <1>6
  <2> QED BY <2>2, <2>3 DEF Culled
<1> QED BY <1>1, <1>7, <1>8 DEF CulledOnce

\* Closing the descriptors of some handlers leaves the others' watched.
LEMMA CloseSpares ==
  ASSUME NEW H \in SUBSET Handlers, NEW events,
         EngineTypes, EngineOK, CloseHandlers(H, events),
         NEW h \in Handlers, h \notin H, fd[h] \in watched
  PROVE  fd'[h] \in watched'
<1>1. fd'[h] = fd[h]
  BY DEF CloseHandlers
<1>2. fd[h] \in Fds
  BY DEF EngineTypes
<1>3. \A k \in H : fd[k] # fd[h]
  BY <1>2 DEF EngineOK, DescriptorsOwned
<1> QED BY <1>1, <1>3 DEF CloseHandlers

\* The invariant with which the theorems below are proved.
CInv == IInv /\ ConnectionsOK /\ ShutdownOK /\ LimitRespected

LEMMA CInvInit == Init => CInv
<1> SUFFICES ASSUME Init PROVE CInv
  OBVIOUS
<1>1. IInv
  BY InvInit
<1>2. /\ alive = Listeners /\ local_connections = {} /\ quitting = {}
      /\ list = <<>> /\ pc = "Scan" /\ ports = Listeners
      /\ ShuttingDown = FALSE
  BY DEF Init
<1>3. Len(list) = 0
  BY <1>2
<1>4. Culled = {}
  BY <1>3 DEF Culled
<1>5. ConnectionsOK
  BY <1>2, <1>3, <1>4, HandlersAssumption DEF ConnectionsOK, CulledOnce
<1>6. ShutdownOK
  BY <1>2 DEF ShutdownOK
<1>7. LimitRespected
  BY <1>2, FS_EmptySet, LimitAssumption DEF LimitRespected
<1> QED BY <1>1, <1>5, <1>6, <1>7 DEF CInv

\* ConnectionManager::Add is the only way into local_connections.
LEMMA OnlyAddAdds ==
  ASSUME [Next]_vars
  PROVE  \/ local_connections' \subseteq local_connections
         \/ \E f \in Fds, c \in Connections : Add(c, f)
BY DEF Next, Environment, ClientConnects, ClientAborts, SetSignal, Server,
       TimesOut, EndScan, ExitDrained, Exit, Poll, Dispatch,
       DispatchToNobody, DispatchToListener, DispatchToConnection,
       DispatchToPipe, EndDispatch, Handle, Return, Fails, OnBufferFlushed,
       OnPreRequest, Accept, EndAccept, AcceptOutOfRange, AcceptUnnamed,
       Cull, EndApply, Signals, GracefulShutdown, ExitOnSignal, ClearSignal,
       Stopped

\* How many connections there are.
LEMMA LimitKept == CInv /\ [Next]_vars => LimitRespected'
<1> SUFFICES ASSUME CInv, [Next]_vars PROVE LimitRespected'
  OBVIOUS
<1>1. /\ LimitRespected /\ local_connections \subseteq Connections
      /\ SoftLimit \in Nat /\ MaxClients \in Nat
  BY LimitAssumption DEF CInv, IInv, TypeOK
<1>2. IsFiniteSet(local_connections)
  BY <1>1, HandlersAssumption, FS_Subset
<1>3. Cardinality(local_connections) \in Nat
  BY <1>2, FS_CardinalityType
<1>4. CASE local_connections' \subseteq local_connections
  <2>1. /\ Cardinality(local_connections') \in Nat
        /\ Cardinality(local_connections') <= Cardinality(local_connections)
    BY <1>2, <1>4, FS_Subset, FS_CardinalityType
  <2> QED BY <1>1, <1>3, <1>4, <2>1 DEF LimitRespected
<1>5. ASSUME NEW f \in Fds, NEW c \in Connections, Add(c, f)
      PROVE  LimitRespected'
  <2>1. /\ local_connections' = local_connections \cup {c} /\ ~Full
    BY <1>5 DEF Add
  <2>2. Cardinality(local_connections') \in Nat
        /\ Cardinality(local_connections') <= Cardinality(local_connections) + 1
    BY <1>2, <1>3, <2>1, FS_AddElement
  <2> QED BY <1>1, <1>3, <2>1, <2>2 DEF Full, LimitRespected
<1> QED BY <1>4, <1>5, OnlyAddAdds

LEMMA CInvNext == CInv /\ [Next]_vars => CInv'
<1> SUFFICES ASSUME CInv, [Next]_vars PROVE CInv'
  OBVIOUS
<1>1. IInv' /\ LimitRespected'
  BY InvNext, LimitKept DEF CInv
<1>2. IInv /\ ConnectionsOK /\ ShutdownOK /\ TypeOK /\ CulledOnce
      /\ EngineTypes /\ RestTypes
  BY Types DEF CInv, IInv, ConnectionsOK
<1>3. pc \notin Ended => EngineOK
  BY DEF CInv, IInv
<1> DEFINE Keeps == ConnectionsOK' /\ ShutdownOK'
<1>4. SUFFICES Keeps
  BY <1>1 DEF CInv
<1> USE HandlersAssumption DEF Ended
<1>5. ASSUME UNCHANGED <<list, quitting, local_connections>>
      PROVE  CulledOnce'
  BY <1>2, <1>5 DEF CulledOnce, Culled
<1>6. ASSUME UNCHANGED <<list, quitting, local_connections, alive, fd,
                         watched, pc, running, CGIRequests, parent,
                         ShuttingDown, ports>>
      PROVE  Keeps
  BY <1>2, <1>5, <1>6 DEF ConnectionsOK, ShutdownOK, conn
\* The actions that move the program counter only.
<1>7. ASSUME UNCHANGED <<list, quitting, local_connections, alive, fd,
                         watched, ShuttingDown, ports>>,
             pc \notin Ended, pc' \notin {"Handle", "Unwind"},
             pc' = "Accept" => running' \in alive
      PROVE  Keeps
  BY <1>2, <1>5, <1>7 DEF ConnectionsOK, ShutdownOK
\* The actions that call Delete.
<1>8. ASSUME NEW c \in Connections, c \in local_connections, Delete(c),
             UNCHANGED <<local_connections, alive, fd, watched, running,
                         CGIRequests, parent, ShuttingDown, ports>>,
             pc \notin Ended, pc' = pc \/ (pc = "Handle" /\ pc' = "Unwind")
      PROVE  Keeps
  <2>1. CulledOnce' /\ quitting' = quitting \cup {c}
    BY <1>2, <1>8, DeleteCulls
  <2>2. ShutdownOK'
    BY <1>2, <1>8 DEF ShutdownOK
  <2>3. conn' = conn
    BY <1>8 DEF conn
  <2> QED BY <1>2, <1>8, <2>1, <2>2, <2>3 DEF ConnectionsOK
<1>9. CASE UNCHANGED vars
  BY <1>6, <1>9
<1>10. CASE Environment
  BY <1>6, <1>10 DEF Environment, ClientConnects, ClientAborts, SetSignal
<1>11. ASSUME NEW c \in Connections, TimesOut(c)
       PROVE  Keeps
  BY <1>8, <1>11 DEF TimesOut
<1>12. CASE EndScan \/ Poll \/ EndDispatch \/ EndApply \/ ClearSignal
  BY <1>7, <1>12
     DEF EndScan, Poll, EndDispatch, EndApply, AfterApply, ClearSignal
<1>13. CASE Return
  BY <1>7, <1>13 DEF Return
<1>14. CASE EndAccept \/ \E f \in Fds : AcceptOutOfRange(f)
  BY <1>7, <1>14 DEF EndAccept, AcceptOutOfRange
<1>15. ASSUME NEW f \in Fds, AcceptUnnamed(f)
       PROVE  Keeps
  BY <1>6, <1>15 DEF AcceptUnnamed
<1>16. CASE ExitDrained \/ ExitOnSignal
  <2>1. Exit /\ ports \subseteq Listeners
    BY <1>2, <1>16 DEF ExitDrained, ExitOnSignal, RestTypes
  <2>2. pc' \in Ended /\ alive' = alive \ ports
    BY <2>1 DEF Exit
  <2>3. CulledOnce' /\ local_connections' = local_connections
    BY <1>5, <2>1 DEF Exit
  <2>4. alive' \cap Connections = alive \cap Connections
    BY <2>1, <2>2
  <2> QED BY <1>2, <2>2, <2>3, <2>4 DEF ConnectionsOK, ShutdownOK
<1>17. ASSUME NEW e \in batch, DispatchToNobody(e)
       PROVE  Keeps
  BY <1>6, <1>17 DEF DispatchToNobody
\* A handler in the table exists.
<1>18. ASSUME NEW e \in batch, pc = "Dispatch", ref[e.fd] # NULL
       PROVE  ref[e.fd] \in alive
  <2>1. e.fd \in Fds
    BY <1>2 DEF RestTypes, Event
  <2> QED BY <1>3, <1>18, <2>1 DEF EngineOK, RefsAreOwners
<1>19. ASSUME NEW e \in batch, DispatchToListener(e)
       PROVE  Keeps
  <2>1. ref[e.fd] \in alive /\ running' = ref[e.fd]
    BY <1>18, <1>19 DEF DispatchToListener, Handlers
  <2> QED BY <1>7, <1>19, <2>1 DEF DispatchToListener
<1>20. ASSUME NEW e \in batch, DispatchToConnection(e)
       PROVE  Keeps
  <2> DEFINE c == ref[e.fd]
  <2>1. c \in Connections /\ pc = "Dispatch"
    BY <1>20 DEF DispatchToConnection
  <2>2. c \in local_connections
    BY <1>2, <1>18, <2>1 DEF ConnectionsOK, Handlers
  <2>3. CASE e.event = "ERROR"
    BY <1>8, <1>20, <2>1, <2>2, <2>3 DEF DispatchToConnection
  <2>4. CASE e.event # "ERROR"
    <3>1. pc' = "Handle" /\ conn' = c
      BY <1>20, <2>1, <2>4 DEF DispatchToConnection, conn, Handlers
    <3>2. UNCHANGED <<list, quitting, local_connections, alive, fd, watched,
                      ShuttingDown, ports>>
      BY <1>20, <2>4 DEF DispatchToConnection
    <3> QED BY <1>2, <1>5, <2>1, <2>2, <3>1, <3>2
            DEF ConnectionsOK, ShutdownOK
  <2> QED BY <2>3, <2>4
\* The actions that close other handlers' descriptors than a connection's.
<1>21. ASSUME NEW H \in SUBSET (Listeners \cup Pipes), NEW events,
              CloseHandlers(H, events), pc \notin Ended,
              UNCHANGED local_connections, quitting' = quitting,
              NEW c \in local_connections' \ quitting'
       PROVE  fd'[c] \in watched'
  <2>1. c \in Handlers /\ c \notin H /\ H \subseteq Handlers
    BY <1>2, <1>21 DEF RestTypes, Handlers
  <2>2. fd[c] \in watched
    BY <1>2, <1>21 DEF ConnectionsOK
  <2> QED BY <1>2, <1>3, <1>21, <2>1, <2>2, CloseSpares
<1>22. ASSUME NEW e \in batch, DispatchToPipe(e)
       PROVE  Keeps
  <2>1. pc = "Dispatch" /\ ref[e.fd] \in Pipes
        /\ UNCHANGED <<list, quitting, local_connections, alive, ShuttingDown,
                       ports, parent, CGIRequests>>
    BY <1>22 DEF DispatchToPipe
  <2>2. CASE e.event = "IO"
    BY <1>6, <1>22, <2>1, <2>2 DEF DispatchToPipe
  <2>3. CASE e.event # "IO"
    <3> DEFINE p == ref[e.fd]
    <3>1. /\ CloseHandlers({p}, batch \ {e})
          /\ \/ parent[p] \in alive /\ pc' = "Handle" /\ running' = p
             \/ pc' \in {"Dispatch", "crashed"} /\ UNCHANGED running
      BY <1>22, <2>3 DEF DispatchToPipe
    <3>2. p \in Pipes
      BY <2>1
    <3> HIDE DEF p
    <3>3. \A c \in local_connections' \ quitting' : fd'[c] \in watched'
      BY <1>21, <2>1, <3>1, <3>2
    <3>4. pc' \in {"Handle", "Unwind"} => conn' \in local_connections'
      <4>1. parent[p] \in Connections \cup {NULL} /\ alive \subseteq Handlers
        BY <1>2, <3>2 DEF RestTypes, EngineTypes
      <4>2. CASE parent[p] \in alive /\ pc' = "Handle" /\ running' = p
        <5>1. conn' = parent[p] /\ parent[p] \in Connections
          BY <2>1, <3>2, <4>1, <4>2 DEF conn
        <5> QED BY <1>2, <2>1, <4>2, <5>1 DEF ConnectionsOK
      <4> QED BY <3>1, <4>2
    <3>5. ConnectionsOK'
      BY <1>2, <1>5, <2>1, <3>3, <3>4 DEF ConnectionsOK
    <3>6. ShutdownOK'
      BY <1>2, <2>1, <3>1 DEF ShutdownOK
    <3> QED BY <3>5, <3>6
  <2> QED BY <2>2, <2>3
<1>23. CASE Fails
  <2>1. conn \in Connections /\ conn \in local_connections
    BY <1>2, <1>23 DEF Fails, ConnectionsOK, RestTypes
  <2>2. CASE pc = "Handle"
    BY <1>8, <1>23, <2>1, <2>2 DEF Fails
  <2>3. CASE pc = "Unwind"
    BY <1>8, <1>23, <2>1, <2>3 DEF Fails
  <2> QED BY <1>23, <2>2, <2>3 DEF Fails
<1>24. CASE OnBufferFlushed
  <2> DEFINE p == CGIRequests[conn]
  <2>1. /\ pc = "Handle" /\ conn \in local_connections
        /\ CloseHandlers({p}, batch) /\ alive' = alive \ {p}
        /\ UNCHANGED <<list, quitting, local_connections, ShuttingDown, ports,
                       pc, running, parent>>
    BY <1>2, <1>24 DEF OnBufferFlushed, ConnectionsOK
  <2>2. p \in Pipes
    BY <1>2, <1>24, <2>1 DEF OnBufferFlushed, RestTypes
  <2>3. conn' = conn
    BY <2>1 DEF conn
  <2> HIDE DEF p
  <2>4. \A c \in local_connections' \ quitting' : fd'[c] \in watched'
    BY <1>21, <2>1, <2>2
  <2>5. alive' \cap Connections = alive \cap Connections
        /\ alive' \cap Listeners = alive \cap Listeners
    BY <2>1, <2>2
  <2> QED BY <1>2, <1>5, <2>1, <2>3, <2>4, <2>5 DEF ConnectionsOK, ShutdownOK
<1>25. ASSUME NEW p \in Pipes, NEW f \in Fds, OnPreRequest(p, f)
       PROVE  Keeps
  <2>1. /\ pc = "Handle" /\ conn \in local_connections
        /\ alive' = alive \cup {p} /\ fd' = [fd EXCEPT ![p] = f]
        /\ watched' = watched \cup {f} /\ pc' = "Unwind"
        /\ parent' = [parent EXCEPT ![p] = conn]
        /\ UNCHANGED <<list, quitting, local_connections, ShuttingDown, ports,
                       running>>
    BY <1>2, <1>25 DEF OnPreRequest, ConnectionsOK
  <2>2. conn' = conn
    <3>1. parent \in [Pipes -> Connections \cup {NULL}]
      BY <1>2 DEF RestTypes
    <3>2. CASE running \in Pipes
      BY <2>1, <3>1, <3>2 DEF conn
    <3>3. CASE running \notin Pipes
      BY <2>1, <3>3 DEF conn
    <3> QED BY <3>2, <3>3
  <2>3. \A c \in local_connections' \ quitting' : fd'[c] \in watched'
    BY <1>2, <2>1 DEF ConnectionsOK, RestTypes, EngineTypes
  <2>4. alive' \cap Connections = alive \cap Connections
        /\ alive' \cap Listeners = alive \cap Listeners
    BY <2>1
  <2> QED BY <1>2, <1>5, <2>1, <2>2, <2>3, <2>4
          DEF ConnectionsOK, ShutdownOK
<1>26. ASSUME NEW f \in Fds, NEW c \in Connections, Add(c, f)
       PROVE  Keeps
  <2>1. /\ pc = "Accept" /\ c \notin alive /\ alive' = alive \cup {c}
        /\ fd' = [fd EXCEPT ![c] = f]
        /\ local_connections' = local_connections \cup {c}
        /\ UNCHANGED <<pc, running, ShuttingDown, ports>>
    BY <1>26 DEF Add
  <2>2. fd \in [Handlers -> Fds \cup {-1}] /\ c \in Handlers
        /\ local_connections \subseteq Handlers
    BY <1>2 DEF EngineTypes, RestTypes, Handlers
  <2>3. c \notin local_connections
    BY <1>2, <2>1 DEF ConnectionsOK
  <2>4. ShutdownOK'
    BY <1>2, <2>1 DEF ShutdownOK
  <2>5. alive' \cap Connections = local_connections'
    BY <1>2, <2>1 DEF ConnectionsOK
  <2>6. CulledOnce' /\ \A k \in local_connections' \ quitting' :
                         fd'[k] \in watched'
    <3>1. CASE AddFdRefuses(f)
      <4>1. Delete(c) /\ UNCHANGED watched
        BY <1>26, <3>1 DEF Add, Refused
      <4>2. CulledOnce' /\ quitting' = quitting \cup {c}
        BY <1>2, <2>1, <4>1, DeleteCulls
      <4>3. \A k \in local_connections \ quitting : fd[k] \in watched
        BY <1>2, <2>1 DEF ConnectionsOK
      <4> QED BY <2>1, <2>2, <2>3, <4>1, <4>2, <4>3
    <3>2. CASE ~AddFdRefuses(f)
      <4>1. watched' = watched \cup {f} /\ UNCHANGED <<list, quitting>>
        BY <1>26, <3>2 DEF Add
      <4>2. CulledOnce'
        BY <1>2, <2>1, <4>1 DEF CulledOnce, Culled
      <4>3. \A k \in local_connections \ quitting : fd[k] \in watched
        BY <1>2, <2>1 DEF ConnectionsOK
      <4> QED BY <2>1, <2>2, <2>3, <4>1, <4>2, <4>3
    <3> QED BY <3>1, <3>2
  <2> QED BY <2>1, <2>4, <2>5, <2>6 DEF ConnectionsOK
<1>27. CASE Cull
  <2> DEFINE c == Head(list)
             gone == {c, CGIRequests[c]} \ {NULL}
  <2>1. /\ pc = "Apply" /\ list # <<>> /\ list' = Tail(list)
        /\ CloseHandlers(gone, batch) /\ alive' = alive \ gone
        /\ local_connections' = local_connections \ {c}
        /\ quitting' = quitting \ {c}
        /\ UNCHANGED <<pc, running, ShuttingDown, ports>>
    BY <1>27 DEF Cull
  <2>2. c \in Connections
    BY <1>2, <2>1, HeadTailProperties DEF RestTypes
  <2>3. CulledOnce'
    BY <1>2, <2>1, CullTakes
  <2>4. CGIRequests[c] \in Pipes \cup {NULL}
    BY <1>2, <2>2 DEF RestTypes
  <2>5. /\ gone \subseteq Handlers /\ c \in gone
        /\ gone \cap Connections = {c} /\ gone \cap Listeners = {}
    BY <2>2, <2>4 DEF Handlers
  <2> HIDE DEF c, gone
  <2>6. ASSUME NEW k \in local_connections' \ quitting'
        PROVE  fd'[k] \in watched'
    <3>1. k \in local_connections \ quitting /\ k # c
      BY <2>1, <2>6
    <3>2. fd[k] \in watched
      BY <1>2, <2>1, <3>1 DEF ConnectionsOK
    <3>3. k \in Connections /\ k \in Handlers /\ k \notin gone
      BY <1>2, <2>5, <3>1 DEF RestTypes, Handlers
    <3> QED BY <1>2, <1>3, <2>1, <2>5, <3>2, <3>3, CloseSpares
  <2>7. alive' \cap Connections = local_connections'
    BY <1>2, <2>1, <2>5 DEF ConnectionsOK
  <2>8. ShutdownOK'
    BY <1>2, <2>1, <2>5 DEF ShutdownOK
  <2> QED BY <2>1, <2>3, <2>6, <2>7, <2>8 DEF ConnectionsOK
<1>28. CASE GracefulShutdown
  <2>1. /\ pc = "Signals" /\ CloseHandlers(ports, batch)
        /\ alive' = alive \ ports
        /\ pc' \in {"ClearSignal", "crashed"}
        /\ UNCHANGED <<list, quitting, local_connections, ports>>
    BY <1>28 DEF GracefulShutdown, Closing
  <2>2. ports = Listeners
    BY <1>2, <2>1 DEF ShutdownOK
  <2>3. \A c \in local_connections' \ quitting' : fd'[c] \in watched'
    BY <1>21, <2>1, <2>2
  <2>4. alive' \cap Connections = alive \cap Connections
        /\ alive' \cap Listeners = {}
    BY <2>1, <2>2
  <2> QED BY <1>2, <1>5, <2>1, <2>2, <2>3, <2>4
          DEF ConnectionsOK, ShutdownOK
<1> QED
  <2>1. CASE Dispatch
    BY <1>12, <1>17, <1>19, <1>20, <1>22, <2>1 DEF Dispatch
  <2>2. CASE Handle
    BY <1>13, <1>23, <1>24, <1>25, <2>2 DEF Handle
  <2>3. CASE Accept
    BY <1>14, <1>15, <1>26, <2>3 DEF Accept
  <2>4. CASE Signals
    BY <1>12, <1>16, <1>28, <2>4 DEF Signals
  <2>5. CASE Server
    BY <1>11, <1>12, <1>16, <1>27, <2>1, <2>2, <2>3, <2>4, <2>5 DEF Server
  <2>6. CASE Stopped
    BY <1>9, <2>6 DEF Stopped
  <2> QED BY <1>9, <1>10, <2>5, <2>6 DEF Next

LEMMA ConnectionInvariant == Spec => []CInv
BY CInvInit, CInvNext, PTL DEF Spec

-----------------------------------------------------------------------------
(* The theorems.                                                            *)

\* Every variable of the event loop keeps its type, whatever the clients and
\* the signals do; above all the engine's count never goes below zero.
THEOREM TypeCorrect == Spec => []TypeOK
BY Invariant, PTL DEF IInv

\* The engine's table names the existing owner of every descriptor the kernel
\* reports, and CurrentSetSize counts its entries (socketengine_epoll.cpp).
THEOREM TableFollowsKernel == Spec => []EngineConsistent
<1>1. IInv => EngineConsistent
  BY DEF IInv, EngineOK, EngineConsistent
<1> QED BY <1>1, Invariant, PTL

\* However handlers are made, refused and deleted, the descriptors that are
\* open are those that existing handlers will close.
THEOREM NothingLeaks == Spec => []NoDescriptorLeak
<1>1. IInv => NoDescriptorLeak
  BY DEF IInv, EngineOK, NoDescriptorLeak
<1> QED BY <1>1, Invariant, PTL

\* However often Delete is called for a connection, the cull list frees it
\* once (cull_list.cpp:24-31).
THEOREM FreedOnce == Spec => []CulledOnce
<1>1. CInv => CulledOnce
  BY DEF CInv, ConnectionsOK
<1> QED BY <1>1, ConnectionInvariant, PTL

\* A connection that lives and is not quitting is one the engine reports the
\* events of, to itself (connectionmanager.cpp:36-43).
THEOREM NobodyForgotten == Spec => []ConnectionsWatched
<1>1. CInv => ConnectionsWatched
  <2> SUFFICES ASSUME CInv, pc \notin Ended
               PROVE  /\ alive \cap Connections = local_connections
                      /\ \A c \in local_connections \ quitting :
                           fd[c] \in watched /\ ref[fd[c]] = c
    BY DEF ConnectionsWatched
  <2>1. ConnectionsOK /\ RefsAreOwners /\ DescriptorsOwned /\ TypeOK
    BY DEF CInv, IInv, EngineOK
  <2>2. ASSUME NEW c \in local_connections \ quitting
        PROVE  fd[c] \in watched /\ ref[fd[c]] = c
    <3>1. fd[c] \in watched /\ c \in Handlers /\ watched \subseteq Fds
      BY <2>1, <2>2 DEF ConnectionsOK, TypeOK, Handlers
    <3> QED BY <2>1, <3>1 DEF RefsAreOwners, DescriptorsOwned
  <2> QED BY <2>1, <2>2 DEF ConnectionsOK
<1> QED BY <1>1, ConnectionInvariant, PTL

\* The limits hold for any number of clients, connections that were refused
\* by the engine included (socket.cpp:83-97).
THEOREM WithinLimits == Spec => []LimitRespected
<1>1. CInv => LimitRespected
  BY DEF CInv
<1> QED BY <1>1, ConnectionInvariant, PTL

\* Nobody is accepted after a graceful shutdown (server.cpp:53-62).
THEOREM ShutdownTakesNobody == Spec => NobodyNewAfterShutdown
<1>1. CInv /\ [Next]_vars
        => [ShuttingDown => local_connections' \subseteq local_connections]_vars
  <2> SUFFICES ASSUME CInv, [Next]_vars, ShuttingDown
               PROVE  local_connections' \subseteq local_connections
    OBVIOUS
  <2>1. ASSUME NEW f \in Fds, NEW c \in Connections, Add(c, f)
        PROVE  FALSE
    BY <2>1 DEF Add, CInv, IInv, RunningOK, ShutdownOK, Ended
  <2> QED BY <2>1, OnlyAddAdds
<1> QED BY <1>1, ConnectionInvariant, PTL DEF Spec, NobodyNewAfterShutdown
=============================================================================
