---------------------------- MODULE EngineProofs ----------------------------
(***************************************************************************)
(* Proofs about the engines over kqueue, event ports, select() and         *)
(* completion ports.                                                       *)
(*                                                                         *)
(* WishesAreHeard is not inductive: an event that is dispatched changes    *)
(* what the kernel watches for, so that one has to know which events may   *)
(* still be left, and for whom.  EventsOK says so.  Its parts are that a   *)
(* descriptor which is not closed yet has no new owner, that no write      *)
(* event outlives its descriptor, and that with event ports a wish to      *)
(* write that meets a read event of its own came too late.                 *)
(*                                                                         *)
(* OneOperationEach counts; CompletionOK says instead which completions a  *)
(* handler can have, and to whom those that are left in the queue belong.  *)
(***************************************************************************)
EXTENDS SelectEngine, QueueEngines, CompletionEngine, FiniteSetTheorems,
        SequenceTheorems, WellFoundedInduction, TLAPS

engineVars == <<engine, tableVars>>
QueueSpec ==
  TableInit /\ QueueInit /\ [][QueueNext]_<<engineVars, queueVars>>
SelectSpec ==
  TableInit /\ SelectInit /\ [][SelectNext]_<<engineVars, selectVars>>

RegisteredOnes == {d \in Descriptors : Registered(d)}

TableTypeOK ==
  /\ engine \in {"select", "kqueue", "ports", "iocp"}
  /\ ref \in [Descriptors -> Handlers \cup {NoHandler}]
  /\ CurrentSetSize \in Int /\ refused \in Int

\* A handler is filed under its own descriptor, and they are counted.
TableOK ==
  /\ \A d \in Descriptors : Registered(d) => Fd(ref[d]) = d
  /\ CurrentSetSize + refused = Cardinality(RegisteredOnes)

LEMMA RegisteredIsFinite == IsFiniteSet(RegisteredOnes)
  BY DescriptorsAssumption, FS_Subset DEF RegisteredOnes

\* AddFd.
LEMMA AddedKeepsTable ==
  ASSUME TableTypeOK, TableOK, NEW h \in Handlers,
         ref[Fd(h)] = NoHandler,
         ref' = [ref EXCEPT ![Fd(h)] = h],
         CurrentSetSize' = CurrentSetSize + 1,
         UNCHANGED <<engine, refused>>
  PROVE  TableTypeOK' /\ TableOK'
<1>1. Fd(h) \in Descriptors /\ h # NoHandler
  BY HandlersAssumption DEF Handlers, Fd
<1>2. TableTypeOK'
  BY <1>1 DEF TableTypeOK
<1>3. RegisteredOnes' = RegisteredOnes \cup {Fd(h)} /\ Fd(h) \notin RegisteredOnes
  BY <1>1 DEF RegisteredOnes, Registered, TableTypeOK
<1>4. Cardinality(RegisteredOnes') = Cardinality(RegisteredOnes) + 1
  BY <1>3, RegisteredIsFinite, FS_AddElement
<1>5. ASSUME NEW d \in Descriptors, Registered(d)' PROVE (Fd(ref[d]) = d)'
  BY <1>1, <1>5 DEF Registered, TableOK, TableTypeOK, Fd
<1>6. QED BY <1>2, <1>4, <1>5 DEF TableOK, TableTypeOK

\* DelFd, of a handler that was added or refused.
LEMMA DeletedKeepsTable ==
  ASSUME TableTypeOK, TableOK, NEW h \in Handlers,
         ref[Fd(h)] \in {h, NoHandler},
         ref' = [ref EXCEPT ![Fd(h)] = NoHandler],
         CurrentSetSize' = CurrentSetSize - 1,
         refused' = IF ref[Fd(h)] = h THEN refused ELSE refused + 1,
         UNCHANGED engine
  PROVE  TableTypeOK' /\ TableOK'
<1>1. Fd(h) \in Descriptors /\ h # NoHandler
  BY HandlersAssumption DEF Handlers, Fd
<1>2. TableTypeOK'
  BY <1>1 DEF TableTypeOK
<1>3. RegisteredOnes' = RegisteredOnes \ {Fd(h)}
  BY <1>1 DEF RegisteredOnes, Registered, TableTypeOK
<1>4. Fd(h) \in RegisteredOnes <=> ref[Fd(h)] = h
  BY <1>1 DEF RegisteredOnes, Registered
<1>5. Cardinality(RegisteredOnes') =
        IF ref[Fd(h)] = h THEN Cardinality(RegisteredOnes) - 1
        ELSE Cardinality(RegisteredOnes)
  BY <1>3, <1>4, RegisteredIsFinite, FS_RemoveElement
<1>6. Cardinality(RegisteredOnes) \in Int
  BY RegisteredIsFinite, FS_CardinalityType
<1>7. ASSUME NEW d \in Descriptors, Registered(d)' PROVE (Fd(ref[d]) = d)'
  BY <1>1, <1>7 DEF Registered, TableOK, TableTypeOK
<1>8. CurrentSetSize' + refused' = Cardinality(RegisteredOnes')
  BY <1>5, <1>6 DEF TableOK, TableTypeOK
<1>9. QED BY <1>2, <1>7, <1>8 DEF TableOK

-----------------------------------------------------------------------------
(* kqueue and event ports.                                                  *)

Event == [fd : Descriptors, filter : {"read", "write"}, eof : BOOLEAN]

QueueTypeOK ==
  /\ TableTypeOK
  /\ interest \in [Descriptors -> SUBSET {"read", "write"}]
  /\ events \in SUBSET Event
  /\ closing \in SUBSET Descriptors
  /\ waits \in SUBSET Descriptors /\ late \in SUBSET Descriptors

\* What the kernel watches, and what events there may be, for whom.
EventsOK ==
  \A d \in Descriptors :
    /\ d \in closing => ~Registered(d)
    /\ d \in waits => Registered(d)
    /\ Writes(d) \in events => Registered(d) \/ d \in closing
    /\ engine = "ports" =>
         /\ ~{"read", "write"} \subseteq interest[d]
         /\ Reads(d) \in events /\ d \in waits => d \in late
         /\ \A e \in About(d) : ~e.eof

\* WishesAreHeard without what TableOK says.
HeardOK ==
  \A d \in Descriptors :
    /\ Registered(d) =>
         /\ "read" \in interest[d] \/ engine = "ports"
         /\ interest[d] # {} \/ About(d) # {}
         /\ d \in waits \ late =>
              \/ "write" \in interest[d]
              \/ \E e \in About(d) : e.filter = "write" \/ e.eof
    /\ interest[d] # {} => Registered(d) \/ d \in closing

QueueInv == engine \in {"kqueue", "ports"} => TableOK /\ EventsOK /\ HeardOK
QueueIInv == QueueTypeOK /\ QueueInv

LEMMA QueueInitially == TableInit /\ QueueInit => QueueIInv
<1> SUFFICES ASSUME TableInit, QueueInit PROVE QueueIInv
  OBVIOUS
<1> USE DEF TableInit, QueueInit
<1>1. \A d \in Descriptors : ~Registered(d)
  BY DEF Registered
<1>2. RegisteredOnes = {}
  BY <1>1 DEF RegisteredOnes
<1>3. TableOK
  BY <1>1, <1>2, FS_EmptySet DEF TableOK
<1>4. QueueTypeOK
  BY DEF QueueTypeOK, TableTypeOK
<1>5. EventsOK /\ HeardOK
  BY <1>1 DEF EventsOK, HeardOK, About
<1>6. QED BY <1>3, <1>4, <1>5 DEF QueueIInv, QueueInv

\* The events there may be, with EV_EOF or without.
LEMMA EventsHaveFields ==
  ASSUME NEW d \in Descriptors, NEW f \in {"read", "write"}, NEW b \in BOOLEAN
  PROVE  /\ KEvent(d, f, b) \in Event
         /\ KEvent(d, f, b).fd = d /\ KEvent(d, f, b).filter = f
         /\ KEvent(d, f, b).eof = b
  BY DEF KEvent, Event

LEMMA EventsAreApart ==
  ASSUME NEW d \in Descriptors
  PROVE  /\ Reads(d) \in Event /\ Writes(d) \in Event
         /\ Reads(d).fd = d /\ Reads(d).filter = "read" /\ ~Reads(d).eof
         /\ Writes(d).fd = d /\ Writes(d).filter = "write" /\ ~Writes(d).eof
  BY DEF Reads, Writes, KEvent, Event

\* An event is what its fields are.
LEMMA EventsAreTheirFields ==
  ASSUME NEW e \in Event
  PROVE  /\ e.filter = "read" /\ ~e.eof => e = Reads(e.fd)
         /\ e.filter = "write" /\ ~e.eof => e = Writes(e.fd)
<1>1. e = [fd |-> e.fd, filter |-> e.filter, eof |-> e.eof] /\ e.eof \in BOOLEAN
  BY DEF Event
<1>2. QED BY <1>1 DEF Reads, Writes, KEvent

\* What kqueue reports, as KQueueDispatchEvents takes it over.
KReports(read, write, eof) ==
  {KEvent(d, "read", eof[d]) : d \in read}
    \cup {KEvent(d, "write", eof[d]) : d \in write}
PortReports(read, other) ==
  {Reads(d) : d \in read} \cup {Writes(d) : d \in other}

LEMMA Reported ==
  ASSUME NEW read \in SUBSET Descriptors, NEW write \in SUBSET Descriptors,
         NEW eof \in [Descriptors -> BOOLEAN]
  PROVE  LET all == KReports(read, write, eof) IN
         /\ all \in SUBSET Event
         /\ \A e \in all : e.filter = "write" => e.fd \in write
         /\ \A d \in write : \E e \in all : e.fd = d /\ e.filter = "write"
<1> DEFINE all == KReports(read, write, eof)
<1> USE DEF KReports
<1>1. ASSUME NEW e \in all
      PROVE  e \in Event /\ (e.filter = "write" => e.fd \in write)
  <2>1. \/ \E d \in read : e = KEvent(d, "read", eof[d])
        \/ \E d \in write : e = KEvent(d, "write", eof[d])
    BY Zenon
  <2>2. CASE \E d \in read : e = KEvent(d, "read", eof[d])
    <3>1. PICK d \in read : e = KEvent(d, "read", eof[d])
      BY <2>2
    <3>2. e \in Event /\ e.filter = "read"
      BY <3>1, EventsHaveFields
    <3>3. QED BY <3>2
  <2>3. CASE \E d \in write : e = KEvent(d, "write", eof[d])
    <3>1. PICK d \in write : e = KEvent(d, "write", eof[d])
      BY <2>3
    <3>2. d \in Descriptors
      OBVIOUS
    <3>3. e \in Event /\ e.fd = d
      BY <3>1, <3>2, EventsHaveFields
    <3>4. QED BY <3>3
  <2>4. QED BY <2>1, <2>2, <2>3
<1>2. ASSUME NEW d \in write
      PROVE  \E e \in all : e.fd = d /\ e.filter = "write"
  <2>1. d \in Descriptors /\ KEvent(d, "write", eof[d]) \in all
    OBVIOUS
  <2>2. QED BY <2>1, EventsHaveFields
<1>3. QED BY <1>1, <1>2

\* What a port reports.
LEMMA ReportedByPorts ==
  ASSUME NEW read \in SUBSET Descriptors, NEW other \in SUBSET Descriptors
  PROVE  LET all == PortReports(read, other) IN
         /\ all \in SUBSET Event
         /\ \A e \in all : ~e.eof
         /\ \A d \in Descriptors : Reads(d) \in all <=> d \in read
         /\ \A d \in Descriptors : Writes(d) \in all <=> d \in other
<1> DEFINE all == PortReports(read, other)
<1> USE DEF PortReports
<1>1. ASSUME NEW e \in all
      PROVE  /\ e \in Event /\ ~e.eof
             /\ e.filter = "read" => e.fd \in read
             /\ e.filter = "write" => e.fd \in other
  <2>1. \/ \E d \in read : e = Reads(d)
        \/ \E d \in other : e = Writes(d)
    OBVIOUS
  <2>2. QED BY <2>1, EventsAreApart
<1>2. \A d \in read : Reads(d) \in all
  OBVIOUS
<1>3. \A d \in other : Writes(d) \in all
  OBVIOUS
<1>4. QED BY <1>1, <1>2, <1>3, EventsAreApart

\* KQueueAddFd and PortsAddFd.
LEMMA AddedKeeps ==
  ASSUME QueueIInv, NEW h \in Handlers, Added(h), UNCHANGED engine,
         engine \in {"kqueue", "ports"}
  PROVE  QueueIInv'
<1>1. Fd(h) \in Descriptors /\ h # NoHandler /\ ~Registered(Fd(h))
  BY HandlersAssumption DEF Handlers, Fd, Added, Registered
<1>2. TableTypeOK' /\ TableOK'
  BY AddedKeepsTable DEF QueueIInv, QueueInv, QueueTypeOK, Added
<1>3. QueueTypeOK'
  BY <1>1, <1>2 DEF QueueIInv, QueueTypeOK, Added
<1>4. \A d \in Descriptors : Registered(d)' <=> Registered(d) \/ d = Fd(h)
  BY <1>1 DEF Added, Registered, QueueIInv, QueueTypeOK, TableTypeOK
<1>5. EventsOK'
  BY <1>1, <1>4 DEF EventsOK, QueueIInv, QueueInv, QueueTypeOK, Added,
                    Reads, Writes, About
<1>6. HeardOK'
  BY <1>1, <1>4 DEF HeardOK, EventsOK, QueueIInv, QueueInv, QueueTypeOK,
                    Added, About
<1>7. QED BY <1>2, <1>3, <1>5, <1>6 DEF QueueIInv, QueueInv

\* KQueueDelFd and PortsDelFd.
LEMMA DeletedKeeps ==
  ASSUME QueueIInv, NEW h \in Handlers, MayDelete(h), Deleted(h),
         UNCHANGED <<events, engine>>, engine \in {"kqueue", "ports"}
  PROVE  QueueIInv'
<1>1. Fd(h) \in Descriptors /\ h # NoHandler
  BY HandlersAssumption DEF Handlers, Fd
<1>2. TableTypeOK' /\ TableOK'
  BY DeletedKeepsTable DEF QueueIInv, QueueInv, QueueTypeOK, Deleted, MayDelete
<1>3. QueueTypeOK'
  BY <1>1, <1>2 DEF QueueIInv, QueueTypeOK, Deleted
<1>4. \A d \in Descriptors : Registered(d)' <=> Registered(d) /\ d # Fd(h)
  BY <1>1 DEF Deleted, Registered, QueueIInv, QueueTypeOK, TableTypeOK
<1>5. Registered(Fd(h)) => Fd(h) \in closing'
  BY <1>1 DEF Deleted, MayDelete, Registered
<1>6. EventsOK'
  BY <1>1, <1>4, <1>5 DEF EventsOK, QueueIInv, QueueInv, QueueTypeOK, Deleted,
                    Reads, Writes, About
<1>7. HeardOK'
  BY <1>1, <1>4, <1>5 DEF HeardOK, EventsOK, QueueIInv, QueueInv, QueueTypeOK,
                    Deleted, About
<1>8. QED BY <1>2, <1>3, <1>6, <1>7 DEF QueueIInv, QueueInv

\* What changes neither the table nor who is registered.
LEMMA TableStays ==
  ASSUME TableTypeOK, TableOK, UNCHANGED <<engine, tableVars>>
  PROVE  /\ TableTypeOK' /\ TableOK'
         /\ \A d \in Descriptors : Registered(d)' <=> Registered(d)
<1>1. \A d : Registered(d)' <=> Registered(d)
  BY DEF Registered, tableVars
<1>2. RegisteredOnes' = RegisteredOnes
  BY <1>1 DEF RegisteredOnes
<1>3. QED BY <1>1, <1>2 DEF TableTypeOK, TableOK, tableVars

LEMMA QueueStep ==
  ASSUME QueueIInv, QueueNext, engine \in {"kqueue", "ports"}
  PROVE  QueueIInv'
<1> USE DEF QueueIInv, QueueInv
<1>0. UNCHANGED engine
  BY DEF QueueNext
<1>1. ASSUME NEW h \in Handlers, KQueueAddFd(h) \/ PortsAddFd(h)
      PROVE  QueueIInv'
  BY <1>0, <1>1, AddedKeeps DEF KQueueAddFd, PortsAddFd
<1>2. ASSUME NEW h \in Handlers, KQueueDelFd(h) \/ PortsDelFd(h)
      PROVE  QueueIInv'
  BY <1>0, <1>2, DeletedKeeps DEF KQueueDelFd, PortsDelFd
<1>3. ASSUME NEW h \in Handlers, KQueueWantWrite(h) \/ PortsWantWrite(h)
      PROVE  QueueIInv'
  <2>1. Fd(h) \in Descriptors /\ Registered(Fd(h)) /\ UNCHANGED <<engine, tableVars>>
    BY <1>0, <1>3, HandlersAssumption
    DEF Handlers, Fd, KQueueWantWrite, PortsWantWrite, Registered
  <2>2. /\ TableTypeOK' /\ TableOK'
        /\ \A d \in Descriptors : Registered(d)' <=> Registered(d)
    BY <2>1, TableStays DEF QueueTypeOK
  <2>3. QueueTypeOK'
    BY <1>3, <2>1, <2>2 DEF QueueTypeOK, KQueueWantWrite, PortsWantWrite
  <2>4. CASE KQueueWantWrite(h)
    <3>1. EventsOK'
      BY <2>1, <2>2, <2>4 DEF EventsOK, QueueTypeOK, KQueueWantWrite, About,
                              Reads, Writes
    <3>2. HeardOK'
      BY <2>1, <2>2, <2>4 DEF HeardOK, QueueTypeOK, KQueueWantWrite, About
    <3>3. QED BY <2>2, <2>3, <3>1, <3>2
  <2>5. CASE PortsWantWrite(h)
    <3>1. EventsOK'
      BY <2>1, <2>2, <2>5 DEF EventsOK, QueueTypeOK, PortsWantWrite, About,
                              Reads, Writes
    <3>2. HeardOK'
      BY <2>1, <2>2, <2>5 DEF HeardOK, QueueTypeOK, PortsWantWrite, About
    <3>3. QED BY <2>2, <2>3, <3>1, <3>2
  <2>6. QED BY <1>3, <2>4, <2>5
<1>4. ASSUME NEW f \in Descriptors, CloseFd(f) PROVE QueueIInv'
  <2>1. /\ TableTypeOK' /\ TableOK'
        /\ \A d \in Descriptors : Registered(d)' <=> Registered(d)
    BY <1>0, <1>4, TableStays DEF QueueTypeOK, CloseFd
  <2>2. QueueTypeOK'
    BY <1>4, <2>1 DEF QueueTypeOK, CloseFd
  <2>3. EventsOK'
    BY <1>0, <1>4, <2>1 DEF EventsOK, QueueTypeOK, CloseFd, About, Reads, Writes
  <2>4. HeardOK'
    BY <1>0, <1>4, <2>1 DEF HeardOK, EventsOK, QueueTypeOK, CloseFd, About
  <2>5. QED BY <2>1, <2>2, <2>3, <2>4
<1>5. ASSUME KQueueDispatchEvents PROVE QueueIInv'
  <2>1. /\ TableTypeOK' /\ TableOK'
        /\ \A d \in Descriptors : Registered(d)' <=> Registered(d)
    BY <1>0, <1>5, TableStays DEF QueueTypeOK, KQueueDispatchEvents
  <2>2. PICK read \in SUBSET Descriptors, write \in SUBSET Descriptors,
             eof \in [Descriptors -> BOOLEAN] :
       /\ \A d \in read : "read" \in interest[d]
       /\ \A d \in write : "write" \in interest[d]
       /\ events' = KReports(read, write, eof)
       /\ interest' = [d \in Descriptors |-> IF d \in write
                                        THEN interest[d] \ {"write"}
                                        ELSE interest[d]]
    BY <1>5 DEF KQueueDispatchEvents, KReports
  <2>3. /\ events' \in SUBSET Event
        /\ \A e \in events' : e.filter = "write" => e.fd \in write
        /\ \A d \in write : \E e \in events' : e.fd = d /\ e.filter = "write"
    BY <2>2, Reported
  <2>4. engine' = "kqueue" /\ UNCHANGED <<ref, closing, waits, late>>
    BY <1>0, <1>5 DEF KQueueDispatchEvents, tableVars
  <2>5. QueueTypeOK'
    BY <2>1, <2>2, <2>3, <2>4 DEF QueueTypeOK
  <2>6. EventsOK'
    <3>1. \A d \in Descriptors : Writes(d) \in events' => d \in write
      BY <2>3, EventsAreApart
    <3>2. \A d \in write : interest[d] # {}
      BY <2>2
    <3>3. QED BY <2>1, <2>4, <3>1, <3>2 DEF EventsOK, HeardOK
  <2>7. HeardOK'
    <3>1. \A d \in Descriptors : About(d) = {}
      BY <1>5 DEF KQueueDispatchEvents, About
    <3>2. \A d \in write : \E e \in About(d)' : e.filter = "write"
      BY <2>3 DEF About
    <3>3. ASSUME NEW d \in Descriptors
          PROVE  /\ interest'[d] \subseteq interest[d]
                 /\ interest[d] \ {"write"} \subseteq interest'[d]
                 /\ d \notin write => interest'[d] = interest[d]
      BY <2>2
    <3>4. ASSUME NEW d \in Descriptors, Registered(d)'
          PROVE  /\ "read" \in interest'[d]
                 /\ d \in waits' \ late' =>
                      \/ "write" \in interest'[d]
                      \/ \E e \in About(d)' : e.filter = "write" \/ e.eof
      <4>1. /\ Registered(d) /\ "read" \in interest[d]
            /\ d \in waits \ late => "write" \in interest[d]
        BY <1>5, <2>1, <3>1, <3>4 DEF HeardOK, KQueueDispatchEvents
      <4>2. QED BY <2>4, <3>2, <3>3, <4>1
    <3>5. ASSUME NEW d \in Descriptors, interest'[d] # {}
          PROVE  Registered(d)' \/ d \in closing'
      BY <2>1, <2>4, <3>3, <3>5 DEF HeardOK
    <3>6. QED BY <3>4, <3>5 DEF HeardOK
  <2>8. QED BY <2>1, <2>5, <2>6, <2>7
<1>6. ASSUME PortsDispatchEvents PROVE QueueIInv'
  <2>1. /\ TableTypeOK' /\ TableOK'
        /\ \A d \in Descriptors : Registered(d)' <=> Registered(d)
    BY <1>0, <1>6, TableStays DEF QueueTypeOK, PortsDispatchEvents
  <2>0. PICK read \in SUBSET {d \in Descriptors : interest[d] # {}},
             other \in SUBSET {d \in Descriptors : interest[d] # {}} :
       /\ read \cap other = {}
       /\ \A d \in read : "read" \in interest[d]
       /\ events' = PortReports(read, other)
       /\ interest' = [d \in Descriptors |-> IF d \in read \cup other THEN {}
                                        ELSE interest[d]]
    BY <1>6 DEF PortsDispatchEvents, PortReports
  <2>2. /\ read \in SUBSET Descriptors /\ other \in SUBSET Descriptors
        /\ \A d \in read \cup other : interest[d] # {}
        /\ read \cap other = {}
        /\ \A d \in read : "read" \in interest[d]
        /\ events' = PortReports(read, other)
        /\ interest' = [d \in Descriptors |-> IF d \in read \cup other THEN {}
                                         ELSE interest[d]]
    BY <2>0
  <2>3. /\ events' \in SUBSET Event
        /\ \A e \in events' : ~e.eof
        /\ \A d \in Descriptors : Reads(d) \in events' <=> d \in read
        /\ \A d \in Descriptors : Writes(d) \in events' <=> d \in other
    BY <2>2, ReportedByPorts
  <2>4. engine' = "ports" /\ UNCHANGED <<ref, closing, waits, late>>
    BY <1>0, <1>6 DEF PortsDispatchEvents, tableVars
  <2>5. QueueTypeOK'
    <3>1. interest' \in [Descriptors -> SUBSET {"read", "write"}]
      BY <2>2 DEF QueueTypeOK
    <3>2. QED BY <2>1, <2>3, <2>4, <3>1 DEF QueueTypeOK
  <2>6. /\ \A d \in Descriptors : About(d) = {}
        /\ engine = "ports"
    BY <1>6 DEF PortsDispatchEvents, About
  <2>7. ASSUME NEW d \in Descriptors
        PROVE  /\ d \in read \cup other => interest'[d] = {}
               /\ d \notin read \cup other => interest'[d] = interest[d]
    BY <2>2
  <2>8. ASSUME NEW d \in Descriptors, d \in waits \ late
        PROVE  d \notin read
    BY <2>2, <2>6, <2>8 DEF EventsOK, HeardOK
  <2>9. EventsOK'
    <3>1. \A d \in read \cup other : Registered(d) \/ d \in closing
      BY <2>2 DEF HeardOK
    <3>2. \A d \in Descriptors : ~({"read", "write"} \subseteq interest'[d])
      BY <2>6, <2>7 DEF EventsOK
    <3>3. \A d \in Descriptors : \A e \in About(d)' : ~e.eof
      BY <2>3 DEF About
    <3>4. QED BY <2>1, <2>3, <2>4, <2>8, <3>1, <3>2, <3>3 DEF EventsOK
  <2>10. HeardOK'
    <3>1. \A d \in read : Reads(d) \in About(d)'
      BY <2>2, <2>3, EventsAreApart DEF About
    <3>2. \A d \in other : Writes(d) \in About(d)' /\ Writes(d).filter = "write"
      BY <2>2, <2>3, EventsAreApart DEF About
    <3>3. ASSUME NEW d \in Descriptors, Registered(d)'
          PROVE  /\ interest'[d] # {} \/ About(d)' # {}
                 /\ d \in waits' \ late' =>
                      \/ "write" \in interest'[d]
                      \/ \E e \in About(d)' : e.filter = "write" \/ e.eof
      <4>1. /\ Registered(d)
            /\ interest[d] # {}
            /\ d \in waits \ late => "write" \in interest[d]
        BY <2>1, <2>6, <3>3 DEF HeardOK
      <4>2. QED BY <2>4, <2>7, <2>8, <3>1, <3>2, <4>1
    <3>4. ASSUME NEW d \in Descriptors, interest'[d] # {}
          PROVE  Registered(d)' \/ d \in closing'
      BY <2>1, <2>4, <2>7, <3>4 DEF HeardOK
    <3>5. QED BY <2>4, <3>3, <3>4 DEF HeardOK
  <2>11. QED BY <2>1, <2>5, <2>9, <2>10
<1>7. ASSUME NEW e \in events, KQueueDispatch(e) PROVE QueueIInv'
  <2>1. /\ TableTypeOK' /\ TableOK'
        /\ \A d \in Descriptors : Registered(d)' <=> Registered(d)
    BY <1>0, <1>7, TableStays DEF QueueTypeOK, KQueueDispatch
  <2>2. e \in Event /\ e.fd \in Descriptors
    BY DEF QueueTypeOK, Event
  <2>3. e.filter = "write" /\ ~e.eof => e = Writes(e.fd)
    BY <2>2, EventsAreTheirFields
  <2>4. QueueTypeOK'
    BY <1>7, <2>1, <2>2 DEF QueueTypeOK, KQueueDispatch
  <2>5. EventsOK'
    BY <1>0, <1>7, <2>1, <2>2 DEF EventsOK, QueueTypeOK, KQueueDispatch
  <2>6. HeardOK'
    BY <1>0, <1>7, <2>1, <2>2, <2>3 DEF HeardOK, EventsOK, QueueTypeOK,
                                        KQueueDispatch, About
  <2>7. QED BY <2>1, <2>4, <2>5, <2>6
<1>8. ASSUME NEW e \in events, PortsDispatch(e) PROVE QueueIInv'
  <2>1. /\ TableTypeOK' /\ TableOK'
        /\ \A d \in Descriptors : Registered(d)' <=> Registered(d)
    BY <1>0, <1>8, TableStays DEF QueueTypeOK, PortsDispatch
  <2>2. e \in Event /\ e.fd \in Descriptors
    BY DEF QueueTypeOK, Event
  <2>3. ~e.eof /\ (e.filter = "read" => e = Reads(e.fd))
    <3>1. ~e.eof
      BY <1>8, <2>2 DEF EventsOK, PortsDispatch, About
    <3>2. QED BY <2>2, <3>1, EventsAreTheirFields
  <2>4. QueueTypeOK'
    BY <1>8, <2>1, <2>2 DEF QueueTypeOK, PortsDispatch
  <2>5. EventsOK'
    BY <1>0, <1>8, <2>1, <2>2 DEF EventsOK, QueueTypeOK, PortsDispatch, About,
                                  Event
  <2>6. HeardOK'
    BY <1>0, <1>8, <2>1, <2>2, <2>3 DEF HeardOK, EventsOK, QueueTypeOK,
                                        PortsDispatch, About, Event
  <2>7. QED BY <2>1, <2>4, <2>5, <2>6
<1>9. QED BY <1>1, <1>2, <1>3, <1>4, <1>5, <1>6, <1>7, <1>8 DEF QueueNext

LEMMA QueueStutters ==
  ASSUME QueueIInv, UNCHANGED <<engineVars, queueVars>>
  PROVE  QueueIInv'
<1>1. /\ \A d : Registered(d)' <=> Registered(d)
      /\ RegisteredOnes' = RegisteredOnes
  BY DEF engineVars, tableVars, Registered, RegisteredOnes
<1>2. TableTypeOK' = TableTypeOK /\ TableOK' = TableOK
  BY <1>1 DEF engineVars, tableVars, TableTypeOK, TableOK
<1>3. QueueTypeOK' = QueueTypeOK
  BY <1>2 DEF QueueTypeOK, queueVars
<1>4. \A d : About(d)' = About(d)
  BY DEF About, queueVars
<1>5. EventsOK' = EventsOK /\ HeardOK' = HeardOK
  BY <1>1, <1>4 DEF EventsOK, HeardOK, engineVars, queueVars
<1>6. QED BY <1>2, <1>3, <1>5 DEF QueueIInv, QueueInv, engineVars

LEMMA QueueIInvSuffices ==
  ASSUME QueueIInv, engine \in {"kqueue", "ports"}
  PROVE  WishesAreHeard
<1>1. TableOK /\ HeardOK
  BY DEF QueueIInv, QueueInv
<1>2. CurrentSetSize + refused = Cardinality({d \in Descriptors : Registered(d)})
  BY <1>1 DEF TableOK, RegisteredOnes
<1>3. QED BY <1>1, <1>2 DEF WishesAreHeard, TableOK, HeardOK

\* With kqueue and with event ports no handler goes deaf, and none that wants
\* to write is forgotten, whatever handlers there are and in whatever order
\* they are added, deleted and called (socketengine_kqueue.cpp:98-215,
\* socketengine_ports.cpp:51-127).
THEOREM QueueWishesAreHeard == QueueSpec => []WishesAreHeard
<1> DEFINE IInv == engine \in {"kqueue", "ports"} => QueueIInv
<1>1. TableInit /\ QueueInit => IInv
  BY QueueInitially
<1>2. IInv /\ [QueueNext]_<<engineVars, queueVars>> => IInv'
  <2> SUFFICES ASSUME IInv, [QueueNext]_<<engineVars, queueVars>>,
                      engine' \in {"kqueue", "ports"}
               PROVE  QueueIInv'
    OBVIOUS
  <2>1. engine' = engine
    BY DEF QueueNext, engineVars
  <2>2. QueueIInv
    BY <2>1
  <2>3. CASE QueueNext
    BY <2>1, <2>2, <2>3, QueueStep
  <2>4. CASE UNCHANGED <<engineVars, queueVars>>
    BY <2>2, <2>4, QueueStutters
  <2>5. QED BY <2>3, <2>4
<1>3. IInv => WishesAreHeard
  <2>1. CASE engine \in {"kqueue", "ports"}
    BY <2>1, QueueIInvSuffices
  <2>2. CASE engine \notin {"kqueue", "ports"}
    BY <2>2 DEF WishesAreHeard
  <2>3. QED BY <2>1, <2>2
<1>4. QED BY <1>1, <1>2, <1>3, PTL DEF QueueSpec

-----------------------------------------------------------------------------
(* select().  What is inductive says of every key of fds what it leads to.  *)

SelectIInv ==
  engine = "select" =>
  /\ TableTypeOK /\ TableOK
  /\ DOMAIN fds \subseteq Descriptors
  /\ \A d \in DOMAIN fds : fds[d] \in {d, 0}
  /\ \A d \in DOMAIN fds : fds[d] # 0 => Registered(d)
  /\ \A d \in Descriptors : Registered(d) => d \in DOMAIN fds /\ fds[d] = d

LEMMA SelectInitially == TableInit /\ SelectInit => SelectIInv
<1> SUFFICES ASSUME TableInit, SelectInit PROVE SelectIInv
  OBVIOUS
<1> USE DEF TableInit, SelectInit
<1>1. \A d \in Descriptors : ~Registered(d)
  BY DEF Registered
<1>2. RegisteredOnes = {}
  BY <1>1 DEF RegisteredOnes
<1>3. TableOK /\ TableTypeOK
  BY <1>1, <1>2, FS_EmptySet DEF TableOK, TableTypeOK
<1>4. DOMAIN fds = {}
  OBVIOUS
<1>5. QED BY <1>1, <1>3, <1>4 DEF SelectIInv

LEMMA SelectStep ==
  ASSUME SelectIInv, SelectNext
  PROVE  SelectIInv'
<1>0. engine = "select" /\ engine' = engine
  BY DEF SelectNext
<1>1. ASSUME NEW h \in Handlers, AddFd(h) PROVE SelectIInv'
  <2>1. Fd(h) \in Descriptors /\ h # NoHandler
    BY HandlersAssumption DEF Handlers, Fd
  <2>2. TableTypeOK' /\ TableOK'
    BY <1>0, <1>1, AddedKeepsTable DEF SelectIInv, AddFd
  <2>3. \A d \in Descriptors : Registered(d)' <=> Registered(d) \/ d = Fd(h)
    BY <1>0, <1>1, <2>1 DEF AddFd, Registered, SelectIInv, TableTypeOK
  <2>4. /\ DOMAIN fds' = DOMAIN fds \cup {Fd(h)}
        /\ \A d \in DOMAIN fds' : fds'[d] = IF d = Fd(h) THEN d ELSE fds[d]
    BY <1>1 DEF AddFd
  <2>5. QED BY <1>0, <2>1, <2>2, <2>3, <2>4 DEF SelectIInv
<1>2. ASSUME NEW h \in Handlers, SelectDelFd(h) PROVE SelectIInv'
  <2>1. Fd(h) \in Descriptors /\ h # NoHandler
    BY HandlersAssumption DEF Handlers, Fd
  <2>2. TableTypeOK' /\ TableOK'
    BY <1>0, <1>2, DeletedKeepsTable DEF SelectIInv, SelectDelFd
  <2>3. \A d \in Descriptors : Registered(d)' <=> Registered(d) /\ d # Fd(h)
    BY <1>0, <1>2, <2>1 DEF SelectDelFd, Registered, SelectIInv, TableTypeOK
  <2>4. /\ DOMAIN fds' = DOMAIN fds \cup {Fd(h)}
        /\ \A d \in DOMAIN fds' : fds'[d] = IF d = Fd(h) THEN 0 ELSE fds[d]
    BY <1>2 DEF SelectDelFd
  <2>5. QED BY <1>0, <2>1, <2>2, <2>3, <2>4 DEF SelectIInv
<1>3. ASSUME UNCHANGED <<engine, fds, ref, CurrentSetSize, refused>>
      PROVE  SelectIInv'
  <2>1. TableTypeOK' /\ TableOK' /\ \A d \in Descriptors :
          Registered(d)' <=> Registered(d)
    BY <1>0, <1>3, TableStays DEF SelectIInv, tableVars
  <2>2. QED BY <1>0, <1>3, <2>1 DEF SelectIInv
<1>4. QED BY <1>0, <1>1, <1>2, <1>3
          DEF SelectNext, WantWrite, DispatchEvents, Dispatch

\* With select(), every handler that is registered is watched under its own
\* descriptor, nothing else is but for descriptor 0, and the count is right
\* but for the handlers the engine had refused (socketengine_select.cpp:31-73).
THEOREM SelectWatchedAreRegistered == SelectSpec => []WatchedAreRegistered
<1>1. SelectIInv /\ [SelectNext]_<<engineVars, selectVars>> => SelectIInv'
  <2> SUFFICES ASSUME SelectIInv, [SelectNext]_<<engineVars, selectVars>>
               PROVE  SelectIInv'
    OBVIOUS
  <2>1. CASE SelectNext
    BY <2>1, SelectStep
  <2>2. CASE UNCHANGED <<engineVars, selectVars>>
    <3>1. CASE engine = "select"
      <4>1. TableTypeOK' /\ TableOK' /\ \A d \in Descriptors :
              Registered(d)' <=> Registered(d)
        BY <2>2, <3>1, TableStays DEF SelectIInv, engineVars
      <4>2. QED BY <2>2, <3>1, <4>1 DEF SelectIInv, engineVars, selectVars
    <3>2. CASE engine # "select"
      BY <2>2, <3>2 DEF SelectIInv, engineVars
    <3>3. QED BY <3>1, <3>2
  <2>3. QED BY <2>1, <2>2
<1>2. SelectIInv => WatchedAreRegistered
  <2> SUFFICES ASSUME SelectIInv, engine = "select"
               PROVE  /\ RegisteredOnes \subseteq Watched
                      /\ Watched \ RegisteredOnes \subseteq {0}
                      /\ \A d \in RegisteredOnes : Fd(ref[d]) = d
                      /\ CurrentSetSize + refused = Cardinality(RegisteredOnes)
    BY DEF WatchedAreRegistered, RegisteredOnes
  <2>1. RegisteredOnes \subseteq Watched
    BY DEF SelectIInv, RegisteredOnes, Watched
  <2>2. Watched \ RegisteredOnes \subseteq {0}
    BY DEF SelectIInv, RegisteredOnes, Watched
  <2>3. QED BY <2>1, <2>2 DEF SelectIInv, TableOK, RegisteredOnes
<1>3. QED BY <1>1, <1>2, SelectInitially, PTL DEF SelectSpec

-----------------------------------------------------------------------------
(* Completion ports.  What is inductive is that every completion is its      *)
(* handler's, for as long as there is one, and that each handler has at most *)
(* one operation, under way or over, and exactly one until it has been told  *)
(* of an error; from there on it is only known to have no more.              *)

CompletionSpec ==
  TableInit /\ CompletionInit /\ [][CompletionNext]_<<engineVars, completionVars>>

CompletionType ==
  [key : Descriptors, of : Handlers \cup {NoHandler},
   event : {"read", "accept", "write", "error"}, ok : BOOLEAN, freed : BOOLEAN]

Reading == {"read", "accept", "error"}
Associated(h) == internal_fd[h] # -1 /\ ref[internal_fd[h]] = h
Awaits(h) == <<h, Awaited(h)>> \in underway

\* Has the queue one of these completions, and has it no two of them?
Its(c, h, kinds) == c.of = h /\ c.event \in kinds
Has(queue, h, kinds) == \E i \in 1 .. Len(queue) : Its(queue[i], h, kinds)
Single(queue, h, kinds) ==
  \A i, j \in 1 .. Len(queue) :
    Its(queue[i], h, kinds) /\ Its(queue[j], h, kinds) => i = j

\* Completions of handlers that are gone were freed, but for errors.
Proper(c) ==
  IF c.of = NoHandler THEN c.freed \/ (c.event = "error" /\ c.ok)
  ELSE /\ ~c.freed /\ Associated(c.of) /\ c.key = internal_fd[c.of]
       /\ c.event \in {"write", "error", Awaited(c.of)}
       /\ c.event \in {"write", "error"} => c.ok

CompletionTypeOK ==
  /\ TableTypeOK
  /\ internal_fd \in [Handlers -> Descriptors \cup {-1}]
  /\ completions \in Seq(CompletionType)

KeysOK ==
  /\ \A h \in Handlers, d \in Descriptors : ref[d] = h => internal_fd[h] = d
  /\ CurrentSetSize + refused = Cardinality(RegisteredOnes)

OwnersOK ==
  /\ \A i \in 1 .. Len(completions) : Proper(completions[i])
  /\ \A x \in underway :
       /\ x[1] \in Handlers /\ x = <<x[1], Awaited(x[1])>>
       /\ Associated(x[1]) /\ x \in extensions
  /\ \A x \in extensions : x[1] \in Handlers /\ Associated(x[1])

Listens(h) ==
  /\ Single(completions, h, Reading)
  /\ Awaits(h) => ~Has(completions, h, Reading)
  /\ Associated(h) /\ h \notin dying \cup deaf =>
       Awaits(h) \/ Has(completions, h, Reading)
WriteComes(h) ==
  /\ Single(completions, h, {"write"})
  /\ Has(completions, h, {"write"}) <=> GetExt(h, "write")

CompletionOK ==
  /\ CompletionTypeOK /\ KeysOK /\ OwnersOK
  /\ \A h \in Handlers : Listens(h) /\ WriteComes(h)
CompletionInv == engine = "iocp" /\ ~undefined /\ ~robbed => CompletionOK

-----------------------------------------------------------------------------
(* Lemmas about the queue.                                                  *)

LEMMA HasAppended ==
  ASSUME NEW q \in Seq(CompletionType), NEW c \in CompletionType,
         NEW h, NEW kinds
  PROVE  /\ Append(q, c) \in Seq(CompletionType)
         /\ Has(Append(q, c), h, kinds) <=> Has(q, h, kinds) \/ Its(c, h, kinds)
         /\ Single(q, h, kinds) /\ ~(Its(c, h, kinds) /\ Has(q, h, kinds)) =>
              Single(Append(q, c), h, kinds)
         /\ (\A i \in 1 .. Len(q) : Proper(q[i])) /\ Proper(c) =>
              \A i \in 1 .. Len(Append(q, c)) : Proper(Append(q, c)[i])
<1> DEFINE longer == Append(q, c)
<1>1. /\ longer \in Seq(CompletionType) /\ Len(longer) = Len(q) + 1
      /\ \A i \in 1 .. Len(q) : longer[i] = q[i]
      /\ longer[Len(q) + 1] = c
  BY AppendProperties
<1>2. Len(q) \in Nat
  BY LenProperties
<1>3. 1 .. Len(longer) = (1 .. Len(q)) \cup {Len(q) + 1}
  BY <1>1, <1>2
<1> HIDE DEF longer
<1>4. Has(longer, h, kinds) <=> Has(q, h, kinds) \/ Its(c, h, kinds)
  BY <1>1, <1>3 DEF Has
<1>5. ASSUME Single(q, h, kinds), ~(Its(c, h, kinds) /\ Has(q, h, kinds)),
             NEW i \in 1 .. Len(longer), NEW j \in 1 .. Len(longer),
             Its(longer[i], h, kinds), Its(longer[j], h, kinds)
      PROVE  i = j
  <2>1. CASE i \in 1 .. Len(q) /\ j \in 1 .. Len(q)
    BY <1>1, <1>5, <2>1 DEF Single
  <2>2. CASE i = Len(q) + 1 /\ j = Len(q) + 1
    BY <2>2
  <2>3. CASE i = Len(q) + 1 /\ j \in 1 .. Len(q)
    BY <1>1, <1>5, <2>3 DEF Has
  <2>4. CASE i \in 1 .. Len(q) /\ j = Len(q) + 1
    BY <1>1, <1>5, <2>4 DEF Has
  <2>5. QED BY <1>3, <2>1, <2>2, <2>3, <2>4
<1>6. Single(q, h, kinds) /\ ~(Its(c, h, kinds) /\ Has(q, h, kinds)) =>
        Single(longer, h, kinds)
  BY <1>5 DEF Single
<1>7. (\A i \in 1 .. Len(q) : Proper(q[i])) /\ Proper(c) =>
        \A i \in 1 .. Len(longer) : Proper(longer[i])
  BY <1>1, <1>3
<1>8. QED BY <1>1, <1>4, <1>6, <1>7 DEF longer

LEMMA HasTail ==
  ASSUME NEW q \in Seq(CompletionType), q # <<>>, NEW h, NEW kinds
  PROVE  /\ Tail(q) \in Seq(CompletionType) /\ Head(q) \in CompletionType
         /\ Has(q, h, kinds) <=> Has(Tail(q), h, kinds) \/ Its(Head(q), h, kinds)
         /\ Single(q, h, kinds) =>
              /\ Single(Tail(q), h, kinds)
              /\ ~(Its(Head(q), h, kinds) /\ Has(Tail(q), h, kinds))
         /\ (\A i \in 1 .. Len(q) : Proper(q[i])) =>
              /\ Proper(Head(q))
              /\ \A i \in 1 .. Len(Tail(q)) : Proper(Tail(q)[i])
<1> DEFINE rest == Tail(q)
<1>1. /\ rest \in Seq(CompletionType) /\ Len(rest) = Len(q) - 1
      /\ \A i \in 1 .. Len(rest) : rest[i] = q[i + 1]
      /\ Head(q) \in CompletionType
  BY HeadTailProperties
<1>2. Len(q) \in Nat /\ Len(q) # 0
  BY LenProperties, EmptySeq
<1>3. Head(q) = q[1]
  OBVIOUS
<1>4. \A i \in 1 .. Len(rest) : i + 1 \in 1 .. Len(q) /\ i + 1 # 1
  BY <1>1, <1>2
<1>5. \A i \in 1 .. Len(q) : i # 1 =>
        i - 1 \in 1 .. Len(rest) /\ rest[i - 1] = q[i]
  BY <1>1, <1>2
<1>6. 1 \in 1 .. Len(q)
  BY <1>2
<1> HIDE DEF rest
<1>7. Has(q, h, kinds) <=> Has(rest, h, kinds) \/ Its(q[1], h, kinds)
  BY <1>1, <1>4, <1>5, <1>6 DEF Has
<1>8. ASSUME Single(q, h, kinds)
      PROVE  /\ Single(rest, h, kinds)
             /\ ~(Its(q[1], h, kinds) /\ Has(rest, h, kinds))
  <2>1. ASSUME NEW i \in 1 .. Len(rest), NEW j \in 1 .. Len(rest),
               Its(rest[i], h, kinds), Its(rest[j], h, kinds)
        PROVE  i = j
    <3>1. i + 1 = j + 1
      BY <1>1, <1>4, <1>8, <2>1 DEF Single
    <3>2. QED BY <3>1
  <2>2. ASSUME Its(q[1], h, kinds), NEW i \in 1 .. Len(rest),
               Its(rest[i], h, kinds)
        PROVE  FALSE
    BY <1>1, <1>4, <1>6, <1>8, <2>2 DEF Single
  <2>3. QED BY <2>1, <2>2 DEF Single, Has
<1>9. (\A i \in 1 .. Len(q) : Proper(q[i])) =>
        Proper(q[1]) /\ \A i \in 1 .. Len(rest) : Proper(rest[i])
  BY <1>1, <1>4, <1>6
<1>10. QED BY <1>1, <1>3, <1>7, <1>8, <1>9 DEF rest

LEMMA AssociatedInTable ==
  ASSUME CompletionTypeOK, NEW h \in Handlers, Associated(h)
  PROVE  internal_fd[h] \in Descriptors /\ Registered(internal_fd[h])
  BY HandlersAssumption DEF CompletionTypeOK, Associated, Registered, Handlers

\* A set of keys that are free has a least one.
LEMMA LeastFree ==
  ASSUME NEW S, S \subseteq Nat, S # {}
  PROVE  \E d \in S : \A e \in S : d <= e
<1> DEFINE Below(x) == 0 .. x - 1
           Segments == {Below(x) : x \in S}
<1>1. Segments \subseteq FiniteSubsetsOf(Nat) /\ Segments # {}
  <2> SUFFICES ASSUME NEW x \in S PROVE Below(x) \in FiniteSubsetsOf(Nat)
    OBVIOUS
  <2>1. x \in Nat /\ IsFiniteSet(Below(x))
    BY FS_Interval
  <2> QED BY <2>1 DEF FiniteSubsetsOf
<1> HIDE DEF Segments
<1>2. \E t \in Segments : \A u \in Segments :
        ~(<<u, t>> \in StrictSubsetOrdering(Nat))
  BY <1>1, FS_StrictSubsetOrderingWellFounded, WFMin
<1> USE DEF Segments
<1>3. PICK x \in S : \A u \in Segments :
        ~(<<u, Below(x)>> \in StrictSubsetOrdering(Nat))
  BY <1>2
<1>4. ASSUME NEW y \in S, ~(x <= y) PROVE FALSE
  <2>1. x \in Nat /\ y \in Nat /\ y < x
    BY <1>4
  <2>2. Below(y) \subseteq Below(x) /\ y \in Below(x) /\ y \notin Below(y)
    BY <2>1
  <2>3. <<Below(y), Below(x)>> \in StrictSubsetOrdering(Nat)
    BY <2>1, <2>2 DEF StrictSubsetOrdering
  <2> QED BY <1>3, <2>3
<1> QED BY <1>4

LEMMA GeneratedIsFree ==
  ASSUME NEW hash, GenerateFd(hash) # -1
  PROVE  GenerateFd(hash) \in Descriptors /\ ~Registered(GenerateFd(hash))
<1> DEFINE free == {d \in Descriptors : ~Registered(d)}
<1>1. CASE hash \in free
  BY <1>1 DEF GenerateFd
<1>2. CASE hash \notin free /\ free # {}
  <2>1. \E d \in free : \A e \in free : d <= e
    BY <1>2, LeastFree, DescriptorsAssumption
  <2>2. GenerateFd(hash) = CHOOSE d \in free : \A e \in free : d <= e
    BY <1>2 DEF GenerateFd
  <2>3. QED BY <2>1, <2>2
<1>3. CASE hash \notin free /\ free = {}
  BY <1>3 DEF GenerateFd
<1>4. QED BY <1>1, <1>2, <1>3

LEMMA SameKeys ==
  ASSUME CompletionTypeOK, KeysOK, UNCHANGED <<engine, tableVars, internal_fd>>,
         completions' \in Seq(CompletionType)
  PROVE  /\ CompletionTypeOK' /\ KeysOK'
         /\ \A h : Associated(h)' <=> Associated(h)
         /\ (\A i \in 1 .. Len(completions') : Proper(completions'[i])) =>
              (\A i \in 1 .. Len(completions) : Proper(completions[i]))'
<1>1. RegisteredOnes' = RegisteredOnes
  BY DEF RegisteredOnes, Registered, tableVars
<1>2. CompletionTypeOK' /\ KeysOK'
  BY <1>1 DEF CompletionTypeOK, TableTypeOK, KeysOK, tableVars
<1>3. \A h : Associated(h)' <=> Associated(h)
  BY DEF Associated, tableVars
<1>4. ASSUME NEW i \in 1 .. Len(completions'), Proper(completions'[i])
      PROVE  Proper(completions[i])'
  BY <1>4 DEF Proper, Associated, tableVars
<1>5. QED BY <1>2, <1>3, <1>4

-----------------------------------------------------------------------------
(* Listening to a handler again.                                            *)

EndOfFile(c, queue) ==
  /\ extensions' = extensions \ {<<c.of, Awaited(c.of)>>}
  /\ completions' = Append(queue, [c EXCEPT !.event = "error"])
  /\ UNCHANGED <<underway, deaf>>
Fresh(k, h, kind) ==
  [key |-> k, of |-> h, event |-> kind, ok |-> TRUE, freed |-> FALSE]

LEMMA FreshWith ==
  ASSUME NEW k, NEW h, NEW kind, NEW k2, NEW kind2
  PROVE  /\ [Fresh(k, h, kind) EXCEPT !.event = kind2] = Fresh(k, h, kind2)
         /\ [Fresh(k, h, kind) EXCEPT !.key = k2] = Fresh(k2, h, kind)
<1> DEFINE R == [key : {k, k2}, of : {h}, event : {kind, kind2},
                 ok : {TRUE}, freed : {FALSE}]
           c == Fresh(k, h, kind)
           d == [c EXCEPT !.event = kind2]
           e == [c EXCEPT !.key = k2]
<1>1. c \in R /\ c.key = k /\ c.event = kind
  BY DEF Fresh
<1> HIDE DEF c
<1>2. d \in R /\ d.event = kind2 /\ d.key = k
  BY <1>1
<1>3. e \in R /\ e.event = kind /\ e.key = k2
  BY <1>1
<1>4. \A x \in R : x = [key |-> x.key, of |-> x.of, event |-> x.event,
                       ok |-> x.ok, freed |-> x.freed]
  OBVIOUS
<1>5. \A x \in R : x.of = h /\ x.ok = TRUE /\ x.freed = FALSE
  OBVIOUS
<1> HIDE DEF R, d, e
<1>6. \A x \in R : x = Fresh(x.key, h, x.event)
  BY <1>4, <1>5 DEF Fresh
<1>7. d = Fresh(k, h, kind2) /\ e = Fresh(k2, h, kind)
  BY <1>2, <1>3, <1>6
<1>8. QED BY <1>7 DEF c, d, e

\* A handler that has no operation has one, or an error to come, or is deaf.
LEMMA Posted ==
  ASSUME NEW q \in Seq(CompletionType), NEW h \in Handlers,
         NEW k \in Descriptors, NEW kind \in {"none", Awaited(h)},
         Post(Fresh(k, h, kind), q) \/ EndOfFile(Fresh(k, h, kind), q),
         ~Has(q, h, Reading), ~Awaits(h)
  PROVE  /\ completions' \in Seq(CompletionType)
         /\ completions' \in {q, Append(q, Fresh(k, h, "error"))}
         /\ Single(completions', h, Reading)
         /\ Awaits(h)' => ~Has(completions', h, Reading)
         /\ Awaits(h)' \/ Has(completions', h, Reading) \/ h \in deaf'
         /\ underway' \in {underway, underway \cup {<<h, Awaited(h)>>}}
         /\ extensions' \subseteq extensions \cup {<<h, Awaited(h)>>}
         /\ extensions \ {<<h, Awaited(h)>>} \subseteq extensions' \cup {<<h, "none">>}
         /\ Awaits(h)' => <<h, Awaited(h)>> \in extensions'
         /\ deaf \subseteq deaf'
<1> DEFINE c == Fresh(k, h, kind)
           e == Fresh(k, h, "error")
<1>1. /\ [c EXCEPT !.event = "error"] = e /\ c.of = h /\ c.event = kind
      /\ e.of = h /\ e.event = "error"
  BY FreshWith DEF Fresh
<1>2. e \in CompletionType
  BY DEF Fresh, CompletionType
<1>3. Single(q, h, Reading)
  BY DEF Single, Has
<1>4. /\ Append(q, e) \in Seq(CompletionType)
      /\ Has(Append(q, e), h, Reading)
      /\ Single(Append(q, e), h, Reading)
  <2>1. Its(e, h, Reading)
    BY <1>1 DEF Its, Reading
  <2>2. QED BY <1>2, <1>3, <2>1, HasAppended
<1> HIDE DEF c, e
<1>5. Awaited(h) \in {"read", "accept"} /\ Awaited(h) # "none"
  BY DEF Awaited
\* Nothing failed; the handler is deaf; or there is an error to come.
<1>6. CASE /\ completions' = q
           /\ underway' = underway \cup {<<h, Awaited(h)>>}
           /\ <<h, Awaited(h)>> \in extensions'
           /\ extensions' \subseteq extensions \cup {<<h, Awaited(h)>>}
           /\ extensions \ {<<h, kind>>} \subseteq extensions'
           /\ deaf' = deaf
  BY <1>3, <1>5, <1>6 DEF Awaits, e
<1>7. CASE /\ completions' = q /\ underway' = underway
           /\ extensions' = extensions \cup {<<h, Awaited(h)>>}
           /\ deaf' = deaf \cup {h}
  BY <1>3, <1>5, <1>7 DEF Awaits, e
<1>8. CASE /\ completions' = Append(q, e) /\ underway' = underway
           /\ extensions' \in {extensions \ {<<h, kind>>},
                               extensions \ {<<h, Awaited(h)>>}}
           /\ deaf' = deaf
  <2>1. /\ extensions' \subseteq extensions
        /\ extensions \ {<<h, Awaited(h)>>} \subseteq extensions' \cup {<<h, "none">>}
    <3>1. CASE extensions' = extensions \ {<<h, kind>>}
      <4>1. CASE kind = "none"
        BY <3>1, <4>1
      <4>2. CASE kind = Awaited(h)
        BY <3>1, <4>2
      <4>3. QED BY <4>1, <4>2
    <3>2. CASE extensions' = extensions \ {<<h, Awaited(h)>>}
      BY <3>2
    <3>3. QED BY <1>8, <3>1, <3>2
  <2>2. ~Awaits(h)'
    BY <1>8 DEF Awaits
  <2>3. QED BY <1>4, <1>8, <2>1, <2>2 DEF e
<1>9. CASE EndOfFile(c, q)
  BY <1>1, <1>8, <1>9 DEF EndOfFile
<1>10. CASE Post(c, q)
  <2>1. CASE h \in Acceptors
    <3>1. PostAcceptEvent(c, q) /\ Awaited(h) = "accept"
      BY <1>1, <1>10, <2>1 DEF Post, Awaited
    <3>2. /\ extensions' = extensions \cup {<<h, "accept">>}
          /\ completions' = q
          /\ \/ underway' = underway \cup {<<h, "accept">>} /\ deaf' = deaf
             \/ deaf' = deaf \cup {h} /\ underway' = underway
      BY <1>1, <3>1 DEF PostAcceptEvent
    <3>3. CASE underway' = underway \cup {<<h, "accept">>} /\ deaf' = deaf
      BY <1>6, <3>1, <3>2, <3>3
    <3>4. CASE deaf' = deaf \cup {h} /\ underway' = underway
      BY <1>7, <3>1, <3>2, <3>4
    <3>5. QED BY <3>2, <3>3, <3>4
  <2>2. CASE h \notin Acceptors
    <3>1. PostReadEvent(c, q) /\ Awaited(h) = "read"
      BY <1>1, <1>10, <2>2 DEF Post, Awaited
    <3>2. \/ /\ extensions' = (extensions \ {<<h, kind>>}) \cup {<<h, "read">>}
             /\ underway' = underway \cup {<<h, "read">>}
             /\ completions' = q /\ deaf' = deaf
          \/ /\ extensions' = extensions \ {<<h, kind>>}
             /\ completions' = Append(q, e)
             /\ underway' = underway /\ deaf' = deaf
      BY <1>1, <3>1 DEF PostReadEvent
    <3>3. CASE /\ extensions' = (extensions \ {<<h, kind>>}) \cup {<<h, "read">>}
               /\ underway' = underway \cup {<<h, "read">>}
               /\ completions' = q /\ deaf' = deaf
      BY <1>6, <3>1, <3>3
    <3>4. CASE /\ extensions' = extensions \ {<<h, kind>>}
               /\ completions' = Append(q, e)
               /\ underway' = underway /\ deaf' = deaf
      BY <1>8, <3>4
    <3>5. QED BY <3>2, <3>3, <3>4
  <2>3. QED BY <2>1, <2>2
<1>11. QED BY <1>9, <1>10 DEF c

-----------------------------------------------------------------------------
(* The steps.                                                               *)

\* Whose completion the first one is.
LEMMA HeadIsItsOwners ==
  ASSUME CompletionOK, completions # <<>>
  PROVE  /\ Next1 \in CompletionType /\ Proper(Next1)
         /\ Rest \in Seq(CompletionType)
         /\ \A i \in 1 .. Len(Rest) : Proper(Rest[i])
         /\ Next1.of \in Handlers =>
              Registered(Next1.key) /\ ref[Next1.key] = Next1.of
         /\ Reaches("write") \/ Reaches("read") \/ Reaches("accept") =>
              /\ ref[Next1.key] \in Handlers /\ Next1.of = ref[Next1.key]
              /\ Associated(Next1.of) /\ internal_fd[Next1.of] = Next1.key
              /\ Next1.event \in {"write", Awaited(Next1.of)}
<1>1. /\ completions \in Seq(CompletionType)
      /\ \A i \in 1 .. Len(completions) : Proper(completions[i])
  BY DEF CompletionOK, CompletionTypeOK, OwnersOK
<1>2. /\ Next1 \in CompletionType /\ Proper(Next1)
      /\ Rest \in Seq(CompletionType)
      /\ \A i \in 1 .. Len(Rest) : Proper(Rest[i])
  BY <1>1, HasTail DEF Next1, Rest
<1> DEFINE c == Next1
<1>3. c \in CompletionType /\ Proper(c)
  BY <1>2
<1> HIDE DEF c
<1>4. c.of \in Handlers \cup {NoHandler} /\ NoHandler \notin Handlers
  BY <1>3, HandlersAssumption DEF CompletionType, Handlers
<1>5. c.of \in Handlers =>
        /\ Associated(c.of) /\ c.key = internal_fd[c.of]
        /\ c.event \in {"write", "error", Awaited(c.of)}
  BY <1>3, <1>4 DEF Proper
<1>6. c.of \in Handlers => Registered(c.key) /\ ref[c.key] = c.of
  BY <1>5, AssociatedInTable DEF CompletionOK, Associated
<1>7. ASSUME Reaches("write") \/ Reaches("read") \/ Reaches("accept")
      PROVE  c.of \in Handlers /\ c.event # "error"
  <2>1. ~c.freed /\ c.event # "error"
    BY <1>7 DEF Reaches, c
  <2>2. QED BY <1>3, <1>4, <2>1 DEF Proper
<1>8. QED BY <1>2, <1>5, <1>6, <1>7 DEF c

\* The first is taken, and was nobody's, or its owner counts as told.
LEMMA Dropped ==
  ASSUME CompletionOK, completions # <<>>, completions' = Rest,
         UNCHANGED <<engine, tableVars, internal_fd, extensions, underway>>,
         dying \subseteq dying', deaf \subseteq deaf',
         Next1.of \in Handlers =>
           Next1.event \in Reading /\ Next1.of \in dying' \cup deaf'
  PROVE  CompletionOK'
<1>1. completions \in Seq(CompletionType)
  BY DEF CompletionOK, CompletionTypeOK
<1>2. /\ CompletionTypeOK' /\ KeysOK'
      /\ \A h : Associated(h)' <=> Associated(h)
      /\ (\A i \in 1 .. Len(completions') : Proper(completions'[i])) =>
           (\A i \in 1 .. Len(completions) : Proper(completions[i]))'
  BY HeadIsItsOwners, SameKeys DEF CompletionOK
<1>3. OwnersOK'
  <2>1. \A i \in 1 .. Len(completions') : Proper(completions'[i])
    BY HeadIsItsOwners
  <2>2. (\A i \in 1 .. Len(completions) : Proper(completions[i]))'
    BY <1>2, <2>1
  <2>3. QED BY <1>2, <2>2 DEF OwnersOK, CompletionOK
<1>4. ASSUME NEW h \in Handlers PROVE Listens(h)' /\ WriteComes(h)'
  <2>1. Listens(h) /\ WriteComes(h)
    BY DEF CompletionOK
  <2>2. /\ Has(completions, h, Reading) <=>
             Has(Rest, h, Reading) \/ Its(Next1, h, Reading)
        /\ Has(completions, h, {"write"}) <=>
             Has(Rest, h, {"write"}) \/ Its(Next1, h, {"write"})
        /\ Single(Rest, h, Reading) /\ Single(Rest, h, {"write"})
    BY <1>1, <2>1, HasTail DEF Next1, Rest, Listens, WriteComes
  <2>3. Its(Next1, h, Reading) => h \in dying' \cup deaf'
    BY DEF Its
  <2>4. ~Its(Next1, h, {"write"})
    BY DEF Its, Reading
  <2>5. Awaits(h)' <=> Awaits(h)
    BY DEF Awaits
  <2>6. Listens(h)'
    BY <1>2, <2>1, <2>2, <2>3, <2>5 DEF Listens
  <2>7. WriteComes(h)'
    BY <2>1, <2>2, <2>4 DEF WriteComes, GetExt
  <2>8. QED BY <2>6, <2>7
<1>5. QED BY <1>2, <1>3, <1>4 DEF CompletionOK

LEMMA WantWriteKeeps ==
  ASSUME CompletionOK, NEW h \in Handlers, IOCPWantWrite(h), UNCHANGED engine
  PROVE  CompletionOK'
<1> DEFINE c == Completion(h, "write", TRUE)
<1>1. /\ completions \in Seq(CompletionType) /\ Associated(h)
      /\ internal_fd[h] \in Descriptors /\ h # NoHandler
  BY AssociatedInTable, HandlersAssumption
     DEF CompletionOK, CompletionTypeOK, IOCPWantWrite, Associated, Handlers
<1>2. c \in CompletionType /\ Proper(c)
  <2>1. c \in CompletionType
    BY <1>1 DEF Completion, CompletionType
  <2>2. c.of = h /\ c.key = internal_fd[h] /\ c.event = "write"
    BY DEF Completion
  <2>3. ~c.freed /\ c.ok
    BY DEF Completion
  <2>4. QED BY <1>1, <2>1, <2>2, <2>3 DEF Proper
<1>3. c.of = h /\ c.event = "write"
  BY DEF Completion
<1>4. /\ completions' = Append(completions, c)
      /\ extensions' = extensions \cup {<<h, "write">>}
      /\ UNCHANGED <<engine, tableVars, internal_fd, underway, dying, deaf>>
      /\ ~GetExt(h, "write")
  BY DEF IOCPWantWrite, Extend, Queue
<1> HIDE DEF c
<1>5. /\ completions' \in Seq(CompletionType)
      /\ \A i \in 1 .. Len(completions') : Proper(completions'[i])
  BY <1>1, <1>2, <1>4, HasAppended DEF CompletionOK, OwnersOK
<1>6. /\ CompletionTypeOK' /\ KeysOK'
      /\ \A g : Associated(g)' <=> Associated(g)
      /\ (\A i \in 1 .. Len(completions') : Proper(completions'[i])) =>
           (\A i \in 1 .. Len(completions) : Proper(completions[i]))'
  BY <1>4, <1>5, SameKeys DEF CompletionOK
<1>7. OwnersOK'
  <2>1. (\A i \in 1 .. Len(completions) : Proper(completions[i]))'
    BY <1>5, <1>6
  <2>2. \A x \in extensions' : x \in extensions \/ x[1] = h
    BY <1>4
  <2>3. QED BY <1>1, <1>4, <1>6, <2>1, <2>2 DEF OwnersOK, CompletionOK
<1>8. ASSUME NEW g \in Handlers PROVE Listens(g)' /\ WriteComes(g)'
  <2>1. Listens(g) /\ WriteComes(g)
    BY DEF CompletionOK
  <2>2. ~Its(c, g, Reading) /\ (Its(c, g, {"write"}) <=> g = h)
    BY <1>3 DEF Its, Reading
  <2>3. g = h => ~Has(completions, g, {"write"})
    BY <1>4, <2>1 DEF WriteComes
  <2>4. /\ Has(completions', g, Reading) <=> Has(completions, g, Reading)
        /\ Single(completions', g, Reading)
        /\ Has(completions', g, {"write"}) <=>
             Has(completions, g, {"write"}) \/ g = h
        /\ Single(completions', g, {"write"})
    BY <1>1, <1>2, <1>4, <2>1, <2>2, <2>3, HasAppended DEF Listens, WriteComes
  <2>5. Listens(g)'
    BY <1>4, <1>6, <2>1, <2>4 DEF Listens, Awaits
  <2>6. WriteComes(g)'
    BY <1>4, <2>1, <2>4 DEF WriteComes, GetExt
  <2>7. QED BY <2>5, <2>6
<1>9. QED BY <1>6, <1>7, <1>8 DEF CompletionOK

LEMMA CompleteKeeps ==
  ASSUME CompletionOK, NEW h \in Handlers, Complete(h), UNCHANGED engine
  PROVE  CompletionOK'
<1> DEFINE kind == Awaited(h)
<1>1. PICK ok \in BOOLEAN : completions' = Append(completions, Completion(h, kind, ok))
  BY DEF Complete, Queue
<1> DEFINE c == Completion(h, kind, ok)
<1>2. kind \in {"read", "accept"}
  BY DEF Awaited
<1>3. /\ completions \in Seq(CompletionType) /\ Associated(h)
      /\ <<h, kind>> \in underway
  <2>1. <<h, kind>> \in underway
    BY DEF Complete
  <2>2. Associated(<<h, kind>>[1])
    BY <2>1 DEF CompletionOK, OwnersOK
  <2>3. QED BY <2>1, <2>2 DEF CompletionOK, CompletionTypeOK
<1>4. internal_fd[h] \in Descriptors /\ h # NoHandler
  BY <1>3, AssociatedInTable, HandlersAssumption DEF CompletionOK, Handlers
<1>5. c \in CompletionType /\ Proper(c) /\ c.of = h /\ c.event = kind
  <2>1. c \in CompletionType
    BY <1>2, <1>4 DEF Completion, CompletionType
  <2>2. c.of = h /\ c.key = internal_fd[h] /\ c.event = kind
    BY DEF Completion
  <2>3. ~c.freed
    BY DEF Completion
  <2> HIDE DEF c
  <2>4. QED BY <1>2, <1>3, <1>4, <2>1, <2>2, <2>3 DEF Proper
<1>6. /\ completions' = Append(completions, c)
      /\ underway' = underway \ {<<h, kind>>}
      /\ UNCHANGED <<engine, tableVars, internal_fd, extensions, dying, deaf>>
  BY <1>1 DEF Complete
<1> HIDE DEF c
<1>7. /\ completions' \in Seq(CompletionType)
      /\ \A i \in 1 .. Len(completions') : Proper(completions'[i])
  BY <1>3, <1>5, <1>6, HasAppended DEF CompletionOK, OwnersOK
<1>8. /\ CompletionTypeOK' /\ KeysOK'
      /\ \A g : Associated(g)' <=> Associated(g)
      /\ (\A i \in 1 .. Len(completions') : Proper(completions'[i])) =>
           (\A i \in 1 .. Len(completions) : Proper(completions[i]))'
  BY <1>6, <1>7, SameKeys DEF CompletionOK
<1>9. OwnersOK'
  <2>1. (\A i \in 1 .. Len(completions) : Proper(completions[i]))'
    BY <1>7, <1>8
  <2>2. QED BY <1>6, <1>8, <2>1 DEF OwnersOK, CompletionOK
<1>10. ASSUME NEW g \in Handlers PROVE Listens(g)' /\ WriteComes(g)'
  <2>1. Listens(g) /\ WriteComes(g)
    BY DEF CompletionOK
  <2>2. (Its(c, g, Reading) <=> g = h) /\ ~Its(c, g, {"write"})
    BY <1>2, <1>5 DEF Its, Reading
  <2>3. /\ g = h => Awaits(g) /\ ~Awaits(g)'
        /\ g # h => (Awaits(g)' <=> Awaits(g))
    BY <1>3, <1>6 DEF Awaits
  <2>4. g = h => ~Has(completions, g, Reading)
    BY <2>1, <2>3 DEF Listens
  <2>5. /\ Has(completions', g, Reading) <=>
             Has(completions, g, Reading) \/ g = h
        /\ Single(completions', g, Reading)
        /\ Has(completions', g, {"write"}) <=> Has(completions, g, {"write"})
        /\ Single(completions', g, {"write"})
    BY <1>3, <1>5, <1>6, <2>1, <2>2, <2>4, HasAppended DEF Listens, WriteComes
  <2>6. Listens(g)'
    BY <1>6, <1>8, <2>1, <2>3, <2>5 DEF Listens
  <2>7. WriteComes(g)'
    BY <1>6, <2>1, <2>5 DEF WriteComes, GetExt
  <2>8. QED BY <2>6, <2>7
<1>11. QED BY <1>8, <1>9, <1>10 DEF CompletionOK

LEMMA DispatchWriteKeeps ==
  ASSUME CompletionOK, DispatchWrite, UNCHANGED engine
  PROVE  CompletionOK'
<1> DEFINE h == Next1.of
<1>1. /\ completions # <<>> /\ completions' = Rest
      /\ Next1.event = "write"
      /\ extensions' = extensions \ {<<ref[Next1.key], "write">>}
      /\ UNCHANGED <<engine, tableVars, internal_fd, underway, dying, deaf>>
      /\ Reaches("write")
  BY DEF DispatchWrite, Reaches, Dispatching, Shrink
<1>2. /\ Rest \in Seq(CompletionType) /\ h \in Handlers
      /\ \A i \in 1 .. Len(Rest) : Proper(Rest[i])
      /\ h = ref[Next1.key] /\ Associated(h)
  BY <1>1, HeadIsItsOwners
<1> HIDE DEF h
<1>3. extensions' = extensions \ {<<h, "write">>}
  BY <1>1, <1>2
<1>4. completions \in Seq(CompletionType)
  BY DEF CompletionOK, CompletionTypeOK
<1>5. /\ CompletionTypeOK' /\ KeysOK'
      /\ \A g : Associated(g)' <=> Associated(g)
      /\ (\A i \in 1 .. Len(completions) : Proper(completions[i]))'
  BY <1>1, <1>2, SameKeys DEF CompletionOK
<1>6. OwnersOK'
  <2>1. \A g : Awaited(g) # "write"
    BY DEF Awaited
  <2>2. \A x \in underway : x # <<h, "write">>
    BY <2>1 DEF CompletionOK, OwnersOK
  <2>3. QED BY <1>1, <1>3, <1>5, <2>2 DEF OwnersOK, CompletionOK
<1>7. ASSUME NEW g \in Handlers PROVE Listens(g)' /\ WriteComes(g)'
  <2>1. Listens(g) /\ WriteComes(g)
    BY DEF CompletionOK
  <2>2. ~Its(Next1, g, Reading) /\ (Its(Next1, g, {"write"}) <=> g = h)
    BY <1>1 DEF Its, Reading, h
  <2>3. /\ Has(completions, g, Reading) <=> Has(Rest, g, Reading)
        /\ Single(Rest, g, Reading)
        /\ Has(completions, g, {"write"}) <=> Has(Rest, g, {"write"}) \/ g = h
        /\ Single(Rest, g, {"write"})
        /\ g = h => ~Has(Rest, g, {"write"})
    BY <1>1, <1>4, <2>1, <2>2, HasTail DEF Next1, Rest, Listens, WriteComes
  <2>4. Listens(g)'
    BY <1>1, <1>5, <2>1, <2>3 DEF Listens, Awaits
  <2>5. WriteComes(g)'
    BY <1>1, <1>3, <2>1, <2>3 DEF WriteComes, GetExt
  <2>6. QED BY <2>4, <2>5
<1>8. QED BY <1>5, <1>6, <1>7 DEF CompletionOK

LEMMA DispatchReadKeeps ==
  ASSUME CompletionOK, DispatchRead, UNCHANGED engine
  PROVE  CompletionOK'
<1>1. /\ completions # <<>> /\ Next1.event \in {"read", "accept"}
      /\ UNCHANGED <<engine, tableVars, internal_fd, dying>>
      /\ Reaches("read") \/ Reaches("accept")
  BY DEF DispatchRead, Reaches, Dispatching
<1>2. PICK h \in Handlers, k \in Descriptors :
        h = Next1.of /\ k = Next1.key /\ h = ref[k] /\ Associated(h)
        /\ internal_fd[h] = k /\ Next1.event = Awaited(h)
  <2>1. Next1 \in CompletionType
    BY <1>1, HeadIsItsOwners
  <2>2. Next1.key \in Descriptors
    BY <2>1 DEF CompletionType
  <2>3. QED BY <1>1, <2>2, HeadIsItsOwners
<1>0. /\ Rest \in Seq(CompletionType)
      /\ \A i \in 1 .. Len(Rest) : Proper(Rest[i])
  BY <1>1, HeadIsItsOwners
<1>3. Completion(ref[Next1.key], Next1.event, TRUE) = Fresh(k, h, Awaited(h))
  BY <1>2 DEF Completion, Fresh
<1>4. \/ Post(Fresh(k, h, Awaited(h)), Rest)
      \/ EndOfFile(Fresh(k, h, Awaited(h)), Rest)
  <2>1. CASE Post(Completion(ref[Next1.key], Next1.event, TRUE), Rest)
    BY <1>3, <2>1
  <2>2. CASE /\ Next1.event = "read" /\ Shrink(ref[Next1.key], "read")
             /\ completions' = Append(Rest,
                  [Completion(ref[Next1.key], Next1.event, TRUE) EXCEPT !.event = "error"])
             /\ UNCHANGED <<underway, deaf>>
    <3>1. /\ extensions' = extensions \ {<<h, Awaited(h)>>}
          /\ completions' = Append(Rest,
                  [Fresh(k, h, Awaited(h)) EXCEPT !.event = "error"])
      BY <1>2, <1>3, <2>2 DEF Shrink
    <3>2. Fresh(k, h, Awaited(h)).of = h
      BY DEF Fresh
    <3>3. QED BY <2>2, <3>1, <3>2 DEF EndOfFile
  <2>3. QED BY <2>1, <2>2 DEF DispatchRead
<1>5. completions \in Seq(CompletionType)
  BY DEF CompletionOK, CompletionTypeOK
<1>6. ASSUME NEW g \in Handlers
      PROVE  /\ Has(completions, g, Reading) <=> Has(Rest, g, Reading) \/ g = h
             /\ Single(Rest, g, Reading)
             /\ Has(completions, g, {"write"}) <=> Has(Rest, g, {"write"})
             /\ Single(Rest, g, {"write"})
             /\ g = h => ~Has(Rest, g, Reading)
  <2>1. Listens(g) /\ WriteComes(g)
    BY DEF CompletionOK
  <2>2. (Its(Next1, g, Reading) <=> g = h) /\ ~Its(Next1, g, {"write"})
    BY <1>1, <1>2 DEF Its, Reading
  <2>3. QED BY <1>1, <1>5, <2>1, <2>2, HasTail DEF Next1, Rest, Listens, WriteComes
<1>7. ~Has(Rest, h, Reading) /\ ~Awaits(h)
  <2>1. Listens(h)
    BY <1>2 DEF CompletionOK
  <2>2. Has(completions, h, Reading)
    BY <1>2, <1>6
  <2>3. QED BY <1>2, <1>6, <2>1, <2>2 DEF Listens
<1> DEFINE e == Fresh(k, h, "error")
<1>8. /\ completions' \in Seq(CompletionType)
      /\ completions' \in {Rest, Append(Rest, e)}
      /\ Single(completions', h, Reading)
      /\ Awaits(h)' => ~Has(completions', h, Reading)
      /\ Awaits(h)' \/ Has(completions', h, Reading) \/ h \in deaf'
      /\ underway' \in {underway, underway \cup {<<h, Awaited(h)>>}}
      /\ extensions' \subseteq extensions \cup {<<h, Awaited(h)>>}
      /\ extensions \ {<<h, Awaited(h)>>} \subseteq extensions' \cup {<<h, "none">>}
      /\ Awaits(h)' => <<h, Awaited(h)>> \in extensions'
      /\ deaf \subseteq deaf'
  <2> DEFINE kind == Awaited(h)
  <2>1. kind \in {"none", Awaited(h)}
    OBVIOUS
  <2>2. Post(Fresh(k, h, kind), Rest) \/ EndOfFile(Fresh(k, h, kind), Rest)
    BY <1>4
  <2> HIDE DEF kind
  <2>3. QED BY <1>0, <1>2, <1>7, <2>1, <2>2, Posted
<1>9. e \in CompletionType /\ Proper(e) /\ e.of = h /\ e.event = "error"
  <2>1. e \in CompletionType /\ e.of = h /\ e.event = "error" /\ e.key = k
        /\ ~e.freed /\ e.ok
    BY <1>2 DEF Fresh, CompletionType
  <2>2. h # NoHandler
    BY <1>2, HandlersAssumption DEF Handlers
  <2> HIDE DEF e
  <2>3. QED BY <1>2, <2>1, <2>2 DEF Proper
<1> HIDE DEF e
<1>10. /\ \A i \in 1 .. Len(completions') : Proper(completions'[i])
       /\ \A g \in Handlers :
            /\ Has(completions', g, {"write"}) <=> Has(Rest, g, {"write"})
            /\ Single(completions', g, {"write"})
            /\ g # h => /\ Has(completions', g, Reading) <=> Has(Rest, g, Reading)
                        /\ Single(completions', g, Reading)
  <2>1. CASE completions' = Rest
    BY <1>0, <1>6, <2>1
  <2>2. CASE completions' = Append(Rest, e)
    <3>1. \A i \in 1 .. Len(completions') : Proper(completions'[i])
      BY <1>0, <1>9, <2>2, HasAppended
    <3>2. ASSUME NEW g \in Handlers
          PROVE  /\ Has(completions', g, {"write"}) <=> Has(Rest, g, {"write"})
                 /\ Single(completions', g, {"write"})
      <4>1. ~Its(e, g, {"write"})
        BY <1>9 DEF Its
      <4>2. QED BY <1>0, <1>6, <1>9, <2>2, <4>1, HasAppended
    <3>3. ASSUME NEW g \in Handlers, g # h
          PROVE  /\ Has(completions', g, Reading) <=> Has(Rest, g, Reading)
                 /\ Single(completions', g, Reading)
      <4>1. ~Its(e, g, Reading)
        BY <1>9, <3>3 DEF Its
      <4>2. QED BY <1>0, <1>6, <1>9, <2>2, <4>1, HasAppended
    <3>4. QED BY <3>1, <3>2, <3>3
  <2>3. QED BY <1>8, <2>1, <2>2
<1>11. /\ CompletionTypeOK' /\ KeysOK'
       /\ \A g : Associated(g)' <=> Associated(g)
       /\ (\A i \in 1 .. Len(completions) : Proper(completions[i]))'
  BY <1>1, <1>8, <1>10, SameKeys DEF CompletionOK
<1>12. OwnersOK'
  <2>1. ASSUME NEW x \in extensions'
        PROVE  x[1] \in Handlers /\ Associated(x[1])'
    <3>1. x \in extensions \/ x[1] = h
      BY <1>8, <2>1
    <3>2. QED BY <1>2, <1>11, <3>1 DEF CompletionOK, OwnersOK
  <2>2. ASSUME NEW x \in underway'
        PROVE  /\ x[1] \in Handlers /\ x = <<x[1], Awaited(x[1])>>
               /\ Associated(x[1])' /\ x \in extensions'
    <3>1. CASE x = <<h, Awaited(h)>>
      <4>1. Awaits(h)'
        BY <2>2, <3>1 DEF Awaits
      <4>2. x \in extensions' /\ x[1] = h
        BY <1>8, <3>1, <4>1
      <4>3. QED BY <1>2, <1>11, <3>1, <4>2
    <3>2. CASE x # <<h, Awaited(h)>>
      <4>1. x \in underway
        BY <1>8, <2>2, <3>2
      <4>2. /\ x[1] \in Handlers /\ x = <<x[1], Awaited(x[1])>>
            /\ Associated(x[1]) /\ x \in extensions
        BY <4>1 DEF CompletionOK, OwnersOK
      <4>3. Awaited(x[1]) # "none"
        BY DEF Awaited
      <4>4. x # <<h, "none">>
        BY <4>2, <4>3
      <4>5. QED BY <1>8, <1>11, <3>2, <4>2, <4>4
    <3>3. QED BY <3>1, <3>2
  <2>3. QED BY <1>11, <2>1, <2>2 DEF OwnersOK
<1>13. ASSUME NEW g \in Handlers PROVE Listens(g)' /\ WriteComes(g)'
  <2>1. Listens(g) /\ WriteComes(g)
    BY DEF CompletionOK
  <2>2. GetExt(g, "write")' <=> GetExt(g, "write")
    <3>1. Awaited(h) # "write"
      BY DEF Awaited
    <3>2. <<g, "write">> # <<h, Awaited(h)>> /\ <<g, "write">> # <<h, "none">>
      BY <3>1
    <3>3. QED BY <1>8, <3>2 DEF GetExt
  <2>3. WriteComes(g)'
    BY <1>6, <1>10, <2>1, <2>2 DEF WriteComes
  <2>4. CASE g = h
    <3>1. Listens(h)'
      BY <1>8 DEF Listens
    <3>2. QED BY <2>3, <2>4, <3>1
  <2>5. CASE g # h
    <3>1. Awaits(g)' <=> Awaits(g)
      BY <1>8, <2>5 DEF Awaits
    <3>2. Listens(g)'
      BY <1>1, <1>6, <1>8, <1>10, <1>11, <2>1, <2>5, <3>1 DEF Listens
    <3>3. QED BY <2>3, <3>2
  <2>6. QED BY <2>4, <2>5
<1>14. QED BY <1>11, <1>12, <1>13 DEF CompletionOK

-----------------------------------------------------------------------------
(* Additions and deletions.                                                 *)

\* One handler's key changes, and the place in the table that it leads to.
LEMMA OthersStay ==
  ASSUME NEW h \in Handlers, completions' \in Seq(CompletionType),
         \A g \in Handlers \ {h} :
           internal_fd'[g] = internal_fd[g] /\ (Associated(g)' <=> Associated(g)),
         NEW i \in 1 .. Len(completions'), Proper(completions'[i]),
         completions'[i].of # h
  PROVE  Proper(completions[i])'
<1>1. completions'[i] \in CompletionType
  BY ElementOfSeq
<1>2. completions'[i].of \in Handlers \cup {NoHandler}
  BY <1>1 DEF CompletionType
<1>3. CASE completions'[i].of = NoHandler
  BY <1>3 DEF Proper
<1>4. CASE completions'[i].of \in Handlers
  <2>1. PICK g \in Handlers \ {h} : g = completions'[i].of
    BY <1>4
  <2>2. g # NoHandler
    BY HandlersAssumption DEF Handlers
  <2>3. /\ ~completions'[i].freed /\ Associated(g)
        /\ completions'[i].key = internal_fd[g]
        /\ completions'[i].event \in {"write", "error", Awaited(g)}
        /\ completions'[i].event \in {"write", "error"} => completions'[i].ok
    BY <2>1, <2>2 DEF Proper
  <2>4. Associated(g)' /\ internal_fd'[g] = internal_fd[g]
    BY <2>3
  <2>5. Associated(completions[i].of)'
    BY <2>1, <2>4 DEF Associated
  <2>6. QED BY <2>1, <2>2, <2>3, <2>4, <2>5 DEF Proper
<1>5. QED BY <1>2, <1>3, <1>4

LEMMA AddFdKeeps ==
  ASSUME CompletionOK, NEW h \in Handlers, IOCPAddFd(h), UNCHANGED engine
  PROVE  CompletionOK'
<1>1. internal_fd[h] = -1
  BY DEF IOCPAddFd
<1>2. PICK hash \in Descriptors :
        /\ GenerateFd(hash) # -1
        /\ internal_fd' = [internal_fd EXCEPT ![h] = GenerateFd(hash)]
        /\ \/ UNCHANGED <<extensions, underway, completions, deaf, tableVars>>
           \/ /\ Post([Completion(h, "none", TRUE) EXCEPT !.key = internal_fd'[h]],
                      completions)
              /\ ref' = [ref EXCEPT ![internal_fd'[h]] = h]
              /\ CurrentSetSize' = CurrentSetSize + 1
              /\ UNCHANGED refused
  BY DEF IOCPAddFd
<1>3. UNCHANGED <<engine, dying>>
  BY DEF IOCPAddFd
<1>4. PICK k \in Descriptors : k = GenerateFd(hash) /\ ~Registered(k)
  BY <1>2, GeneratedIsFree
<1>5. /\ internal_fd \in [Handlers -> Descriptors \cup {-1}]
      /\ ref \in [Descriptors -> Handlers \cup {NoHandler}]
      /\ completions \in Seq(CompletionType) /\ CompletionTypeOK /\ KeysOK
      /\ NoHandler \notin Handlers /\ Descriptors \subseteq Nat
  BY HandlersAssumption, DescriptorsAssumption
     DEF CompletionOK, CompletionTypeOK, TableTypeOK, Handlers
<1>6. /\ internal_fd' = [internal_fd EXCEPT ![h] = k]
      /\ internal_fd' \in [Handlers -> Descriptors \cup {-1}]
      /\ internal_fd'[h] = k
      /\ \A g \in Handlers \ {h} : internal_fd'[g] = internal_fd[g]
  BY <1>2, <1>4, <1>5
<1>7. ~Associated(h) /\ ref[k] = NoHandler
  BY <1>1, <1>4 DEF Associated, Registered
<1>8. /\ ~Awaits(h) /\ \A x \in extensions : x[1] # h
      /\ \A i \in 1 .. Len(completions) :
           Proper(completions[i]) /\ completions[i].of # h
  <2>1. \A x \in extensions : x[1] # h
    BY <1>7 DEF CompletionOK, OwnersOK
  <2>2. ~Awaits(h)
    <3>1. ASSUME <<h, Awaited(h)>> \in underway PROVE FALSE
      <4>1. <<h, Awaited(h)>> \in extensions
        BY <3>1 DEF CompletionOK, OwnersOK
      <4>2. QED BY <2>1, <4>1
    <3>2. QED BY <3>1 DEF Awaits
  <2>3. \A i \in 1 .. Len(completions) :
           Proper(completions[i]) /\ completions[i].of # h
    BY <1>5, <1>7 DEF CompletionOK, OwnersOK, Proper
  <2>4. QED BY <2>1, <2>2, <2>3
<1>9. \A kinds : ~Has(completions, h, kinds)
  BY <1>8 DEF Has, Its
<1>10. ASSUME NEW g \in Handlers \ {h}, ref' \in {ref, [ref EXCEPT ![k] = h]}
       PROVE  Associated(g)' <=> Associated(g)
  <2>1. internal_fd'[g] = internal_fd[g] /\ g # h
    BY <1>6
  <2>2. \A d \in Descriptors : ref'[d] = g <=> ref[d] = g
    BY <1>5, <1>7, <1>10
  <2>3. internal_fd[g] # -1 => internal_fd[g] \in Descriptors
    BY <1>5
  <2>4. QED BY <2>1, <2>2, <2>3 DEF Associated
<1>11. ASSUME NEW g \in Handlers, NEW d \in Descriptors, ref[d] = g
       PROVE  internal_fd'[g] = d
  <2>1. internal_fd[g] = d
    BY <1>5, <1>11 DEF KeysOK
  <2>2. g # h
    BY <1>1, <1>5, <2>1
  <2>3. QED BY <1>6, <2>1, <2>2
\* It is not associated, and keeps the key.
<1>12. CASE UNCHANGED <<extensions, underway, completions, deaf, tableVars>>
  <2>1. ref' = ref /\ CurrentSetSize' = CurrentSetSize /\ refused' = refused
    BY <1>12 DEF tableVars
  <2>2. CompletionTypeOK'
    BY <1>3, <1>5, <1>6, <1>12, <2>1 DEF CompletionTypeOK, TableTypeOK
  <2>3. KeysOK'
    <3>1. RegisteredOnes' = RegisteredOnes
      BY <2>1 DEF RegisteredOnes, Registered
    <3>2. CurrentSetSize' + refused' = Cardinality(RegisteredOnes')
      BY <1>5, <2>1, <3>1 DEF KeysOK
    <3>3. QED BY <1>11, <2>1, <3>2 DEF KeysOK
  <2>4. ~Associated(h)'
    BY <1>6, <1>7, <1>5, <2>1 DEF Associated
  <2>5. \A g \in Handlers : Associated(g)' <=> Associated(g)
    BY <1>7, <1>10, <2>1, <2>4
  <2>6. OwnersOK'
    <3>1. \A i \in 1 .. Len(completions') : Proper(completions[i])'
      BY <1>5, <1>6, <1>8, <1>12, <2>5, OthersStay
    <3>2. QED BY <1>12, <2>5, <3>1 DEF CompletionOK, OwnersOK
  <2>7. ASSUME NEW g \in Handlers PROVE Listens(g)' /\ WriteComes(g)'
    <3>1. Listens(g) /\ WriteComes(g)
      BY DEF CompletionOK
    <3>2. (Awaits(g)' <=> Awaits(g)) /\ (GetExt(g, "write")' <=> GetExt(g, "write"))
      BY <1>12 DEF Awaits, GetExt
    <3>3. Listens(g)'
      BY <1>3, <1>12, <2>5, <3>1, <3>2 DEF Listens
    <3>4. WriteComes(g)'
      BY <1>12, <3>1, <3>2 DEF WriteComes
    <3>5. QED BY <3>3, <3>4
  <2>8. QED BY <2>2, <2>3, <2>6, <2>7 DEF CompletionOK
\* It is listened to.
<1>13. CASE /\ Post([Completion(h, "none", TRUE) EXCEPT !.key = internal_fd'[h]],
                    completions)
            /\ ref' = [ref EXCEPT ![internal_fd'[h]] = h]
            /\ CurrentSetSize' = CurrentSetSize + 1
            /\ UNCHANGED refused
  <2>1. ref' = [ref EXCEPT ![k] = h]
    BY <1>6, <1>13
  <2>2. [Completion(h, "none", TRUE) EXCEPT !.key = internal_fd'[h]]
          = Fresh(k, h, "none")
    <3>1. Completion(h, "none", TRUE) = Fresh(internal_fd[h], h, "none")
      BY DEF Completion, Fresh
    <3>2. [Fresh(internal_fd[h], h, "none") EXCEPT !.key = k] = Fresh(k, h, "none")
      BY FreshWith
    <3>3. QED BY <1>6, <3>1, <3>2
  <2>3. Post(Fresh(k, h, "none"), completions)
    BY <1>13, <2>2
  <2> DEFINE e == Fresh(k, h, "error")
  <2>4. /\ completions' \in Seq(CompletionType)
        /\ completions' \in {completions, Append(completions, e)}
        /\ Single(completions', h, Reading)
        /\ Awaits(h)' => ~Has(completions', h, Reading)
        /\ Awaits(h)' \/ Has(completions', h, Reading) \/ h \in deaf'
        /\ underway' \in {underway, underway \cup {<<h, Awaited(h)>>}}
        /\ extensions' \subseteq extensions \cup {<<h, Awaited(h)>>}
        /\ extensions \ {<<h, Awaited(h)>>} \subseteq extensions' \cup {<<h, "none">>}
        /\ Awaits(h)' => <<h, Awaited(h)>> \in extensions'
        /\ deaf \subseteq deaf'
    <3> DEFINE kind == "none"
    <3>1. /\ kind \in {"none", Awaited(h)}
          /\ Post(Fresh(k, h, kind), completions)
               \/ EndOfFile(Fresh(k, h, kind), completions)
      BY <2>3
    <3> HIDE DEF kind
    <3>2. QED BY <1>5, <1>8, <1>9, <3>1, Posted
  <2>5. e \in CompletionType /\ e.of = h /\ e.event = "error" /\ e.key = k
        /\ ~e.freed /\ e.ok
    BY DEF Fresh, CompletionType
  <2> HIDE DEF e
  <2>6. ref' \in [Descriptors -> Handlers \cup {NoHandler}] /\ ref'[k] = h
    BY <1>5, <2>1
  <2>7. CompletionTypeOK'
    BY <1>3, <1>5, <1>6, <1>13, <2>4, <2>6 DEF CompletionTypeOK, TableTypeOK
  <2>8. KeysOK'
    <3>1. RegisteredOnes' = RegisteredOnes \cup {k} /\ k \notin RegisteredOnes
      BY <1>4, <1>5, <2>1 DEF RegisteredOnes, Registered
    <3>2. Cardinality(RegisteredOnes') = Cardinality(RegisteredOnes) + 1
      BY <3>1, RegisteredIsFinite, FS_AddElement
    <3>3. CurrentSetSize' + refused' = Cardinality(RegisteredOnes')
      <4>1. CurrentSetSize \in Int /\ refused \in Int
        BY <1>5 DEF CompletionTypeOK, TableTypeOK
      <4>2. QED BY <1>5, <1>13, <3>2, <4>1 DEF KeysOK
    <3>4. ASSUME NEW g \in Handlers, NEW d \in Descriptors, ref'[d] = g
          PROVE  internal_fd'[g] = d
      <4>1. CASE d = k
        BY <1>6, <2>6, <3>4, <4>1
      <4>2. CASE d # k
        BY <1>5, <1>11, <2>1, <3>4, <4>2
      <4>3. QED BY <4>1, <4>2
    <3>5. QED BY <3>3, <3>4 DEF KeysOK
  <2>9. Associated(h)'
    BY <1>5, <1>6, <2>6 DEF Associated
  <2>10. \A g \in Handlers \ {h} : Associated(g)' <=> Associated(g)
    BY <1>10, <2>1
  <2>11. ASSUME NEW i \in 1 .. Len(completions') PROVE Proper(completions[i])'
    <3>1. CASE completions'[i] = e
      <4>1. Associated(completions[i].of)'
        BY <2>5, <2>9, <3>1 DEF Associated
      <4>2. QED BY <1>6, <2>5, <3>1, <4>1 DEF Proper
    <3>2. CASE completions'[i] # e
      <4>1. Proper(completions'[i]) /\ completions'[i].of # h
        <5>1. CASE completions' = completions
          BY <1>8, <5>1
        <5>2. CASE completions' = Append(completions, e)
          <6>1. /\ Len(completions') = Len(completions) + 1
                /\ \A j \in 1 .. Len(completions) : completions'[j] = completions[j]
                /\ completions'[Len(completions) + 1] = e
            BY <1>5, <2>5, <5>2, AppendProperties
          <6>2. Len(completions) \in Nat
            BY <1>5, LenProperties
          <6>3. i \in 1 .. Len(completions)
            BY <3>2, <6>1, <6>2
          <6>4. QED BY <1>8, <6>1, <6>3
        <5>3. QED BY <2>4, <5>1, <5>2
      <4>2. QED BY <1>6, <2>4, <2>10, <4>1, OthersStay
    <3>3. QED BY <3>1, <3>2
  <2>12. OwnersOK'
    <3>1. ASSUME NEW x \in extensions'
          PROVE  x[1] \in Handlers /\ Associated(x[1])'
      <4>1. CASE x \in extensions
        <5>1. x[1] \in Handlers \ {h} /\ Associated(x[1])
          BY <1>8, <4>1 DEF CompletionOK, OwnersOK
        <5>2. QED BY <2>10, <5>1
      <4>2. CASE x \notin extensions
        <5>1. x[1] = h
          BY <2>4, <3>1, <4>2
        <5>2. QED BY <2>9, <5>1
      <4>3. QED BY <4>1, <4>2
    <3>2. ASSUME NEW x \in underway'
          PROVE  /\ x[1] \in Handlers /\ x = <<x[1], Awaited(x[1])>>
                 /\ Associated(x[1])' /\ x \in extensions'
      <4>1. CASE x \in underway
        <5>1. /\ x[1] \in Handlers /\ x = <<x[1], Awaited(x[1])>>
              /\ Associated(x[1]) /\ x \in extensions
          BY <4>1 DEF CompletionOK, OwnersOK
        <5>2. x[1] # h
          BY <1>8, <5>1
        <5>3. x # <<h, Awaited(h)>> /\ x # <<h, "none">>
          BY <5>2
        <5>4. QED BY <2>4, <2>10, <5>1, <5>2, <5>3
      <4>2. CASE x \notin underway
        <5>1. x = <<h, Awaited(h)>>
          BY <2>4, <3>2, <4>2
        <5>2. Awaits(h)'
          BY <3>2, <5>1 DEF Awaits
        <5>3. x \in extensions' /\ x[1] = h
          BY <2>4, <5>1, <5>2
        <5>4. QED BY <2>9, <5>1, <5>3
      <4>3. QED BY <4>1, <4>2
    <3>3. QED BY <2>11, <3>1, <3>2 DEF OwnersOK
  <2>13. ASSUME NEW g \in Handlers PROVE Listens(g)' /\ WriteComes(g)'
    <3>1. Listens(g) /\ WriteComes(g)
      BY DEF CompletionOK
    <3>2. /\ Has(completions', g, {"write"}) <=> Has(completions, g, {"write"})
          /\ Single(completions', g, {"write"})
      <4>1. CASE completions' = completions
        BY <3>1, <4>1 DEF WriteComes
      <4>2. CASE completions' = Append(completions, e)
        <5>1. ~Its(e, g, {"write"})
          BY <2>5 DEF Its
        <5>2. QED BY <1>5, <2>5, <3>1, <4>2, <5>1, HasAppended DEF WriteComes
      <4>3. QED BY <2>4, <4>1, <4>2
    <3>3. GetExt(g, "write")' <=> GetExt(g, "write")
      <4>1. Awaited(h) # "write"
        BY DEF Awaited
      <4>2. <<g, "write">> # <<h, Awaited(h)>> /\ <<g, "write">> # <<h, "none">>
        BY <4>1
      <4>3. QED BY <2>4, <4>2 DEF GetExt
    <3>4. WriteComes(g)'
      BY <3>1, <3>2, <3>3 DEF WriteComes
    <3>5. CASE g = h
      <4>1. Listens(h)'
        BY <2>4 DEF Listens
      <4>2. QED BY <3>4, <3>5, <4>1
    <3>6. CASE g # h
      <4>1. Awaits(g)' <=> Awaits(g)
        BY <2>4, <3>6 DEF Awaits
      <4>2. /\ Has(completions', g, Reading) <=> Has(completions, g, Reading)
            /\ Single(completions', g, Reading)
        <5>1. CASE completions' = completions
          BY <3>1, <5>1 DEF Listens
        <5>2. CASE completions' = Append(completions, e)
          <6>1. ~Its(e, g, Reading)
            BY <2>5, <3>6 DEF Its
          <6>2. QED BY <1>5, <2>5, <3>1, <5>2, <6>1, HasAppended DEF Listens
        <5>3. QED BY <2>4, <5>1, <5>2
      <4>3. Listens(g)'
        BY <1>3, <2>4, <2>10, <3>1, <3>6, <4>1, <4>2 DEF Listens
      <4>4. QED BY <3>4, <4>3
    <3>7. QED BY <3>5, <3>6
  <2>14. QED BY <2>7, <2>8, <2>12, <2>13 DEF CompletionOK
<1>14. QED BY <1>2, <1>12, <1>13

\* What is left in the queue of a handler that goes.
Orphaned(h, c) ==
  IF c.of # h THEN c
  ELSE [c EXCEPT !.of = NoHandler, !.freed = c.event # "error"]

LEMMA OrphanedIs ==
  ASSUME NEW h \in Handlers, NEW c \in CompletionType
  PROVE  /\ Orphaned(h, c) \in CompletionType
         /\ Orphaned(h, c).event = c.event
         /\ Orphaned(h, c).of # h
         /\ c.of # h => Orphaned(h, c) = c
         /\ c.of = h =>
              /\ Orphaned(h, c).of = NoHandler
              /\ c.event # "error" => Orphaned(h, c).freed
              /\ c.ok => Orphaned(h, c).ok
<1> DEFINE b == c.event # "error"
           o == [c EXCEPT !.of = NoHandler, !.freed = b]
<1>1. b \in BOOLEAN
  OBVIOUS
<1>2. h # NoHandler
  BY HandlersAssumption DEF Handlers
<1>3. b <=> c.event # "error"
  OBVIOUS
<1> HIDE DEF b
<1>4. /\ o \in CompletionType /\ o.of = NoHandler /\ o.event = c.event
      /\ o.ok = c.ok /\ o.freed = b
  BY <1>1 DEF CompletionType
<1>5. Orphaned(h, c) = IF c.of # h THEN c ELSE o
  BY DEF Orphaned, b
<1> HIDE DEF o
<1>6. CASE c.of # h
  BY <1>5, <1>6
<1>7. CASE c.of = h
  BY <1>2, <1>3, <1>4, <1>5, <1>7
<1>8. QED BY <1>6, <1>7

LEMMA HasOrphaned ==
  ASSUME NEW q \in Seq(CompletionType), NEW h \in Handlers
  PROVE  LET r == [i \in DOMAIN q |-> Orphaned(h, q[i])] IN
         /\ r \in Seq(CompletionType)
         /\ Len(r) = Len(q) /\ \A i \in 1 .. Len(q) : r[i] = Orphaned(h, q[i])
         /\ \A g \in Handlers : \A kinds :
              /\ Has(r, g, kinds) <=> g # h /\ Has(q, g, kinds)
              /\ Single(q, g, kinds) => Single(r, g, kinds)
<1> DEFINE r == [i \in DOMAIN q |-> Orphaned(h, q[i])]
<1>1. DOMAIN q = 1 .. Len(q) /\ Len(q) \in Nat
  BY LenProperties
<1>2. \A i \in 1 .. Len(q) : q[i] \in CompletionType
  BY ElementOfSeq
<1>3. \A i \in 1 .. Len(q) :
        r[i] = Orphaned(h, q[i]) /\ r[i] \in CompletionType
  BY <1>1, <1>2, OrphanedIs
<1>4. r \in Seq(CompletionType) /\ Len(r) = Len(q)
  <2>1. r = [i \in 1 .. Len(q) |-> r[i]]
    BY <1>1
  <2> HIDE DEF r
  <2>2. r \in [1 .. Len(q) -> CompletionType]
    BY <1>3, <2>1
  <2>3. r \in Seq(CompletionType)
    BY <1>1, <2>2, SeqDef
  <2>4. DOMAIN r = 1 .. Len(q) /\ DOMAIN r = 1 .. Len(r) /\ Len(r) \in Nat
    BY <2>2, <2>3, LenProperties
  <2>5. QED BY <1>1, <2>3, <2>4
<1> HIDE DEF r
<1>5. ASSUME NEW g \in Handlers, NEW kinds, NEW i \in 1 .. Len(q)
      PROVE  Its(r[i], g, kinds) <=> g # h /\ Its(q[i], g, kinds)
  <2>1. /\ r[i] = Orphaned(h, q[i]) /\ q[i] \in CompletionType
        /\ g # NoHandler
    BY <1>2, <1>3, HandlersAssumption DEF Handlers
  <2>2. /\ r[i].event = q[i].event /\ r[i].of # h
        /\ q[i].of # h => r[i] = q[i]
        /\ q[i].of = h => r[i].of = NoHandler
    BY <2>1, OrphanedIs
  <2>3. QED BY <2>1, <2>2 DEF Its
<1>6. ASSUME NEW g \in Handlers, NEW kinds
      PROVE  /\ Has(r, g, kinds) <=> g # h /\ Has(q, g, kinds)
             /\ Single(q, g, kinds) => Single(r, g, kinds)
  BY <1>4, <1>5 DEF Has, Single
<1>7. QED BY <1>3, <1>4, <1>6 DEF r

LEMMA DelFdKeeps ==
  ASSUME CompletionOK, NEW h \in Handlers, IOCPDelFd(h), ~robbed',
         UNCHANGED engine
  PROVE  CompletionOK'
<1>1. PICK k \in Descriptors :
        k = internal_fd[h] /\ ref[k] \in {h, NoHandler}
  BY DEF IOCPDelFd, CompletionOK, CompletionTypeOK
<1>2. /\ internal_fd \in [Handlers -> Descriptors \cup {-1}]
      /\ ref \in [Descriptors -> Handlers \cup {NoHandler}]
      /\ completions \in Seq(CompletionType) /\ CompletionTypeOK /\ KeysOK
      /\ NoHandler \notin Handlers /\ Descriptors \subseteq Nat
      /\ h # NoHandler /\ -1 \notin Descriptors
  BY HandlersAssumption, DescriptorsAssumption
     DEF CompletionOK, CompletionTypeOK, TableTypeOK, Handlers
<1> DEFINE q == [i \in DOMAIN completions |-> Orphaned(h, completions[i])]
           canceled == Orphaned(h, Completion(h, Awaited(h), FALSE))
<1>3. /\ completions' = q \o (IF <<h, Awaited(h)>> \in underway
                              THEN <<canceled>> ELSE <<>>)
      /\ underway' = underway \ {<<h, Awaited(h)>>}
      /\ extensions' = {x \in extensions : x[1] # h}
      /\ ref' = [ref EXCEPT ![k] = NoHandler]
      /\ internal_fd' = [internal_fd EXCEPT ![h] = -1]
      /\ CurrentSetSize' = CurrentSetSize - 1
      /\ refused' = IF Registered(k) THEN refused ELSE refused + 1
      /\ dying' = dying \ {h} /\ deaf' = deaf \ {h}
  BY <1>1 DEF IOCPDelFd, Orphaned
<1>4. Completion(h, Awaited(h), FALSE) \in CompletionType
      /\ Completion(h, Awaited(h), FALSE).of = h
      /\ Completion(h, Awaited(h), FALSE).event \in {"read", "accept"}
  <2>1. Awaited(h) \in {"read", "accept"}
    BY DEF Awaited
  <2>2. QED BY <1>1, <2>1 DEF Completion, CompletionType
<1>5. /\ canceled \in CompletionType /\ canceled.of = NoHandler
      /\ canceled.freed
  BY <1>4, OrphanedIs
<1>6. /\ q \in Seq(CompletionType) /\ Len(q) = Len(completions)
      /\ \A i \in 1 .. Len(completions) : q[i] = Orphaned(h, completions[i])
      /\ \A g \in Handlers : \A kinds :
           /\ Has(q, g, kinds) <=> g # h /\ Has(completions, g, kinds)
           /\ Single(completions, g, kinds) => Single(q, g, kinds)
  BY <1>2, HasOrphaned
<1> HIDE DEF q, canceled
<1>7. completions' \in {q, Append(q, canceled)}
  <2>1. CASE <<h, Awaited(h)>> \in underway
    BY <1>3, <1>5, <1>6, <2>1, AppendIsConcat
  <2>2. CASE <<h, Awaited(h)>> \notin underway
    BY <1>3, <1>6, <2>2, ConcatEmptySeq
  <2>3. QED BY <2>1, <2>2
<1>8. /\ completions' \in Seq(CompletionType)
      /\ \A g \in Handlers : \A kinds :
           /\ Has(completions', g, kinds) <=> g # h /\ Has(completions, g, kinds)
           /\ Single(completions, g, kinds) => Single(completions', g, kinds)
  <2>1. CASE completions' = q
    BY <1>6, <2>1
  <2>2. CASE completions' = Append(q, canceled)
    <3>1. \A g \in Handlers : \A kinds : ~Its(canceled, g, kinds)
      BY <1>2, <1>5 DEF Its
    <3>2. completions' \in Seq(CompletionType)
      BY <1>5, <1>6, <2>2, AppendProperties
    <3>3. ASSUME NEW g \in Handlers, NEW kinds
          PROVE  /\ Has(completions', g, kinds) <=>
                      g # h /\ Has(completions, g, kinds)
                 /\ Single(completions, g, kinds) =>
                      Single(completions', g, kinds)
      BY <1>5, <1>6, <2>2, <3>1, HasAppended
    <3>4. QED BY <3>2, <3>3
  <2>3. QED BY <1>7, <2>1, <2>2
<1>9. /\ internal_fd' \in [Handlers -> Descriptors \cup {-1}]
      /\ internal_fd'[h] = -1
      /\ \A g \in Handlers \ {h} : internal_fd'[g] = internal_fd[g]
      /\ ref' \in [Descriptors -> Handlers \cup {NoHandler}]
      /\ ref'[k] = NoHandler
      /\ \A d \in Descriptors \ {k} : ref'[d] = ref[d]
  BY <1>2, <1>3
<1>10. ~Associated(h)'
  BY <1>9 DEF Associated
<1>11. ASSUME NEW g \in Handlers \ {h} PROVE Associated(g)' <=> Associated(g)
  <2>1. internal_fd'[g] = internal_fd[g] /\ g # h /\ g # NoHandler
    BY <1>2, <1>9
  <2>2. \A d \in Descriptors : ref'[d] = g <=> ref[d] = g
    BY <1>1, <1>9, <2>1
  <2>3. internal_fd[g] # -1 => internal_fd[g] \in Descriptors
    BY <1>2
  <2>4. QED BY <2>1, <2>2, <2>3 DEF Associated
<1>12. CompletionTypeOK'
  <2>1. CurrentSetSize' \in Int /\ refused' \in Int
    BY <1>2, <1>3 DEF CompletionTypeOK, TableTypeOK
  <2>2. QED BY <1>2, <1>8, <1>9, <2>1 DEF CompletionTypeOK, TableTypeOK
<1>13. KeysOK'
  <2>1. RegisteredOnes' = RegisteredOnes \ {k}
    BY <1>9 DEF RegisteredOnes, Registered
  <2>2. k \in RegisteredOnes <=> Registered(k)
    BY DEF RegisteredOnes
  <2>3. Cardinality(RegisteredOnes') =
          IF Registered(k) THEN Cardinality(RegisteredOnes) - 1
          ELSE Cardinality(RegisteredOnes)
    BY <2>1, <2>2, RegisteredIsFinite, FS_RemoveElement
  <2>4. Cardinality(RegisteredOnes) \in Int
    BY RegisteredIsFinite, FS_CardinalityType
  <2>5. CurrentSetSize' + refused' = Cardinality(RegisteredOnes')
    BY <1>2, <1>3, <2>3, <2>4 DEF KeysOK, CompletionTypeOK, TableTypeOK
  <2>6. ASSUME NEW g \in Handlers, NEW d \in Descriptors, ref'[d] = g
        PROVE  internal_fd'[g] = d
    <3>1. d # k /\ ref[d] = g
      BY <1>2, <1>9, <2>6
    <3>2. internal_fd[g] = d
      BY <1>2, <3>1 DEF KeysOK
    <3>3. g # h
      BY <1>1, <3>1, <3>2
    <3>4. QED BY <1>9, <3>2, <3>3
  <2>7. QED BY <2>5, <2>6 DEF KeysOK
<1>14. ASSUME NEW i \in 1 .. Len(completions') PROVE Proper(completions[i])'
  <2>1. CASE completions'[i] = canceled
    BY <1>5, <2>1 DEF Proper
  <2>2. CASE completions'[i] # canceled
    <3>1. i \in 1 .. Len(completions) /\ completions'[i] = q[i]
      <4>1. CASE completions' = q
        BY <1>6, <4>1
      <4>2. CASE completions' = Append(q, canceled)
        <5>1. /\ Len(completions') = Len(q) + 1
              /\ \A j \in 1 .. Len(q) : completions'[j] = q[j]
              /\ completions'[Len(q) + 1] = canceled
          BY <1>5, <1>6, <4>2, AppendProperties
        <5>2. Len(q) \in Nat
          BY <1>6, LenProperties
        <5>3. QED BY <1>6, <2>2, <5>1, <5>2
      <4>3. QED BY <1>7, <4>1, <4>2
    <3>2. PICK c \in CompletionType : c = completions[i] /\ Proper(c)
      BY <1>2, <3>1, ElementOfSeq DEF CompletionOK, OwnersOK
    <3>3. completions'[i] = Orphaned(h, c)
      BY <1>6, <3>1, <3>2
    <3>4. CASE c.of # h
      <4>1. completions'[i] = c
        BY <3>3, <3>4, OrphanedIs
      <4>2. Proper(completions'[i]) /\ completions'[i].of # h
        BY <3>2, <3>4, <4>1
      <4>3. QED BY <1>8, <1>9, <1>11, <4>2, OthersStay
    <3>5. CASE c.of = h
      <4>1. /\ completions'[i].of = NoHandler /\ completions'[i].event = c.event
            /\ c.event # "error" => completions'[i].freed
            /\ c.ok => completions'[i].ok
        BY <3>3, <3>5, OrphanedIs
      <4>2. c.event = "error" => c.ok
        BY <1>2, <3>2, <3>5 DEF Proper
      <4>3. QED BY <4>1, <4>2 DEF Proper
    <3>6. QED BY <3>4, <3>5
  <2>3. QED BY <2>1, <2>2
<1>15. OwnersOK'
  <2>1. ASSUME NEW x \in extensions'
        PROVE  x[1] \in Handlers /\ Associated(x[1])'
    <3>1. x \in extensions /\ x[1] # h
      BY <1>3, <2>1
    <3>2. x[1] \in Handlers \ {h} /\ Associated(x[1])
      BY <3>1 DEF CompletionOK, OwnersOK
    <3>3. QED BY <1>11, <3>2
  <2>2. ASSUME NEW x \in underway'
        PROVE  /\ x[1] \in Handlers /\ x = <<x[1], Awaited(x[1])>>
               /\ Associated(x[1])' /\ x \in extensions'
    <3>1. x \in underway /\ x # <<h, Awaited(h)>>
      BY <1>3, <2>2
    <3>2. /\ x[1] \in Handlers /\ x = <<x[1], Awaited(x[1])>>
          /\ Associated(x[1]) /\ x \in extensions
      BY <3>1 DEF CompletionOK, OwnersOK
    <3>3. x[1] # h
      BY <3>1, <3>2
    <3>4. QED BY <1>3, <1>11, <3>2, <3>3
  <2>3. QED BY <1>14, <2>1, <2>2 DEF OwnersOK
<1>16. ASSUME NEW g \in Handlers PROVE Listens(g)' /\ WriteComes(g)'
  <2>1. Listens(g) /\ WriteComes(g)
    BY DEF CompletionOK
  <2>2. CASE g = h
    <3>1. ~Awaits(h)' /\ ~GetExt(h, "write")'
      BY <1>3 DEF Awaits, GetExt
    <3>2. /\ ~Has(completions', h, Reading) /\ ~Has(completions', h, {"write"})
          /\ Single(completions', h, Reading) /\ Single(completions', h, {"write"})
      BY <1>8, <2>1, <2>2 DEF Listens, WriteComes
    <3>3. Listens(h)' /\ WriteComes(h)'
      BY <1>10, <3>1, <3>2 DEF Listens, WriteComes
    <3>4. QED BY <2>2, <3>3
  <2>3. CASE g # h
    <3>1. (Awaits(g)' <=> Awaits(g)) /\ (GetExt(g, "write")' <=> GetExt(g, "write"))
      BY <1>3, <2>3 DEF Awaits, GetExt
    <3>2. /\ Has(completions', g, Reading) <=> Has(completions, g, Reading)
          /\ Has(completions', g, {"write"}) <=> Has(completions, g, {"write"})
          /\ Single(completions', g, Reading) /\ Single(completions', g, {"write"})
      BY <1>8, <2>1, <2>3 DEF Listens, WriteComes
    <3>3. Listens(g)'
      BY <1>3, <1>11, <2>1, <2>3, <3>1, <3>2 DEF Listens
    <3>4. WriteComes(g)'
      BY <2>1, <3>1, <3>2 DEF WriteComes
    <3>5. QED BY <3>3, <3>4
  <2>4. QED BY <2>2, <2>3
<1>17. QED BY <1>12, <1>13, <1>15, <1>16 DEF CompletionOK

LEMMA UnchangedKeeps ==
  ASSUME CompletionOK,
         UNCHANGED <<engine, tableVars, internal_fd, extensions, underway,
                     completions, dying, deaf>>
  PROVE  CompletionOK'
<1>1. completions' = completions /\ completions \in Seq(CompletionType)
  BY DEF CompletionOK, CompletionTypeOK
<1>2. /\ CompletionTypeOK' /\ KeysOK'
      /\ \A g : Associated(g)' <=> Associated(g)
      /\ (\A i \in 1 .. Len(completions') : Proper(completions'[i])) =>
           (\A i \in 1 .. Len(completions) : Proper(completions[i]))'
  BY <1>1, SameKeys DEF CompletionOK
<1>3. OwnersOK'
  BY <1>1, <1>2 DEF OwnersOK, CompletionOK
<1>4. \A h \in Handlers : Listens(h)' /\ WriteComes(h)'
  BY <1>1, <1>2 DEF CompletionOK, Listens, WriteComes, Awaits, GetExt
<1>5. QED BY <1>2, <1>3, <1>4 DEF CompletionOK

LEMMA CompletionStep ==
  ASSUME CompletionInv, CompletionNext
  PROVE  CompletionInv'
<1> SUFFICES ASSUME (engine = "iocp" /\ ~undefined /\ ~robbed)'
             PROVE  CompletionOK'
  BY DEF CompletionInv
<1>1. engine' = engine /\ engine = "iocp" /\ ~undefined
  BY DEF CompletionNext
<1>2. ASSUME NEW h \in Handlers, IOCPDelFd(h) PROVE CompletionOK'
  <2>1. ~robbed
    BY <1>2 DEF IOCPDelFd
  <2>2. QED BY <1>1, <1>2, <2>1, DelFdKeeps DEF CompletionInv
<1>3. ASSUME DispatchFreed PROVE FALSE
  BY <1>3 DEF DispatchFreed
<1>4. ASSUME robbed' = robbed PROVE CompletionOK'
  <2>0. CompletionOK
    BY <1>1, <1>4 DEF CompletionInv
  <2>1. ASSUME NEW h \in Handlers, IOCPAddFd(h) PROVE CompletionOK'
    BY <1>1, <2>0, <2>1, AddFdKeeps
  <2>2. ASSUME NEW h \in Handlers, IOCPWantWrite(h) PROVE CompletionOK'
    BY <1>1, <2>0, <2>2, WantWriteKeeps
  <2>3. ASSUME NEW h \in Handlers, Complete(h) PROVE CompletionOK'
    BY <1>1, <2>0, <2>3, CompleteKeeps
  <2>4. CASE UNCHANGED <<tableVars, internal_fd, extensions, underway,
                         completions, dying, deaf>>
    BY <1>1, <2>0, <2>4, UnchangedKeeps
  <2>5. CASE StartLoop
    BY <2>4, <2>5 DEF StartLoop
  <2>6. CASE EndLoop
    <3>1. CASE completions = <<>>
      BY <2>4, <2>6, <3>1 DEF EndLoop
    <3>2. CASE completions # <<>>
      <4>1. /\ completions' = Rest /\ ~Next1.ok
            /\ deaf' = IF Next1.freed THEN deaf ELSE deaf \cup {Next1.of}
            /\ UNCHANGED <<engine, tableVars, internal_fd, extensions, underway,
                           dying>>
        BY <1>1, <2>6, <3>2 DEF EndLoop
      <4>2. Next1 \in CompletionType /\ Proper(Next1)
        BY <2>0, <3>2, HeadIsItsOwners
      <4>3. ASSUME Next1.of \in Handlers
            PROVE  Next1.event \in Reading /\ Next1.of \in deaf'
        <5>1. Next1.of # NoHandler
          BY <4>3, HandlersAssumption DEF Handlers
        <5>2. ~Next1.freed /\ Next1.event \notin {"write", "error"}
          BY <4>1, <4>2, <5>1 DEF Proper
        <5>3. QED BY <4>1, <4>2, <5>2 DEF CompletionType, Reading
      <4>4. deaf \subseteq deaf' /\ dying \subseteq dying'
        BY <4>1
      <4>5. QED BY <2>0, <3>2, <4>1, <4>3, <4>4, Dropped
    <3>3. QED BY <3>1, <3>2
  <2>7. CASE DispatchToNoOne
    <3>1. /\ completions # <<>> /\ completions' = Rest
          /\ ~Registered(Next1.key)
          /\ UNCHANGED <<engine, tableVars, internal_fd, extensions, underway,
                         dying, deaf>>
      BY <1>1, <2>7 DEF DispatchToNoOne, Dispatching
    <3>2. Next1.of \notin Handlers
      BY <2>0, <3>1, HeadIsItsOwners
    <3>3. QED BY <2>0, <3>1, <3>2, Dropped
  <2>8. CASE DispatchWrite
    BY <1>1, <2>0, <2>8, DispatchWriteKeeps
  <2>9. CASE DispatchRead
    BY <1>1, <2>0, <2>9, DispatchReadKeeps
  <2>10. CASE DispatchError
    <3>1. /\ completions # <<>> /\ completions' = Rest
          /\ Next1.event = "error" /\ dying' = dying \cup {ref[Next1.key]}
          /\ UNCHANGED <<engine, tableVars, internal_fd, extensions, underway,
                         deaf>>
      BY <1>1, <2>10 DEF DispatchError, Reaches, Dispatching
    <3>2. Next1.of \in Handlers =>
            Next1.event \in Reading /\ Next1.of \in dying' \cup deaf'
      BY <2>0, <3>1, HeadIsItsOwners DEF Reading
    <3>3. QED BY <2>0, <3>1, <3>2, Dropped
  <2>11. QED BY <1>2, <1>3, <2>1, <2>2, <2>3, <2>5, <2>6, <2>7, <2>8, <2>9,
               <2>10 DEF CompletionNext
<1>5. ASSUME ~(robbed' = robbed) PROVE CompletionOK'
  <2>1. PICK h \in Handlers : IOCPDelFd(h)
    BY <1>5 DEF CompletionNext, IOCPAddFd, IOCPWantWrite, Complete, StartLoop,
                EndLoop, DispatchToNoOne, DispatchFreed, DispatchWrite,
                DispatchRead, DispatchError
  <2>2. QED BY <1>2, <2>1
<1>6. QED BY <1>4, <1>5

LEMMA CompletionInitially == TableInit /\ CompletionInit => CompletionInv
<1> SUFFICES ASSUME TableInit, CompletionInit PROVE CompletionOK
  BY DEF CompletionInv
<1> USE DEF TableInit, CompletionInit
<1>1. \A d \in Descriptors : ~Registered(d)
  BY DEF Registered
<1>2. RegisteredOnes = {}
  BY <1>1 DEF RegisteredOnes
<1>3. completions \in Seq(CompletionType) /\ Len(completions) = 0
  BY EmptySeq
<1>4. CompletionTypeOK
  BY <1>3 DEF CompletionTypeOK, TableTypeOK
<1>5. KeysOK
  BY <1>2, FS_EmptySet, HandlersAssumption DEF KeysOK, Handlers
<1>6. 1 .. Len(completions) = {}
  BY <1>3
<1>7. OwnersOK
  BY <1>6 DEF OwnersOK
<1>8. ASSUME NEW h \in Handlers PROVE Listens(h) /\ WriteComes(h)
  <2>1. ~Associated(h)
    BY DEF Associated
  <2>2. \A kinds : ~Has(completions, h, kinds) /\ Single(completions, h, kinds)
    BY <1>6 DEF Has, Single
  <2>3. QED BY <2>1, <2>2 DEF Listens, WriteComes, Awaits, GetExt
<1>9. QED BY <1>4, <1>5, <1>7, <1>8 DEF CompletionOK

LEMMA CountOfOne ==
  ASSUME NEW S, NEW b \in BOOLEAN,
         \A x, y \in S : x = y,
         b <=> S # {}
  PROVE  Cardinality(S) = IF b THEN 1 ELSE 0
<1>1. CASE S = {}
  BY <1>1, FS_EmptySet
<1>2. CASE S # {}
  <2>1. PICK x : x \in S
    BY <1>2
  <2>2. S = {x}
    BY <2>1
  <2>3. Cardinality({x}) = 1
    BY FS_Singleton
  <2>4. QED BY <1>2, <2>2, <2>3
<1>3. QED BY <1>1, <1>2

LEMMA CompletionInvSuffices ==
  ASSUME CompletionInv
  PROVE  OneOperationEach
<1> SUFFICES ASSUME CompletionOK PROVE OneOperationEach
  BY DEF CompletionInv, OneOperationEach
<1>1. CurrentSetSize + refused = Cardinality({d \in Descriptors : Registered(d)})
  BY DEF CompletionOK, KeysOK, RegisteredOnes
<1>2. ASSUME NEW h \in Handlers, internal_fd[h] # -1, ref[internal_fd[h]] = h
      PROVE  /\ Cardinality({x \in underway : x[1] = h})
                  + Cardinality(Live(h, {"read", "accept", "error"}))
                  = 1 \/ h \in dying \cup deaf
             /\ Cardinality(Live(h, {"write"})) = IF GetExt(h, "write") THEN 1
                                                  ELSE 0
             /\ <<h, Awaited(h)>> \in underway => GetExt(h, Awaited(h))
  <2> DEFINE U == {x \in underway : x[1] = h}
             R == Live(h, Reading)
             W == Live(h, {"write"})
             a == Awaits(h)
             r == Has(completions, h, Reading)
             w == GetExt(h, "write")
  <2>1. Associated(h) /\ Listens(h) /\ WriteComes(h)
    BY <1>2 DEF Associated, CompletionOK
  <2>2. DOMAIN completions = 1 .. Len(completions)
    BY LenProperties DEF CompletionOK, CompletionTypeOK
  <2>3. \A x, y \in U : x = y
    BY DEF CompletionOK, OwnersOK
  <2>4. a <=> U # {}
    BY DEF CompletionOK, OwnersOK, Awaits
  <2>5. (\A x, y \in R : x = y) /\ (r <=> R # {})
    BY <2>1, <2>2 DEF Live, Listens, Single, Has, Its
  <2>6. (\A x, y \in W : x = y) /\ (w <=> W # {})
    BY <2>1, <2>2 DEF Live, WriteComes, Single, Has, Its
  <2>7. a \in BOOLEAN /\ r \in BOOLEAN /\ w \in BOOLEAN
    BY DEF Awaits, Has, GetExt
  <2>8. (a => ~r) /\ (a \/ r \/ h \in dying \cup deaf)
    BY <2>1 DEF Listens
  <2>9. a => GetExt(h, Awaited(h))
    BY DEF CompletionOK, OwnersOK, Awaits, GetExt
  <2>10. Live(h, {"read", "accept", "error"}) = R
    BY DEF Reading
  <2>11. GetExt(h, "write") <=> w
    OBVIOUS
  <2>12. <<h, Awaited(h)>> \in underway <=> a
    BY DEF Awaits
  <2> HIDE DEF U, R, W, a, r, w
  <2>13. /\ Cardinality(U) = IF a THEN 1 ELSE 0
         /\ Cardinality(R) = IF r THEN 1 ELSE 0
         /\ Cardinality(W) = IF w THEN 1 ELSE 0
    BY <2>3, <2>4, <2>5, <2>6, <2>7, CountOfOne
  <2>14. Cardinality(U) + Cardinality(R) = 1 \/ h \in dying \cup deaf
    BY <2>8, <2>13
  <2>15. QED BY <2>9, <2>10, <2>11, <2>12, <2>13, <2>14 DEF U, W
<1>3. \A h \in Handlers, d \in Descriptors : ref[d] = h => internal_fd[h] = d
  BY DEF CompletionOK, KeysOK
<1>4. QED BY <1>1, <1>2, <1>3 DEF OneOperationEach

\* Over completion ports, for any handlers and any order of additions,
\* deletions, wishes, completions and failures, each handler has one operation
\* under way or over and a write event exactly when it wants one, as long as no
\* freed Overlapped was used and no place in ref was taken away
\* (socketengine_iocp.cpp:60-330).
THEOREM CompletionsOneEach == CompletionSpec => []OneOperationEach
<1>1. CompletionInv /\ [CompletionNext]_<<engineVars, completionVars>> =>
        CompletionInv'
  <2> SUFFICES ASSUME CompletionInv,
                      [CompletionNext]_<<engineVars, completionVars>>
               PROVE  CompletionInv'
    OBVIOUS
  <2>1. CASE CompletionNext
    BY <2>1, CompletionStep
  <2>2. CASE UNCHANGED <<engineVars, completionVars>>
    <3>1. UNCHANGED <<engine, tableVars, internal_fd, extensions, underway,
                      completions, dying, deaf, undefined, robbed>>
      BY <2>2 DEF engineVars, completionVars
    <3>2. CASE CompletionOK
      BY <3>1, <3>2, UnchangedKeeps DEF CompletionInv
    <3>3. CASE ~CompletionOK
      BY <3>1, <3>3 DEF CompletionInv
    <3>4. QED BY <3>2, <3>3
  <2>3. QED BY <2>1, <2>2
<1>2. QED BY <1>1, CompletionInitially, CompletionInvSuffices, PTL
      DEF CompletionSpec
=============================================================================
