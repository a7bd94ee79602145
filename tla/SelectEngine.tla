---------------------------- MODULE SelectEngine ----------------------------
(***************************************************************************)
(* The engine over select() (src/socketengines/socketengine_select.cpp):   *)
(* the map fds, whose values are the descriptors that are watched, and the *)
(* descriptors that want to be told once when they can be written to.      *)
(*                                                                         *)
(* What a handler does when it is called is external: it adds and deletes  *)
(* handlers, and wants to write.                                           *)
(***************************************************************************)
EXTENDS SocketEngine

CONSTANT FD_SETSIZE

VARIABLES
  fds, writeable,
  ev,       \* the handlers that DispatchEvents has yet to call
  errors,   \* descriptors in errfdset after select()
  crashed   \* a NULL handler was asked whether it is Readable

selectVars == <<fds, writeable, ev, errors, crashed>>

Watched == {fds[d] : d \in DOMAIN fds}

SelectInit ==
  /\ fds = <<>> /\ writeable = {} /\ ev = <<>> /\ errors = {}
  /\ crashed = FALSE

AddFd(h) ==
  /\ FD_SETSIZE - CurrentSetSize > 1
  /\ ref[Fd(h)] = NoHandler
  /\ fds' = [d \in DOMAIN fds \cup {Fd(h)} |->
              IF d = Fd(h) THEN d ELSE fds[d]]
  /\ ref' = [ref EXCEPT ![Fd(h)] = h]
  /\ CurrentSetSize' = CurrentSetSize + 1
  /\ UNCHANGED <<writeable, ev, errors, refused, crashed>>

WantWrite(h) ==
  /\ ref[Fd(h)] = h
  /\ writeable' = writeable \cup {Fd(h)}
  /\ UNCHANGED <<fds, ref, CurrentSetSize, ev, errors, refused, crashed>>

SelectDelFd_KeepsRef(h) ==
  /\ ref[Fd(h)] \in {h, NoHandler}
  /\ ref[Fd(h)] = NoHandler => FD_SETSIZE - CurrentSetSize <= 1
  /\ fds' = [d \in DOMAIN fds \cup {Fd(h)} |->
              IF d = Fd(h) THEN 0 ELSE fds[d]]
  /\ CurrentSetSize' = CurrentSetSize - 1
  /\ refused' = IF ref[Fd(h)] = h THEN refused ELSE refused + 1
  /\ UNCHANGED <<ref, writeable, ev, errors, crashed>>
\* fds[fd] = 0: the key of the descriptor stays, and leads to descriptor 0.
\* A handler that AddFd has refused is deleted like any other.
SelectDelFd(h) ==
  /\ ref[Fd(h)] \in {h, NoHandler}
  /\ ref[Fd(h)] = NoHandler => FD_SETSIZE - CurrentSetSize <= 1
  /\ fds' = [d \in DOMAIN fds \cup {Fd(h)} |->
              IF d = Fd(h) THEN 0 ELSE fds[d]]
  /\ ref' = [ref EXCEPT ![Fd(h)] = NoHandler]
  /\ CurrentSetSize' = CurrentSetSize - 1
  /\ refused' = IF ref[Fd(h)] = h THEN refused ELSE refused + 1
  /\ UNCHANGED <<writeable, ev, errors, crashed>>

\* The keys in their order, of those whose descriptor is in one of the sets.
Listing(ready) ==
  LET keys == {d \in DOMAIN fds : fds[d] \in ready}
      Nth(n) == CHOOSE d \in keys :
                  Cardinality({e \in keys : e <= d}) = n IN
  [n \in 1 .. Cardinality(keys) |-> ref[fds[Nth(n)]]]

DispatchEvents ==
  /\ ev = <<>> /\ ~crashed
  /\ IF \E d \in Watched : ref[d] = NoHandler
     THEN crashed' = TRUE /\ UNCHANGED <<ev, errors>>
     ELSE /\ \E ready \in SUBSET Watched : \E bad \in SUBSET ready :
               ev' = Listing(ready) /\ errors' = bad
          /\ UNCHANGED crashed
  /\ UNCHANGED <<fds, ref, writeable, CurrentSetSize, refused>>

\* EVENT_ERROR, EVENT_WRITE with the wish fulfilled, or what Readable() says;
\* ref is not looked at again, whoever has been deleted since.
Dispatch ==
  /\ ev # <<>>
  /\ writeable' = IF Fd(Head(ev)) \in errors THEN writeable
                  ELSE writeable \ {Fd(Head(ev))}
  /\ ev' = Tail(ev)
  /\ UNCHANGED <<fds, ref, CurrentSetSize, errors, refused, crashed>>

SelectNext ==
  /\ engine = "select" /\ UNCHANGED engine
  /\ \/ \E h \in Handlers : AddFd(h) \/ WantWrite(h) \/ SelectDelFd(h)
     \/ DispatchEvents \/ Dispatch

-----------------------------------------------------------------------------
\* Between the map and the table: a handler that is registered is watched, a
\* descriptor that is watched has its handler, all but descriptor 0, which
\* every deletion adds to the map; and the count is right but for handlers that
\* the engine had refused (socketengine_select.cpp:31-73, 98-121).
WatchedAreRegistered ==
  LET registered == {d \in Descriptors : Registered(d)} IN
  engine = "select" =>
  /\ registered \subseteq Watched
  /\ Watched \ registered \subseteq {0}
  /\ \A d \in registered : Fd(ref[d]) = d
  /\ CurrentSetSize + refused = Cardinality(registered)
=============================================================================
