---------------------------- MODULE SocketEngine ----------------------------
(***************************************************************************)
(* The state that the socket engines have in common (class SocketEngine,   *)
(* src/socketengine.cpp): the table ref of the handlers, filed under their *)
(* descriptors, and the number of them.  Which engine there is was decided *)
(* when the server was configured.                                         *)
(*                                                                         *)
(* A handler is its descriptor and a number, as one descriptor has one     *)
(* owner after the other.                                                  *)
(***************************************************************************)
EXTENDS Integers, Sequences, FiniteSets

CONSTANTS
  Descriptors,  \* file descriptors, with 0
  Owners,       \* the handlers that one descriptor may have
  NoHandler     \* NULL

ASSUME DescriptorsAssumption ==
  Descriptors \subseteq Nat /\ IsFiniteSet(Descriptors)
ASSUME HandlersAssumption == NoHandler \notin Descriptors \X Owners

VARIABLES
  engine,          \* the engine that is built in
  ref,             \* the reference table
  CurrentSetSize,
  refused          \* history: handlers deleted that the engine had never had

tableVars == <<ref, CurrentSetSize, refused>>

Handlers == Descriptors \X Owners
Fd(h) == h[1]
Registered(d) == ref[d] # NoHandler

TableInit ==
  /\ engine \in {"select", "kqueue", "ports", "iocp"}
  /\ ref = [d \in Descriptors |-> NoHandler]
  /\ CurrentSetSize = 0 /\ refused = 0
=============================================================================
