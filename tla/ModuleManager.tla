--------------------------- MODULE ModuleManager ---------------------------
(***************************************************************************)
(* The module manager (src/modules.cpp, src/dynamic.cpp): libraries that   *)
(* are loaded and unloaded, the lists of handlers that the hooks of the    *)
(* server walk, their order, and the features and interfaces that modules  *)
(* offer each other.                                                       *)
(*                                                                         *)
(* A module is named by its file; a file name is a number, in the order of *)
(* the std::map that keeps them.  What a library contains, and what its    *)
(* constructor and destructor do with the manager's functions, is external:*)
(* it is chosen once, in Init.  A handler in a list is a pointer to the    *)
(* module of that name; it dangles when the module is not alive.           *)
(***************************************************************************)
EXTENDS Integers, Sequences, FiniteSets

CONSTANTS
  Names,        \* file names in the modules directory
  Directories,  \* what the files of the directory may be, see Library
  Hooks,        \* the implementations I_On...
  Interfaces,   \* names of interfaces: numbers, in the order of their map
  Features,     \* names of features
  MaxCalls,     \* bound: loads and unloads
  NoModule      \* the NULL of a table of pointers to modules

ASSUME ModuleNames ==
  /\ Names \subseteq Nat /\ NoModule \notin Names
  /\ Interfaces \subseteq Nat /\ IsFiniteSet(Interfaces)
  /\ "none" \notin Features

VARIABLES
  libs,           \* what each file contains
  Modules,        \* names of the modules that are loaded
  alive,          \* modules that were constructed and not deleted
  aborted,        \* modules whose constructor threw
  EventHandlers,  \* hook -> the modules attached to it, in calling order
  InterfaceTable, \* interface -> uses, and the modules that implement it
  FeatureTable,   \* feature -> the module that published it
  ModCount,
  prioritizing,   \* modules whose Prioritize() has yet to be called by Load
  LastModuleError,
  moduleCalls,    \* how many loads and unloads were asked for
  wild            \* a hook was called through a dangling pointer

registries == <<EventHandlers, InterfaceTable, FeatureTable>>
moduleVars == <<libs, Modules, alive, aborted, registries, ModCount,
                prioritizing, LastModuleError, moduleCalls, wild>>

Absent == [uses |-> 0, list |-> <<>>]

Library ==
  [file : {"ok", "outside", "missing", "not.so", "no symbol"},
   init : {"module", "null", "throws"},   \* what init_module() comes to
   api  : BOOLEAN,                        \* built for this API_VERSION
   static : BOOLEAN,                      \* VF_STATIC
   hooks : SUBSET Hooks, feature : Features \cup {"none"},
   provides : SUBSET Interfaces, needs : SUBSET Interfaces,
   wish : [state : {"PRIO_DONTCARE", "PRIO_FIRST", "PRIO_LAST",
                    "PRIO_AFTER", "PRIO_BEFORE"}, others : SUBSET Names]]
ASSUME DirectoriesAssumption == Directories \subseteq [Names -> Library]

ModuleInit ==
  /\ libs \in Directories
  /\ Modules = {} /\ alive = {} /\ aborted = {}
  /\ EventHandlers = [h \in Hooks |-> <<>>]
  /\ InterfaceTable = [i \in Interfaces |-> Absent]
  /\ FeatureTable = [f \in Features |-> NoModule]
  /\ ModCount = 0
  /\ prioritizing = {} /\ LastModuleError = "" /\ moduleCalls = 0
  /\ wild = FALSE

-----------------------------------------------------------------------------
(* Lists of handlers.                                                       *)

Least(S) == CHOOSE x \in S : \A y \in S : x <= y
Greatest(S) == CHOOSE x \in S : \A y \in S : x >= y

Positions(s, who) == {x \in 1 .. Len(s) : s[x] \in who}
Listed(s) == {s[x] : x \in 1 .. Len(s)}

Attach(s, n) == IF n \in Listed(s) THEN s ELSE Append(s, n)
\* std::find, and erase.
Detach(s, n) ==
  LET its == Positions(s, {n}) IN
  IF its = {} THEN s
  ELSE SubSeq(s, 1, Least(its) - 1) \o SubSeq(s, Least(its) + 1, Len(s))

DetachAll_NotFirst(handlers, n) ==
  [h \in Hooks |-> IF h = "OnLoadModule" THEN handlers[h]
                   ELSE Detach(handlers[h], n)]
DetachAll(handlers, n) == [h \in Hooks |-> Detach(handlers[h], n)]

SwapPosition_LastOne(s, source, wish) ==
  LET others == Positions(s, wish.others) IN
  CASE wish.state = "PRIO_FIRST" -> 1
    [] wish.state = "PRIO_LAST" -> Len(s)
    [] wish.state = "PRIO_BEFORE" /\ source = Len(s) /\ others # {} ->
         Greatest(others)
    [] OTHER -> source
\* Where the loops over the list end for PRIO_AFTER and PRIO_BEFORE: the
\* conditions on source let the first find a place only for a module that is
\* called first, and the second for one that is called last.
SwapPosition(s, source, wish) ==
  LET others == Positions(s, wish.others) IN
  CASE wish.state = "PRIO_FIRST" -> 1
    [] wish.state = "PRIO_LAST" -> Len(s)
    [] wish.state = "PRIO_AFTER" /\ source = 1 /\ others # {} ->
         Greatest(others)
    [] wish.state = "PRIO_BEFORE" /\ source = Len(s) /\ others # {} ->
         Least(others)
    [] OTHER -> source

SetPriority(s, n, wish) ==
  IF n \notin Listed(s) THEN s
  ELSE LET source == Least(Positions(s, {n}))
           swap_pos == SwapPosition(s, source, wish) IN
       [s EXCEPT ![source] = s[swap_pos], ![swap_pos] = n]

(* Interfaces.  An entry is erased with its last implementation.            *)
PublishInterface(e, n) == [e EXCEPT !.list = Append(@, n)]
UnpublishInterface(e, n) ==
  LET rest == Detach(e.list, n) IN
  IF rest = <<>> THEN Absent ELSE [e EXCEPT !.list = rest]
UseInterface_Flag(e) == IF e.list = <<>> THEN e ELSE [e EXCEPT !.uses = 1]
UseInterface(e) == IF e.list = <<>> THEN e ELSE [e EXCEPT !.uses = @ + 1]
DoneWithInterface(e) ==
  IF e.list = <<>> THEN e ELSE [e EXCEPT !.uses = @ - 1]

\* The count of the first interface, in the order of their names, that n
\* implements.
GetInterfaceInstanceCount(n) ==
  LET its == {i \in Interfaces : n \in Listed(InterfaceTable[i].list)} IN
  IF its = {} THEN 0 ELSE InterfaceTable[Least(its)].uses

(* Features.                                                                *)
PublishFeature(table, f, n) ==
  IF f \in Features /\ table[f] = NoModule THEN [table EXCEPT ![f] = n]
  ELSE table
UnpublishFeature(table, f) ==
  IF f \in Features THEN [table EXCEPT ![f] = NoModule] ELSE table

-----------------------------------------------------------------------------
(* FOREACH_MOD over hook h: each handler in turn, exceptions caught.  What a *)
(* call through a dangling pointer does is undefined: it may seem to work.   *)
FOREACH_MOD(h) ==
  IF Listed(EventHandlers[h]) \subseteq alive THEN UNCHANGED wild
  ELSE wild' \in {wild, TRUE}

(* A constructor publishes its feature and its interfaces, or throws when    *)
(* the feature is taken; then it attaches itself, and says what it uses, or  *)
(* throws when nobody implements that.  An exception undoes nothing.         *)
FeatureTaken(n) ==
  libs[n].feature # "none" /\ FeatureTable[libs[n].feature] # NoModule
Published(n) ==
  [i \in Interfaces |->
    IF i \in libs[n].provides THEN PublishInterface(InterfaceTable[i], n)
    ELSE InterfaceTable[i]]
NeedsAbsent(n) == \E i \in libs[n].needs : Published(n)[i].list = <<>>
Throws(n) == FeatureTaken(n) \/ NeedsAbsent(n) \/ libs[n].init = "throws"

Attached(n) ==
  [h \in Hooks |-> IF h \in libs[n].hooks THEN Attach(EventHandlers[h], n)
                   ELSE EventHandlers[h]]

InUse(n) ==
  [i \in Interfaces |->
    IF i \in libs[n].needs THEN UseInterface(Published(n)[i])
    ELSE Published(n)[i]]

ConstructorThrows(n) ==
  /\ Throws(n)
  /\ IF FeatureTaken(n) THEN UNCHANGED registries
     ELSE /\ FeatureTable' = PublishFeature(FeatureTable, libs[n].feature, n)
          /\ InterfaceTable' = Published(n)
          /\ EventHandlers' = Attached(n)

\* The destructor of a module gives back what the constructor took.
Destroy(n, table) ==
  [i \in Interfaces |->
    LET done == IF i \in libs[n].needs THEN DoneWithInterface(table[i])
                ELSE table[i] IN
    IF i \in libs[n].provides THEN UnpublishInterface(done, n) ELSE done]

-----------------------------------------------------------------------------
(* ModuleManager::Load for a name without a pattern.                        *)

\* DirValid, FileExists; dlopen and dlsym; init_module().
InDirectory(n) == n \in Names /\ libs[n].file \notin {"outside", "missing"}
Opens(n) == libs[n].file \notin {"not.so", "no symbol"}
CallInit(n) == libs[n].init # "null"

NotLoadable(n) ==
  InDirectory(n) => n \in Modules \/ ~Opens(n) \/ ~CallInit(n)

LoadRefused(n) ==
  /\ NotLoadable(n)
  /\ LastModuleError' = "Unable to load"
  /\ UNCHANGED <<Modules, alive, aborted, registries, ModCount,
                 prioritizing, wild>>

\* newmod is still NULL when the exception is caught, so that DetachAll
\* detaches nobody and the handlers that were attached stay.
LoadThrows(n) ==
  /\ ~NotLoadable(n)
  /\ ConstructorThrows(n)
  /\ aborted' = aborted \cup {n}
  /\ LastModuleError' = "Error when loading"
  /\ UNCHANGED <<Modules, alive, ModCount, prioritizing, wild>>

\* Constructed, found to be of another API version, detached and deleted.
LoadWrongAPI(n) ==
  /\ ~NotLoadable(n) /\ ~Throws(n) /\ ~libs[n].api
  /\ EventHandlers' = DetachAll(Attached(n), n)
  /\ InterfaceTable' = Destroy(n, InUse(n))
  /\ FeatureTable' = UnpublishFeature(
       PublishFeature(FeatureTable, libs[n].feature, n), libs[n].feature)
  /\ LastModuleError' = "Incorrect module API version"
  /\ UNCHANGED <<Modules, alive, aborted, ModCount, prioritizing, wild>>

LoadSucceeds(n) ==
  /\ ~NotLoadable(n) /\ ~Throws(n) /\ libs[n].api
  /\ EventHandlers' = Attached(n)
  /\ InterfaceTable' = InUse(n)
  /\ FeatureTable' = PublishFeature(FeatureTable, libs[n].feature, n)
  /\ alive' = alive \cup {n}
  /\ Modules' = Modules \cup {n}
  /\ ModCount' = ModCount + 1
  /\ IF Listed(EventHandlers'["OnLoadModule"]) \subseteq alive'
     THEN UNCHANGED wild ELSE wild' \in {wild, TRUE}
  /\ prioritizing' = Modules'
  /\ UNCHANGED <<aborted, LastModuleError>>

LoadFails(n) == LoadRefused(n) \/ LoadThrows(n) \/ LoadWrongAPI(n)

\* The end of Load: every module may ask for its place again.
Prioritize ==
  /\ prioritizing # {}
  /\ LET n == Least(prioritizing) IN
     /\ EventHandlers' = [h \in Hooks |->
          IF h \in libs[n].hooks
          THEN SetPriority(EventHandlers[h], n,
                           [libs[n].wish EXCEPT !.others = @ \cap Modules])
          ELSE EventHandlers[h]]
     /\ prioritizing' = prioritizing \ {n}
  /\ UNCHANGED <<libs, Modules, alive, aborted, InterfaceTable, FeatureTable,
                 ModCount, LastModuleError, moduleCalls, wild>>

-----------------------------------------------------------------------------
(* ModuleManager::Unload.                                                   *)

UnloadRefusal(n) ==
  CASE n \notin Modules -> "not loaded"
    [] n \in Modules /\ libs[n].static -> "marked static"
    [] n \in Modules /\ ~libs[n].static /\ GetInterfaceInstanceCount(n) > 0 ->
         "being used"
    [] OTHER -> ""

UnloadFails(n) ==
  /\ UnloadRefusal(n) # ""
  /\ LastModuleError' = UnloadRefusal(n)
  /\ UNCHANGED <<Modules, alive, aborted, registries, ModCount,
                 prioritizing, wild>>

UnloadSucceeds(n) ==
  /\ UnloadRefusal(n) = ""
  /\ FOREACH_MOD("OnUnloadModule")
  /\ EventHandlers' = DetachAll(EventHandlers, n)
  /\ InterfaceTable' = Destroy(n, InterfaceTable)
  /\ FeatureTable' = UnpublishFeature(FeatureTable, libs[n].feature)
  /\ alive' = alive \ {n}
  /\ Modules' = Modules \ {n}
  /\ ModCount' = ModCount - 1
  /\ UNCHANGED <<aborted, prioritizing, LastModuleError>>

Unload(n) == UnloadFails(n) \/ UnloadSucceeds(n)

-----------------------------------------------------------------------------
(* Anybody may ask for a module to be loaded or unloaded, and have the hooks *)
(* called, when no other call is going on.  A name whose constructor threw is *)
(* not tried again: its next object might have the address of the dead one.  *)

LoadModule(n) ==
  /\ prioritizing = {} /\ moduleCalls < MaxCalls /\ n \notin aborted
  /\ moduleCalls' = moduleCalls + 1
  /\ LoadFails(n) \/ LoadSucceeds(n)
  /\ UNCHANGED libs

UnloadModule(n) ==
  /\ prioritizing = {} /\ moduleCalls < MaxCalls
  /\ moduleCalls' = moduleCalls + 1
  /\ Unload(n)
  /\ UNCHANGED libs

ModuleNext ==
  \/ \E n \in Names : LoadModule(n) \/ UnloadModule(n)
  \/ Prioritize

-----------------------------------------------------------------------------

\* Whatever is loaded, refused and unloaded, in whatever order, each pointer
\* that the manager keeps is to a module that is there; but for a module whose
\* constructor threw after it had registered itself (modules.cpp:369-402).
Pointers ==
  (UNION {Listed(EventHandlers[h]) : h \in Hooks})
    \cup (UNION {Listed(InterfaceTable[i].list) : i \in Interfaces})
    \cup {FeatureTable[f] : f \in Features}
NoDangling ==
  /\ Modules = alive
  /\ Pointers \ {NoModule} \subseteq alive \cup aborted

\* A module that implements one interface outlives the modules that use it:
\* none of them is left with nobody behind the interface (modules.cpp:431-437).
ProviderOutlivesUsers ==
  \A n \in Modules : \A i \in libs[n].needs :
    \/ InterfaceTable[i].list # <<>>
    \/ \E m \in Names : i \in libs[m].provides
                          /\ Cardinality(libs[m].provides) > 1

\* A module that is the only one in its directory to care for its place has it
\* when Load or Unload returns, as long as no constructor threw after it had
\* attached itself: first, last, or before the modules that it named
\* (modules.cpp:179-267, modules.h:819-829).
OnlyWish(n) ==
  \A m \in Names \ {n} : libs[m].wish.state = "PRIO_DONTCARE"
InPlace(s, n) ==
  LET wish == libs[n].wish
      its == Positions(s, {n})
      others == Positions(s, wish.others \ {n}) IN
  CASE wish.state = "PRIO_FIRST" -> its \subseteq {1}
    [] wish.state = "PRIO_LAST" -> its \subseteq {Len(s)}
    [] wish.state = "PRIO_BEFORE" -> \A x \in its, y \in others : x < y
    [] OTHER -> TRUE
PriorityHonoured ==
  prioritizing = {} /\ aborted = {} =>
    \A n \in Modules, h \in Hooks :
      OnlyWish(n) /\ h \in libs[n].hooks => InPlace(EventHandlers[h], n)
=============================================================================
