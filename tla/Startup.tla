------------------------------ MODULE Startup ------------------------------
(***************************************************************************)
(* From main() to the first pass of the loop, and from Exit() to the end   *)
(* of the process (src/inspircd.cpp, src/server.cpp): the command line,    *)
(* the log, the daemon and the parent that waits for it, the configuration *)
(* and the modules (module ConfigReader), the ports, chroot, setuid and    *)
(* setgid, the PID file, and Cleanup.                                      *)
(*                                                                         *)
(* The surroundings are a record, env, chosen once:                        *)
(*   args     what the command line asks for: "run", "version" or "usage"  *)
(*   nofork, log (the log can be opened), exists (the configuration file   *)
(*   does), fork and rlimit (these calls succeed), uid and gid             *)
(*   file     what LoadConf makes of the configuration file                *)
(*   bind     for each port of each <bind>: socket(), bind() and listen()  *)
(*            work, or which of them does not                              *)
(*   jails    the directories that chroot() can go to                      *)
(*   users, groups  root directory -> name -> number, as /etc has it there *)
(*   piddir   root directory -> the PID file's directory there: "absent",  *)
(*            or who may create files in it, "root" or "all"               *)
(*   pidowner root directory -> owner of a PID file that is there, or -1   *)
(***************************************************************************)
EXTENDS ConfigReader

VARIABLES
  proc,      \* the process: its uid, gid and root directory
  parent,    \* the process that forked: "none", "waiting" or "gone"
  sigterm, sigchld,  \* what the signals do: "default", "SetSignal", ...
  mysig,     \* mysig has been set
  pidowner,  \* root directory -> the owner of the PID file
  found,     \* how many ports of env.bind BindPorts has seen
  ports,     \* Config->ports: those that it has a listener for
  sockets,   \* the sockets that are open
  logger,    \* Logger: "garbage" before it is set, "none", "open", "closed"
  tries, module_names,  \* of Cleanup
  signals    \* bound: signals from outside that have come

processVars == <<proc, pidowner>>
signalVars == <<parent, sigterm, sigchld, mysig, signals>>
portVars == <<found, ports, sockets>>
cleanupVars == <<tries, module_names>>
startupVars == <<env, pc, status, configVars, moduleVars, processVars,
                 signalVars, portVars, logger, cleanupVars>>

Over == {"Exited", "QuickExit", "Crashed", "Killed"}

StartupInit ==
  /\ ModuleInit
  /\ env \in Scenarios
  /\ pc = "Options" /\ status = ""
  /\ config_data = <<>> /\ Index = 0 /\ matched = {} /\ n_match = -1
  /\ Config = Unread /\ added_modules = <<>>
  /\ proc = [uid |-> env.uid, gid |-> env.gid, root |-> "/"]
  /\ parent = "none" /\ sigterm = "default" /\ sigchld = "default"
  /\ mysig = FALSE /\ signals = 0
  /\ pidowner = env.pidowner
  /\ found = 0 /\ ports = {} /\ sockets = {}
  /\ logger = "garbage" /\ tries = 0 /\ module_names = {}

\* A step of the main thread that moves on to the next label.
Goto(next) == pc' = next /\ UNCHANGED status
QuickExit == pc' = "QuickExit" /\ status' = "NOERROR"

-----------------------------------------------------------------------------
(* InspIRCd::InspIRCd, up to Config->Read.                                  *)

Options ==
  /\ pc = "Options"
  /\ CASE env.args = "usage" -> Exit("ARGV")
       [] env.args = "version" -> Exit("NOERROR")
       [] OTHER -> Goto("OpenLog")
  /\ UNCHANGED <<env, configVars, moduleVars, processVars, signalVars,
                 portVars, logger, cleanupVars>>

OpenLog ==
  /\ pc = "OpenLog"
  /\ logger' = IF env.log THEN "open" ELSE "none"
  /\ CASE ~env.log -> Exit("LOG")
       [] env.log /\ ~env.exists -> Exit("CONFIG")
       [] OTHER -> Goto("SetSignals")
  /\ UNCHANGED <<env, configVars, moduleVars, processVars, signalVars,
                 portVars, cleanupVars>>

SetSignals_KeepsChild ==
  /\ pc = "SetSignals"
  /\ sigterm' = "SetSignal"
  /\ Goto(IF env.nofork THEN "LoadConf" ELSE "DaemonSeed")
  /\ UNCHANGED <<env, configVars, moduleVars, processVars, parent, sigchld,
                 mysig, signals, portVars, logger, cleanupVars>>
SetSignals ==
  /\ pc = "SetSignals"
  /\ sigterm' = "SetSignal" /\ sigchld' = "ignored"
  /\ Goto(IF env.nofork THEN "LoadConf" ELSE "DaemonSeed")
  /\ UNCHANGED <<env, configVars, moduleVars, processVars, parent, mysig,
                 signals, portVars, logger, cleanupVars>>

\* The parent stays behind, in a loop; what follows is the child's.
DaemonSeed ==
  /\ pc = "DaemonSeed"
  /\ sigterm' = "QuickExit"
  /\ IF env.fork THEN parent' = "waiting" /\ Goto("Child")
     ELSE Exit("FORK") /\ UNCHANGED parent
  /\ UNCHANGED <<env, configVars, moduleVars, processVars, sigchld, mysig,
                 signals, portVars, logger, cleanupVars>>

Child ==
  /\ pc = "Child"
  /\ sigterm' = "SetSignal"
  /\ IF env.rlimit THEN Goto("LoadConf") ELSE Exit("FORK")
  /\ UNCHANGED <<env, configVars, moduleVars, processVars, parent, sigchld,
                 mysig, signals, portVars, logger, cleanupVars>>

\* kill(childpid, 0) finds nobody: the child has ended, and left no zombie.
ParentLooks ==
  /\ parent = "waiting" /\ pc \in Over /\ sigchld = "ignored"
  /\ parent' = "gone"
  /\ UNCHANGED <<env, pc, status, configVars, moduleVars, processVars,
                 sigterm, sigchld, mysig, signals, portVars, logger,
                 cleanupVars>>

ConfigRead ==
  /\ Read
  /\ UNCHANGED <<env, processVars, signalVars, portVars, logger, cleanupVars>>

-----------------------------------------------------------------------------
(* The PID file.                                                            *)
MayWrite(p, root) ==
  /\ env.piddir[root] # "absent"
  /\ \/ p.uid = 0
     \/ pidowner[root] = p.uid
     \/ pidowner[root] = -1 /\ env.piddir[root] = "all"

WritePID(next) ==
  IF MayWrite(proc, proc.root)
  THEN /\ pidowner' = IF pidowner[proc.root] # -1 THEN pidowner
                      ELSE [pidowner EXCEPT ![proc.root] = proc.uid]
       /\ Goto(next)
  ELSE Exit("PID") /\ UNCHANGED pidowner

\* "write once here, to try it out and make sure its ok"
TryPID ==
  /\ pc = "TryPID"
  /\ WritePID("AddModules")
  /\ UNCHANGED <<env, configVars, moduleVars, proc, signalVars, portVars,
                 logger, cleanupVars>>

-----------------------------------------------------------------------------
(* The ports.  A socket that is not bound is forgotten, and stays open.     *)
OpenTCPSocket(port) == env.bind[port] # "no socket"
BindSocket(port) ==
  env.bind[port] \notin {"bad address", "bind fails", "listen fails"}

BindPort ==
  /\ pc = "BindPorts" /\ found < Len(env.bind)
  /\ found' = found + 1
  /\ sockets' = IF OpenTCPSocket(found') THEN sockets \cup {found'}
                ELSE sockets
  /\ ports' = IF OpenTCPSocket(found') /\ BindSocket(found')
              THEN ports \cup {found'} ELSE ports
  /\ UNCHANGED <<env, pc, status, configVars, moduleVars, processVars,
                 signalVars, logger, cleanupVars>>

BindPorts ==
  /\ pc = "BindPorts" /\ found = Len(env.bind)
  /\ IF ports = {} /\ found > 0 THEN Exit("BIND")
     ELSE Goto(IF env.nofork THEN "chroot" ELSE "KillParent")
  /\ UNCHANGED <<env, configVars, moduleVars, processVars, signalVars,
                 portVars, logger, cleanupVars>>

\* The parent takes the SIGTERM for QuickExit.  It may be gone.
KillParent ==
  /\ pc = "KillParent"
  /\ parent' = "gone"
  /\ Goto("chroot")
  /\ UNCHANGED <<env, configVars, moduleVars, processVars, sigterm, sigchld,
                 mysig, signals, portVars, logger, cleanupVars>>

-----------------------------------------------------------------------------
(* chroot(), setuid() and setgid(), each if it is configured.               *)
Privileges_GoesOn(setting, allowed, after, next) ==
  /\ Goto(next)
  /\ proc' = IF setting # "" /\ allowed THEN after ELSE proc
  /\ UNCHANGED <<env, configVars, moduleVars, pidowner, signalVars, portVars,
                 logger, cleanupVars>>
Privileges(setting, allowed, after, next) ==
  /\ CASE setting = "" -> Goto(next) /\ UNCHANGED proc
       [] setting # "" /\ allowed -> Goto(next) /\ proc' = after
       [] setting # "" /\ ~allowed -> QuickExit /\ UNCHANGED proc
  /\ UNCHANGED <<env, configVars, moduleVars, pidowner, signalVars, portVars,
                 logger, cleanupVars>>

ChRoot ==
  /\ pc = "chroot"
  /\ LET to == Config["chroot"] IN
     Privileges(to, to \in env.jails /\ proc.uid = 0,
                [proc EXCEPT !.root = to], "setuid")

SetUser ==
  /\ pc = "setuid"
  /\ LET name == Config["user"]
         known == name \in DOMAIN env.users[proc.root]
         uid == env.users[proc.root][name] IN
     Privileges(name, known /\ proc.uid \in {0, uid},
                [proc EXCEPT !.uid = uid], "setgid")

SetGroup ==
  /\ pc = "setgid"
  /\ LET name == Config["group"]
         known == name \in DOMAIN env.groups[proc.root]
         gid == env.groups[proc.root][name] IN
     Privileges(name, known /\ (proc.uid = 0 \/ proc.gid = gid),
                [proc EXCEPT !.gid = gid], "WritePID")

FinalPID ==
  /\ pc = "WritePID"
  /\ WritePID("main")
  /\ UNCHANGED <<env, configVars, moduleVars, proc, signalVars, portVars,
                 logger, cleanupVars>>

\* Back in main(): mysig = &SI->s_signal, and the loop.
Main ==
  /\ pc = "main"
  /\ mysig' = TRUE /\ Goto("Run")
  /\ UNCHANGED <<env, configVars, moduleVars, processVars, parent, sigterm,
                 sigchld, signals, portVars, logger, cleanupVars>>

-----------------------------------------------------------------------------
(* Cleanup, and the end.                                                    *)

\* Each ListenSocket is deleted, and closes its socket.
StartCleanup ==
  /\ pc = "Cleanup"
  /\ sockets' = sockets \ ports /\ ports' = {}
  /\ tries' = 1 /\ module_names' = Modules
  /\ Goto("Unloading")
  /\ UNCHANGED <<env, configVars, moduleVars, processVars, signalVars, found,
                 logger>>

\* Unload what was loaded when this round began, whatever comes of it.
UnloadNext ==
  /\ pc = "Unloading" /\ module_names # {}
  /\ LET n == Least(module_names) IN
     Unload(n) /\ module_names' = module_names \ {n}
  /\ UNCHANGED <<env, pc, status, configVars, libs, moduleCalls, processVars,
                 signalVars, portVars, logger, tries>>

Rounds_Once == 1
Rounds == 3

NextRound ==
  /\ pc = "Unloading" /\ module_names = {} /\ tries < Rounds
  /\ tries' = tries + 1 /\ module_names' = Modules
  /\ UNCHANGED <<env, pc, status, configVars, moduleVars, processVars,
                 signalVars, portVars, logger>>

\* Logger is not initialized before OpenLog: whatever the memory held is
\* called, or is NULL by chance.
CloseLog ==
  /\ pc = "Unloading" /\ module_names = {} /\ tries = Rounds
  /\ logger' = IF logger = "open" THEN "closed" ELSE logger
  /\ IF logger = "garbage" THEN pc' \in {"Exited", "Crashed"}
     ELSE pc' = "Exited"
  /\ UNCHANGED <<env, status, configVars, moduleVars, processVars, signalVars,
                 portVars, cleanupVars>>

-----------------------------------------------------------------------------
(* Signals.                                                                 *)

\* SIGTERM, from anybody: what it does depends on who has been installed as
\* its handler, and on whether main() has set mysig.  In Run, the loop takes it
\* for Exit(SIGTERM) when its pass ends.
SigTerm ==
  /\ signals = 0 /\ pc \notin Over
  /\ signals' = 1
  /\ CASE sigterm = "default" -> pc' = "Killed" /\ UNCHANGED status
       [] sigterm = "QuickExit" -> QuickExit
       [] sigterm = "SetSignal" /\ ~mysig -> pc' = "Crashed" /\ UNCHANGED status
       [] sigterm = "SetSignal" /\ mysig /\ pc = "Run" -> Exit("SIGTERM")
       [] OTHER -> UNCHANGED <<pc, status>>
  /\ UNCHANGED <<env, configVars, moduleVars, processVars, parent, sigterm,
                 sigchld, mysig, portVars, logger, cleanupVars>>

\* The user does not wait for the server to be up.
ParentKilled ==
  /\ signals = 0 /\ parent = "waiting"
  /\ signals' = 1 /\ parent' = "gone"
  /\ UNCHANGED <<env, pc, status, configVars, moduleVars, processVars,
                 sigterm, sigchld, mysig, portVars, logger, cleanupVars>>

MainThread ==
  \/ Options \/ OpenLog \/ SetSignals \/ DaemonSeed \/ Child
  \/ ConfigRead \/ TryPID \/ BindPort \/ BindPorts \/ KillParent
  \/ ChRoot \/ SetUser \/ SetGroup \/ FinalPID \/ Main
  \/ StartCleanup \/ UnloadNext \/ NextRound \/ CloseLog

StartupNext == MainThread \/ ParentLooks \/ SigTerm \/ ParentKilled

\* The kernel runs the process and the parent.
StartupFairness == WF_startupVars(MainThread) /\ WF_startupVars(ParentLooks)

-----------------------------------------------------------------------------

\* What the file says in <security>, if it says it on one line.
Wanted(var) ==
  LET said == {item.text : item \in
        {x \in UNION {Listed(section.items) : section \in
                      {y \in Listed(env.file.data) : y.tag = "security"}} :
           x.key = var /\ ~x.linefeed}} IN
  IF said = {} THEN "" ELSE CHOOSE text \in said : TRUE

\* The server takes requests only in the chroot, as the user and with the
\* group that its configuration file asks for, whatever failed on the way and
\* in whatever order it had to be done (inspircd.cpp:420-476).
Confined ==
  pc = "Run" =>
    /\ Wanted("chroot") # "" => proc.root = Wanted("chroot")
    /\ Wanted("user") # "" =>
         proc.uid = env.users[proc.root][Wanted("user")]
    /\ Wanted("group") # "" =>
         proc.gid = env.groups[proc.root][Wanted("group")]

\* Whoever started the server gets the shell back: the parent ends when the
\* child runs, and when it ended for whatever reason (inspircd.cpp:161-172,
\* 392-399).
ParentReturns == (parent = "waiting") ~> (parent = "gone")

\* Exit leaves nothing behind: listeners closed, log closed, and no module
\* loaded but those that may not be unloaded, as they are static or use what
\* they implement, and those they need.  Three rounds are enough for services
\* that are built on services, in chains of at most three
\* (inspircd.cpp:69-105).
Pinned(n) ==
  \/ libs[n].static
  \/ \E i \in libs[n].provides :
       \/ \E m \in Modules : i \in libs[m].needs
       \/ \E m \in aborted : i \in libs[m].needs
CleanExit ==
  pc = "Exited" =>
    /\ ports = {} /\ logger # "open"
    /\ \A n \in Modules : Pinned(n)
    /\ aborted = {}
       /\ (\A n \in Modules :
             ~libs[n].static /\ libs[n].needs \cap libs[n].provides = {})
       => Modules = {}

\* "hottpd can (optionally) drop priviledges after binding ports": root, a
\* user and a group that exist, and no chroot, are enough for the server not to
\* quit while it drops them (docs/hottpd.conf.example:114-121).
DropsPrivileges ==
  LET user == Wanted("user")  group == Wanted("group") IN
  /\ pc = "QuickExit" /\ signals = 0
  /\ Wanted("chroot") = "" /\ env.uid = 0
  => \/ user # "" /\ user \notin DOMAIN env.users["/"]
     \/ group # "" /\ group \notin DOMAIN env.groups["/"]
=============================================================================
