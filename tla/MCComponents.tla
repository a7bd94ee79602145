---------------------------- MODULE MCComponents ----------------------------
(***************************************************************************)
(* Components of the server that meet only through the loop, side by side: *)
(* part, chosen once, says which of them this behaviour is about, and the  *)
(* others stay as they are, so that their state spaces add up.             *)
(***************************************************************************)
EXTENDS Startup, ConfigFile, TimerManager, FileLogger, SelectEngine,
        QueueEngines, CompletionEngine, RequestURI, TextParsers,
        ScriptResponse, TLC

VARIABLE part
engineVars == <<engine, tableVars, selectVars, queueVars, completionVars>>
allVars == <<part, startupVars, confVars, timerVars, logfile, engineVars,
             uriVars, textVars, scriptVars>>

-----------------------------------------------------------------------------
(* Modules directories.                                                     *)
Dull == [file |-> "ok", init |-> "module", api |-> TRUE, static |-> FALSE,
         hooks |-> {"OnPreRequest"}, feature |-> "none",
         provides |-> {}, needs |-> {},
         wish |-> [state |-> "PRIO_DONTCARE", others |-> {}]]
Wishing(s, o) == [Dull EXCEPT !.wish = [state |-> s, others |-> o]]
Everywhere(l) == [l EXCEPT !.hooks = Hooks]
Offering(p, n) == [Dull EXCEPT !.provides = p, !.needs = n]

Orders ==
  {<<Dull, Wishing("PRIO_FIRST", {}), Everywhere(Dull)>>,
   <<Dull, Everywhere(Wishing("PRIO_LAST", {})), Dull>>,
   <<Dull, Wishing("PRIO_BEFORE", {1, 3}), Dull>>,
   <<Dull, Wishing("PRIO_AFTER", {1, 3}), Dull>>,
   <<Wishing("PRIO_LAST", {}), Wishing("PRIO_FIRST", {}),
     Wishing("PRIO_BEFORE", {1, 2})>>}
\* Where more than one cares, or one whose constructor throws is in the way.
Rivals ==
  {<<Dull, Wishing("PRIO_FIRST", {}), Wishing("PRIO_FIRST", {})>>,
   <<Wishing("PRIO_LAST", {}), [Dull EXCEPT !.init = "throws"], Dull>>,
   <<[Dull EXCEPT !.init = "throws"], Wishing("PRIO_BEFORE", {1}), Dull>>}
Services ==
  {<<Offering({}, {1}), Offering({1}, {}), Offering({2}, {1})>>,
   <<Offering({1}, {1}), Offering({}, {1}), Dull>>,
   <<Everywhere(Offering({1}, {})), Offering({1, 2}, {}),
     Offering({}, {1, 2})>>,
   <<[Dull EXCEPT !.feature = "f"], [Everywhere(Dull) EXCEPT !.feature = "f"],
     [Dull EXCEPT !.static = TRUE]>>}
Failures ==
  {<<[Everywhere(Offering({1}, {})) EXCEPT !.init = "throws"],
     Offering({}, {1}),
     [Everywhere(Offering({1}, {})) EXCEPT !.api = FALSE, !.feature = "f"]>>,
   <<[Dull EXCEPT !.file = "missing"], [Dull EXCEPT !.init = "null"], Dull>>}
Chain == <<Offering({1}, {}), Offering({2}, {1}), Offering({}, {2})>>
AllDull == <<Dull, Dull, Dull>>
MCDirectories == Orders \cup Rivals \cup Services \cup Failures \cup {Chain, AllDull}

-----------------------------------------------------------------------------
(* Surroundings to start in.                                                *)
MCNumber(text) ==
  CASE text \in {"2", "5", "30", "120", "1024", "10240"} ->
         ("2" :> 2 @@ "5" :> 5 @@ "30" :> 30 @@ "120" :> 120
            @@ "1024" :> 1024 @@ "10240" :> 10240)[text]
    [] text = "SOMAXCONN" -> 128
    [] text = "MAXCLIENTS" -> MAXCLIENTS
    [] OTHER -> 0
MCDirValid(text) == text = "/srv/"
MCFileOf(text) ==
  IF text \in {"a", "b", "c"} THEN [a |-> 1, b |-> 2, c |-> 3][text]
  ELSE NoModule
MCBeginnings ==
  {<<>>, <<"a", "{", "\n", "a", "=", "a", "\n", "}">>}

\* "/", ".", "a", "?", "#", and as escapes "/", ".", "?", a linefeed, and what
\* is not hexadecimal.
MCPieces ==
  {<<47>>, <<46>>, <<97>>, <<63>>, <<35>>,
   <<37, 50, 70>>, <<37, 50, 101>>, <<37, 51, 70>>, <<37, 48, 65>>,
   <<37, 47, 47>>}

\* One listener.
MCAcceptors == {<<0, "old">>}

MCMatching == "*" :> {1, 2, 3}

Item(k, t) == [key |-> k, text |-> t, linefeed |-> FALSE]
TwoLines(k, t) == [Item(k, t) EXCEPT !.linefeed = TRUE]
Tag(t, items) == [tag |-> t, items |-> items]
Server == Tag("server", <<Item("document-root", "/srv/"),
                          TwoLines("softlimit", "5"), Item("softlimit", "2")>>)
Modules3 == <<Tag("module", <<Item("name", "a")>>),
              Tag("module", <<TwoLines("name", "b")>>),
              Tag("module", <<Item("name", "c")>>)>>
File(sections) == [ok |-> TRUE, data |-> sections]
Security(u, g, r) ==
  Tag("security", <<Item("user", u), Item("group", g), Item("chroot", r)>>)

Roots == {"/", "jail"}
Good ==
  [args |-> "run", nofork |-> FALSE, log |-> TRUE, exists |-> TRUE,
   fork |-> TRUE, rlimit |-> TRUE, uid |-> 0, gid |-> 0,
   file |-> File(<<Server>>), bind |-> <<"ok">>, jails |-> {"jail"},
   users |-> [r \in Roots |-> [www |-> 33]],
   groups |-> [r \in Roots |-> [www |-> 33]],
   piddir |-> [r \in Roots |-> "root"], pidowner |-> [r \in Roots |-> -1]]

EarlyEnds ==
  {[Good EXCEPT !.args = a, !.log = l, !.exists = e, !.fork = f, !.rlimit = r,
                !.nofork = n] :
     a \in {"run", "version", "usage"}, l \in BOOLEAN, e \in BOOLEAN,
     f \in BOOLEAN, r \in BOOLEAN, n \in BOOLEAN}
BadFiles ==
  {[Good EXCEPT !.file = f, !.nofork = n] :
     n \in BOOLEAN,
     f \in {[ok |-> FALSE, data |-> <<>>], File(<<>>),
            File(<<Server, Server>>), File(<<Tag("server", <<>>)>>)}}
Ports ==
  {[Good EXCEPT !.bind = b, !.nofork = n] :
     n \in BOOLEAN,
     b \in {<<>>, <<"bind fails", "ok">>, <<"listen fails", "no socket">>,
            <<"bad address">>}}
Privileged ==
  {[Good EXCEPT !.file = File(<<Server, Security(u, g, r)>>), !.uid = w,
                !.gid = w, !.pidowner = [x \in Roots |-> o],
                !.piddir["jail"] = d, !.users["jail"] = j, !.nofork = n] :
     u \in {"", "www", "nobody"}, g \in {"", "www"}, r \in {"", "jail", "gone"},
     w \in {0, 33}, o \in {-1, 33}, d \in {"absent", "all"},
     j \in {<<>>, [www |-> 34]}, n \in BOOLEAN}
WithModules ==
  {[Good EXCEPT !.file = File(<<Server>> \o m), !.nofork = TRUE] :
     m \in {Modules3, <<Tag("module", <<Item("name", "*")>>)>>,
            <<Modules3[1], Modules3[1]>>}}
MCScenarios ==
  EarlyEnds \cup BadFiles \cup Ports \cup Privileged \cup WithModules

-----------------------------------------------------------------------------
Init ==
  /\ StartupInit
  /\ TimersInit /\ LoggerInit /\ TableInit /\ SelectInit /\ QueueInit
  /\ CompletionInit
  /\ URIInit /\ TextInit /\ ScriptInit
  /\ part \in {"modules", "startup", "config", "timers", "log", "engine",
              "uri", "texts", "script"}
  /\ part # "engine" => engine = "select"
  /\ part # "script" => hup /\ keepalive
  /\ \/ part = "config" /\ ConfInit
     \/ part # "config" /\ conf = Start /\ characters = <<>> /\ begun = 0
  /\ \/ part = "modules" /\ env = Good
     \/ part = "startup" /\ libs = AllDull /\ env \notin WithModules
     \/ part = "startup" /\ env \in WithModules
     \/ part \notin {"modules", "startup"} /\ libs = AllDull /\ env = Good

Startups ==
  /\ part = "startup" /\ StartupNext
  /\ UNCHANGED <<part, confVars, timerVars, logfile, engineVars, uriVars,
                 textVars, scriptVars>>

Next ==
  \/ Startups
  \/ /\ part = "modules" /\ ModuleNext
     /\ UNCHANGED <<env, pc, status, configVars, processVars, signalVars,
                    portVars, logger, cleanupVars>>
     /\ UNCHANGED <<part, confVars, timerVars, logfile, engineVars, uriVars,
                    textVars, scriptVars>>
  \/ /\ part = "config" /\ ReadCharacter
     /\ UNCHANGED <<part, startupVars, timerVars, logfile, engineVars, uriVars,
                    textVars, scriptVars>>
  \/ /\ part = "timers" /\ TimersNext
     /\ UNCHANGED <<part, startupVars, confVars, logfile, engineVars, uriVars,
                    textVars, scriptVars>>
  \/ /\ part = "log" /\ LoggerNext
     /\ UNCHANGED <<part, startupVars, confVars, timerVars, engineVars,
                    uriVars, textVars, scriptVars>>
  \/ /\ part = "engine"
     /\ \/ SelectNext /\ UNCHANGED <<queueVars, completionVars>>
        \/ QueueNext /\ UNCHANGED <<selectVars, completionVars>>
        \/ CompletionNext /\ UNCHANGED <<selectVars, queueVars>>
     /\ UNCHANGED <<part, startupVars, confVars, timerVars, logfile, uriVars,
                    textVars, scriptVars>>
  \/ /\ part = "uri" /\ Send
     /\ UNCHANGED <<part, startupVars, confVars, timerVars, logfile,
                    engineVars, textVars, scriptVars>>
  \/ /\ part = "texts" /\ TextNext
     /\ UNCHANGED <<part, startupVars, confVars, timerVars, logfile,
                    engineVars, uriVars, scriptVars>>
  \/ /\ part = "script" /\ ScriptNext
     /\ UNCHANGED <<part, startupVars, confVars, timerVars, logfile,
                    engineVars, uriVars, textVars>>

Spec == Init /\ [][Next]_allVars
FairSpec == Spec /\ StartupFairness
=============================================================================
