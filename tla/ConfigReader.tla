---------------------------- MODULE ConfigReader ----------------------------
(***************************************************************************)
(* ServerConfig::Read(true) (src/configreader.cpp): what the server takes  *)
(* from its configuration file when it starts, and the modules that it     *)
(* loads on the way.  Read(false) has no caller.                           *)
(*                                                                         *)
(* The file is what LoadConf made of it (module ConfigFile): a sequence of *)
(* sections, each a sequence of items.  A value is a text and a flag that  *)
(* says that it has linefeeds.                                             *)
(***************************************************************************)
EXTENDS ModuleManager

CONSTANTS
  Number(_),      \* atoi() of a text
  DirValid(_),    \* what ServerConfig::DirValid says of a text
  FileOf(_),      \* the file that a text in <module:name> names
  Matching,       \* a pattern in <module:name> -> the files that match it
  Scenarios,      \* the surroundings that the server may start in
  MAXCLIENTS

VARIABLES
  env,            \* the scenario
  pc, status,     \* where the main thread is; the argument of Exit()
  config_data,    \* the sections of the file
  Config,         \* the fields of ServerConfig
  added_modules,  \* the names that are asked for, from 0
  Index,          \* of the loops of Read
  matched,        \* files that match a pattern, and Load has yet to load
  n_match         \* of Load for a pattern; -1 outside of it

configVars == <<config_data, Config, added_modules, Index, matched, n_match>>

Exit(s) == pc' = "Cleanup" /\ status' = s

-----------------------------------------------------------------------------
(* Looking values up.                                                       *)

ConfValueEnum(data, tag) == Cardinality({s \in DOMAIN data : data[s].tag = tag})

\* The section that is the index-th of its tag, counted from 0.
Section(data, tag, index) ==
  {s \in DOMAIN data :
     /\ data[s].tag = tag
     /\ Cardinality({r \in 1 .. s - 1 : data[r].tag = tag}) = index}

Answers(items, var) ==
  {i \in DOMAIN items : items[i].key = var /\ ~items[i].linefeed}

\* The first value without linefeeds, else the default; "" is no value.
ConfValue(data, tag, var, default, index) ==
  LET found == UNION {{<<s, i>> : i \in Answers(data[s].items, var)} :
                      s \in Section(data, tag, index)} IN
  IF found # {}
  THEN LET first == CHOOSE x \in found : \A y \in found : x[2] <= y[2] IN
       data[first[1]].items[first[2]].text
  ELSE IF Section(data, tag, index) # {} \/ index = 0 THEN default
  ELSE ""

\* What ConfValue does to the linefeeds that it met on the way.
Stripped(data, tag, var, index) ==
  [s \in DOMAIN data |->
    IF s \notin Section(data, tag, index) THEN data[s]
    ELSE [data[s] EXCEPT !.items =
           [i \in DOMAIN @ |->
             IF @[i].key = var /\ \A j \in Answers(@, var) : i < j
             THEN [@[i] EXCEPT !.linefeed = FALSE] ELSE @[i]]]]

-----------------------------------------------------------------------------
(* The table of the values that occur once.                                 *)
Row(tag, value, default, type, check) ==
  [tag |-> tag, value |-> value, default |-> default, type |-> type,
   check |-> check]
Text(tag, value, default) == Row(tag, value, default, "DT_CHARPTR", "")
Whole(tag, value, default) == Row(tag, value, default, "DT_INTEGER", "")
Flag(tag, value, default) == Row(tag, value, default, "DT_BOOLEAN", "")
Checked(row, check) == [row EXCEPT !.check = check]

Values ==
  <<Checked(Text("server", "document-root", ""), "ValidateDir"),
    Checked(Whole("server", "softlimit", "MAXCLIENTS"), "ValidateSoftLimit"),
    Checked(Text("server", "loglevel", "default"), "ValidateLogLevel"),
    Checked(Whole("server", "netbuffersize", "10240"), "ValidateNetBufferSize"),
    Text("server", "moduledir", "MOD_PATH"),
    Text("server", "customversion", ""),
    Text("server", "pidfile", ""),
    Flag("security", "follow-symlinks", "yes"),
    Text("security", "user", ""),
    Text("security", "group", ""),
    Text("security", "chroot", ""),
    Whole("performance", "stat-cache-time", "2"),
    Flag("performance", "noatime", "yes"),
    Checked(Whole("performance", "max-conn-queue", "SOMAXCONN"),
            "ValidateMaxConn"),
    Whole("performance", "keepalive-max", "30"),
    Whole("performance", "timeout-frequency", "120"),
    Whole("performance", "timeout-total-lifetime", "30"),
    Whole("performance", "timeout-idle-lifetime", "5"),
    Whole("performance", "max-post-body", "1024"),
    Whole("performance", "max-dynamic-processes", "2")>>

Valid(row, text) == row.check = "ValidateDir" => DirValid(text)

LogLevels == {"debug", "verbose", "default", "sparse", "none"}

GetInteger(text) == IF text = "" THEN 0 ELSE Number(text)
GetBool(text) == GetInteger(text) # 0 \/ text \in {"yes", "true"}

ValidateSoftLimit(value) ==
  IF value \in 1 .. MAXCLIENTS THEN value ELSE MAXCLIENTS
ValidateNetBufferSize(value) ==
  IF value \in 1024 .. 65535 THEN value ELSE 10240
ValidateLogLevel(text) == IF text \in LogLevels THEN text ELSE "default"

\* What a text comes to in a field of its type, after its validation.
Converted(row, text) ==
  CASE row.type = "DT_INTEGER" -> GetInteger(text)
    [] row.type = "DT_BOOLEAN" -> GetBool(text)
    [] OTHER -> text
Value(row, text) ==
  CASE row.check = "ValidateSoftLimit" -> ValidateSoftLimit(GetInteger(text))
    [] row.check = "ValidateNetBufferSize" ->
         ValidateNetBufferSize(GetInteger(text))
    [] row.check = "ValidateLogLevel" -> ValidateLogLevel(text)
    [] OTHER -> Converted(row, text)

\* The fields as the constructor leaves them, where it does.
Unread ==
  [field \in {Values[i].value : i \in DOMAIN Values} |->
    LET row == CHOOSE r \in Listed(Values) : r.value = field IN
    IF row.type = "DT_CHARPTR" THEN "" ELSE Value(row, row.default)]

-----------------------------------------------------------------------------
(* Read, step by step.                                                      *)

\* config_data changes only if the whole file was understood.
ReadFile ==
  /\ pc = "LoadConf"
  /\ IF env.file.ok
     THEN /\ config_data' = env.file.data /\ Index' = 1
          /\ pc' = "Values" /\ UNCHANGED status
     ELSE Exit("CONFIG") /\ UNCHANGED <<config_data, Index>>
  /\ UNCHANGED <<Config, added_modules, matched, n_match, moduleVars>>

ReadValue ==
  /\ pc = "Values" /\ Index <= Len(Values)
  /\ LET row == Values[Index]
         text == ConfValue(config_data, row.tag, row.value, row.default, 0) IN
     /\ config_data' = Stripped(config_data, row.tag, row.value, 0)
     /\ IF Valid(row, text)
        THEN /\ Config' = [Config EXCEPT ![row.value] = Value(row, text)]
             /\ Index' = Index + 1 /\ UNCHANGED <<pc, status>>
        ELSE Exit("CONFIG") /\ UNCHANGED <<Config, Index>>
  /\ UNCHANGED <<added_modules, matched, n_match, moduleVars>>

ModuleName(data, k) == ConfValue(data, "module", "name", "", k)

\* InitModule, DoModule for each <module>, DoneModule: nothing is loaded yet,
\* so that each name is one to be added.  LoadAll begins.
ReadModules ==
  /\ pc = "Values" /\ Index = Len(Values) + 1
  /\ LET tags == 0 .. ConfValueEnum(config_data, "module") - 1 IN
     /\ added_modules' = [k \in tags |-> ModuleName(config_data, k)]
     /\ config_data' =
          [s \in DOMAIN config_data |->
            IF config_data[s].tag # "module" THEN config_data[s]
            ELSE Stripped(config_data, "module", "name",
                   Cardinality({r \in 1 .. s - 1 :
                                  config_data[r].tag = "module"}))[s]]
  /\ ModCount' = -1
  /\ pc' = "LoadAll" /\ Index' = 0
  /\ UNCHANGED <<status, Config, matched, n_match, libs, Modules, alive,
                 aborted, registries, prioritizing, LastModuleError,
                 moduleCalls, wild>>

\* The name that LoadAll, or the loop over added_modules, is at.
Asked ==
  IF pc = "LoadAll" THEN ModuleName(config_data, Index)
  ELSE added_modules[Index]
LoadingModules ==
  /\ pc \in {"LoadAll", "AddModules"} /\ prioritizing = {} /\ matched = {}
  /\ n_match = -1
  /\ Index < ConfValueEnum(config_data, "module")
IsPattern(text) == text \in DOMAIN Matching

\* The loop over added_modules passes over what LoadAll has loaded.
SkipModule ==
  /\ LoadingModules /\ pc = "AddModules"
  /\ ~IsPattern(Asked) /\ FileOf(Asked) \in Modules
  /\ Index' = Index + 1
  /\ UNCHANGED <<pc, status, config_data, Config, added_modules, matched,
                 n_match, moduleVars>>

LoadOne ==
  /\ LoadingModules /\ ~IsPattern(Asked)
  /\ pc = "AddModules" => FileOf(Asked) \notin Modules
  /\ \/ LoadSucceeds(FileOf(Asked)) /\ Index' = Index + 1
        /\ UNCHANGED <<pc, status>>
     \/ LoadFails(FileOf(Asked)) /\ Exit("MODULE") /\ UNCHANGED Index
  /\ UNCHANGED <<config_data, Config, added_modules, matched, n_match, libs,
                 moduleCalls>>

\* A pattern: every file that matches, in the order of readdir().
OpenDirectory ==
  /\ LoadingModules /\ IsPattern(Asked)
  /\ matched' = Matching[Asked] /\ n_match' = 0
  /\ UNCHANGED <<pc, status, config_data, Config, added_modules, Index,
                 moduleVars>>

LoadMatch ==
  /\ pc \in {"LoadAll", "AddModules"} /\ matched # {} /\ prioritizing = {}
  /\ \E n \in matched :
       /\ matched' = matched \ {n}
       /\ \/ LoadSucceeds(n) /\ UNCHANGED n_match
          \/ LoadFails(n) /\ n_match' = n_match + 1
  /\ UNCHANGED <<pc, status, config_data, Config, added_modules, Index, libs,
                 moduleCalls>>

\* Load() of a pattern returns n_match > 0, and n_match counts what failed.
CloseDirectory ==
  /\ pc \in {"LoadAll", "AddModules"}
  /\ matched = {} /\ prioritizing = {} /\ n_match >= 0
  /\ n_match' = -1
  /\ IF n_match > 0 THEN Index' = Index + 1 /\ UNCHANGED <<pc, status>>
     ELSE Exit("MODULE") /\ UNCHANGED Index
  /\ UNCHANGED <<config_data, Config, added_modules, matched, moduleVars>>

EndLoading ==
  /\ pc \in {"LoadAll", "AddModules"} /\ prioritizing = {} /\ n_match = -1
  /\ Index = ConfValueEnum(config_data, "module")
  /\ pc' = IF pc = "LoadAll" THEN "CheckOnce" ELSE "BindPorts"
  /\ Index' = 0
  /\ UNCHANGED <<status, config_data, Config, added_modules, matched, n_match,
                 moduleVars>>

\* The exception is thrown outside of the try: nobody catches it.
CheckOnce ==
  /\ pc = "CheckOnce"
  /\ pc' = IF ConfValueEnum(config_data, "server") = 1 THEN "TryPID"
           ELSE "Crashed"
  /\ UNCHANGED <<status, configVars, moduleVars>>

ReadPrioritizes ==
  /\ pc \in {"LoadAll", "AddModules"}
  /\ Prioritize
  /\ UNCHANGED <<pc, status, configVars>>

Read ==
  \/ ReadFile \/ ReadValue \/ ReadModules
  \/ SkipModule \/ LoadOne \/ OpenDirectory \/ LoadMatch \/ CloseDirectory
  \/ EndLoading \/ ReadPrioritizes
  \/ CheckOnce
=============================================================================
