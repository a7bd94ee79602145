----------------------------- MODULE FileSystem -----------------------------
(***************************************************************************)
(* From a path to an open file: FileSystem::Stat and CheckFilePath of      *)
(* filesystem.cpp, and what Connection::ServeData does with their answer.  *)
(*                                                                         *)
(* Other processes change the files under DocRoot at any moment, between   *)
(* two components of one path too.  Stat answers from a cache while an     *)
(* entry is young enough by TIME, the clock that the loop reads once a     *)
(* pass and that lags behind the real one, now.                            *)
(*                                                                         *)
(* A path is the sequence of its components below DocRoot.  A file is what *)
(* the kernel says of it: to stat(), to lstat() and to open().             *)
(***************************************************************************)
EXTENDS Integers, Sequences

CONSTANTS
  Paths,         \* the paths that are asked for and their prefixes
  Files,         \* what may be at a path, a subset of File
  Durations,     \* the values stat-cache-time may have in the configuration
  DebugLogging,  \* TRUE when DEBUG lines are written to the log
  MaxTime,       \* bound on the clock
  MaxChanges,    \* bound on the changes other processes make
  NULL

Errors == {"ENOENT", "EACCES", "ELOOP", "ENAMETOOLONG", "ENOTDIR", "EIO"}

\* What stat() and lstat() say; kind and size mean something if error is "none".
Answer == [error : Errors \cup {"none"},
           kind  : {"dir", "reg", "link", "other"},
           size  : Nat]
File == [stat : Answer, lstat : Answer, open : Errors \cup {"none"}]
Is(a, kind) == a.error = "none" /\ a.kind = kind

ASSUME PathsAssumption ==
  /\ \A p \in Paths : DOMAIN p = 1 .. Len(p) /\ Len(p) \in Nat \ {0}
  /\ \A p \in Paths : \A i \in 1 .. Len(p) : SubSeq(p, 1, i) \in Paths
ASSUME FilesAssumption == Files \subseteq File
ASSUME ConfigAssumption ==
  /\ Durations \subseteq Int
  /\ DebugLogging \in BOOLEAN
  /\ MaxTime \in Nat /\ MaxChanges \in Nat
ASSUME NullAssumption == NULL \notin [created : Int, answer : Answer]

VARIABLES
  now,                \* time(NULL)
  TIME,
  files,              \* [Paths -> Files], what is on the disk
  changes,            \* history: how often files has changed
  lastTrue,           \* history: when stat() or lstat() last gave an answer
                      \* that it does not give any more
  FollowSymLinks,     \* the configuration, read once at startup
  StatCacheDuration,
  cache,              \* StatCache or LinkStatCache, as FollowSymLinks selects
  pc,
  uri,                \* the path asked for
  pos,                \* the component CheckFilePath has come to
  fst,                \* the last answer of Stat
  upath,              \* what CheckFilePath returned
  code,               \* the last answer given, and the size it announced
  rfilesize

diskVars    == <<files, changes, lastTrue>>
configVars  == <<FollowSymLinks, StatCacheDuration>>
requestVars == <<pc, uri, pos, fst, upath, code, rfilesize>>
vars == <<now, TIME, diskVars, configVars, cache, requestVars>>

\* A path exists only below a directory.
Trees ==
  {f \in [Paths -> Files] :
     \A p \in Paths : \A i \in 1 .. Len(p) - 1 :
        f[p].lstat.error = "none" => Is(f[SubSeq(p, 1, i)].stat, "dir")}

\* Stat's system call.
View(q) == IF FollowSymLinks THEN files[q].stat ELSE files[q].lstat
Views == {f.stat : f \in Files} \cup {f.lstat : f \in Files}

Init ==
  /\ now = 0 /\ TIME = 0
  /\ files \in Trees /\ changes = 0
  /\ lastTrue = [p \in Paths |-> [a \in Views |-> -1]]
  /\ FollowSymLinks \in BOOLEAN /\ StatCacheDuration \in Durations
  /\ cache = [p \in Paths |-> NULL]
  /\ pc = "Loop"
  /\ uri = <<>> /\ pos = 0 /\ fst = NULL /\ upath = <<>>
  /\ code = 0 /\ rfilesize = 0

CacheEnabled == StatCacheDuration >= 1

\* How far behind TIME an answer may be.
Window == IF CacheEnabled THEN StatCacheDuration - 1 ELSE 0

-----------------------------------------------------------------------------
(* Other processes, and time.                                               *)

Change ==
  /\ changes < MaxChanges /\ changes' = changes + 1
  /\ files' \in Trees /\ files' # files
  /\ lastTrue' = [p \in Paths |-> [lastTrue[p] EXCEPT ![View(p)] = now]]
  /\ UNCHANGED <<now, TIME, configVars, cache, requestVars>>

Tick ==
  /\ now < MaxTime
  /\ now' = now + 1
  /\ UNCHANGED <<TIME, diskVars, configVars, cache, requestVars>>

\* The top of the loop: TIME = time(NULL).  The history forgets what is older
\* than any answer may be from now on.
NewPass ==
  /\ pc = "Loop"
  /\ TIME' = now
  /\ lastTrue' = [p \in Paths |->
       [a \in Views |-> IF lastTrue[p][a] < now - Window THEN -1
                                                        ELSE lastTrue[p][a]]]
  /\ UNCHANGED <<now, files, changes, configVars, cache, requestVars>>

-----------------------------------------------------------------------------
(* FileSystem::Stat.                                                        *)

\* An error is kept for one second.
Expire_KeepsErrors(item) == item.created + StatCacheDuration
Expire_OneLonger(item) ==
  1 + item.created + IF item.answer.error = "none" THEN StatCacheDuration ELSE 1
Expire(item) ==
  item.created + IF item.answer.error = "none" THEN StatCacheDuration ELSE 1

FromCache(q) ==
  /\ CacheEnabled
  /\ cache[q] # NULL /\ Expire(cache[q]) > TIME

StatReads(q) ==
  IF FromCache(q) THEN cache[q].answer ELSE View(q)

NewItem(q) == [created |-> TIME, answer |-> View(q)]

StatCaches(q) ==
  cache' = IF FromCache(q) \/ ~CacheEnabled
             THEN cache
             ELSE [cache EXCEPT ![q] = NewItem(q)]

\* errno after a failed Stat.  The line logged after a call that was not
\* answered from the cache may change it when it is written.
StatErrno(q) ==
  IF DebugLogging /\ CacheEnabled /\ ~FromCache(q)
    THEN Errors ELSE {StatReads(q).error}

-----------------------------------------------------------------------------
(* Connection::ServeData.                                                   *)

ServeData(p) ==
  /\ pc = "Loop" /\ pc' = "CheckFilePath"
  /\ uri' = p /\ pos' = 1
  /\ UNCHANGED <<now, TIME, diskVars, configVars, cache, fst, upath, code,
                 rfilesize>>

\* The response, and the end of the request, which clears what was known of it.
Respond(c, size) ==
  /\ code' = c /\ rfilesize' = size
  /\ pc' = "Loop"
  /\ uri' = <<>> /\ pos' = 0 /\ fst' = NULL /\ upath' = <<>>

\* The answers to an errno, of CheckFilePath and of open().
PathCode(e) ==
  CASE e = "EACCES" -> 403
    [] e \in {"ENOENT", "ELOOP", "ENAMETOOLONG", "ENOTDIR"} -> 404
    [] OTHER -> 500
OpenCode(e) ==
  CASE e = "EACCES" -> 403 [] e \in {"ENOENT", "ENOTDIR"} -> 404 [] OTHER -> 500

\* One component of FileSystem::CheckFilePath, which goes on below a
\* directory, ends at a regular file (the rest of the path is its PATH_INFO)
\* and fails at anything else.
GoesOn_ThroughLinks(a) == a.kind \in {"dir", "link"} /\ pos < Len(uri)
GoesOn(a) == a.kind = "dir" /\ pos < Len(uri)

CheckFilePath ==
  /\ pc = "CheckFilePath"
  /\ LET q == SubSeq(uri, 1, pos)
         a == StatReads(q) IN
       /\ StatCaches(q)
       /\ \/ /\ a.error # "none"
             /\ \E e \in StatErrno(q) : Respond(PathCode(e), 0)
          \/ /\ a.error = "none" /\ GoesOn(a)
             /\ fst' = a /\ pos' = pos + 1
             /\ UNCHANGED <<pc, uri, upath, code, rfilesize>>
          \/ /\ a.error = "none" /\ ~GoesOn(a) /\ a.kind = "reg"
             /\ fst' = a /\ upath' = q
             /\ pc' = "Open"
             /\ UNCHANGED <<uri, pos, code, rfilesize>>
          \/ /\ a.error = "none" /\ ~GoesOn(a) /\ a.kind # "reg"
             /\ Respond(PathCode("EACCES"), 0)
  /\ UNCHANGED <<now, TIME, diskVars, configVars>>

\* open() follows links whatever FollowSymLinks says, and finds what is there
\* now; the size is the one Stat gave.
Open ==
  /\ pc = "Open"
  /\ LET e == files[upath].open IN
       IF e = "none" THEN Respond(200, fst.size) ELSE Respond(OpenCode(e), 0)
  /\ UNCHANGED <<now, TIME, diskVars, configVars, cache>>

-----------------------------------------------------------------------------
Environment == Change \/ Tick

Server ==
  \/ NewPass
  \/ \E p \in Paths : ServeData(p)
  \/ CheckFilePath \/ Open

Next == Environment \/ Server

Spec == Init /\ [][Next]_vars
=============================================================================
