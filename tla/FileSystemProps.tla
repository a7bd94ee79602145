-------------------------- MODULE FileSystemProps --------------------------
(***************************************************************************)
(* The properties of FileSystem.                                           *)
(***************************************************************************)
EXTENDS FileSystem

Item == [created : 0 .. TIME, answer : Views]

\* Every variable has its type: TIME is never ahead of the clock, and no entry
\* of the cache is ahead of TIME.
TypeOK ==
  /\ now \in Nat /\ TIME \in 0 .. now
  /\ files \in [Paths -> Files] /\ changes \in 0 .. MaxChanges
  /\ lastTrue \in [Paths -> [Views -> -1 .. now]]
  /\ FollowSymLinks \in BOOLEAN /\ StatCacheDuration \in Int
  /\ cache \in [Paths -> Item \cup {NULL}]
  /\ pc \in {"Loop", "CheckFilePath", "Open"}
  /\ uri \in Paths \cup {<<>>} /\ upath \in Paths \cup {<<>>}
  /\ pos \in Nat
  /\ fst \in Views \cup {NULL}
  /\ code \in {0, 200, 403, 404, 500} /\ rfilesize \in Nat

\* The oldest moment, by the loop's clock, that an answer may be from.
Oldest(a) ==
  IF a.error = "none" THEN TIME - Window ELSE TIME

\* The kernel's answer about q was a at some moment since t.
WasTrue(q, a, t) == View(q) = a \/ lastTrue[q][a] >= t

\* The kernel's answer about q was, recently enough, one of these.
Recently(q, answers) == \E a \in Views \cap answers : WasTrue(q, a, Oldest(a))

Prefix(i) == SubSeq(uri, 1, i)
Answers == pc # "Loop" /\ pc' = "Loop"

Directories == {a \in Views : Is(a, "dir")}

\* A file is served only if, within stat-cache-time, it was a regular file of
\* the size that is announced, and everything above it a directory: itself,
\* and not a link to one, unless links may be followed.  The answers may come
\* from the cache, from now, or from either side of a change
\* (filesystem.cpp:24-76, request.cpp:314-374).
ServedWasThere ==
  [][(Answers /\ code' = 200) =>
       /\ upath = Prefix(pos)
       /\ \A i \in 1 .. pos - 1 : Recently(Prefix(i), Directories)
       /\ Recently(upath, {a \in Views : Is(a, "reg") /\ a.size = rfilesize'})]_vars

\* What CheckFilePath answers to an answer of Stat that it cannot go on from.
Refusal(a) == IF a.error # "none" THEN PathCode(a.error) ELSE 403

\* A request is refused only for a reason that held within stat-cache-time,
\* an error within the second, at one of the components of its path, when
\* those above it were directories; or because open() fails.  Written for
\* DebugLogging = FALSE: the DEBUG log may take errno (filesystem.cpp:106-142, request.cpp:316-366).
RefusedForAReason ==
  [][(Answers /\ code' # 200) =>
       \/ /\ upath \in Paths
          /\ files[upath].open # "none" /\ code' = OpenCode(files[upath].open)
       \/ /\ \A i \in 1 .. pos - 1 : Recently(Prefix(i), Directories)
          /\ Recently(Prefix(pos), {a \in Views : Refusal(a) = code'
                                                    /\ ~Is(a, "reg")})]_vars
=============================================================================
