--------------------------- MODULE FileSystemProofs ---------------------------
(***************************************************************************)
(* Proofs of the properties of FileSystem.                                 *)
(*                                                                         *)
(* What Stat answers was so recently: that is StatIsRecent, and it rests   *)
(* on CacheTrue, which ties each entry of the cache to the history.  What  *)
(* CheckFilePath has found so far stays recent while other processes       *)
(* change the files, because TIME stands still between two passes: that    *)
(* is WalkTrue.                                                            *)
(***************************************************************************)
EXTENDS FileSystemProps, TLAPS

\* An entry that may still be used is an answer that was given since.
CacheTrue ==
  \A q \in Paths :
    cache[q] # NULL => \/ cache[q].created < TIME - Window
                       \/ WasTrue(q, cache[q].answer, cache[q].created)

\* Everything above the component CheckFilePath has come to was a directory.
WalkTrue ==
  pc \in {"CheckFilePath", "Open"} =>
    /\ uri \in Paths /\ pos \in 1 .. Len(uri)
    /\ \A i \in 1 .. pos - 1 : Recently(Prefix(i), Directories)

\* What is about to be opened was a regular file of the size known.
OpenTrue ==
  pc = "Open" =>
    /\ upath = Prefix(pos) /\ fst \in Views
    /\ Recently(upath, {a \in Views : Is(a, "reg") /\ a.size = fst.size})

IInv == TypeOK /\ CacheTrue /\ WalkTrue /\ OpenTrue

\* What there is to stat is one of Views, and has the shape of an answer.
LEMMA ViewsAreAnswers ==
  ASSUME TypeOK
  PROVE  /\ Views \subseteq Answer
         /\ \A q \in Paths : View(q) \in Views
  <1>1. Files \subseteq File
    BY FilesAssumption
  <1>2. ASSUME NEW f \in Files PROVE f.stat \in Answer /\ f.lstat \in Answer
    BY <1>1 DEF File
  <1>3. Views \subseteq Answer
    BY <1>2 DEF Views
  <1>4. ASSUME NEW q \in Paths PROVE View(q) \in Views
    <2>1. files[q] \in Files
      BY DEF TypeOK
    <2>2. QED BY <2>1 DEF View, Views
  <1>5. QED BY <1>3, <1>4

\* The prefixes of a path are paths.
LEMMA PrefixesArePaths ==
  ASSUME uri \in Paths, NEW i \in 1 .. Len(uri)
  PROVE  Prefix(i) \in Paths
  BY PathsAssumption DEF Prefix

\* An entry of the cache is an item, with a time that has been.
LEMMA EntriesAreItems ==
  ASSUME TypeOK, NEW q \in Paths, cache[q] # NULL
  PROVE  /\ cache[q].created \in 0 .. TIME /\ cache[q].answer \in Views
         /\ cache[q].created \in Int /\ TIME \in Int
  <1>1. cache[q] \in Item
    BY DEF TypeOK
  <1>2. QED BY <1>1 DEF Item, TypeOK

\* The window is that of an answer that is not an error.
LEMMA WindowIsAnInteger ==
  ASSUME TypeOK
  PROVE  /\ Window \in Nat
         /\ \A a : Oldest(a) \in Int /\ Oldest(a) <= TIME /\ Oldest(a) >= TIME - Window
  BY DEF TypeOK, Window, CacheEnabled, Oldest

\* What Stat says of q, from the cache or not, was so recently enough.
LEMMA StatIsRecent ==
  ASSUME TypeOK, CacheTrue, NEW q \in Paths
  PROVE  /\ StatReads(q) \in Views
         /\ WasTrue(q, StatReads(q), Oldest(StatReads(q)))
  <1>1. CASE ~FromCache(q)
    BY <1>1, ViewsAreAnswers DEF StatReads, WasTrue
  <1>2. CASE FromCache(q)
    <2>1. cache[q] # NULL /\ Expire(cache[q]) > TIME /\ CacheEnabled
      BY <1>2 DEF FromCache
    <2> DEFINE a == cache[q].answer
               c == cache[q].created
    <2>2. StatReads(q) = a
      BY <1>2 DEF StatReads
    <2>3. a \in Views /\ c \in Int /\ TIME \in Int
      BY <2>1, EntriesAreItems
    <2>4. c >= Oldest(a) /\ ~(c < TIME - Window)
      <3>1. c + (IF a.error = "none" THEN StatCacheDuration ELSE 1) > TIME
        BY <2>1 DEF Expire
      <3>2. StatCacheDuration \in Int /\ StatCacheDuration >= 1
        BY <2>1 DEF TypeOK, CacheEnabled
      <3>3. Window = StatCacheDuration - 1
        BY <2>1 DEF Window
      <3> HIDE DEF a, c
      <3>4. QED BY <3>1, <3>2, <3>3, <2>3 DEF Oldest
    <2>5. WasTrue(q, a, c)
      BY <2>1, <2>4 DEF CacheTrue
    <2>6. lastTrue[q][a] \in Int /\ Oldest(a) \in Int
      <3>1. lastTrue[q] \in [Views -> -1 .. now] /\ now \in Int
        BY DEF TypeOK
      <3>2. lastTrue[q][a] \in -1 .. now
        BY <3>1, <2>3
      <3>3. QED BY <3>1, <3>2, WindowIsAnInteger
    <2>7. WasTrue(q, a, Oldest(a))
      <3> HIDE DEF a, c
      <3>1. QED BY <2>3, <2>4, <2>5, <2>6 DEF WasTrue
    <2>8. QED BY <2>2, <2>3, <2>7
  <1>3. QED BY <1>1, <1>2

-----------------------------------------------------------------------------
(* Type correctness.                                                        *)

\* The variables that no request touches, and those that only a request does.
LEMMA TypeInit == Init => TypeOK
  <1> SUFFICES ASSUME Init PROVE TypeOK
    OBVIOUS
  <1>1. Views \subseteq Answer
    <2>1. ASSUME NEW f \in Files PROVE f.stat \in Answer /\ f.lstat \in Answer
      BY FilesAssumption DEF File
    <2>2. QED BY <2>1 DEF Views
  <1>2. files \in [Paths -> Files] /\ changes \in 0 .. MaxChanges
    BY ConfigAssumption DEF Init, Trees
  <1>3. lastTrue \in [Paths -> [Views -> -1 .. now]]
    <2>1. now = 0 /\ -1 \in -1 .. now
      BY DEF Init
    <2>2. QED BY <2>1 DEF Init
  <1>4. cache \in [Paths -> Item \cup {NULL}]
    BY DEF Init
  <1>5. StatCacheDuration \in Int /\ FollowSymLinks \in BOOLEAN
    BY ConfigAssumption DEF Init
  <1>6. QED BY <1>2, <1>3, <1>4, <1>5 DEF Init, TypeOK

\* TypeOK without what a request says of itself.
RequestTypeOK ==
  /\ pc \in {"Loop", "CheckFilePath", "Open"}
  /\ uri \in Paths \cup {<<>>} /\ upath \in Paths \cup {<<>>}
  /\ pos \in Nat
  /\ fst \in Views \cup {NULL}
  /\ code \in {0, 200, 403, 404, 500} /\ rfilesize \in Nat

\* A response leaves a well-typed idle request, with one of the codes.
LEMMA RespondType ==
  ASSUME NEW c \in {0, 200, 403, 404, 500}, NEW s \in Nat, Respond(c, s)
  PROVE  RequestTypeOK' /\ pc' = "Loop"
  BY DEF Respond, RequestTypeOK

\* An errno is answered with one of the codes, by either switch.
LEMMA CodesAreCodes ==
  ASSUME NEW e
  PROVE  PathCode(e) \in {403, 404, 500} /\ OpenCode(e) \in {403, 404, 500}
  BY DEF PathCode, OpenCode

\* What Stat adds to the cache is an item of this pass.
LEMMA CachesItems ==
  ASSUME TypeOK, NEW q \in Paths, StatCaches(q), UNCHANGED TIME
  PROVE  (cache \in [Paths -> Item \cup {NULL}])'
  <1>1. NewItem(q) \in Item
    BY ViewsAreAnswers DEF NewItem, Item, TypeOK
  <1>2. cache' \in [Paths -> Item \cup {NULL}]
    BY <1>1 DEF StatCaches, TypeOK
  <1>3. QED BY <1>2 DEF Item, Views

\* What a step leaves alone keeps its type.
LEMMA Kept ==
  ASSUME TypeOK
  PROVE  /\ UNCHANGED <<TIME, cache>> => (cache \in [Paths -> Item \cup {NULL}])'
         /\ UNCHANGED requestVars => RequestTypeOK'
         /\ UNCHANGED <<now, diskVars>> =>
              (/\ files \in [Paths -> Files] /\ changes \in 0 .. MaxChanges
               /\ lastTrue \in [Paths -> [Views -> -1 .. now]])'
         /\ UNCHANGED configVars =>
              (FollowSymLinks \in BOOLEAN /\ StatCacheDuration \in Int)'
  <1>1. Views' = Views
    BY DEF Views
  <1>2. ASSUME UNCHANGED <<TIME, cache>>
        PROVE  (cache \in [Paths -> Item \cup {NULL}])'
    <2>1. Item' = Item
      BY <1>1, <1>2 DEF Item
    <2>2. QED BY <1>2, <2>1 DEF TypeOK
  <1>3. ASSUME UNCHANGED requestVars PROVE RequestTypeOK'
    BY <1>1, <1>3 DEF TypeOK, RequestTypeOK, requestVars
  <1>4. ASSUME UNCHANGED <<now, diskVars>>
        PROVE  (/\ files \in [Paths -> Files] /\ changes \in 0 .. MaxChanges
                /\ lastTrue \in [Paths -> [Views -> -1 .. now]])'
    BY <1>1, <1>4 DEF TypeOK, diskVars
  <1>5. ASSUME UNCHANGED configVars
        PROVE  (FollowSymLinks \in BOOLEAN /\ StatCacheDuration \in Int)'
    BY <1>5 DEF TypeOK, configVars
  <1>6. QED BY <1>2, <1>3, <1>4, <1>5

\* TypeOK, in parts.
LEMMA TypeParts ==
  ASSUME now' \in Nat, TIME' \in 0 .. now',
         (files \in [Paths -> Files] /\ changes \in 0 .. MaxChanges)',
         (lastTrue \in [Paths -> [Views -> -1 .. now]])',
         (FollowSymLinks \in BOOLEAN /\ StatCacheDuration \in Int)',
         (cache \in [Paths -> Item \cup {NULL}])',
         RequestTypeOK'
  PROVE  TypeOK'
  BY DEF TypeOK, RequestTypeOK

\* Every step keeps the types.
LEMMA TypeStep == TypeOK /\ WalkTrue /\ OpenTrue /\ CacheTrue /\ [Next]_vars => TypeOK'
  <1> SUFFICES ASSUME TypeOK, WalkTrue, OpenTrue, CacheTrue, [Next]_vars
               PROVE  TypeOK'
    OBVIOUS
  <1>0. RequestTypeOK
    BY DEF TypeOK, RequestTypeOK
  <1>1. CASE Change
    <2>1. files' \in [Paths -> Files] /\ changes' \in 0 .. MaxChanges
      BY <1>1, ConfigAssumption DEF Change, Trees, TypeOK
    <2>2. lastTrue' \in [Paths -> [Views' -> -1 .. now']]
      <3>1. ASSUME NEW p \in Paths
            PROVE  [lastTrue[p] EXCEPT ![View(p)] = now] \in [Views -> -1 .. now]
        <4>1. lastTrue[p] \in [Views -> -1 .. now] /\ now \in -1 .. now
          BY DEF TypeOK
        <4>2. QED BY <4>1
      <3>2. lastTrue' \in [Paths -> [Views -> -1 .. now]]
        BY <3>1, <1>1 DEF Change
      <3>3. Views' = Views /\ now' = now
        BY <1>1 DEF Change, Views
      <3>4. QED BY <3>2, <3>3
    <2>3. UNCHANGED <<now, TIME, configVars, cache, requestVars>>
      BY <1>1 DEF Change
    <2>4. now' \in Nat /\ TIME' \in 0 .. now'
      BY <2>3 DEF TypeOK
    <2>5. QED BY <2>1, <2>2, <2>3, <2>4, Kept, TypeParts
  <1>2. CASE Tick
    <2>1. lastTrue' \in [Paths -> [Views' -> -1 .. now']]
      <3>1. now \in Nat /\ now' = now + 1 /\ lastTrue' = lastTrue
        BY <1>2 DEF Tick, TypeOK, diskVars
      <3>2. -1 .. now \subseteq -1 .. now'
        BY <3>1
      <3>3. ASSUME NEW p \in Paths PROVE lastTrue[p] \in [Views -> -1 .. now']
        <4>1. lastTrue[p] \in [Views -> -1 .. now]
          BY DEF TypeOK
        <4>2. QED BY <3>2, <4>1
      <3>4. lastTrue' \in [Paths -> [Views -> -1 .. now']]
        BY <3>1, <3>3 DEF TypeOK
      <3>5. Views' = Views
        BY DEF Views
      <3>6. QED BY <3>4, <3>5
    <2>2. now' \in Nat /\ TIME' \in 0 .. now'
      BY <1>2 DEF Tick, TypeOK
    <2>3. files' \in [Paths -> Files] /\ changes' \in 0 .. MaxChanges
      BY <1>2 DEF Tick, TypeOK, diskVars
    <2>4. UNCHANGED <<TIME, configVars, cache, requestVars>>
      BY <1>2 DEF Tick
    <2>5. QED BY <2>1, <2>2, <2>3, <2>4, Kept, TypeParts
  <1>3. CASE NewPass
    <2>1. lastTrue' \in [Paths -> [Views -> -1 .. now]]
      <3>1. ASSUME NEW p \in Paths, NEW a \in Views
            PROVE  lastTrue[p][a] \in -1 .. now /\ -1 \in -1 .. now
        BY DEF TypeOK
      <3>2. QED BY <3>1, <1>3 DEF NewPass
    <2>2. cache' \in [Paths -> Item' \cup {NULL}]
      <3>1. 0 .. TIME \subseteq 0 .. TIME'
        BY <1>3 DEF NewPass, TypeOK
      <3>2. Views' = Views
        BY DEF Views
      <3>3. Item \subseteq Item'
        BY <3>1, <3>2 DEF Item
      <3>4. QED BY <1>3, <3>3 DEF NewPass, TypeOK
    <2>3. UNCHANGED <<now, files, changes, configVars, requestVars>> /\ TIME' = now
      BY <1>3 DEF NewPass
    <2>4. now' \in Nat /\ TIME' \in 0 .. now' /\ Views' = Views
      BY <2>3 DEF TypeOK, Views
    <2>5. files' \in [Paths -> Files] /\ changes' \in 0 .. MaxChanges
      BY <2>3 DEF TypeOK
    <2>6. QED BY <2>1, <2>2, <2>3, <2>4, <2>5, Kept, TypeParts
  <1>4. ASSUME NEW p \in Paths, ServeData(p) PROVE TypeOK'
    <2>1. UNCHANGED <<now, TIME, diskVars, configVars, cache>>
      BY <1>4 DEF ServeData
    <2>2. RequestTypeOK'
      BY <1>0, <1>4 DEF ServeData, RequestTypeOK, Views
    <2>3. now' \in Nat /\ TIME' \in 0 .. now'
      BY <2>1 DEF TypeOK
    <2>4. QED BY <2>1, <2>2, <2>3, Kept, TypeParts
  <1>5. CASE CheckFilePath
    <2> DEFINE q == SubSeq(uri, 1, pos)
               a == StatReads(q)
    <2>1. q \in Paths /\ pos \in Nat
      BY <1>5, PrefixesArePaths DEF CheckFilePath, WalkTrue, Prefix
    <2>2. a \in Views
      BY <2>1, StatIsRecent
    <2>3. cache' \in [Paths -> Item' \cup {NULL}]
      BY <1>5, <2>1, CachesItems DEF CheckFilePath
    <2>4. RequestTypeOK'
      <3>1. CASE \E e \in StatErrno(q) : Respond(PathCode(e), 0)
        BY <3>1, RespondType, CodesAreCodes
      <3>2. CASE Respond(PathCode("EACCES"), 0)
        BY <3>2, RespondType, CodesAreCodes
      <3>3. CASE /\ fst' = a /\ pos' = pos + 1
                 /\ UNCHANGED <<pc, uri, upath, code, rfilesize>>
        BY <3>3, <2>1, <2>2, <1>0 DEF RequestTypeOK, Views
      <3>4. CASE /\ fst' = a /\ upath' = q /\ pc' = "Open"
                 /\ UNCHANGED <<uri, pos, code, rfilesize>>
        BY <3>4, <2>1, <2>2, <1>0 DEF RequestTypeOK, Views
      <3>5. QED BY <1>5, <3>1, <3>2, <3>3, <3>4 DEF CheckFilePath
    <2>5. UNCHANGED <<now, TIME, diskVars, configVars>>
      BY <1>5 DEF CheckFilePath
    <2>6. now' \in Nat /\ TIME' \in 0 .. now'
      BY <2>5 DEF TypeOK
    <2>7. QED BY <2>3, <2>4, <2>5, <2>6, Kept, TypeParts
  <1>6. CASE Open
    <2>1. fst \in Answer /\ fst.size \in Nat
      BY <1>6, ViewsAreAnswers DEF Open, OpenTrue, Answer
    <2>2. RequestTypeOK'
      BY <1>6, <2>1, RespondType, CodesAreCodes DEF Open
    <2>3. UNCHANGED <<now, TIME, diskVars, configVars, cache>>
      BY <1>6 DEF Open
    <2>4. now' \in Nat /\ TIME' \in 0 .. now'
      BY <2>3 DEF TypeOK
    <2>5. QED BY <2>2, <2>3, <2>4, Kept, TypeParts
  <1>7. CASE UNCHANGED vars
    <2>1. UNCHANGED <<now, TIME, diskVars, configVars, cache, requestVars>>
      BY <1>7 DEF vars
    <2>2. now' \in Nat /\ TIME' \in 0 .. now'
      BY <2>1 DEF TypeOK
    <2>3. QED BY <2>1, <2>2, Kept, TypeParts
  <1>8. QED BY <1>1, <1>2, <1>3, <1>4, <1>5, <1>6, <1>7
            DEF Next, Environment, Server

-----------------------------------------------------------------------------
(* The inductive invariant.                                                 *)

\* What was so at some time since t, and not after TIME, still was when other
\* processes have changed the files.
LEMMA ChangeKeepsHistory ==
  ASSUME TypeOK, Change, NEW q \in Paths, NEW a \in Views, NEW t \in Int,
         t <= TIME, WasTrue(q, a, t)
  PROVE  (WasTrue(q, a, t))'
  <1>1. /\ lastTrue[q] \in [Views -> -1 .. now]
        /\ now \in Nat /\ TIME \in Int /\ TIME <= now
    BY DEF TypeOK
  <1>2. lastTrue'[q] = [lastTrue[q] EXCEPT ![View(q)] = now]
    BY DEF Change
  <1>3. lastTrue'[q][a] = IF a = View(q) THEN now ELSE lastTrue[q][a]
    BY <1>1, <1>2
  <1>4. lastTrue[q][a] \in -1 .. now
    BY <1>1
  <1>5. lastTrue'[q][a] >= t \/ View(q)' = a
    BY <1>1, <1>3, <1>4 DEF WasTrue
  <1>6. QED BY <1>5 DEF WasTrue

\* Recently looks at nothing but the files, the history and TIME.
LEMMA RecentlyKept ==
  ASSUME UNCHANGED <<files, lastTrue, TIME, configVars>>, NEW q, NEW S
  PROVE  Recently(q, S) => (Recently(q, S))'
  <1>1. View(q)' = View(q) /\ lastTrue' = lastTrue
    BY DEF View, configVars
  <1>2. ASSUME NEW a PROVE Oldest(a)' = Oldest(a)
    BY DEF Oldest, Window, CacheEnabled, configVars
  <1>3. ASSUME NEW a, WasTrue(q, a, Oldest(a))
        PROVE  (WasTrue(q, a, Oldest(a)))'
    BY <1>1, <1>2, <1>3 DEF WasTrue
  <1>4. QED BY <1>3 DEF Recently, Views

LEMMA RecentlyAfterChange ==
  ASSUME TypeOK, Change, NEW q \in Paths, NEW S, Recently(q, S)
  PROVE  (Recently(q, S))'
  <1>1. PICK a \in Views \cap S : WasTrue(q, a, Oldest(a))
    BY DEF Recently
  <1>2. Oldest(a) \in Int /\ Oldest(a) <= TIME
    BY WindowIsAnInteger
  <1>3. (WasTrue(q, a, Oldest(a)))'
    <2>1. Oldest(a)' = Oldest(a)
      BY DEF Change, Oldest, Window, CacheEnabled, configVars
    <2> DEFINE t == Oldest(a)
    <2>2. t \in Int /\ t <= TIME /\ WasTrue(q, a, t)
      BY <1>1, <1>2
    <2>3. View(q)' = a \/ lastTrue'[q][a] >= t
      <3> HIDE DEF t
      <3>1. QED BY <2>2, ChangeKeepsHistory DEF WasTrue
    <2>4. QED BY <2>1, <2>3 DEF WasTrue
  <1>4. QED BY <1>1, <1>3 DEF Recently, Views

\* What Stat answers is recent, of the kind it is of.
LEMMA StatIsRecently ==
  ASSUME TypeOK, CacheTrue, NEW q \in Paths, NEW S, StatReads(q) \in S
  PROVE  Recently(q, S)
  BY StatIsRecent DEF Recently

LEMMA CacheStep == IInv /\ [Next]_vars => CacheTrue'
  <1> SUFFICES ASSUME IInv, [Next]_vars, NEW q \in Paths, cache'[q] # NULL
               PROVE  \/ cache'[q].created < (TIME - Window)'
                      \/ (WasTrue(q, cache[q].answer, cache[q].created))'
    BY DEF CacheTrue
  <1> DEFINE a == cache[q].answer
             c == cache[q].created
  <1>0. TypeOK /\ CacheTrue
    BY DEF IInv
  <1>a. ASSUME cache'[q] = cache[q]
        PROVE  /\ a \in Views /\ c \in Int /\ c <= TIME /\ TIME \in Int
               /\ c < TIME - Window \/ WasTrue(q, a, c)
    BY <1>0, <1>a, EntriesAreItems DEF CacheTrue
  <1>1. CASE Change
    <2>1. UNCHANGED <<cache, TIME, configVars>>
      BY <1>1 DEF Change
    <2>2. CASE c < TIME - Window
      BY <2>1, <2>2 DEF Window, CacheEnabled, configVars
    <2>3. CASE WasTrue(q, a, c)
      <3>1. View(q)' = a \/ lastTrue'[q][a] >= c
        <4>1. a \in Views /\ c \in Int /\ c <= TIME
          BY <1>a, <2>1
        <4> HIDE DEF a, c
        <4>2. QED BY <4>1, <1>0, <1>1, <2>3, ChangeKeepsHistory DEF WasTrue
      <3>2. QED BY <2>1, <3>1 DEF WasTrue
    <2>4. QED BY <1>a, <2>1, <2>2, <2>3
  <1>2. ASSUME UNCHANGED <<cache, TIME, files, lastTrue, configVars>>
        PROVE  \/ cache'[q].created < (TIME - Window)'
               \/ (WasTrue(q, cache[q].answer, cache[q].created))'
    BY <1>2, <1>a DEF Window, CacheEnabled, configVars, WasTrue, View
  <1>3. CASE NewPass
    <2>1. UNCHANGED <<cache, files, configVars>> /\ TIME' = now
      BY <1>3 DEF NewPass
    <2>2. Window' = Window /\ View(q)' = View(q)
      BY <2>1 DEF Window, CacheEnabled, configVars, View
    <2>3. Window \in Nat /\ now \in Nat /\ TIME \in Int /\ TIME <= now
      BY <1>0, WindowIsAnInteger DEF TypeOK
    <2>4. a \in Views /\ c \in Int
      BY <1>a, <2>1
    <2>5. lastTrue[q][a] \in Int
      <3>1. lastTrue[q] \in [Views -> -1 .. now]
        BY <1>0 DEF TypeOK
      <3>2. lastTrue[q][a] \in -1 .. now
        BY <3>1, <2>4
      <3>3. QED BY <3>2, <2>3
    <2>6. \/ lastTrue[q][a] < now - Window
          \/ lastTrue'[q][a] = lastTrue[q][a]
      BY <1>3, <2>4 DEF NewPass
    <2>7. c < now - Window \/ View(q) = a \/ lastTrue'[q][a] >= c
      <3>1. c < TIME - Window \/ View(q) = a \/ lastTrue[q][a] >= c
        BY <1>a, <2>1 DEF WasTrue
      <3> HIDE DEF a, c
      <3>2. QED BY <3>1, <2>3, <2>4, <2>5, <2>6
    <2>8. QED BY <2>1, <2>2, <2>7 DEF WasTrue
  <1>4. CASE CheckFilePath
    <2> DEFINE p == SubSeq(uri, 1, pos)
    <2>1. UNCHANGED <<TIME, files, lastTrue, configVars>> /\ StatCaches(p)
      BY <1>4 DEF CheckFilePath, diskVars
    <2>2. CASE cache' = cache
      BY <1>2, <2>1, <2>2
    <2>3. CASE cache' = [cache EXCEPT ![p] = NewItem(p)]
      <3>1. CASE q = p
        <4>1. cache'[q] = [created |-> TIME, answer |-> View(q)]
          BY <2>3, <3>1, <1>0 DEF TypeOK, NewItem
        <4>2. View(q)' = View(q)
          BY <2>1 DEF View, configVars
        <4>3. QED BY <4>1, <4>2 DEF WasTrue
      <3>2. CASE q # p
        <4>1. cache'[q] = cache[q]
          BY <2>3, <3>2, <1>0 DEF TypeOK
        <4>2. QED BY <4>1, <1>a, <2>1 DEF Window, CacheEnabled, configVars, WasTrue, View
      <3>3. QED BY <3>1, <3>2
    <2>4. QED BY <2>1, <2>2, <2>3 DEF StatCaches
  <1>5. CASE Tick
    BY <1>2, <1>5 DEF Tick, diskVars
  <1>6. ASSUME NEW p \in Paths, ServeData(p)
        PROVE  UNCHANGED <<cache, TIME, files, lastTrue, configVars>>
    BY <1>6 DEF ServeData, diskVars
  <1>7. CASE Open
    BY <1>2, <1>7 DEF Open, diskVars
  <1>8. CASE UNCHANGED vars
    BY <1>2, <1>8 DEF vars, diskVars
  <1>9. QED BY <1>1, <1>2, <1>3, <1>4, <1>5, <1>6, <1>7, <1>8
            DEF Next, Environment, Server

\* The kinds that CheckFilePath looks for.
RegularOfSize(n) == {a \in Views : Is(a, "reg") /\ a.size = n}

\* Going on by one component keeps what was found.
LEMMA WalkStep == IInv /\ [Next]_vars => WalkTrue'
  <1> SUFFICES ASSUME IInv, [Next]_vars, pc' \in {"CheckFilePath", "Open"}
               PROVE  /\ uri' \in Paths /\ pos' \in 1 .. Len(uri')
                      /\ \A i \in 1 .. pos' - 1 : (Recently(Prefix(i), Directories))'
    BY DEF WalkTrue
  <1>0. TypeOK /\ CacheTrue /\ WalkTrue
    BY DEF IInv
  <1> DEFINE Found == \A i \in 1 .. pos - 1 : Recently(Prefix(i), Directories)
  <1>a. pc \in {"CheckFilePath", "Open"} =>
          uri \in Paths /\ pos \in 1 .. Len(uri) /\ Found /\ Len(uri) \in Nat
    BY <1>0, PathsAssumption DEF WalkTrue
  <1>b. ASSUME UNCHANGED uri, NEW i
        PROVE  Prefix(i)' = Prefix(i) /\ Directories' = Directories
    BY <1>b DEF Prefix, Directories, Views
  <1>1. CASE Change
    <2>1. UNCHANGED <<pc, uri, pos>>
      BY <1>1 DEF Change, requestVars
    <2>2. uri \in Paths /\ pos \in 1 .. Len(uri) /\ Found /\ Len(uri) \in Nat
      BY <1>a, <2>1
    <2>3. ASSUME NEW i \in 1 .. pos - 1
          PROVE  (Recently(Prefix(i), Directories))'
      <3>1. i \in 1 .. Len(uri) /\ Recently(Prefix(i), Directories)
        BY <2>2
      <3>2. PICK q \in Paths : q = Prefix(i)
        BY <3>1, <2>2, PrefixesArePaths
      <3>3. (Recently(q, Directories))'
        BY <1>0, <1>1, <3>1, <3>2, RecentlyAfterChange DEF Directories, Views
      <3>4. QED BY <3>2, <3>3, <2>1, <1>b DEF Recently, WasTrue, View
    <2>4. QED BY <2>1, <2>2, <2>3
  <1>2. ASSUME UNCHANGED <<files, lastTrue, TIME, configVars, uri>>,
               NEW i, Recently(Prefix(i), Directories)
        PROVE  (Recently(Prefix(i), Directories))'
    <2>1. PICK q : q = Prefix(i)
      OBVIOUS
    <2>2. (Recently(q, Directories))'
      BY <1>2, <2>1, RecentlyKept DEF Directories, Views
    <2>3. QED BY <2>1, <2>2, <1>2, <1>b DEF Recently, WasTrue, View
  <1>3. ASSUME UNCHANGED <<files, lastTrue, TIME, configVars, requestVars>>
        PROVE  /\ uri' \in Paths /\ pos' \in 1 .. Len(uri')
               /\ \A i \in 1 .. pos' - 1 : (Recently(Prefix(i), Directories))'
    BY <1>2, <1>3, <1>a DEF requestVars
  <1>4. CASE CheckFilePath
    <2> DEFINE q == SubSeq(uri, 1, pos)
               a == StatReads(q)
    <2>1. UNCHANGED <<files, lastTrue, TIME, configVars>>
      BY <1>4 DEF CheckFilePath, diskVars
    <2>2. uri \in Paths /\ pos \in 1 .. Len(uri) /\ Found /\ Len(uri) \in Nat
      BY <1>a, <1>4 DEF CheckFilePath
    <2>3. q \in Paths /\ q = Prefix(pos)
      BY <2>2, PrefixesArePaths DEF Prefix
    <2>4. CASE /\ a.error = "none" /\ GoesOn(a)
               /\ pos' = pos + 1 /\ UNCHANGED uri
      <3>1. pos' \in 1 .. Len(uri')
        BY <2>2, <2>4 DEF GoesOn
      <3>2. Recently(Prefix(pos), Directories)
        <4>1. a \in Directories
          BY <1>0, <2>3, <2>4, StatIsRecent DEF Directories, Is, GoesOn
        <4>2. QED BY <1>0, <2>3, <4>1, StatIsRecently
      <3>3. ASSUME NEW i \in 1 .. pos' - 1 PROVE Recently(Prefix(i), Directories)
        BY <2>2, <2>4, <3>2
      <3>4. QED BY <2>1, <2>2, <2>4, <3>1, <3>3, <1>2
    <2>5. CASE UNCHANGED <<uri, pos>>
      BY <2>1, <2>2, <2>5, <1>2
    <2>6. QED BY <1>4, <2>4, <2>5 DEF CheckFilePath, Respond
  <1>5. ASSUME NEW p \in Paths, ServeData(p)
        PROVE  /\ uri' \in Paths /\ pos' \in 1 .. Len(uri')
               /\ \A i \in 1 .. pos' - 1 : (Recently(Prefix(i), Directories))'
    <2>1. uri' = p /\ pos' = 1 /\ Len(p) \in Nat \ {0}
      BY <1>5, PathsAssumption DEF ServeData
    <2>2. 1 .. pos' - 1 = {}
      BY <2>1
    <2>3. QED BY <2>1, <2>2
  <1>6. CASE Tick
    BY <1>3, <1>6 DEF Tick, diskVars
  <1>7. CASE NewPass
    BY <1>7 DEF NewPass, requestVars
  <1>8. CASE Open
    BY <1>8 DEF Open, Respond
  <1>9. CASE UNCHANGED vars
    BY <1>3, <1>9 DEF vars, diskVars
  <1>10. QED BY <1>1, <1>4, <1>5, <1>6, <1>7, <1>8, <1>9
             DEF Next, Environment, Server

\* What is to be opened stays what it was found to be.
LEMMA OpenStep == IInv /\ [Next]_vars => OpenTrue'
  <1> SUFFICES ASSUME IInv, [Next]_vars, pc' = "Open"
               PROVE  /\ upath' = Prefix(pos)' /\ fst' \in Views'
                      /\ (Recently(upath, RegularOfSize(fst.size)))'
    BY DEF OpenTrue, RegularOfSize
  <1>0. TypeOK /\ CacheTrue /\ WalkTrue /\ OpenTrue
    BY DEF IInv
  <1>1. ASSUME UNCHANGED requestVars,
               \/ Change
               \/ UNCHANGED <<files, lastTrue, TIME, configVars>>
        PROVE  /\ upath' = Prefix(pos)' /\ fst' \in Views'
               /\ (Recently(upath, RegularOfSize(fst.size)))'
    <2>1. pc = "Open"
      BY <1>1 DEF requestVars
    <2>2. upath = Prefix(pos) /\ fst \in Views
      BY <1>0, <2>1 DEF OpenTrue
    <2>3. uri \in Paths /\ pos \in 1 .. Len(uri)
      BY <1>0, <2>1 DEF WalkTrue
    <2>4. PICK q \in Paths : q = upath
      BY <2>2, <2>3, PrefixesArePaths
    <2>5. PICK n : n = fst.size
      OBVIOUS
    <2>6. Recently(q, RegularOfSize(n))
      BY <1>0, <2>1, <2>4, <2>5 DEF OpenTrue, RegularOfSize
    <2>7. (Recently(q, RegularOfSize(n)))'
      <3>1. PICK S : S = RegularOfSize(n)
        OBVIOUS
      <3>2. Recently(q, S)
        BY <2>6, <3>1
      <3>3. (Recently(q, S))'
        BY <1>0, <1>1, <3>2, RecentlyKept, RecentlyAfterChange
      <3>4. QED BY <3>1, <3>3 DEF RegularOfSize, Views
    <2>8. upath' = q /\ fst'.size = n /\ fst' = fst /\ Prefix(pos)' = Prefix(pos)
      BY <1>1, <2>4, <2>5 DEF requestVars, Prefix
    <2>9. QED BY <2>2, <2>4, <2>7, <2>8
              DEF Recently, RegularOfSize, WasTrue, View, Views
  <1>2. CASE CheckFilePath
    <2> DEFINE q == SubSeq(uri, 1, pos)
               a == StatReads(q)
    <2>1. UNCHANGED <<files, lastTrue, TIME, configVars>>
      BY <1>2 DEF CheckFilePath, diskVars
    <2>2. q \in Paths /\ q = Prefix(pos)
      BY <1>0, <1>2, PrefixesArePaths DEF CheckFilePath, WalkTrue, Prefix
    <2>3. /\ a.error = "none" /\ a.kind = "reg"
          /\ fst' = a /\ upath' = q /\ UNCHANGED <<uri, pos>>
      BY <1>2 DEF CheckFilePath, Respond
    <2>4. a \in Views
      BY <1>0, <2>2, StatIsRecent
    <2>5. PICK n : n = a.size
      OBVIOUS
    <2>6. PICK S : S = RegularOfSize(n)
      OBVIOUS
    <2>7. a \in S
      BY <2>3, <2>4, <2>5, <2>6 DEF RegularOfSize, Is
    <2>8. PICK p \in Paths : p = q
      BY <2>2
    <2>9. Recently(p, S)
      BY <1>0, <2>2, <2>7, <2>8, StatIsRecently
    <2>10. (Recently(p, S))'
      BY <2>1, <2>9, RecentlyKept
    <2>11. upath' = p /\ fst'.size = n /\ Prefix(pos)' = Prefix(pos)
      BY <2>3, <2>5, <2>8 DEF Prefix
    <2>12. fst' \in Views' /\ upath' = Prefix(pos)'
      BY <2>2, <2>3, <2>4, <2>11 DEF Views
    <2>13. QED BY <2>6, <2>10, <2>11, <2>12
               DEF Recently, RegularOfSize, WasTrue, View, Views
  <1>3. CASE Change
    BY <1>1, <1>3 DEF Change
  <1>4. CASE Tick
    BY <1>1, <1>4 DEF Tick, diskVars
  <1>5. CASE NewPass
    BY <1>5 DEF NewPass, requestVars
  <1>6. ASSUME NEW p \in Paths, ServeData(p) PROVE FALSE
    BY <1>6 DEF ServeData
  <1>7. CASE Open
    BY <1>7 DEF Open, Respond
  <1>8. CASE UNCHANGED vars
    BY <1>1, <1>8 DEF vars, diskVars
  <1>9. QED BY <1>2, <1>3, <1>4, <1>5, <1>6, <1>7, <1>8
            DEF Next, Environment, Server

\* Whatever the paths, the files, the configuration and the bounds, every
\* reachable state satisfies the inductive invariant.
THEOREM Invariant == Spec => []IInv
  <1>1. Init => IInv
    <2> SUFFICES ASSUME Init PROVE IInv
      OBVIOUS
    <2>1. TypeOK
      BY TypeInit
    <2>2. CacheTrue /\ WalkTrue /\ OpenTrue
      BY DEF Init, CacheTrue, WalkTrue, OpenTrue
    <2>3. QED BY <2>1, <2>2 DEF IInv
  <1>2. IInv /\ [Next]_vars => IInv'
    BY TypeStep, CacheStep, WalkStep, OpenStep DEF IInv
  <1>3. QED BY <1>1, <1>2, PTL DEF Spec

\* Every variable keeps its type, and no entry of the cache is ahead of TIME,
\* nor TIME of the clock.
THEOREM TypeCorrect == Spec => []TypeOK
  <1>1. IInv => TypeOK
    BY DEF IInv
  <1>2. QED BY <1>1, Invariant, PTL

-----------------------------------------------------------------------------
(* The action properties.                                                   *)

\* The answer of CheckFilePath to a path it fails at was true recently.
LEMMA PathRefusal ==
  ASSUME IInv, CheckFilePath, Answers, DebugLogging = FALSE
  PROVE  /\ \A i \in 1 .. pos - 1 : Recently(Prefix(i), Directories)
         /\ Recently(Prefix(pos), {a \in Views : Refusal(a) = code' /\ ~Is(a, "reg")})
  <1> DEFINE q == SubSeq(uri, 1, pos)
             b == StatReads(q)
             S == {a \in Views : Refusal(a) = code' /\ ~Is(a, "reg")}
  <1>0. TypeOK /\ CacheTrue /\ WalkTrue
    BY DEF IInv
  <1>1. q \in Paths /\ q = Prefix(pos)
    BY <1>0, PrefixesArePaths DEF CheckFilePath, WalkTrue, Prefix
  <1>2. b \in Views /\ WasTrue(q, b, Oldest(b))
    BY <1>0, <1>1, StatIsRecent
  <1>3. code' = Refusal(b) /\ ~Is(b, "reg")
    <2>1. CASE b.error # "none"
      <3>1. StatErrno(q) = {b.error}
        BY DEF StatErrno
      <3>2. code' = PathCode(b.error)
        BY <2>1, <3>1 DEF CheckFilePath, Respond
      <3>3. QED BY <2>1, <3>2 DEF Refusal, Is
    <2>2. CASE b.error = "none"
      <3>1. b.kind # "reg" /\ code' = PathCode("EACCES")
        BY <2>2 DEF CheckFilePath, Answers, Respond
      <3>2. QED BY <2>2, <3>1 DEF Refusal, Is, PathCode
    <2>3. QED BY <2>1, <2>2
  <1>4. Recently(q, S)
    BY <1>2, <1>3 DEF Recently
  <1>5. QED BY <1>0, <1>1, <1>4 DEF CheckFilePath, WalkTrue

\* Answers come from two actions.
LEMMA WhoAnswers ==
  ASSUME Next, Answers
  PROVE  CheckFilePath \/ Open
  BY DEF Next, Environment, Server, Answers, Change, Tick, NewPass, ServeData,
         requestVars

\* A file is served only if it and the directories above it were there, of
\* that kind and size, within stat-cache-time (filesystem.cpp:24-142).
THEOREM ServedFilesWereThere == Spec => ServedWasThere
  <1>1. ASSUME IInv, Next, Answers, code' = 200
        PROVE  /\ upath = Prefix(pos)
               /\ \A i \in 1 .. pos - 1 : Recently(Prefix(i), Directories)
               /\ Recently(upath, {a \in Views : Is(a, "reg") /\ a.size = rfilesize'})
    <2>1. Open
      <3>1. ASSUME CheckFilePath PROVE code' # 200
        BY <1>1, <3>1, CodesAreCodes DEF CheckFilePath, Respond, Answers
      <3>2. QED BY <1>1, <3>1, WhoAnswers
    <2>2. rfilesize' = fst.size
      BY <1>1, <2>1, CodesAreCodes DEF Open, Respond
    <2>3. QED BY <1>1, <2>1, <2>2 DEF IInv, OpenTrue, WalkTrue, Open
  <1>2. IInv /\ [Next]_vars =>
          [(Answers /\ code' = 200) =>
             /\ upath = Prefix(pos)
             /\ \A i \in 1 .. pos - 1 : Recently(Prefix(i), Directories)
             /\ Recently(upath, {a \in Views : Is(a, "reg") /\ a.size = rfilesize'})]_vars
    BY <1>1
  <1>3. QED BY <1>2, Invariant, PTL DEF Spec, ServedWasThere

\* A request is refused only for what was the case recently, when the DEBUG
\* log is off (filesystem.cpp:81-142, request.cpp:316-366).
THEOREM RefusalsHaveReasons ==
  ASSUME DebugLogging = FALSE PROVE Spec => RefusedForAReason
  <1>1. ASSUME IInv, Next, Answers, code' # 200
        PROVE  \/ /\ upath \in Paths
                  /\ files[upath].open # "none" /\ code' = OpenCode(files[upath].open)
               \/ /\ \A i \in 1 .. pos - 1 : Recently(Prefix(i), Directories)
                  /\ Recently(Prefix(pos), {a \in Views : Refusal(a) = code'
                                                            /\ ~Is(a, "reg")})
    <2>1. CASE CheckFilePath
      BY <1>1, <2>1, PathRefusal
    <2>2. CASE Open
      <3>1. upath \in Paths
        BY <1>1, <2>2, PrefixesArePaths DEF IInv, OpenTrue, WalkTrue, Open
      <3>2. files[upath].open # "none" /\ code' = OpenCode(files[upath].open)
        BY <1>1, <2>2 DEF Open, Respond
      <3>3. QED BY <3>1, <3>2
    <2>3. QED BY <1>1, <2>1, <2>2, WhoAnswers
  <1>2. IInv /\ [Next]_vars =>
          [(Answers /\ code' # 200) =>
             \/ /\ upath \in Paths
                /\ files[upath].open # "none" /\ code' = OpenCode(files[upath].open)
             \/ /\ \A i \in 1 .. pos - 1 : Recently(Prefix(i), Directories)
                /\ Recently(Prefix(pos), {a \in Views : Refusal(a) = code'
                                                          /\ ~Is(a, "reg")})]_vars
    BY <1>1
  <1>3. QED BY <1>2, Invariant, PTL DEF Spec, RefusedForAReason
=============================================================================
