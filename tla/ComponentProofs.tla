-------------------------- MODULE ComponentProofs --------------------------
(***************************************************************************)
(* Proofs about the timers, the log, the modules, the start of the server  *)
(* and scripts' responses.                                                 *)
(*                                                                         *)
(* TimersInv and LoggerInv say what the lists are in the middle of a tick, *)
(* and of a flush.                                                         *)
(*                                                                         *)
(* NoDangling is not inductive, since Unload erases a module only from the *)
(* lists of the hooks that its library names: PointersInv says that these  *)
(* are the lists it is in, once in each.  ProviderOutlivesUsers needs that *)
(* the use counts are right, UsesInv: an interface is used by as many      *)
(* modules as need it and are there.  PriorityHonoured holds when Load is  *)
(* done; PlacesInv says what holds while it asks one module after another. *)
(* CleanExit needs to know whom each round of Cleanup settles: CleanInv.   *)
(*                                                                         *)
(* Confined needs that what Read finds is what the file says although      *)
(* reading a value strips its linefeeds as it goes (Remains), and that     *)
(* what the process is agrees with the steps it has behind it.             *)
(*                                                                         *)
(* ScriptAnswered needs that a request has its answer in the stream when   *)
(* the connection sends, and a CGIRequest or an error to come when it      *)
(* does not: ScriptInv.                                                    *)
(***************************************************************************)
EXTENDS Startup, TimerManager, FileLogger, ScriptResponse,
        FiniteSetTheorems, SequenceTheorems, TLAPS

\* A set of natural numbers has a least one: the sets of the numbers below its
\* members are finite, and one of them has none of the others in it.
LEMMA LeastExists ==
  ASSUME NEW S, S \subseteq Nat, S # {}
  PROVE  Least(S) \in S /\ \A y \in S : Least(S) <= y
<1> DEFINE Below(x) == 0 .. x - 1
           Segments == {Below(x) : x \in S}
<1>1. Segments \subseteq FiniteSubsetsOf(Nat) /\ Segments # {}
  <2> SUFFICES ASSUME NEW x \in S PROVE Below(x) \in FiniteSubsetsOf(Nat)
    OBVIOUS
  <2>1. x \in Nat /\ IsFiniteSet(Below(x))
    BY FS_Interval
  <2> QED BY <2>1 DEF FiniteSubsetsOf
<1> HIDE DEF Segments
<1>2. \E t \in Segments : \A u \in Segments :
        ~(<<u, t>> \in StrictSubsetOrdering(Nat))
  BY <1>1, FS_StrictSubsetOrderingWellFounded, WFMin
<1> USE DEF Segments
<1>3. PICK x \in S : \A u \in Segments :
        ~(<<u, Below(x)>> \in StrictSubsetOrdering(Nat))
  BY <1>2
<1>4. ASSUME NEW y \in S, ~(x <= y) PROVE FALSE
  <2>1. x \in Nat /\ y \in Nat /\ y < x
    BY <1>4
  <2>2. Below(y) \subseteq Below(x) /\ y \in Below(x) /\ y \notin Below(y)
    BY <2>1
  <2>3. <<Below(y), Below(x)>> \in StrictSubsetOrdering(Nat)
    BY <2>1, <2>2 DEF StrictSubsetOrdering
  <2> QED BY <1>3, <2>3
<1> QED BY <1>4 DEF Least

-----------------------------------------------------------------------------
(* Lists without what was erased.                                           *)

\* Once names each of the list's members at one place.
Once(s) == \A i, j \in 1 .. Len(s) : s[i] = s[j] => i = j

Without(s, x) == SubSeq(s, 1, x - 1) \o SubSeq(s, x + 1, Len(s))

\* What erase does to a list.
LEMMA Erased ==
  ASSUME NEW S, NEW s \in Seq(S), NEW x \in 1 .. Len(s)
  PROVE  /\ Without(s, x) \in Seq(S) /\ Len(Without(s, x)) = Len(s) - 1
         /\ Len(s) \in Nat
         /\ \A i \in 1 .. x - 1 : Without(s, x)[i] = s[i]
         /\ \A i \in x .. Len(s) - 1 : Without(s, x)[i] = s[i + 1]
<1> DEFINE a == SubSeq(s, 1, x - 1)
           b == SubSeq(s, x + 1, Len(s))
<1>1. Len(s) \in Nat /\ x \in Nat
  BY LenProperties
<1>2. \A i \in 1 .. Len(s) : s[i] \in S
  BY ElementOfSeq
<1>3. a \in Seq(S) /\ Len(a) = x - 1 /\ \A i \in 1 .. x - 1 : a[i] = s[i]
  <2>1. \A i \in 1 .. x - 1 : s[i] \in S
    BY <1>1, <1>2
  <2>2. 1 \in Int /\ x - 1 \in Int
    BY <1>1
  <2>3. /\ a \in Seq(S) /\ Len(a) = IF 1 <= x - 1 THEN (x - 1) - 1 + 1 ELSE 0
        /\ \A i \in 1 .. (x - 1) - 1 + 1 : a[i] = s[1 + i - 1]
    BY <2>1, <2>2, SubSeqProperties
  <2>4. (x - 1) - 1 + 1 = x - 1 /\ \A i \in 1 .. x - 1 : 1 + i - 1 = i
    BY <1>1
  <2> HIDE DEF a
  <2>5. Len(a) = x - 1
    BY <2>3, <1>1
  <2>6. ASSUME NEW i \in 1 .. x - 1 PROVE a[i] = s[i]
    BY <2>3, <2>4
  <2> QED BY <2>3, <2>5, <2>6
<1>4. b \in Seq(S) /\ Len(b) = Len(s) - x
        /\ \A i \in 1 .. Len(s) - x : b[i] = s[x + i]
  <2>1. \A i \in x + 1 .. Len(s) : s[i] \in S
    BY <1>1, <1>2
  <2>2. x + 1 \in Int /\ Len(s) \in Int
    BY <1>1
  <2>3. /\ b \in Seq(S)
        /\ Len(b) = IF x + 1 <= Len(s) THEN Len(s) - (x + 1) + 1 ELSE 0
        /\ \A i \in 1 .. Len(s) - (x + 1) + 1 : b[i] = s[(x + 1) + i - 1]
    BY <2>1, <2>2, SubSeqProperties
  <2> HIDE DEF b
  <2>4. Len(s) - (x + 1) + 1 = Len(s) - x
    BY <1>1
  <2>5. Len(b) = Len(s) - x
    BY <2>3, <1>1
  <2>6. ASSUME NEW i \in 1 .. Len(s) - x PROVE b[i] = s[x + i]
    <3>1. (x + 1) + i - 1 = x + i
      BY <1>1
    <3> QED BY <2>3, <2>4, <3>1
  <2> QED BY <2>3, <2>5, <2>6
<1>5. Without(s, x) = a \o b
  BY DEF Without
<1> HIDE DEF a, b
<1>6. /\ a \o b \in Seq(S) /\ Len(a \o b) = Len(a) + Len(b)
      /\ \A i \in 1 .. Len(a) + Len(b) :
           (a \o b)[i] = IF i <= Len(a) THEN a[i] ELSE b[i - Len(a)]
  BY <1>3, <1>4, ConcatProperties
<1>7. Len(a) + Len(b) = Len(s) - 1
  BY <1>1, <1>3, <1>4
<1>8. ASSUME NEW i \in 1 .. x - 1 PROVE Without(s, x)[i] = s[i]
  <2>1. i \in 1 .. Len(a) + Len(b) /\ i <= Len(a)
    BY <1>1, <1>3, <1>7
  <2> QED BY <1>3, <1>5, <1>6, <2>1
<1>9. ASSUME NEW i \in x .. Len(s) - 1 PROVE Without(s, x)[i] = s[i + 1]
  <2>1. i \in 1 .. Len(a) + Len(b) /\ ~(i <= Len(a))
    BY <1>1, <1>3, <1>7
  <2>2. i - Len(a) \in 1 .. Len(s) - x /\ x + (i - Len(a)) = i + 1
    BY <1>1, <1>3
  <2>3. (a \o b)[i] = b[i - Len(a)]
    BY <1>6, <2>1
  <2> QED BY <1>4, <1>5, <2>2, <2>3
<1> QED BY <1>1, <1>5, <1>6, <1>7, <1>8, <1>9

\* The members that are left, and their order; what is erased is gone from a
\* list that had it once.
LEMMA ErasedMembers ==
  ASSUME NEW S, NEW s \in Seq(S), NEW x \in 1 .. Len(s)
  PROVE  /\ Listed(s) \ {s[x]} \subseteq Listed(Without(s, x))
         /\ Listed(Without(s, x)) \subseteq Listed(s)
         /\ \A i, j \in 1 .. Len(Without(s, x)) : i < j =>
              \E k, l \in 1 .. Len(s) :
                /\ k < l /\ k # x /\ l # x
                /\ Without(s, x)[i] = s[k] /\ Without(s, x)[j] = s[l]
         /\ (\A i \in 1 .. Len(s) : s[i] = s[x] => i = x)
              => s[x] \notin Listed(Without(s, x))
<1> DEFINE t == Without(s, x)
<1>1. /\ Len(t) = Len(s) - 1 /\ Len(s) \in Nat /\ x \in Nat
      /\ \A i \in 1 .. x - 1 : t[i] = s[i]
      /\ \A i \in x .. Len(s) - 1 : t[i] = s[i + 1]
  <2> HIDE DEF t
  <2>1. Len(s) \in Nat /\ x \in Nat
    BY LenProperties
  <2>2. /\ Len(t) = Len(s) - 1
        /\ \A i \in 1 .. x - 1 : t[i] = s[i]
        /\ \A i \in x .. Len(s) - 1 : t[i] = s[i + 1]
    BY Erased DEF t
  <2> QED BY <2>1, <2>2
<1> HIDE DEF t
<1>2. ASSUME NEW i \in 1 .. Len(t)
      PROVE  \E k \in 1 .. Len(s) : t[i] = s[k] /\ k # x
               /\ k = IF i < x THEN i ELSE i + 1
  <2>1. CASE i < x
    <3>1. i \in 1 .. x - 1 /\ i \in 1 .. Len(s) /\ i # x
      BY <1>1, <2>1
    <3> QED BY <1>1, <2>1, <3>1
  <2>2. CASE ~(i < x)
    <3>1. i \in x .. Len(s) - 1 /\ i + 1 \in 1 .. Len(s) /\ i + 1 # x
      BY <1>1, <2>2
    <3> QED BY <1>1, <2>2, <3>1
  <2> QED BY <2>1, <2>2
<1>3. ASSUME NEW n \in Listed(s), n # s[x] PROVE n \in Listed(t)
  <2>1. PICK i \in 1 .. Len(s) : n = s[i]
    BY DEF Listed
  <2>2. CASE i < x
    <3>1. i \in 1 .. x - 1 /\ i \in 1 .. Len(t)
      BY <1>1, <2>2
    <3> QED BY <1>1, <2>1, <3>1 DEF Listed
  <2>3. CASE i > x
    <3>1. i - 1 \in x .. Len(s) - 1 /\ i - 1 \in 1 .. Len(t) /\ (i - 1) + 1 = i
      BY <1>1, <2>3
    <3>2. t[i - 1] = n
      BY <1>1, <2>1, <3>1
    <3> QED BY <3>1, <3>2 DEF Listed
  <2>4. i # x
    BY <1>3, <2>1
  <2> QED BY <1>1, <2>2, <2>3, <2>4
<1>4. Listed(t) \subseteq Listed(s)
  BY <1>2 DEF Listed
<1>5. ASSUME NEW i \in 1 .. Len(t), NEW j \in 1 .. Len(t), i < j
      PROVE  \E k, l \in 1 .. Len(s) :
               k < l /\ k # x /\ l # x /\ t[i] = s[k] /\ t[j] = s[l]
  <2>1. PICK k \in 1 .. Len(s) : t[i] = s[k] /\ k # x
               /\ k = IF i < x THEN i ELSE i + 1
    BY <1>2
  <2>2. PICK l \in 1 .. Len(s) : t[j] = s[l] /\ l # x
               /\ l = IF j < x THEN j ELSE j + 1
    BY <1>2
  <2>3. k < l
    BY <1>1, <1>5, <2>1, <2>2
  <2> QED BY <2>1, <2>2, <2>3
<1>6. ASSUME \A i \in 1 .. Len(s) : s[i] = s[x] => i = x, s[x] \in Listed(t)
      PROVE  FALSE
  <2>1. PICK i \in 1 .. Len(t) : t[i] = s[x]
    BY <1>6 DEF Listed
  <2> QED BY <1>2, <1>6, <2>1
<1> QED BY <1>3, <1>4, <1>5, <1>6 DEF t

\* As many members as places, exactly if each is there once.
LEMMA OnceCounts ==
  ASSUME NEW S, NEW s \in Seq(S)
  PROVE  /\ IsFiniteSet(Listed(s)) /\ Len(s) \in Nat
         /\ Once(s) <=> Cardinality(Listed(s)) = Len(s)
<1>1. Len(s) \in Nat /\ s \in [1 .. Len(s) -> S]
  BY LenProperties
<1>2. IsFiniteSet(1 .. Len(s)) /\ Cardinality(1 .. Len(s)) = Len(s)
  BY <1>1, FS_Interval
<1>3. s \in [1 .. Len(s) -> Listed(s)]
        /\ \A n \in Listed(s) : \E i \in 1 .. Len(s) : s[i] = n
  BY <1>1 DEF Listed
<1>4. s \in Surjection(1 .. Len(s), Listed(s))
  BY <1>3 DEF Surjection
<1>5. /\ IsFiniteSet(Listed(s))
      /\ Cardinality(Listed(s)) = Cardinality(1 .. Len(s))
           <=> s \in Injection(1 .. Len(s), Listed(s))
  BY <1>2, <1>4, FS_Surjection
<1>6. s \in Injection(1 .. Len(s), Listed(s)) <=> Once(s)
  BY <1>3 DEF Injection, Once, IsInjective
<1> QED BY <1>1, <1>2, <1>5, <1>6

-----------------------------------------------------------------------------
(* Timers.  TimersNotMissed needs to know that the list is sorted, so that   *)
(* the first timer answers for all, and that TIME is not behind the clock.   *)

TimersSpec == TimersInit /\ [][TimersNext]_timerVars

Timer == [trigger : Nat, secs : Nat, repeat : BOOLEAN]

TimersTypeOK ==
  /\ Timers \in Seq(TimerIds)
  /\ DOMAIN timer \subseteq TimerIds /\ timer \in [DOMAIN timer -> Timer]
  /\ ticking \in TimerIds \cup {NoTimer}
  /\ TIME \in Nat /\ clock = TIME /\ inTick \in BOOLEAN

Sorted(s, of) ==
  \A i, j \in 1 .. Len(s) : i < j => of[s[i]].trigger <= of[s[j]].trigger

TimersInv ==
  /\ TimersTypeOK
  /\ Once(Timers) /\ Sorted(Timers, timer)
  /\ DOMAIN timer = Listed(Timers) \cup ({ticking} \ {NoTimer})
  /\ ticking \notin Listed(Timers)
  /\ ticking # NoTimer => inTick
  /\ ~inTick => \A t \in DOMAIN timer : TIME <= timer[t].trigger

LEMMA TimersInitially == TimersInit => TimersInv
<1> SUFFICES ASSUME TimersInit PROVE TimersInv
  OBVIOUS
<1> USE DEF TimersInit
<1>1. DOMAIN timer = {} /\ timer \in [{} -> Timer]
  OBVIOUS
<1>2. TimersTypeOK
  BY <1>1, EmptySeq DEF TimersTypeOK
<1>3. Len(Timers) = 0 /\ Listed(Timers) = {}
  BY DEF Listed
<1> QED BY <1>1, <1>2, <1>3 DEF TimersInv, Once, Sorted

\* A timer that is in no list yet, put into its place.
LEMMA SortedIn ==
  ASSUME NEW list \in Seq(TimerIds), Once(list),
         NEW t \in TimerIds, t \notin Listed(list),
         NEW of, DOMAIN of \subseteq TimerIds,
         NEW s \in AddTimer(list, of, t)
  PROVE  /\ s \in Seq(TimerIds) /\ Once(s) /\ Sorted(s, of)
         /\ Listed(s) = Listed(list) \cup {t}
<1>1. /\ IsFiniteSet(Listed(list)) /\ Len(list) \in Nat
      /\ Cardinality(Listed(list)) = Len(list)
      /\ DOMAIN list = 1 .. Len(list)
  BY OnceCounts, LenProperties
<1>2. s \in [1 .. Len(list) + 1 -> TimerIds] /\ Len(list) + 1 \in Nat
        /\ DOMAIN s = 1 .. Len(list) + 1
  BY <1>1 DEF AddTimer
<1>3. s \in Seq(TimerIds) /\ Len(s) = Len(list) + 1
  BY <1>2
<1>4. Listed(s) = Listed(list) \cup {t}
  BY <1>1, <1>2, <1>3 DEF AddTimer, Listed
<1>5. Sorted(s, of)
  BY <1>2, <1>3 DEF AddTimer, Sorted
<1>6. Cardinality(Listed(s)) = Len(list) + 1
  BY <1>1, <1>4, FS_AddElement
<1>7. Once(s)
  BY <1>3, <1>6, OnceCounts
<1> QED BY <1>3, <1>4, <1>5, <1>7

LEMMA TimersNewTimer ==
  ASSUME TimersInv, NEW t \in TimerIds, NEW secs \in Intervals, NEW again \in BOOLEAN,
         NewTimer(t, secs, again)
  PROVE  TimersInv'
<1>1. t \notin Listed(Timers) /\ t # ticking /\ t # NoTimer
  BY TimerInput DEF TimersInv, NewTimer
<1>2. /\ DOMAIN timer' = DOMAIN timer \cup {t}
      /\ timer' \in [DOMAIN timer' -> Timer]
      /\ timer'[t].trigger >= TIME
      /\ \A u \in DOMAIN timer : timer'[u] = timer[u]
  BY TimerInput DEF TimersInv, TimersTypeOK, Timer, NewTimer
<1>3. DOMAIN timer' \subseteq TimerIds
  BY <1>2 DEF TimersInv, TimersTypeOK
<1>4. /\ Timers' \in Seq(TimerIds) /\ Once(Timers') /\ Sorted(Timers', timer')
      /\ Listed(Timers') = Listed(Timers) \cup {t}
  <2>1. Timers' \in AddTimer(Timers, timer', t)
    BY DEF NewTimer
  <2> QED BY <1>1, <1>3, <2>1, SortedIn DEF TimersInv, TimersTypeOK
<1>5. UNCHANGED <<ticking, TIME, inTick, clock>>
  BY DEF NewTimer
<1>6. TimersTypeOK'
  BY <1>2, <1>3, <1>4, <1>5 DEF TimersInv, TimersTypeOK
<1> QED BY <1>1, <1>2, <1>4, <1>5, <1>6 DEF TimersInv

LEMMA TimersDelTimer ==
  ASSUME TimersInv, NEW t \in TimerIds, DelTimer(t)
  PROVE  TimersInv'
<1>1. Timers \in Seq(TimerIds) /\ DOMAIN Timers = 1 .. Len(Timers)
  BY LenProperties DEF TimersInv, TimersTypeOK
<1>2. PICK x \in 1 .. Len(Timers) :
        Timers[x] = t /\ Timers' = Without(Timers, x)
  BY <1>1 DEF DelTimer, Without
<1>3. /\ Listed(Timers) \ {t} \subseteq Listed(Timers')
      /\ Listed(Timers') \subseteq Listed(Timers)
      /\ \A i, j \in 1 .. Len(Timers') : i < j =>
           \E k, l \in 1 .. Len(Timers) :
             /\ k < l /\ k # x /\ l # x
             /\ Timers'[i] = Timers[k] /\ Timers'[j] = Timers[l]
      /\ t \notin Listed(Timers')
  <2>1. \A i \in 1 .. Len(Timers) : Timers[i] = Timers[x] => i = x
    BY DEF TimersInv, Once
  <2>2. /\ Listed(Timers) \ {Timers[x]} \subseteq Listed(Without(Timers, x))
        /\ Listed(Without(Timers, x)) \subseteq Listed(Timers)
        /\ Timers[x] \notin Listed(Without(Timers, x))
    BY <1>1, <2>1, ErasedMembers
  <2>3. \A i, j \in 1 .. Len(Without(Timers, x)) : i < j =>
           \E k, l \in 1 .. Len(Timers) :
             /\ k < l /\ k # x /\ l # x
             /\ Without(Timers, x)[i] = Timers[k] /\ Without(Timers, x)[j] = Timers[l]
    BY <1>1, ErasedMembers
  <2> QED BY <1>2, <2>2, <2>3
<1>4. Timers' \in Seq(TimerIds) /\ Len(Timers') \in Nat
  BY <1>1, <1>2, Erased
<1>5. /\ timer' = [u \in DOMAIN timer \ {t} |-> timer[u]]
      /\ UNCHANGED <<ticking, TIME, inTick, clock>>
  BY DEF DelTimer
<1>6. t \in Listed(Timers) /\ t # ticking
  BY <1>2 DEF Listed, TimersInv
<1>7. TimersTypeOK'
  BY <1>4, <1>5 DEF TimersInv, TimersTypeOK
<1>8. Once(Timers')
  <2> SUFFICES ASSUME NEW i \in 1 .. Len(Timers'), NEW j \in 1 .. Len(Timers'), i < j
               PROVE  Timers'[i] # Timers'[j]
    BY <1>4 DEF Once
  <2>1. PICK k \in 1 .. Len(Timers) : \E l \in 1 .. Len(Timers) :
             k < l /\ Timers'[i] = Timers[k] /\ Timers'[j] = Timers[l]
    BY <1>3
  <2>2. PICK l \in 1 .. Len(Timers) :
             k < l /\ Timers'[i] = Timers[k] /\ Timers'[j] = Timers[l]
    BY <2>1
  <2>3. k # l
    BY <2>2
  <2> QED BY <2>2, <2>3 DEF TimersInv, Once
<1>9. Sorted(Timers', timer')
  <2> SUFFICES ASSUME NEW i \in 1 .. Len(Timers'), NEW j \in 1 .. Len(Timers'), i < j
               PROVE  timer'[Timers'[i]].trigger <= timer'[Timers'[j]].trigger
    BY DEF Sorted
  <2>1. PICK k \in 1 .. Len(Timers) : \E l \in 1 .. Len(Timers) :
             k < l /\ Timers'[i] = Timers[k] /\ Timers'[j] = Timers[l]
    BY <1>3
  <2>2. PICK l \in 1 .. Len(Timers) :
             k < l /\ Timers'[i] = Timers[k] /\ Timers'[j] = Timers[l]
    BY <2>1
  <2>3. Timers'[i] \in DOMAIN timer' /\ Timers'[j] \in DOMAIN timer'
    BY <1>3, <1>5 DEF Listed, TimersInv
  <2> QED BY <1>5, <2>2, <2>3 DEF TimersInv, Sorted
<1>10. DOMAIN timer' = Listed(Timers') \cup ({ticking'} \ {NoTimer})
  BY <1>3, <1>5, <1>6 DEF TimersInv
<1> QED BY <1>3, <1>5, <1>7, <1>8, <1>9, <1>10 DEF TimersInv

LEMMA TimersCancelRepeat ==
  ASSUME TimersInv, NEW t \in TimerIds, CancelRepeat(t)
  PROVE  TimersInv'
<1>1. /\ DOMAIN timer' = DOMAIN timer /\ timer' \in [DOMAIN timer' -> Timer]
      /\ \A u \in DOMAIN timer : timer'[u].trigger = timer[u].trigger
  BY DEF TimersInv, TimersTypeOK, Timer, CancelRepeat
<1>2. UNCHANGED <<Timers, ticking, TIME, inTick, clock>>
  BY DEF CancelRepeat
<1>3. \A i \in 1 .. Len(Timers) : Timers[i] \in DOMAIN timer
  BY DEF Listed, TimersInv
<1> QED BY <1>1, <1>2, <1>3 DEF TimersInv, TimersTypeOK, Sorted

LEMMA TimersTickTimers == TimersInv /\ TickTimers => TimersInv'
<1> SUFFICES ASSUME TimersInv, TickTimers PROVE TimersInv'
  OBVIOUS
<1>1. clock' \in Nat /\ TIME' = clock' /\ inTick' = TRUE
        /\ UNCHANGED <<Timers, timer, ticking>>
  BY DEF TickTimers, TimersInv, TimersTypeOK
<1> QED BY <1>1 DEF TimersInv, TimersTypeOK

\* A timer is taken from the list; it is still there.
LEMMA TimersTick == TimersInv /\ Tick => TimersInv'
<1> SUFFICES ASSUME TimersInv, Tick PROVE TimersInv'
  OBVIOUS
<1>1. Timers \in Seq(TimerIds) /\ Timers # <<>>
  BY DEF TimersInv, TimersTypeOK, Tick, Overdue
<1>2. /\ Timers' \in Seq(TimerIds) /\ Len(Timers') = Len(Timers) - 1
      /\ Len(Timers) \in Nat \ {0}
      /\ \A i \in 1 .. Len(Timers') : Timers'[i] = Timers[i + 1]
      /\ ticking' = Timers[1]
  BY <1>1, HeadTailProperties, EmptySeq DEF Tick
<1>3. Listed(Timers) = Listed(Timers') \cup {ticking'}
  <2>1. ASSUME NEW n \in Listed(Timers), n # ticking' PROVE n \in Listed(Timers')
    <3>1. PICK i \in 1 .. Len(Timers) : n = Timers[i]
      BY DEF Listed
    <3>2. i - 1 \in 1 .. Len(Timers') /\ (i - 1) + 1 = i
      BY <1>2, <2>1, <3>1
    <3> QED BY <1>2, <3>1, <3>2 DEF Listed
  <2>2. ASSUME NEW i \in 1 .. Len(Timers') PROVE Timers'[i] \in Listed(Timers)
    <3>1. i + 1 \in 1 .. Len(Timers)
      BY <1>2
    <3> QED BY <1>2, <3>1 DEF Listed
  <2>3. ticking' \in Listed(Timers)
    BY <1>2 DEF Listed
  <2> QED BY <2>1, <2>2, <2>3 DEF Listed
<1>4. ticking' \notin Listed(Timers')
  <2> SUFFICES ASSUME NEW i \in 1 .. Len(Timers'), Timers'[i] = ticking' PROVE FALSE
    BY DEF Listed
  <2>1. i + 1 \in 1 .. Len(Timers) /\ 1 \in 1 .. Len(Timers) /\ i + 1 # 1
    BY <1>2
  <2>2. Timers[i + 1] = Timers[1]
    BY <1>2
  <2> QED BY <2>1, <2>2 DEF TimersInv, Once
<1>5. ASSUME NEW i \in 1 .. Len(Timers'), NEW j \in 1 .. Len(Timers')
      PROVE  /\ i + 1 \in 1 .. Len(Timers) /\ j + 1 \in 1 .. Len(Timers)
             /\ Timers'[i] = Timers[i + 1] /\ Timers'[j] = Timers[j + 1]
             /\ i < j => i + 1 < j + 1
             /\ i + 1 = j + 1 => i = j
  BY <1>2
<1>6. Once(Timers') /\ Sorted(Timers', timer)
  BY <1>5 DEF TimersInv, Once, Sorted
<1>7. UNCHANGED <<timer, TIME, inTick, clock>> /\ inTick /\ ticking = NoTimer
  BY DEF Tick
<1>8. ticking' \in TimerIds /\ ticking' # NoTimer
  BY <1>1, <1>2, TimerInput, ElementOfSeq
<1>9. DOMAIN timer' = Listed(Timers') \cup ({ticking'} \ {NoTimer})
  BY <1>3, <1>7, <1>8 DEF TimersInv
<1>10. TimersTypeOK'
  BY <1>2, <1>7, <1>8 DEF TimersInv, TimersTypeOK
<1> QED BY <1>4, <1>6, <1>7, <1>9, <1>10 DEF TimersInv

\* The timer that ticked is put back, for its next time, or deleted.
LEMMA TimersAfterTick == TimersInv /\ AfterTick => TimersInv'
<1> SUFFICES ASSUME TimersInv, AfterTick PROVE TimersInv'
  OBVIOUS
<1>1. /\ ticking \in TimerIds /\ ticking \notin Listed(Timers)
      /\ ticking \in DOMAIN timer /\ inTick
  BY DEF AfterTick, TimersInv, TimersTypeOK
<1>2. ticking' = NoTimer /\ UNCHANGED <<TIME, inTick, clock>>
  BY DEF AfterTick
<1>3. Timers \in Seq(TimerIds) /\ \A i \in 1 .. Len(Timers) :
        Timers[i] \in DOMAIN timer /\ Timers[i] # ticking
  BY <1>1 DEF TimersInv, TimersTypeOK, Listed
<1>4. NoTimer \notin TimerIds
  BY TimerInput
<1>5. CASE timer[ticking].repeat
  <2>1. /\ DOMAIN timer' = DOMAIN timer /\ timer' \in [DOMAIN timer' -> Timer]
        /\ Timers' \in AddTimer(Timers, timer', ticking)
    <3>1. /\ timer' = [timer EXCEPT ![ticking].trigger = TIME + timer[ticking].secs]
          /\ Timers' \in AddTimer(Timers, timer', ticking)
      BY <1>5 DEF AfterTick
    <3>2. TIME + timer[ticking].secs \in Nat
      BY <1>1 DEF TimersInv, TimersTypeOK, Timer
    <3> QED BY <1>1, <3>1, <3>2 DEF TimersInv, TimersTypeOK, Timer
  <2>2. DOMAIN timer' \subseteq TimerIds
    BY <2>1 DEF TimersInv, TimersTypeOK
  <2>3. /\ Timers' \in Seq(TimerIds) /\ Once(Timers') /\ Sorted(Timers', timer')
        /\ Listed(Timers') = Listed(Timers) \cup {ticking}
    BY <1>1, <2>1, <2>2, SortedIn DEF TimersInv, TimersTypeOK
  <2>4. TimersTypeOK'
    BY <1>2, <2>1, <2>2, <2>3 DEF TimersInv, TimersTypeOK
  <2> QED BY <1>1, <1>2, <1>4, <2>1, <2>2, <2>3, <2>4 DEF TimersInv
<1>6. CASE ~timer[ticking].repeat
  <2>1. /\ timer' = [u \in DOMAIN timer \ {ticking} |-> timer[u]]
        /\ UNCHANGED Timers
    BY <1>6 DEF AfterTick
  <2>2. TimersTypeOK'
    BY <1>2, <2>1 DEF TimersInv, TimersTypeOK
  <2>3. Sorted(Timers', timer')
    BY <1>3, <2>1 DEF TimersInv, Sorted
  <2>4. DOMAIN timer' = Listed(Timers') \cup ({ticking'} \ {NoTimer})
    BY <1>1, <1>2, <1>4, <2>1 DEF TimersInv
  <2>5. ticking' \notin Listed(Timers')
    BY <1>2, <1>3, <1>4, <2>1, <2>2 DEF TimersTypeOK, Listed
  <2> QED BY <1>1, <1>2, <2>1, <2>2, <2>3, <2>4, <2>5 DEF TimersInv
<1> QED BY <1>5, <1>6

\* The first timer is not overdue: none is.
LEMMA TimersEndTicks == TimersInv /\ EndTicks => TimersInv'
<1> SUFFICES ASSUME TimersInv, EndTicks PROVE TimersInv'
  OBVIOUS
<1>1. /\ UNCHANGED <<Timers, timer, ticking, TIME, clock>> /\ inTick' = FALSE
      /\ ticking = NoTimer /\ ~Overdue
  BY DEF EndTicks
<1>2. Timers \in Seq(TimerIds) /\ Len(Timers) \in Nat
  BY LenProperties DEF TimersInv, TimersTypeOK
<1>3. ASSUME NEW t \in DOMAIN timer PROVE TIME <= timer[t].trigger
  <2>1. PICK i \in 1 .. Len(Timers) : t = Timers[i]
    BY <1>1, <1>3 DEF TimersInv, Listed
  <2>2. 1 \in 1 .. Len(Timers) /\ Timers # <<>> /\ Head(Timers) = Timers[1]
    BY <1>2, <2>1
  <2>3. Timers[1] \in DOMAIN timer
    BY <2>2 DEF TimersInv, Listed
  <2>4. TIME <= timer[Timers[1]].trigger
    BY <1>1, <2>2, <2>3 DEF Overdue, TimersInv, TimersTypeOK, Timer
  <2>5. timer[Timers[1]].trigger <= timer[t].trigger
    BY <1>3, <2>1, <2>2 DEF TimersInv, TimersTypeOK, Timer, Sorted
  <2> QED BY <1>3, <2>3, <2>4, <2>5 DEF TimersInv, TimersTypeOK, Timer
<1> QED BY <1>1, <1>3 DEF TimersInv, TimersTypeOK

LEMMA TimersStep == TimersInv /\ [TimersNext]_timerVars => TimersInv'
<1> SUFFICES ASSUME TimersInv, [TimersNext]_timerVars PROVE TimersInv'
  OBVIOUS
<1>1. ASSUME NEW t \in TimerIds,
             NEW secs \in Intervals, NEW again \in BOOLEAN, NewTimer(t, secs, again)
      PROVE  TimersInv'
  BY <1>1, TimersNewTimer
<1>2. ASSUME NEW t \in TimerIds, DelTimer(t) PROVE TimersInv'
  BY <1>2, TimersDelTimer
<1>3. ASSUME NEW t \in TimerIds, CancelRepeat(t) PROVE TimersInv'
  BY <1>3, TimersCancelRepeat
<1>4. CASE UNCHANGED timerVars
  BY <1>4 DEF timerVars, TimersInv, TimersTypeOK
<1> QED BY <1>1, <1>2, <1>3, <1>4, TimersTickTimers, TimersTick, TimersAfterTick,
        TimersEndTicks DEF TimersNext

\* Whatever the ticks add, delete and cancel, each timer that exists is in the
\* list once or is ticking, and none is overdue when TickTimers returns.
THEOREM NoTimerIsMissed == TimersSpec => []TimersNotMissed
<1>1. TimersInv => TimersNotMissed
  <2> SUFFICES ASSUME TimersInv PROVE TimersNotMissed
    OBVIOUS
  <2>1. Timers \in Seq(TimerIds) /\ DOMAIN Timers = 1 .. Len(Timers)
    BY LenProperties DEF TimersInv, TimersTypeOK
  <2>2. Listed(Timers) = {Timers[i] : i \in DOMAIN Timers}
    BY <2>1 DEF Listed
  <2>3. Len(Timers) = Cardinality(Listed(Timers))
    BY <2>1, OnceCounts DEF TimersInv
  <2> QED BY <2>2, <2>3 DEF TimersInv, TimersNotMissed
<1> QED BY <1>1, TimersInitially, TimersStep, PTL DEF TimersSpec

-----------------------------------------------------------------------------
(* The log.  What is in the text ends, for each line that does not wait, in  *)
(* turn; and the buffer holds the last lines, one by one.                    *)

LoggerSpec == LoggerInit /\ [][LoggerNext]_logfile

LastIn(text, k) ==
  {i \in 1 .. Len(text) : text[i] = k /\ \A j \in i + 1 .. Len(text) : text[j] # k}

\* The last copies of the lines up to n are there, in their order.
InTurn(text, n) ==
  \A k \in 1 .. n :
    /\ LastIn(text, k) # {}
    /\ \A m \in 1 .. k - 1 : \A i \in LastIn(text, m), j \in LastIn(text, k) : i < j

\* The lines after n, as many as there are in more.
FollowOn(more, n) == \A i \in 1 .. Len(more) : more[i] = n + i

LogType == [log : {"open", "closed", "failed"}, text : Seq(Nat), buffer : Seq(Nat),
            lines : Nat, registered : BOOLEAN]
LogKept(l) ==
  /\ l \in LogType
  /\ Len(l.buffer) <= l.lines
  /\ FollowOn(l.buffer, l.lines - Len(l.buffer))
  /\ InTurn(l.text, l.lines - Len(l.buffer))

LoggerInv ==
  /\ logfile \in LogType
  /\ logfile.log # "failed" => LogKept(logfile)

\* Lines that follow on, written behind a text that is in turn, are in turn, and
\* leave in turn what was.
LEMMA WrittenInTurn ==
  ASSUME NEW text \in Seq(Nat), NEW n \in Nat, InTurn(text, n),
         NEW more \in Seq(Nat), FollowOn(more, n)
  PROVE  InTurn(text \o more, n) /\ InTurn(text \o more, n + Len(more))
<1> DEFINE all == text \o more
<1>1. Len(text) \in Nat /\ Len(more) \in Nat
  BY LenProperties
<1>2. /\ all \in Seq(Nat) /\ Len(all) = Len(text) + Len(more)
      /\ \A i \in 1 .. Len(text) + Len(more) :
           all[i] = IF i <= Len(text) THEN text[i] ELSE more[i - Len(text)]
  BY ConcatProperties
<1> HIDE DEF all
<1>3. ASSUME NEW i \in 1 .. Len(text) PROVE i \in 1 .. Len(all) /\ all[i] = text[i]
  BY <1>1, <1>2
<1>4. ASSUME NEW i \in Len(text) + 1 .. Len(all)
      PROVE  i \in 1 .. Len(all) /\ all[i] = n + (i - Len(text))
  <2>1. i \in 1 .. Len(text) + Len(more) /\ ~(i <= Len(text))
          /\ i - Len(text) \in 1 .. Len(more)
    BY <1>1, <1>2
  <2> QED BY <1>2, <2>1 DEF FollowOn
<1>5. ASSUME NEW k \in 1 .. n PROVE LastIn(all, k) = LastIn(text, k)
  <2>1. ASSUME NEW i \in LastIn(all, k) PROVE i \in LastIn(text, k)
    <3>1. /\ i \in 1 .. Len(all) /\ all[i] = k
          /\ \A j \in i + 1 .. Len(all) : all[j] # k
      BY DEF LastIn
    <3>2. i \in 1 .. Len(text)
      <4>1. ASSUME i \in Len(text) + 1 .. Len(all) PROVE FALSE
        <5>1. n + (i - Len(text)) = k
          BY <1>4, <3>1, <4>1
        <5> QED BY <1>1, <4>1, <5>1
      <4> QED BY <1>1, <1>2, <3>1, <4>1
    <3>3. ASSUME NEW j \in i + 1 .. Len(text) PROVE text[j] # k
      <4>1. j \in 1 .. Len(text) /\ j \in i + 1 .. Len(all)
        BY <1>1, <1>2, <3>2
      <4> QED BY <1>3, <3>1, <4>1
    <3> QED BY <1>3, <3>1, <3>2, <3>3 DEF LastIn
  <2>2. ASSUME NEW i \in LastIn(text, k) PROVE i \in LastIn(all, k)
    <3>1. /\ i \in 1 .. Len(text) /\ text[i] = k
          /\ \A j \in i + 1 .. Len(text) : text[j] # k
      BY DEF LastIn
    <3>2. ASSUME NEW j \in i + 1 .. Len(all) PROVE all[j] # k
      <4>1. CASE j <= Len(text)
        <5>1. j \in 1 .. Len(text) /\ j \in i + 1 .. Len(text)
          BY <1>1, <3>1, <4>1
        <5> QED BY <1>3, <3>1, <5>1
      <4>2. CASE j > Len(text)
        <5>1. j \in Len(text) + 1 .. Len(all)
          BY <1>1, <1>2, <4>2, <3>1
        <5>2. all[j] = n + (j - Len(text))
          BY <1>4, <5>1
        <5> QED BY <1>1, <5>1, <5>2
      <4>3. j \in Int
        BY <1>1, <1>2, <3>1
      <4> QED BY <1>1, <4>1, <4>2, <4>3
    <3> QED BY <1>3, <3>1, <3>2 DEF LastIn
  <2> QED BY <2>1, <2>2
<1>6. ASSUME NEW k \in n + 1 .. n + Len(more)
      PROVE  LastIn(all, k) = {Len(text) + (k - n)}
  <2> DEFINE at == Len(text) + (k - n)
  <2>1. at \in Len(text) + 1 .. Len(all)
    BY <1>1, <1>2
  <2>2. at \in 1 .. Len(all) /\ all[at] = k
    <3>1. n + (at - Len(text)) = k
      BY <1>1
    <3> QED BY <1>4, <2>1, <3>1
  <2>3. ASSUME NEW j \in at + 1 .. Len(all) PROVE all[j] # k
    <3>1. j \in Len(text) + 1 .. Len(all) /\ n + (j - Len(text)) > k
      <4>1. Len(text) \in Nat /\ Len(all) \in Nat /\ n \in Nat /\ k \in Nat
              /\ k >= n + 1
        BY <1>1, <1>2
      <4>2. j \in Int /\ j >= Len(text) + (k - n) + 1 /\ j <= Len(all)
        BY <4>1
      <4> QED BY <4>1, <4>2
    <3>2. all[j] = n + (j - Len(text))
      BY <1>4, <3>1
    <3> QED BY <1>1, <3>1, <3>2
  <2>4. ASSUME NEW i \in LastIn(all, k) PROVE i = at
    <3>1. /\ i \in 1 .. Len(all) /\ all[i] = k
          /\ \A j \in i + 1 .. Len(all) : all[j] # k
      BY DEF LastIn
    <3>2. ~(i < at)
      <4> SUFFICES ASSUME i < at PROVE FALSE
        OBVIOUS
      <4>1. at \in i + 1 .. Len(all)
        BY <1>1, <1>2, <2>1, <3>1
      <4> QED BY <2>2, <3>1, <4>1
    <3>3. ~(i > at)
      <4> SUFFICES ASSUME i > at PROVE FALSE
        OBVIOUS
      <4>1. i \in at + 1 .. Len(all)
        BY <1>1, <1>2, <2>1, <3>1
      <4> QED BY <2>3, <3>1, <4>1
    <3>4. i \in Int /\ at \in Int
      BY <1>1, <3>1
    <3> HIDE DEF at
    <3> QED BY <3>2, <3>3, <3>4
  <2> QED BY <2>2, <2>3, <2>4 DEF LastIn
<1>7. InTurn(all, n)
  <2> SUFFICES ASSUME NEW k \in 1 .. n
               PROVE  /\ LastIn(all, k) # {}
                      /\ \A m \in 1 .. k - 1 :
                           \A i \in LastIn(all, m), j \in LastIn(all, k) : i < j
    BY DEF InTurn
  <2>1. \A m \in 1 .. k - 1 : m \in 1 .. n
    OBVIOUS
  <2> QED BY <1>5, <2>1 DEF InTurn
<1>8. InTurn(all, n + Len(more))
  <2> SUFFICES ASSUME NEW k \in 1 .. n + Len(more)
               PROVE  /\ LastIn(all, k) # {}
                      /\ \A m \in 1 .. k - 1 :
                           \A i \in LastIn(all, m), j \in LastIn(all, k) : i < j
    BY DEF InTurn
  <2>1. CASE k <= n
    <3>1. k \in 1 .. n
      BY <2>1
    <3> QED BY <1>7, <3>1 DEF InTurn
  <2>2. CASE k > n
    <3>1. k \in n + 1 .. n + Len(more)
      BY <1>1, <2>2
    <3>2. LastIn(all, k) = {Len(text) + (k - n)}
      BY <1>6, <3>1
    <3>3. ASSUME NEW m \in 1 .. k - 1, NEW i \in LastIn(all, m)
          PROVE  i < Len(text) + (k - n)
      <4>1. CASE m <= n
        <5>1. m \in 1 .. n
          BY <4>1
        <5>2. i \in 1 .. Len(text)
          BY <1>5, <5>1 DEF LastIn
        <5> QED BY <1>1, <3>1, <5>2
      <4>2. CASE m > n
        <5>1. m \in n + 1 .. n + Len(more)
          BY <1>1, <3>1, <4>2
        <5>2. i = Len(text) + (m - n)
          BY <1>6, <5>1
        <5> QED BY <1>1, <3>1, <5>1, <5>2
      <4> QED BY <4>1, <4>2
    <3> QED BY <3>2, <3>3
  <2> QED BY <1>1, <2>1, <2>2
<1> QED BY <1>7, <1>8 DEF all

\* Another line waits.
LEMMA LineKept ==
  ASSUME NEW l, LogKept(l)
  PROVE  LogKept(Line(l)) /\ Line(l).log = l.log /\ Line(l).registered = l.registered
<1>1. l \in LogType /\ Len(l.buffer) \in Nat /\ l.lines \in Nat /\ l.buffer \in Seq(Nat)
  BY LenProperties DEF LogKept, LogType
<1>2. /\ Line(l) \in LogType
      /\ Line(l).lines = l.lines + 1 /\ Line(l).buffer = Append(l.buffer, l.lines + 1)
      /\ Line(l).text = l.text /\ Line(l).log = l.log
      /\ Line(l).registered = l.registered
  <2>1. l.lines + 1 \in Nat /\ Append(l.buffer, l.lines + 1) \in Seq(Nat)
    BY <1>1, AppendProperties
  <2> DEFINE longer == Append(l.buffer, l.lines + 1)
             next == l.lines + 1
  <2>2. Line(l) = [l EXCEPT !.lines = next, !.buffer = longer]
    BY <1>1 DEF Line, LogType
  <2> HIDE DEF longer, next
  <2>3. /\ Line(l) \in LogType
        /\ Line(l).lines = next /\ Line(l).buffer = longer
        /\ Line(l).text = l.text /\ Line(l).log = l.log
        /\ Line(l).registered = l.registered
    BY <1>1, <2>1, <2>2 DEF LogType, longer, next
  <2> QED BY <2>3 DEF longer, next
<1>3. /\ Len(Line(l).buffer) = Len(l.buffer) + 1
      /\ \A i \in 1 .. Len(l.buffer) : Line(l).buffer[i] = l.buffer[i]
      /\ Line(l).buffer[Len(l.buffer) + 1] = l.lines + 1
  <2>1. l.lines + 1 \in Nat
    BY <1>1
  <2> QED BY <1>1, <1>2, <2>1, AppendProperties
<1>4. Line(l).lines - Len(Line(l).buffer) = l.lines - Len(l.buffer)
  <2>1. Line(l).lines = l.lines + 1
    BY <1>2
  <2>2. Len(Line(l).buffer) = Len(l.buffer) + 1
    BY <1>3
  <2> QED BY <1>1, <2>1, <2>2
<1>5. FollowOn(Line(l).buffer, l.lines - Len(l.buffer))
  <2> DEFINE m == Len(l.buffer)
             next == Line(l).buffer
  <2>1. m \in Nat /\ l.lines \in Nat /\ l.lines - m + (m + 1) = l.lines + 1
    BY <1>1
  <2>2. \A i \in 1 .. m : l.buffer[i] = l.lines - m + i
    BY DEF FollowOn, LogKept
  <2>3. /\ Len(next) = m + 1 /\ \A i \in 1 .. m : next[i] = l.buffer[i]
        /\ next[m + 1] = l.lines + 1
    BY <1>3
  <2> HIDE DEF m, next
  <2>4. ASSUME NEW i \in 1 .. Len(next) PROVE next[i] = l.lines - m + i
    <3>1. i \in 1 .. m \/ i = m + 1
      BY <2>1, <2>3
    <3> QED BY <2>1, <2>2, <2>3, <3>1
  <2> QED BY <2>4 DEF FollowOn, m, next
<1> QED BY <1>1, <1>2, <1>3, <1>4, <1>5 DEF LogKept

\* The first lines that wait.
LEMMA FirstFollowOn ==
  ASSUME NEW buffer \in Seq(Nat), NEW n \in Nat, FollowOn(buffer, n),
         NEW took \in Nat
  PROVE  LET first == SubSeq(buffer, 1, Shorter(took, Len(buffer))) IN
         first \in Seq(Nat) /\ FollowOn(first, n)
<1> DEFINE m == Shorter(took, Len(buffer))
           first == SubSeq(buffer, 1, m)
<1>1. Len(buffer) \in Nat /\ \A i \in 1 .. Len(buffer) : buffer[i] \in Nat
  BY LenProperties, ElementOfSeq
<1>2. m \in Nat /\ m <= Len(buffer)
  BY <1>1 DEF Shorter
<1> HIDE DEF m
<1>3. \A i \in 1 .. m : buffer[i] \in Nat
  BY <1>1, <1>2
<1>4. /\ first \in Seq(Nat) /\ Len(first) = IF 1 <= m THEN m - 1 + 1 ELSE 0
      /\ \A i \in 1 .. m - 1 + 1 : first[i] = buffer[1 + i - 1]
  BY <1>2, <1>3, SubSeqProperties
<1> HIDE DEF first
<1>5. ASSUME NEW i \in 1 .. Len(first) PROVE first[i] = n + i
  <2>1. i \in 1 .. m - 1 + 1 /\ 1 + i - 1 = i /\ i \in 1 .. Len(buffer)
    BY <1>1, <1>2, <1>4
  <2> QED BY <1>4, <2>1 DEF FollowOn
<1> QED BY <1>4, <1>5 DEF FollowOn, first, m

\* What fprintf makes of the text, with what waits for it.
LEMMA FprintfKept ==
  ASSUME NEW l, LogKept(l), NEW o \in Outcomes
  PROVE  /\ Fprintf(l, o) \in Seq(Nat)
         /\ InTurn(Fprintf(l, o), l.lines - Len(l.buffer))
         /\ o.result = "all" => InTurn(Fprintf(l, o), l.lines)
<1>1. /\ l.text \in Seq(Nat) /\ l.buffer \in Seq(Nat) /\ l.lines \in Nat
      /\ Len(l.buffer) \in Nat /\ Len(l.buffer) <= l.lines
  BY LenProperties DEF LogKept, LogType
<1> DEFINE n == l.lines - Len(l.buffer)
<1>2. n \in Nat /\ n + Len(l.buffer) = l.lines
  BY <1>1
<1>3. InTurn(l.text, n) /\ FollowOn(l.buffer, n)
  BY DEF LogKept
<1> HIDE DEF n
<1>4. CASE o.result = "all"
  <2>1. Fprintf(l, o) = l.text \o l.buffer
    BY <1>4 DEF Fprintf
  <2>2. l.text \o l.buffer \in Seq(Nat)
    BY <1>1, ConcatProperties
  <2>3. InTurn(l.text \o l.buffer, n) /\ InTurn(l.text \o l.buffer, l.lines)
    BY <1>1, <1>2, <1>3, WrittenInTurn
  <2> QED BY <2>1, <2>2, <2>3 DEF n
<1>5. CASE o.result # "all"
  <2> DEFINE first == SubSeq(l.buffer, 1, Shorter(o.took, Len(l.buffer)))
  <2>1. o.took \in Nat
    <3>1. \/ o \in [result : {"all"}, took : {0}, accepted : {FALSE}]
          \/ o \in [result : {"EAGAIN"}, took : 0 .. MaxLines, accepted : BOOLEAN]
          \/ o \in [result : {"error"}, took : 0 .. MaxLines, accepted : {FALSE}]
      BY DEF Outcomes
    <3>2. o.took \in {0} \cup 0 .. MaxLines
      BY <3>1
    <3> QED BY <3>2, LoggerInput
  <2>2. first \in Seq(Nat) /\ FollowOn(first, n)
    BY <1>1, <1>2, <1>3, <2>1, FirstFollowOn
  <2>3. Fprintf(l, o) = l.text \o first
    BY <1>5 DEF Fprintf
  <2> HIDE DEF first
  <2>4. l.text \o first \in Seq(Nat)
    BY <1>1, <2>2, ConcatProperties
  <2>5. InTurn(l.text \o first, n)
    BY <1>1, <1>2, <1>3, <2>2, WrittenInTurn
  <2> QED BY <1>5, <2>3, <2>4, <2>5 DEF n
<1> QED BY <1>4, <1>5

\* Nothing waits, and all that was logged is in turn.
LEMMA NothingWaits ==
  ASSUME NEW l \in LogType, l.buffer = <<>>
  PROVE  LogKept(l) <=> InTurn(l.text, l.lines)
<1>1. Len(l.buffer) = 0 /\ l.lines \in Nat /\ l.lines - 0 = l.lines
  BY DEF LogType
<1>2. FollowOn(l.buffer, l.lines - Len(l.buffer))
  BY <1>1 DEF FollowOn
<1> QED BY <1>1, <1>2 DEF LogKept

LEMMA PutKept ==
  ASSUME NEW l, LogKept(l), NEW o \in Outcomes
  PROVE  /\ LogKept(Put(l, o)) /\ Put(l, o).log = l.log
         /\ o.result = "all" => Put(l, o).buffer = <<>>
<1>1. l \in LogType
  BY DEF LogKept
<1>2. /\ Fprintf(l, o) \in Seq(Nat)
      /\ InTurn(Fprintf(l, o), l.lines - Len(l.buffer))
      /\ o.result = "all" => InTurn(Fprintf(l, o), l.lines)
  BY FprintfKept
<1>3. CASE o.result = "all"
  <2>1. /\ Put(l, o) \in LogType /\ Put(l, o).buffer = <<>>
        /\ Put(l, o).text = Fprintf(l, o) /\ Put(l, o).lines = l.lines
        /\ Put(l, o).log = l.log
    BY <1>1, <1>2, <1>3, EmptySeq DEF Put, LogType
  <2> QED BY <1>2, <1>3, <2>1, NothingWaits
<1>4. CASE o.result # "all"
  <2>1. /\ Put(l, o) \in LogType /\ Put(l, o).buffer = l.buffer
        /\ Put(l, o).text = Fprintf(l, o) /\ Put(l, o).lines = l.lines
        /\ Put(l, o).log = l.log
    BY <1>1, <1>2, <1>4 DEF Put, LogType
  <2> QED BY <1>2, <1>4, <2>1 DEF LogKept
<1> QED BY <1>3, <1>4

LEMMA RegistrationKept ==
  ASSUME NEW l, LogKept(l), NEW b \in BOOLEAN
  PROVE  LET r == [l EXCEPT !.registered = b] IN
         LogKept(r) /\ r.log = l.log /\ r.buffer = l.buffer /\ r.registered = b
<1> DEFINE r == [l EXCEPT !.registered = b]
<1>1. l \in LogType
  BY DEF LogKept
<1>2. /\ r \in LogType /\ r.log = l.log /\ r.buffer = l.buffer
      /\ r.registered = b /\ r.text = l.text /\ r.lines = l.lines
  BY <1>1 DEF LogType
<1> HIDE DEF r
<1> QED BY <1>2 DEF LogKept, r

LEMMA WriteKept ==
  ASSUME NEW l, LogKept(l), NEW o \in Outcomes, NEW within \in Outcomes
  PROVE  /\ LogKept(WriteLogLine(l, o, within))
         /\ WriteLogLine(l, o, within).log = l.log
         /\ o.result = "all" => WriteLogLine(l, o, within).buffer = <<>>
<1> DEFINE put == Put(l, o)
           more == IF Debug THEN Put(Line(put), within) ELSE put
<1>1. LogKept(put) /\ put.log = l.log /\ (o.result = "all" => put.buffer = <<>>)
  BY PutKept
<1>2. LogKept(Line(put)) /\ Line(put).log = l.log
  BY <1>1, LineKept
<1>3. LogKept(more) /\ more.log = l.log
  BY <1>1, <1>2, PutKept
<1>4. /\ LogKept([more EXCEPT !.registered = TRUE])
      /\ [more EXCEPT !.registered = TRUE].log = l.log
  BY <1>3, RegistrationKept
<1>5. \/ WriteLogLine(l, o, within) = put
      \/ /\ WriteLogLine(l, o, within) = [more EXCEPT !.registered = TRUE]
         /\ o.result = "EAGAIN"
  BY DEF WriteLogLine
<1> HIDE DEF put, more
<1> QED BY <1>1, <1>4, <1>5

LEMMA DelKept ==
  ASSUME NEW l, LogKept(l), NEW o \in Outcomes, NEW within \in Outcomes
  PROVE  /\ LogKept(DelFd(l, o, within)) /\ DelFd(l, o, within).log = l.log
         /\ Debug /\ o.result = "all" => DelFd(l, o, within).buffer = <<>>
         /\ ~Debug => DelFd(l, o, within) = [l EXCEPT !.registered = FALSE]
<1> DEFINE removed == [l EXCEPT !.registered = FALSE]
<1>1. LogKept(removed) /\ removed.log = l.log
  BY RegistrationKept
<1>2. LogKept(Line(removed)) /\ Line(removed).log = l.log
  BY <1>1, LineKept
<1>3. /\ LogKept(WriteLogLine(Line(removed), o, within))
      /\ WriteLogLine(Line(removed), o, within).log = l.log
      /\ o.result = "all" => WriteLogLine(Line(removed), o, within).buffer = <<>>
  BY <1>2, WriteKept
<1>4. DelFd(l, o, within) =
        IF Debug THEN WriteLogLine(Line(removed), o, within) ELSE removed
  BY DEF DelFd
<1> HIDE DEF removed
<1>5. /\ LogKept(DelFd(l, o, within)) /\ DelFd(l, o, within).log = l.log
      /\ Debug /\ o.result = "all" => DelFd(l, o, within).buffer = <<>>
  BY <1>1, <1>3, <1>4
<1> QED BY <1>4, <1>5 DEF removed

-----------------------------------------------------------------------------
LEMMA LoggerInitially == LoggerInit => LoggerInv
<1> SUFFICES ASSUME LoggerInit PROVE LoggerInv
  OBVIOUS
<1>1. logfile \in LogType /\ logfile.buffer = <<>> /\ logfile.lines = 0
  BY EmptySeq DEF LoggerInit, LoggerStart, LogType
<1>2. InTurn(logfile.text, logfile.lines)
  BY <1>1 DEF InTurn
<1> QED BY <1>1, <1>2, NothingWaits DEF LoggerInv

LEMMA LoggerClose == LoggerInv /\ Close => LoggerInv'
<1> SUFFICES ASSUME LoggerInv, Close PROVE LoggerInv'
  OBVIOUS
<1>1. PICK o \in {x \in Outcomes : x.result # "EAGAIN"} :
        \E then \in {x \in Outcomes : x.result # "EAGAIN"} :
        LET flushed == [logfile EXCEPT !.text = Fprintf(logfile, o)]
            reported == logfile.registered /\ Debug
            last == IF logfile.registered THEN DelFd(flushed, then, then)
                    ELSE flushed
            failed == (IF reported THEN then ELSE o).result = "error" IN
        logfile' = [last EXCEPT !.buffer = <<>>,
                                !.log = IF failed THEN "failed" ELSE "closed"]
  BY DEF Close
<1>2. PICK then \in {x \in Outcomes : x.result # "EAGAIN"} :
        LET flushed == [logfile EXCEPT !.text = Fprintf(logfile, o)]
            reported == logfile.registered /\ Debug
            last == IF logfile.registered THEN DelFd(flushed, then, then)
                    ELSE flushed
            failed == (IF reported THEN then ELSE o).result = "error" IN
        logfile' = [last EXCEPT !.buffer = <<>>,
                                !.log = IF failed THEN "failed" ELSE "closed"]
  BY <1>1
<1> DEFINE flushed == [logfile EXCEPT !.text = Fprintf(logfile, o)]
           reported == logfile.registered /\ Debug
           last == IF logfile.registered THEN DelFd(flushed, then, then)
                   ELSE flushed
           failed == (IF reported THEN then ELSE o).result = "error"
           closed == [last EXCEPT !.buffer = <<>>,
                                  !.log = IF failed THEN "failed" ELSE "closed"]
<1>3. logfile' = closed
  BY <1>2
<1>4. LogKept(logfile) /\ logfile \in LogType
  BY DEF LoggerInv, Close
<1>5. /\ Fprintf(logfile, o) \in Seq(Nat)
      /\ InTurn(Fprintf(logfile, o), logfile.lines - Len(logfile.buffer))
      /\ o.result = "all" => InTurn(Fprintf(logfile, o), logfile.lines)
  BY <1>4, FprintfKept
<1>6. /\ flushed \in LogType /\ flushed.text = Fprintf(logfile, o)
      /\ flushed.lines = logfile.lines /\ flushed.buffer = logfile.buffer
      /\ flushed.registered = logfile.registered
  BY <1>4, <1>5 DEF LogType
<1>7. LogKept(flushed)
  BY <1>4, <1>5, <1>6 DEF LogKept
<1>8. \A x \in Outcomes : x.result \in {"all", "EAGAIN", "error"}
  BY DEF Outcomes
<1> HIDE DEF flushed
<1>9. /\ LogKept(last) /\ last \in LogType
      /\ ~failed => last.buffer = <<>> \/ InTurn(last.text, last.lines)
  <2>1. CASE reported
    <3>1. last = DelFd(flushed, then, then)
      BY <2>1
    <3>2. LogKept(last) /\ (then.result = "all" => last.buffer = <<>>)
      BY <1>7, <2>1, <3>1, DelKept
    <3>3. ~failed => then.result = "all"
      BY <1>8, <2>1
    <3> QED BY <3>2, <3>3 DEF LogKept
  <2>2. CASE ~reported
    <3>1. ~failed => o.result = "all"
      BY <1>8, <2>2
    <3>2. ~failed => InTurn(flushed.text, flushed.lines)
      BY <1>5, <1>6, <3>1
    <3>3. CASE ~logfile.registered
      BY <1>6, <1>7, <3>2, <3>3
    <3>4. CASE logfile.registered
      <4>1. last = [flushed EXCEPT !.registered = FALSE]
        BY <1>7, <2>2, <3>4, DelKept
      <4>2. LogKept(last)
        BY <1>7, <2>2, <3>4, DelKept
      <4>3. last.text = flushed.text /\ last.lines = flushed.lines
        BY <1>6, <4>1 DEF LogType
      <4> QED BY <3>2, <4>2, <4>3 DEF LogKept
    <3> QED BY <3>3, <3>4
  <2> QED BY <2>1, <2>2
<1>10. ~failed => InTurn(last.text, last.lines)
  BY <1>9, NothingWaits
<1> HIDE DEF last, failed
<1>11. /\ closed \in LogType /\ closed.buffer = <<>>
       /\ closed.text = last.text /\ closed.lines = last.lines
       /\ closed.log = IF failed THEN "failed" ELSE "closed"
  BY <1>9, EmptySeq DEF LogType
<1> HIDE DEF closed
<1>12. closed.log # "failed" => LogKept(closed)
  BY <1>10, <1>11, NothingWaits
<1> QED BY <1>3, <1>11, <1>12 DEF LoggerInv

LEMMA LoggerStep == LoggerInv /\ [LoggerNext]_logfile => LoggerInv'
<1> SUFFICES ASSUME LoggerInv, [LoggerNext]_logfile PROVE LoggerInv'
  OBVIOUS
<1>1. CASE LogLine
  <2>1. LogKept(logfile)
    BY <1>1 DEF LoggerInv, LogLine
  <2>2. LogKept(Line(logfile))
    BY <2>1, LineKept
  <2>3. LogKept(logfile')
    BY <1>1, <2>2, WriteKept DEF LogLine
  <2> QED BY <2>3 DEF LoggerInv, LogKept
<1>2. CASE HandleEvent
  <2>1. LogKept(logfile)
    BY <1>2 DEF LoggerInv, HandleEvent
  <2>2. \A o \in Outcomes : LogKept(Put(logfile, o))
    BY <2>1, PutKept
  <2>3. LogKept(logfile')
    BY <1>2, <2>2, DelKept DEF HandleEvent
  <2> QED BY <2>3 DEF LoggerInv, LogKept
<1>3. CASE UNCHANGED logfile
  BY <1>3 DEF LoggerInv
<1> QED BY <1>1, <1>2, <1>3, LoggerClose DEF LoggerNext

\* However often the log would have blocked, each line that was logged is in
\* it or in the buffer, and the last copies are in order, unless the last
\* write of all failed.
THEOREM NoLineIsLost == LoggerSpec => []LinesKept
<1>1. LoggerInv => LinesKept
  <2> SUFFICES ASSUME LoggerInv, logfile.log # "failed"
               PROVE  LinesKept
    BY DEF LinesKept
  <2> DEFINE text == logfile.text
             buffer == logfile.buffer
             lines == logfile.lines
             n == lines - Len(buffer)
             all == text \o buffer
  <2>1. /\ text \in Seq(Nat) /\ buffer \in Seq(Nat) /\ lines \in Nat
        /\ Len(buffer) \in Nat /\ Len(buffer) <= lines
        /\ InTurn(text, n) /\ FollowOn(buffer, n)
    BY LenProperties DEF LoggerInv, LogKept, LogType
  <2>2. n \in Nat /\ n + Len(buffer) = lines
    BY <2>1
  <2> HIDE DEF text, buffer, lines, n
  <2>3. InTurn(all, lines) /\ all \in Seq(Nat)
    BY <2>1, <2>2, WrittenInTurn, ConcatProperties
  <2> HIDE DEF all
  <2>4. DOMAIN all = 1 .. Len(all)
    BY <2>3, LenProperties
  <2>5. \A k : LastIn(all, k) =
          {i \in DOMAIN all : all[i] = k /\ \A j \in i + 1 .. Len(all) : all[j] # k}
    BY <2>4 DEF LastIn
  <2> QED BY <2>3, <2>5 DEF InTurn, LinesKept, all, text, buffer, lines
<1> QED BY <1>1, LoggerInitially, LoggerStep, PTL DEF LoggerSpec

-----------------------------------------------------------------------------
(* Modules.  A list keeps to a set of modules if it has each of them once,   *)
(* and nobody else, but for those whose constructors threw: of these nothing *)
(* is known.  Each list keeps to the modules that are alive and whose        *)
(* library says that they are in it, which is what makes it enough to detach *)
(* a module from the lists that its destructor knows of.                     *)

ModulesSpec == ModuleInit /\ [][ModuleNext]_moduleVars
StartupSpec == StartupInit /\ [][StartupNext]_startupVars

Keeps(s, who, free) ==
  \A x \in 1 .. Len(s) :
    \/ s[x] \in free
    \/ s[x] \in who /\ \A y \in 1 .. Len(s) : s[y] = s[x] => y = x

Hooked(h) == {n \in alive : h \in libs[n].hooks}
Providers(i) == {n \in alive : i \in libs[n].provides}
Publishers(f) == {n \in alive : libs[n].feature = f}

EntryType == [uses : Int, list : Seq(Names)]

ModulesTypeOK ==
  /\ libs \in [Names -> Library]
  /\ Modules = alive /\ alive \subseteq Names /\ aborted \subseteq Names
  /\ prioritizing \subseteq Names
  /\ EventHandlers \in [Hooks -> Seq(Names)]
  /\ InterfaceTable \in [Interfaces -> EntryType]
  /\ FeatureTable \in [Features -> Names \cup {NoModule}]

PointersInv ==
  /\ ModulesTypeOK
  /\ \A h \in Hooks : Keeps(EventHandlers[h], Hooked(h), aborted)
  /\ \A i \in Interfaces :
       Keeps(InterfaceTable[i].list, Providers(i), aborted)
  /\ \A f \in Features :
       FeatureTable[f] \in Publishers(f) \cup aborted \cup {NoModule}

\* A list keeps to a set if it keeps to a smaller one.
LEMMA KeepsMore ==
  ASSUME NEW s, NEW who, NEW free, NEW more, NEW freer,
         Keeps(s, who, free), who \subseteq more, free \subseteq freer
  PROVE  Keeps(s, more, freer)
BY DEF Keeps

LEMMA KeepsEmpty ==
  ASSUME NEW who, NEW free
  PROVE  Keeps(<<>>, who, free)
<1>1. Len(<<>>) = 0
  BY EmptySeq
<1> QED BY <1>1 DEF Keeps

\* push_back of one that is not in the set yet.
LEMMA KeepsAppend ==
  ASSUME NEW s \in Seq(Names), NEW n \in Names, NEW who, NEW free,
         Keeps(s, who, free), n \notin who
  PROVE  /\ Keeps(Append(s, n), who \cup {n}, free)
         /\ Append(s, n) \in Seq(Names)
<1> DEFINE t == Append(s, n)
<1>1. /\ t \in Seq(Names) /\ Len(t) = Len(s) + 1 /\ Len(s) \in Nat
      /\ \A x \in 1 .. Len(s) : t[x] = s[x]
      /\ t[Len(s) + 1] = n
  BY AppendProperties, LenProperties
<1> HIDE DEF t
<1>2. ASSUME NEW x \in 1 .. Len(t), t[x] \notin free
      PROVE  t[x] \in who \cup {n} /\ \A y \in 1 .. Len(t) : t[y] = t[x] => y = x
  <2>1. \A z \in 1 .. Len(t) : z \in 1 .. Len(s) \/ z = Len(s) + 1
    BY <1>1
  <2>2. \A z \in 1 .. Len(s) : t[z] \notin free => t[z] \in who /\ t[z] # n
    BY <1>1 DEF Keeps
  <2>3. CASE x \in 1 .. Len(s)
    BY <1>1, <1>2, <2>1, <2>2, <2>3 DEF Keeps
  <2>4. CASE x = Len(s) + 1
    BY <1>1, <1>2, <2>1, <2>2, <2>4
  <2> QED BY <2>1, <2>3, <2>4
<1> QED BY <1>1, <1>2 DEF Keeps, t

LEMMA KeepsAttach ==
  ASSUME NEW s \in Seq(Names), NEW n \in Names, NEW who, NEW free,
         Keeps(s, who, free), n \notin who
  PROVE  /\ Keeps(Attach(s, n), who \cup {n}, free)
         /\ Attach(s, n) \in Seq(Names)
<1>1. CASE n \in Listed(s)
  BY <1>1, KeepsMore DEF Attach
<1>2. CASE n \notin Listed(s)
  BY <1>2, KeepsAppend DEF Attach
<1> QED BY <1>1, <1>2

\* Detached is gone for good, as it was there once.
LEMMA KeepsDetach ==
  ASSUME NEW s \in Seq(Names), NEW n \in Names, NEW who, NEW free,
         Names \subseteq Nat, Keeps(s, who, free)
  PROVE  /\ Keeps(Detach(s, n), who \ {n}, free)
         /\ Detach(s, n) \in Seq(Names)
<1>1. Positions(s, {n}) \subseteq 1 .. Len(s) /\ 1 .. Len(s) \subseteq Nat
  BY LenProperties DEF Positions
<1>2. CASE Positions(s, {n}) = {}
  BY <1>2 DEF Detach, Positions, Keeps
<1>3. CASE Positions(s, {n}) # {}
  <2> DEFINE x == Least(Positions(s, {n}))
  <2>1. x \in Positions(s, {n})
    BY <1>1, <1>3, LeastExists
  <2>2. x \in 1 .. Len(s) /\ s[x] = n
    BY <2>1 DEF Positions
  <2>3. Detach(s, n) = Without(s, x)
    BY <1>3 DEF Detach, Without
  <2> HIDE DEF x
  <2> DEFINE t == Without(s, x)
  <2>4. /\ t \in Seq(Names) /\ Len(t) \in Nat
        /\ \A i, j \in 1 .. Len(t) : i < j =>
             \E k, l \in 1 .. Len(s) :
               /\ k < l /\ k # x /\ l # x /\ t[i] = s[k] /\ t[j] = s[l]
    BY <2>2, Erased, ErasedMembers, LenProperties
  <2>5. \A i \in 1 .. Len(t) : \E k \in 1 .. Len(s) : t[i] = s[k] /\ k # x
    <3>1. /\ Len(t) = Len(s) - 1 /\ Len(s) \in Nat /\ x \in Nat
          /\ \A i \in 1 .. x - 1 : t[i] = s[i]
          /\ \A i \in x .. Len(s) - 1 : t[i] = s[i + 1]
      BY <2>2, Erased
    <3> HIDE DEF t
    <3> SUFFICES ASSUME NEW i \in 1 .. Len(t)
                 PROVE  \E k \in 1 .. Len(s) : t[i] = s[k] /\ k # x
      OBVIOUS
    <3>2. CASE i < x
      <4>1. i \in 1 .. x - 1 /\ i \in 1 .. Len(s) /\ i # x
        BY <3>1, <3>2, <2>2
      <4> QED BY <3>1, <4>1
    <3>3. CASE ~(i < x)
      <4>1. i \in x .. Len(s) - 1 /\ i + 1 \in 1 .. Len(s) /\ i + 1 # x
        BY <3>1, <3>3, <2>2
      <4> QED BY <3>1, <4>1
    <3> QED BY <3>2, <3>3
  <2> HIDE DEF t
  <2>6. ASSUME NEW i \in 1 .. Len(t), t[i] \notin free
        PROVE  t[i] \in who \ {n} /\ \A j \in 1 .. Len(t) : t[j] = t[i] => j = i
    <3>1. PICK k \in 1 .. Len(s) : t[i] = s[k] /\ k # x
      BY <2>5
    <3>2. s[k] \in who /\ \A l \in 1 .. Len(s) : s[l] = s[k] => l = k
      BY <2>6, <3>1 DEF Keeps
    <3>3. t[i] # n
      BY <2>2, <3>1, <3>2
    <3>4. ASSUME NEW j \in 1 .. Len(t), t[j] = t[i], j # i PROVE FALSE
      <4>1. i < j \/ j < i
        BY <2>4, <3>4
      <4>2. \E l, m \in 1 .. Len(s) : l < m /\ s[l] = t[i] /\ s[m] = t[i]
        BY <2>4, <3>4, <4>1
      <4>3. \A l, m \in 1 .. Len(s) : l < m => l # m
        BY LenProperties
      <4> QED BY <3>1, <3>2, <4>2, <4>3
    <3> QED BY <3>1, <3>2, <3>3, <3>4
  <2> QED BY <2>3, <2>4, <2>6 DEF Keeps, t
<1> QED BY <1>2, <1>3

LEMMA GreatestExists ==
  ASSUME NEW N \in Nat, NEW S, S \subseteq 1 .. N, S # {}
  PROVE  Greatest(S) \in S /\ \A y \in S : Greatest(S) >= y
<1> DEFINE T == {N - x : x \in S}
<1>1. T \subseteq Nat /\ T # {}
  <2>1. \A x \in S : N - x \in Nat
    OBVIOUS
  <2>2. PICK x \in S : TRUE
    OBVIOUS
  <2>3. N - x \in T
    OBVIOUS
  <2> QED BY <2>1, <2>3
<1>2. Least(T) \in T /\ \A z \in T : Least(T) <= z
  <2> HIDE DEF T
  <2> QED BY <1>1, LeastExists
<1>3. PICK x \in S : Least(T) = N - x
  BY <1>2
<1>4. ASSUME NEW y \in S PROVE x >= y
  <2>1. N - y \in T
    OBVIOUS
  <2>2. N - x <= N - y /\ x \in Nat /\ y \in Nat
    BY <1>2, <1>3, <2>1
  <2> QED BY <2>2
<1> QED BY <1>4 DEF Greatest

\* The place that a module asks for is one of the list's.
LEMMA SwapInRange ==
  ASSUME NEW s \in Seq(Names), NEW source \in 1 .. Len(s), NEW wish
  PROVE  SwapPosition(s, source, wish) \in 1 .. Len(s)
<1> DEFINE others == Positions(s, wish.others)
<1>1. others \subseteq 1 .. Len(s) /\ Len(s) \in Nat /\ 1 .. Len(s) \subseteq Nat
  BY LenProperties DEF Positions
<1>2. others # {} => Greatest(others) \in others /\ Least(others) \in others
  BY <1>1, LeastExists, GreatestExists
<1>3. 1 \in 1 .. Len(s) /\ Len(s) \in 1 .. Len(s)
  BY <1>1
<1> HIDE DEF others
<1>4. SwapPosition(s, source, wish) =
        CASE wish.state = "PRIO_FIRST" -> 1
          [] wish.state = "PRIO_LAST" -> Len(s)
          [] wish.state = "PRIO_AFTER" /\ source = 1 /\ others # {} ->
               Greatest(others)
          [] wish.state = "PRIO_BEFORE" /\ source = Len(s) /\ others # {} ->
               Least(others)
          [] OTHER -> source
  BY DEF SwapPosition, others
<1> QED BY <1>1, <1>2, <1>3, <1>4

\* Two members change places.
LEMMA KeepsSwap ==
  ASSUME NEW s \in Seq(Names), NEW a \in 1 .. Len(s), NEW b \in 1 .. Len(s),
         NEW who, NEW free, Keeps(s, who, free)
  PROVE  LET t == [s EXCEPT ![a] = s[b], ![b] = s[a]] IN
         /\ Keeps(t, who, free)
         /\ t \in Seq(Names) /\ Len(t) = Len(s)
<1> DEFINE first == [s EXCEPT ![a] = s[b]]
           t == [s EXCEPT ![a] = s[b], ![b] = s[a]]
           at(x) == IF x = b THEN a ELSE IF x = a THEN b ELSE x
<1>1. Len(s) \in Nat /\ s[a] \in Names /\ s[b] \in Names
  BY LenProperties, ElementOfSeq
<1>2. /\ first \in Seq(Names) /\ Len(first) = Len(s)
      /\ \A x \in 1 .. Len(s) : first[x] = IF x = a THEN s[b] ELSE s[x]
  BY <1>1, ExceptSeq
<1>3. t = [first EXCEPT ![b] = s[a]]
  OBVIOUS
<1> HIDE DEF first, t
<1>4. /\ t \in Seq(Names) /\ Len(t) = Len(s)
      /\ \A x \in 1 .. Len(s) : t[x] = IF x = b THEN s[a] ELSE first[x]
  BY <1>1, <1>2, <1>3, ExceptSeq
<1>5. \A x \in 1 .. Len(s) : t[x] = s[at(x)] /\ at(x) \in 1 .. Len(s)
  BY <1>2, <1>4
<1>6. \A x, y \in 1 .. Len(s) : at(x) = at(y) => x = y
  OBVIOUS
<1> HIDE DEF at
<1>7. ASSUME NEW x \in 1 .. Len(t), t[x] \notin free
      PROVE  t[x] \in who /\ \A y \in 1 .. Len(t) : t[y] = t[x] => y = x
  <2>1. s[at(x)] \in who /\ \A z \in 1 .. Len(s) : s[z] = s[at(x)] => z = at(x)
    BY <1>4, <1>5, <1>7 DEF Keeps
  <2> QED BY <1>4, <1>5, <1>6, <2>1
<1>8. Keeps(t, who, free)
  BY <1>7 DEF Keeps
<1> QED BY <1>4, <1>8 DEF t

LEMMA KeepsPriority ==
  ASSUME NEW s \in Seq(Names), NEW n \in Names, NEW wish, NEW who, NEW free,
         Keeps(s, who, free)
  PROVE  /\ Keeps(SetPriority(s, n, wish), who, free)
         /\ SetPriority(s, n, wish) \in Seq(Names)
<1>1. CASE n \notin Listed(s)
  BY <1>1 DEF SetPriority
<1>2. CASE n \in Listed(s)
  <2> DEFINE a == Least(Positions(s, {n}))
             b == SwapPosition(s, a, wish)
  <2>1. /\ Positions(s, {n}) \subseteq 1 .. Len(s) /\ 1 .. Len(s) \subseteq Nat
        /\ Positions(s, {n}) # {}
    BY <1>2, LenProperties DEF Positions, Listed
  <2>2. a \in Positions(s, {n})
    BY <2>1, LeastExists
  <2>3. a \in 1 .. Len(s) /\ s[a] = n
    BY <2>2 DEF Positions
  <2> HIDE DEF a
  <2>4. b \in 1 .. Len(s)
    BY <2>3, SwapInRange
  <2>5. SetPriority(s, n, wish) = [s EXCEPT ![a] = s[b], ![b] = n]
    BY <1>2 DEF SetPriority, a, b
  <2> HIDE DEF b
  <2> DEFINE t == [s EXCEPT ![a] = s[b], ![b] = s[a]]
  <2>6. SetPriority(s, n, wish) = t
    BY <2>3, <2>5
  <2>7. Keeps(t, who, free) /\ t \in Seq(Names)
    BY <2>3, <2>4, KeepsSwap
  <2> HIDE DEF t
  <2> QED BY <2>6, <2>7
<1> QED BY <1>1, <1>2

-----------------------------------------------------------------------------
(* What each call of the manager does to its pointers.                      *)

LEMMA PointersInitially == ModuleInit => PointersInv
<1> SUFFICES ASSUME ModuleInit PROVE PointersInv
  OBVIOUS
<1>1. <<>> \in Seq(Names)
  BY EmptySeq
<1>2. ModulesTypeOK
  <2>1. Absent \in EntryType
    BY <1>1 DEF Absent, EntryType
  <2>2. libs \in [Names -> Library]
    BY DirectoriesAssumption DEF ModuleInit
  <2>3. /\ Modules = alive /\ alive = {} /\ aborted = {} /\ prioritizing = {}
        /\ EventHandlers = [h \in Hooks |-> <<>>]
        /\ InterfaceTable = [i \in Interfaces |-> Absent]
        /\ FeatureTable = [f \in Features |-> NoModule]
    BY DEF ModuleInit
  <2> HIDE DEF ModuleInit
  <2> QED BY <1>1, <2>1, <2>2, <2>3 DEF ModulesTypeOK
<1> QED BY <1>2, KeepsEmpty DEF ModuleInit, PointersInv, Absent

\* The wishes of a library, and the sets that it names.
LEMMA LibraryOf ==
  ASSUME ModulesTypeOK, NEW n \in Names
  PROVE  /\ libs[n].hooks \subseteq Hooks
         /\ libs[n].provides \subseteq Interfaces
         /\ libs[n].needs \subseteq Interfaces
         /\ libs[n].feature \in Features \cup {"none"}
         /\ libs[n].wish.others \subseteq Names
BY DEF ModulesTypeOK, Library

LEMMA AttachedKeeps ==
  ASSUME PointersInv, NEW n \in Names, n \notin alive
  PROVE  /\ Attached(n) \in [Hooks -> Seq(Names)]
         /\ \A h \in Hooks :
              /\ Keeps(Attached(n)[h], Hooked(h) \cup {n}, aborted)
              /\ h \notin libs[n].hooks =>
                   Keeps(Attached(n)[h], Hooked(h), aborted)
<1> SUFFICES ASSUME NEW h \in Hooks
             PROVE  /\ Attached(n)[h] \in Seq(Names)
                    /\ Keeps(Attached(n)[h], Hooked(h) \cup {n}, aborted)
                    /\ h \notin libs[n].hooks =>
                         Keeps(Attached(n)[h], Hooked(h), aborted)
  BY DEF Attached
<1> DEFINE s == EventHandlers[h]
<1>1. s \in Seq(Names) /\ Keeps(s, Hooked(h), aborted) /\ n \notin Hooked(h)
  BY DEF PointersInv, ModulesTypeOK, Hooked
<1>2. Attached(n)[h] = IF h \in libs[n].hooks THEN Attach(s, n) ELSE s
  BY DEF Attached
<1> HIDE DEF s
<1>3. Keeps(s, Hooked(h) \cup {n}, aborted)
  BY <1>1, KeepsMore
<1>4. /\ Keeps(Attach(s, n), Hooked(h) \cup {n}, aborted)
      /\ Attach(s, n) \in Seq(Names)
  BY <1>1, KeepsAttach
<1> QED BY <1>1, <1>2, <1>3, <1>4

LEMMA PublishedKeeps ==
  ASSUME PointersInv, NEW n \in Names, n \notin alive
  PROVE  /\ Published(n) \in [Interfaces -> EntryType]
         /\ \A i \in Interfaces :
              /\ Keeps(Published(n)[i].list, Providers(i) \cup {n}, aborted)
              /\ i \notin libs[n].provides =>
                   Published(n)[i] = InterfaceTable[i]
<1> SUFFICES ASSUME NEW i \in Interfaces
             PROVE  /\ Published(n)[i] \in EntryType
                    /\ Keeps(Published(n)[i].list, Providers(i) \cup {n}, aborted)
                    /\ i \notin libs[n].provides =>
                         Published(n)[i] = InterfaceTable[i]
  BY DEF Published
<1> DEFINE e == InterfaceTable[i]
<1>1. /\ e \in EntryType /\ e.list \in Seq(Names) /\ e.uses \in Int
      /\ Keeps(e.list, Providers(i), aborted) /\ n \notin Providers(i)
  BY DEF PointersInv, ModulesTypeOK, Providers, EntryType
<1>2. Published(n)[i] = IF i \in libs[n].provides THEN PublishInterface(e, n)
                        ELSE e
  BY DEF Published
<1> HIDE DEF e
<1>3. Keeps(e.list, Providers(i) \cup {n}, aborted)
  BY <1>1, KeepsMore
<1>4. /\ Keeps(Append(e.list, n), Providers(i) \cup {n}, aborted)
      /\ Append(e.list, n) \in Seq(Names)
  BY <1>1, KeepsAppend
<1>5. /\ PublishInterface(e, n).list = Append(e.list, n)
      /\ PublishInterface(e, n) \in EntryType
  BY <1>1, <1>4 DEF PublishInterface, EntryType
<1> QED BY <1>1, <1>2, <1>3, <1>4, <1>5 DEF e

LEMMA InUseKeeps ==
  ASSUME PointersInv, NEW n \in Names, n \notin alive
  PROVE  /\ InUse(n) \in [Interfaces -> EntryType]
         /\ \A i \in Interfaces : InUse(n)[i].list = Published(n)[i].list
<1> SUFFICES ASSUME NEW i \in Interfaces
             PROVE  /\ InUse(n)[i] \in EntryType
                    /\ InUse(n)[i].list = Published(n)[i].list
  BY DEF InUse
<1> DEFINE e == Published(n)[i]
<1>1. e \in EntryType
  BY PublishedKeeps
<1>2. InUse(n)[i] = IF i \in libs[n].needs THEN UseInterface(e) ELSE e
  BY DEF InUse
<1> HIDE DEF e
<1>3. UseInterface(e) \in EntryType /\ UseInterface(e).list = e.list
  BY <1>1 DEF UseInterface, EntryType
<1> QED BY <1>1, <1>2, <1>3 DEF e

\* What the destructor of n does to any table.
LEMMA DestroyKeeps ==
  ASSUME NEW n \in Names, NEW table \in [Interfaces -> EntryType],
         NEW i \in Interfaces, NEW who, Keeps(table[i].list, who, aborted)
  PROVE  /\ Destroy(n, table)[i] \in EntryType
         /\ Keeps(Destroy(n, table)[i].list, who, aborted)
         /\ i \in libs[n].provides =>
              Keeps(Destroy(n, table)[i].list, who \ {n}, aborted)
<1> DEFINE e == table[i]
           done == IF i \in libs[n].needs THEN DoneWithInterface(e) ELSE e
           rest == Detach(done.list, n)
<1>1. e \in EntryType /\ Keeps(e.list, who, aborted)
  OBVIOUS
<1>2. Destroy(n, table)[i] =
        IF i \in libs[n].provides THEN UnpublishInterface(done, n) ELSE done
  BY DEF Destroy
<1> HIDE DEF e
<1>3. done \in EntryType /\ done.list = e.list /\ e.list \in Seq(Names)
  BY <1>1 DEF DoneWithInterface, EntryType
<1> HIDE DEF done
<1>4. Keeps(rest, who \ {n}, aborted) /\ rest \in Seq(Names)
  BY <1>1, <1>3, ModuleNames, KeepsDetach
<1>5. Keeps(<<>>, who \ {n}, aborted) /\ <<>> \in Seq(Names)
  BY KeepsEmpty, EmptySeq
<1> HIDE DEF rest
<1>6. /\ UnpublishInterface(done, n) \in EntryType
      /\ UnpublishInterface(done, n).list = rest
  BY <1>3, <1>4, <1>5 DEF UnpublishInterface, rest, Absent, EntryType
<1>7. Keeps(rest, who, aborted)
  BY <1>4, KeepsMore
<1> QED BY <1>1, <1>2, <1>3, <1>4, <1>6, <1>7

LEMMA LoadableIsNamed ==
  ASSUME PointersInv, NEW n, ~NotLoadable(n)
  PROVE  n \in Names /\ n \notin alive
BY DEF NotLoadable, InDirectory, PointersInv, ModulesTypeOK

LEMMA PublishFeatureKeeps ==
  ASSUME PointersInv, NEW n \in Names, ~FeatureTaken(n)
  PROVE  LET table == PublishFeature(FeatureTable, libs[n].feature, n) IN
         /\ table \in [Features -> Names \cup {NoModule}]
         /\ \A f \in Features :
              /\ f = libs[n].feature => table[f] = n
              /\ f # libs[n].feature => table[f] = FeatureTable[f]
<1>1. "none" \notin Features
  BY ModuleNames
<1> QED BY <1>1 DEF PointersInv, ModulesTypeOK, PublishFeature, FeatureTaken

LEMMA UnpublishFeatureKeeps ==
  ASSUME NEW table \in [Features -> Names \cup {NoModule}], NEW f
  PROVE  /\ UnpublishFeature(table, f) \in [Features -> Names \cup {NoModule}]
         /\ \A g \in Features :
              UnpublishFeature(table, f)[g] = IF g = f THEN NoModule ELSE table[g]
BY DEF UnpublishFeature

\* An exception: whatever was registered was registered for one that has
\* joined the aborted ones.
LEMMA PointersLoadThrows ==
  ASSUME PointersInv, NEW n, LoadThrows(n), UNCHANGED libs
  PROVE  PointersInv'
<1>1. n \in Names /\ n \notin alive
  BY LoadableIsNamed DEF LoadThrows
<1>2. /\ aborted' = aborted \cup {n} /\ Modules' = Modules /\ alive' = alive
      /\ prioritizing' = prioritizing /\ libs' = libs
      /\ \A h : Hooked(h)' = Hooked(h)
      /\ \A i : Providers(i)' = Providers(i)
      /\ \A f : Publishers(f)' = Publishers(f)
  BY DEF LoadThrows, Hooked, Providers, Publishers
<1>3. CASE FeatureTaken(n)
  <2>1. /\ EventHandlers' = EventHandlers /\ InterfaceTable' = InterfaceTable
        /\ FeatureTable' = FeatureTable
    BY <1>3 DEF LoadThrows, ConstructorThrows, registries
  <2>2. ModulesTypeOK'
    BY <1>1, <1>2, <2>1 DEF PointersInv, ModulesTypeOK
  <2>3. \A h \in Hooks : Keeps(EventHandlers[h], Hooked(h), aborted \cup {n})
    BY KeepsMore DEF PointersInv
  <2>4. \A i \in Interfaces :
          Keeps(InterfaceTable[i].list, Providers(i), aborted \cup {n})
    BY KeepsMore DEF PointersInv
  <2> QED BY <1>2, <2>1, <2>2, <2>3, <2>4 DEF PointersInv
<1>4. CASE ~FeatureTaken(n)
  <2>1. /\ EventHandlers' = Attached(n) /\ InterfaceTable' = Published(n)
        /\ FeatureTable' = PublishFeature(FeatureTable, libs[n].feature, n)
    BY <1>4 DEF LoadThrows, ConstructorThrows
  <2>2. /\ Attached(n) \in [Hooks -> Seq(Names)]
        /\ Published(n) \in [Interfaces -> EntryType]
        /\ FeatureTable' \in [Features -> Names \cup {NoModule}]
    BY <1>1, <1>4, <2>1, AttachedKeeps, PublishedKeeps, PublishFeatureKeeps
  <2>3. ModulesTypeOK'
    BY <1>1, <1>2, <2>1, <2>2 DEF PointersInv, ModulesTypeOK
  <2>4. ASSUME NEW h \in Hooks
        PROVE  Keeps(Attached(n)[h], Hooked(h), aborted \cup {n})
    <3>1. Keeps(Attached(n)[h], Hooked(h) \cup {n}, aborted)
      BY <1>1, AttachedKeeps
    <3> QED BY <3>1 DEF Keeps
  <2>5. ASSUME NEW i \in Interfaces
        PROVE  Keeps(Published(n)[i].list, Providers(i), aborted \cup {n})
    <3>1. Keeps(Published(n)[i].list, Providers(i) \cup {n}, aborted)
      BY <1>1, PublishedKeeps
    <3> QED BY <3>1 DEF Keeps
  <2>6. \A f \in Features :
          FeatureTable'[f] \in Publishers(f) \cup aborted \cup {n, NoModule}
    BY <1>1, <1>4, <2>1, PublishFeatureKeeps DEF PointersInv
  <2> QED BY <1>2, <2>1, <2>3, <2>4, <2>5, <2>6 DEF PointersInv
<1> QED BY <1>3, <1>4

\* Another API version: the object goes as it came.
LEMMA PointersLoadWrongAPI ==
  ASSUME PointersInv, NEW n, LoadWrongAPI(n), UNCHANGED libs
  PROVE  PointersInv'
<1>1. n \in Names /\ n \notin alive /\ ~FeatureTaken(n)
  BY LoadableIsNamed DEF LoadWrongAPI, Throws
<1>2. /\ aborted' = aborted /\ Modules' = Modules /\ alive' = alive
      /\ prioritizing' = prioritizing /\ libs' = libs
      /\ \A h : Hooked(h)' = Hooked(h) /\ n \notin Hooked(h)
      /\ \A i : Providers(i)' = Providers(i) /\ n \notin Providers(i)
      /\ \A f : Publishers(f)' = Publishers(f)
  BY <1>1 DEF LoadWrongAPI, Hooked, Providers, Publishers
<1>3. /\ EventHandlers' = [h \in Hooks |-> Detach(Attached(n)[h], n)]
      /\ InterfaceTable' = Destroy(n, InUse(n))
  BY DEF LoadWrongAPI, DetachAll
<1>4. ASSUME NEW h \in Hooks
      PROVE  /\ Detach(Attached(n)[h], n) \in Seq(Names)
             /\ Keeps(Detach(Attached(n)[h], n), Hooked(h), aborted)
  <2>1. /\ Attached(n)[h] \in Seq(Names)
        /\ Keeps(Attached(n)[h], Hooked(h) \cup {n}, aborted)
    BY <1>1, AttachedKeeps
  <2>2. /\ Keeps(Detach(Attached(n)[h], n), (Hooked(h) \cup {n}) \ {n}, aborted)
        /\ Detach(Attached(n)[h], n) \in Seq(Names)
    BY <1>1, <2>1, ModuleNames, KeepsDetach
  <2>3. (Hooked(h) \cup {n}) \ {n} = Hooked(h)
    BY <1>2
  <2> QED BY <2>2, <2>3
<1>5. InUse(n) \in [Interfaces -> EntryType]
  BY <1>1, InUseKeeps
<1>6. ASSUME NEW i \in Interfaces
      PROVE  /\ Destroy(n, InUse(n))[i] \in EntryType
             /\ Keeps(Destroy(n, InUse(n))[i].list, Providers(i), aborted)
  <2>1. InUse(n)[i].list = Published(n)[i].list
    BY <1>1, InUseKeeps
  <2>2. CASE i \in libs[n].provides
    <3>1. Keeps(InUse(n)[i].list, Providers(i) \cup {n}, aborted)
      BY <1>1, <2>1, PublishedKeeps
    <3>2. /\ Keeps(Destroy(n, InUse(n))[i].list, (Providers(i) \cup {n}) \ {n},
                   aborted)
          /\ Destroy(n, InUse(n))[i] \in EntryType
      BY <1>1, <1>5, <2>2, <3>1, DestroyKeeps
    <3>3. (Providers(i) \cup {n}) \ {n} = Providers(i)
      BY <1>2
    <3> QED BY <3>2, <3>3
  <2>3. CASE i \notin libs[n].provides
    <3>1. Keeps(InUse(n)[i].list, Providers(i), aborted)
      BY <1>1, <2>1, <2>3, PublishedKeeps DEF PointersInv
    <3> QED BY <1>1, <1>5, <3>1, DestroyKeeps
  <2> QED BY <2>2, <2>3
<1>7. Destroy(n, InUse(n)) \in [Interfaces -> EntryType]
  BY <1>6 DEF Destroy
<1>8. /\ FeatureTable' \in [Features -> Names \cup {NoModule}]
      /\ \A f \in Features :
           FeatureTable'[f] = IF f = libs[n].feature THEN NoModule
                              ELSE FeatureTable[f]
  <2> DEFINE table == PublishFeature(FeatureTable, libs[n].feature, n)
  <2>1. /\ table \in [Features -> Names \cup {NoModule}]
        /\ \A f \in Features : f # libs[n].feature => table[f] = FeatureTable[f]
    BY <1>1, PublishFeatureKeeps
  <2>2. FeatureTable' = UnpublishFeature(table, libs[n].feature)
    BY DEF LoadWrongAPI
  <2> HIDE DEF table
  <2> QED BY <2>1, <2>2, UnpublishFeatureKeeps
<1>9. ModulesTypeOK'
  BY <1>2, <1>3, <1>4, <1>7, <1>8 DEF PointersInv, ModulesTypeOK
<1>10. \A f \in Features :
         FeatureTable'[f] \in Publishers(f) \cup aborted \cup {NoModule}
  BY <1>8 DEF PointersInv
<1> QED BY <1>2, <1>3, <1>4, <1>6, <1>9, <1>10 DEF PointersInv

LEMMA PointersLoadSucceeds ==
  ASSUME PointersInv, NEW n, LoadSucceeds(n), UNCHANGED libs
  PROVE  PointersInv'
<1>1. n \in Names /\ n \notin alive /\ ~FeatureTaken(n)
  BY LoadableIsNamed DEF LoadSucceeds, Throws
<1>2. /\ aborted' = aborted /\ Modules' = Modules \cup {n}
      /\ alive' = alive \cup {n} /\ prioritizing' = Modules' /\ libs' = libs
      /\ EventHandlers' = Attached(n) /\ InterfaceTable' = InUse(n)
      /\ FeatureTable' = PublishFeature(FeatureTable, libs[n].feature, n)
  BY DEF LoadSucceeds
<1>3. /\ \A h \in Hooks : h \in libs[n].hooks => Hooked(h)' = Hooked(h) \cup {n}
      /\ \A h \in Hooks : Hooked(h) \subseteq Hooked(h)'
      /\ \A i \in Interfaces :
           i \in libs[n].provides => Providers(i)' = Providers(i) \cup {n}
      /\ \A i \in Interfaces : Providers(i) \subseteq Providers(i)'
      /\ \A f \in Features : Publishers(f) \subseteq Publishers(f)'
      /\ \A f \in Features : f = libs[n].feature => n \in Publishers(f)'
  BY <1>2 DEF Hooked, Providers, Publishers
<1>4. /\ Attached(n) \in [Hooks -> Seq(Names)]
      /\ InUse(n) \in [Interfaces -> EntryType]
      /\ FeatureTable' \in [Features -> Names \cup {NoModule}]
      /\ \A f \in Features :
           /\ f = libs[n].feature => FeatureTable'[f] = n
           /\ f # libs[n].feature => FeatureTable'[f] = FeatureTable[f]
  BY <1>1, <1>2, AttachedKeeps, InUseKeeps, PublishFeatureKeeps
<1>5. ModulesTypeOK'
  BY <1>1, <1>2, <1>4 DEF PointersInv, ModulesTypeOK
<1>6. ASSUME NEW h \in Hooks
      PROVE  Keeps(Attached(n)[h], Hooked(h)', aborted)
  <2>1. CASE h \in libs[n].hooks
    <3>1. Keeps(Attached(n)[h], Hooked(h) \cup {n}, aborted)
      BY <1>1, AttachedKeeps
    <3> QED BY <1>3, <2>1, <3>1
  <2>2. CASE h \notin libs[n].hooks
    <3>1. Keeps(Attached(n)[h], Hooked(h), aborted)
      BY <1>1, <2>2, AttachedKeeps
    <3> QED BY <1>3, <3>1 DEF Keeps
  <2> QED BY <2>1, <2>2
<1>7. ASSUME NEW i \in Interfaces
      PROVE  Keeps(InUse(n)[i].list, Providers(i)', aborted)
  <2>1. InUse(n)[i].list = Published(n)[i].list
    BY <1>1, InUseKeeps
  <2>2. CASE i \in libs[n].provides
    <3>1. Keeps(Published(n)[i].list, Providers(i) \cup {n}, aborted)
      BY <1>1, PublishedKeeps
    <3> QED BY <1>3, <2>1, <2>2, <3>1
  <2>3. CASE i \notin libs[n].provides
    <3>1. Published(n)[i] = InterfaceTable[i]
      BY <1>1, <2>3, PublishedKeeps
    <3>2. Keeps(InterfaceTable[i].list, Providers(i), aborted)
      BY DEF PointersInv
    <3> QED BY <1>3, <2>1, <3>1, <3>2 DEF Keeps
  <2> QED BY <2>2, <2>3
<1>8. \A f \in Features :
        FeatureTable'[f] \in Publishers(f)' \cup aborted \cup {NoModule}
  BY <1>3, <1>4 DEF PointersInv
<1> QED BY <1>2, <1>5, <1>6, <1>7, <1>8 DEF PointersInv

LEMMA PointersUnloadSucceeds ==
  ASSUME PointersInv, NEW n, UnloadSucceeds(n), UNCHANGED libs
  PROVE  PointersInv'
<1>1. n \in Modules /\ n \in Names
  BY DEF UnloadSucceeds, UnloadRefusal, PointersInv, ModulesTypeOK
<1>2. /\ aborted' = aborted /\ Modules' = Modules \ {n}
      /\ alive' = alive \ {n} /\ prioritizing' = prioritizing /\ libs' = libs
      /\ EventHandlers' = [h \in Hooks |-> Detach(EventHandlers[h], n)]
      /\ InterfaceTable' = Destroy(n, InterfaceTable)
      /\ FeatureTable' = UnpublishFeature(FeatureTable, libs[n].feature)
  BY DEF UnloadSucceeds, DetachAll
<1>3. /\ \A h \in Hooks : Hooked(h)' = Hooked(h) \ {n}
      /\ \A i \in Interfaces : Providers(i)' = Providers(i) \ {n}
      /\ \A i \in Interfaces :
           i \notin libs[n].provides => Providers(i)' = Providers(i)
      /\ \A f \in Features : Publishers(f)' = Publishers(f) \ {n}
  BY <1>2 DEF Hooked, Providers, Publishers
<1>4. ASSUME NEW h \in Hooks
      PROVE  /\ Detach(EventHandlers[h], n) \in Seq(Names)
             /\ Keeps(Detach(EventHandlers[h], n), Hooked(h)', aborted)
  <2>1. EventHandlers[h] \in Seq(Names) /\ Keeps(EventHandlers[h], Hooked(h), aborted)
    BY DEF PointersInv, ModulesTypeOK
  <2>2. /\ Keeps(Detach(EventHandlers[h], n), Hooked(h) \ {n}, aborted)
        /\ Detach(EventHandlers[h], n) \in Seq(Names)
    BY <1>1, <2>1, ModuleNames, KeepsDetach
  <2> QED BY <1>3, <2>2
<1>5. InterfaceTable \in [Interfaces -> EntryType]
  BY DEF PointersInv, ModulesTypeOK
<1>6. ASSUME NEW i \in Interfaces
      PROVE  /\ Destroy(n, InterfaceTable)[i] \in EntryType
             /\ Keeps(Destroy(n, InterfaceTable)[i].list, Providers(i)', aborted)
  <2>1. Keeps(InterfaceTable[i].list, Providers(i), aborted)
    BY DEF PointersInv
  <2>2. /\ Destroy(n, InterfaceTable)[i] \in EntryType
        /\ Keeps(Destroy(n, InterfaceTable)[i].list, Providers(i), aborted)
        /\ i \in libs[n].provides =>
             Keeps(Destroy(n, InterfaceTable)[i].list, Providers(i) \ {n}, aborted)
    BY <1>1, <1>5, <2>1, DestroyKeeps
  <2> QED BY <1>3, <2>2
<1>7. Destroy(n, InterfaceTable) \in [Interfaces -> EntryType]
  BY <1>6 DEF Destroy
<1>8. /\ FeatureTable' \in [Features -> Names \cup {NoModule}]
      /\ \A f \in Features :
           FeatureTable'[f] = IF f = libs[n].feature THEN NoModule
                              ELSE FeatureTable[f]
  BY <1>2, UnpublishFeatureKeeps DEF PointersInv, ModulesTypeOK
<1>9. ModulesTypeOK'
  BY <1>2, <1>4, <1>7, <1>8 DEF PointersInv, ModulesTypeOK
<1>10. \A f \in Features :
         FeatureTable'[f] \in Publishers(f)' \cup aborted \cup {NoModule}
  <2> SUFFICES ASSUME NEW f \in Features, f # libs[n].feature
               PROVE  FeatureTable[f] \in Publishers(f)' \cup aborted \cup {NoModule}
    BY <1>8
  <2>1. n \notin Publishers(f)
    BY DEF Publishers
  <2> QED BY <1>3, <2>1 DEF PointersInv
<1> QED BY <1>2, <1>4, <1>6, <1>9, <1>10 DEF PointersInv

LEMMA PointersPrioritize ==
  ASSUME PointersInv, Prioritize
  PROVE  PointersInv'
<1> DEFINE n == Least(prioritizing)
           wish == [libs[n].wish EXCEPT !.others = @ \cap Modules]
<1>1. n \in Names
  BY ModuleNames, LeastExists DEF Prioritize, PointersInv, ModulesTypeOK
<1>2. /\ EventHandlers' =
           [h \in Hooks |-> IF h \in libs[n].hooks
                            THEN SetPriority(EventHandlers[h], n, wish)
                            ELSE EventHandlers[h]]
      /\ prioritizing' = prioritizing \ {n}
      /\ libs' = libs /\ Modules' = Modules /\ alive' = alive
      /\ aborted' = aborted /\ InterfaceTable' = InterfaceTable
      /\ FeatureTable' = FeatureTable
      /\ \A h : Hooked(h)' = Hooked(h)
      /\ \A i : Providers(i)' = Providers(i)
      /\ \A f : Publishers(f)' = Publishers(f)
  BY DEF Prioritize, Hooked, Providers, Publishers
<1> HIDE DEF n, wish
<1>3. ASSUME NEW h \in Hooks
      PROVE  /\ SetPriority(EventHandlers[h], n, wish) \in Seq(Names)
             /\ Keeps(SetPriority(EventHandlers[h], n, wish), Hooked(h), aborted)
             /\ EventHandlers[h] \in Seq(Names)
             /\ Keeps(EventHandlers[h], Hooked(h), aborted)
  <2>1. EventHandlers[h] \in Seq(Names) /\ Keeps(EventHandlers[h], Hooked(h), aborted)
    BY DEF PointersInv, ModulesTypeOK
  <2> QED BY <1>1, <2>1, KeepsPriority
<1>4. ModulesTypeOK'
  BY <1>2, <1>3 DEF PointersInv, ModulesTypeOK
<1> QED BY <1>2, <1>3, <1>4 DEF PointersInv

\* Nothing that the pointers depend on.
pointed == <<libs, Modules, alive, aborted, registries, prioritizing>>
LEMMA PointersUnchanged == PointersInv /\ UNCHANGED pointed => PointersInv'
<1> SUFFICES ASSUME PointersInv, UNCHANGED pointed PROVE PointersInv'
  OBVIOUS
<1>1. /\ libs' = libs /\ Modules' = Modules /\ alive' = alive
      /\ aborted' = aborted /\ EventHandlers' = EventHandlers
      /\ InterfaceTable' = InterfaceTable /\ FeatureTable' = FeatureTable
      /\ prioritizing' = prioritizing
  BY DEF pointed, registries
<1>2. /\ \A h : Hooked(h)' = Hooked(h)
      /\ \A i : Providers(i)' = Providers(i)
      /\ \A f : Publishers(f)' = Publishers(f)
  BY <1>1 DEF Hooked, Providers, Publishers
<1>3. ModulesTypeOK'
  BY <1>1 DEF PointersInv, ModulesTypeOK
<1> QED BY <1>1, <1>2, <1>3 DEF PointersInv

LEMMA PointersLoad ==
  ASSUME PointersInv, NEW n, LoadFails(n) \/ LoadSucceeds(n), UNCHANGED libs
  PROVE  PointersInv'
<1>1. CASE LoadRefused(n)
  BY <1>1, PointersUnchanged DEF LoadRefused, pointed
<1> QED BY <1>1, PointersLoadThrows, PointersLoadWrongAPI,
           PointersLoadSucceeds DEF LoadFails

LEMMA PointersUnload ==
  ASSUME PointersInv, NEW n, Unload(n), UNCHANGED libs
  PROVE  PointersInv'
<1>1. CASE UnloadFails(n)
  BY <1>1, PointersUnchanged DEF UnloadFails, pointed
<1> QED BY <1>1, PointersUnloadSucceeds DEF Unload

LEMMA PointersModules == PointersInv /\ [ModuleNext]_moduleVars => PointersInv'
<1> SUFFICES ASSUME PointersInv, [ModuleNext]_moduleVars PROVE PointersInv'
  OBVIOUS
<1>1. CASE UNCHANGED moduleVars
  BY <1>1, PointersUnchanged DEF moduleVars, pointed
<1>2. ASSUME NEW n \in Names, LoadModule(n) PROVE PointersInv'
  BY <1>2, PointersLoad DEF LoadModule
<1>3. ASSUME NEW n \in Names, UnloadModule(n) PROVE PointersInv'
  BY <1>3, PointersUnload DEF UnloadModule
<1> QED BY <1>1, <1>2, <1>3, PointersPrioritize DEF ModuleNext

\* The start and the end of the server change the modules through Load and
\* Unload alone, and load no module before the last one has its place.
LEMMA StartupModules ==
  ASSUME StartupNext
  PROVE  \/ UNCHANGED pointed
         \/ \E n : /\ prioritizing = {}
                   /\ (LoadFails(n) \/ LoadSucceeds(n)) /\ UNCHANGED libs
         \/ \E n : Unload(n) /\ UNCHANGED libs
         \/ Prioritize
<1> USE DEF moduleVars, pointed
<1>1. CASE Options
  BY <1>1 DEF Options
<1>2. CASE OpenLog
  BY <1>2 DEF OpenLog
<1>3. CASE SetSignals
  BY <1>3 DEF SetSignals
<1>4. CASE DaemonSeed
  BY <1>4 DEF DaemonSeed
<1>5. CASE Child
  BY <1>5 DEF Child
<1>6. CASE ConfigRead
  <2>1. Read
    BY <1>6 DEF ConfigRead
  <2>2. CASE ReadFile
    BY <2>2 DEF ReadFile
  <2>3. CASE ReadValue
    BY <2>3 DEF ReadValue
  <2>4. CASE ReadModules
    BY <2>4 DEF ReadModules
  <2>5. CASE SkipModule
    BY <2>5 DEF SkipModule
  <2>6. CASE LoadOne
    BY <2>6 DEF LoadOne, LoadingModules
  <2>7. CASE OpenDirectory
    BY <2>7 DEF OpenDirectory
  <2>8. CASE LoadMatch
    BY <2>8 DEF LoadMatch
  <2>9. CASE CloseDirectory
    BY <2>9 DEF CloseDirectory
  <2>10. CASE EndLoading
    BY <2>10 DEF EndLoading
  <2>11. CASE ReadPrioritizes
    BY <2>11 DEF ReadPrioritizes
  <2>12. CASE CheckOnce
    BY <2>12 DEF CheckOnce
  <2> QED BY <2>1, <2>2, <2>3, <2>4, <2>5, <2>6, <2>7, <2>8, <2>9, <2>10,
             <2>11, <2>12 DEF Read
<1>7. CASE TryPID
  BY <1>7 DEF TryPID
<1>8. CASE BindPort
  BY <1>8 DEF BindPort
<1>9. CASE BindPorts
  BY <1>9 DEF BindPorts
<1>10. CASE KillParent
  BY <1>10 DEF KillParent
<1>11. CASE ChRoot
  BY <1>11 DEF ChRoot, Privileges
<1>12. CASE SetUser
  BY <1>12 DEF SetUser, Privileges
<1>13. CASE SetGroup
  BY <1>13 DEF SetGroup, Privileges
<1>14. CASE FinalPID
  BY <1>14 DEF FinalPID
<1>15. CASE Main
  BY <1>15 DEF Main
<1>16. CASE StartCleanup
  BY <1>16 DEF StartCleanup
<1>17. CASE UnloadNext
  BY <1>17 DEF UnloadNext
<1>18. CASE NextRound
  BY <1>18 DEF NextRound
<1>19. CASE CloseLog
  BY <1>19 DEF CloseLog
<1>20. CASE ParentLooks
  BY <1>20 DEF ParentLooks
<1>21. CASE SigTerm
  BY <1>21 DEF SigTerm
<1>22. CASE ParentKilled
  BY <1>22 DEF ParentKilled
<1> QED
  BY <1>1, <1>2, <1>3, <1>4, <1>5, <1>6, <1>7, <1>8, <1>9, <1>10, <1>11,
     <1>12, <1>13, <1>14, <1>15, <1>16, <1>17, <1>18, <1>19, <1>20, <1>21,
     <1>22 DEF StartupNext, MainThread

LEMMA PointersStartup ==
  PointersInv /\ [StartupNext]_startupVars => PointersInv'
<1>1. UNCHANGED startupVars => UNCHANGED pointed
  BY DEF startupVars, moduleVars, pointed
<1> QED BY <1>1, StartupModules, PointersUnchanged, PointersLoad,
           PointersUnload, PointersPrioritize

LEMMA PointersAreGood == PointersInv => NoDangling
<1> SUFFICES ASSUME PointersInv, NEW n, n \in Pointers, n # NoModule
             PROVE  n \in alive \cup aborted
  BY DEF NoDangling, PointersInv, ModulesTypeOK
<1>1. ASSUME NEW s, NEW who, Keeps(s, who, aborted), who \subseteq alive,
             n \in Listed(s)
      PROVE  n \in alive \cup aborted
  BY <1>1 DEF Keeps, Listed
<1>2. \A h : Hooked(h) \subseteq alive
  BY DEF Hooked
<1>3. \A i : Providers(i) \subseteq alive
  BY DEF Providers
<1>4. \A f : Publishers(f) \subseteq alive
  BY DEF Publishers
<1>5. \/ \E h \in Hooks : n \in Listed(EventHandlers[h])
      \/ \E i \in Interfaces : n \in Listed(InterfaceTable[i].list)
      \/ \E f \in Features : n = FeatureTable[f]
  <2> DEFINE A == UNION {Listed(EventHandlers[h]) : h \in Hooks}
             B == UNION {Listed(InterfaceTable[i].list) : i \in Interfaces}
             C == {FeatureTable[f] : f \in Features}
  <2>1. n \in A => \E h \in Hooks : n \in Listed(EventHandlers[h])
    OBVIOUS
  <2>2. n \in B => \E i \in Interfaces : n \in Listed(InterfaceTable[i].list)
    OBVIOUS
  <2>3. n \in C => \E f \in Features : n = FeatureTable[f]
    OBVIOUS
  <2>4. Pointers = A \cup B \cup C
    BY DEF Pointers
  <2> HIDE DEF A, B, C
  <2>5. n \in A \/ n \in B \/ n \in C
    BY <2>4
  <2> QED BY <2>1, <2>2, <2>3, <2>5
<1> QED BY <1>1, <1>2, <1>3, <1>4, <1>5 DEF PointersInv

\* Each handler in a hook, each implementation of an interface and each
\* feature is a module that is there, whatever is loaded and unloaded in
\* whatever order, by whoever asks, but for those whose constructor threw
\* after it had registered them.
THEOREM NothingDangles == ModulesSpec => []NoDangling
BY PointersInitially, PointersModules, PointersAreGood, PTL DEF ModulesSpec

\* The same of the server from main() to the end of Exit.
THEOREM NothingDanglesInTheServer == StartupSpec => []NoDangling
<1>1. StartupInit => PointersInv
  BY PointersInitially DEF StartupInit
<1> QED BY <1>1, PointersStartup, PointersAreGood, PTL DEF StartupSpec

-----------------------------------------------------------------------------
(* Places.  Load asks the modules one after the other where they want to be, *)
(* so that in between the one that cares is in its place or has still to be  *)
(* asked; and one that is to be before others must be at the end until then, *)
(* since only from there does SetPriority move it.  A module that is erased  *)
(* leaves the others in their order.  A constructor that threw leaves a      *)
(* handler that nobody may rely on (aborted).                                *)

CalledLast(s, n) == Positions(s, {n}) \subseteq {Len(s)}
OnItsWay(s, n) ==
  /\ n \notin prioritizing => InPlace(s, n)
  /\ libs[n].wish.state = "PRIO_BEFORE" => InPlace(s, n) \/ CalledLast(s, n)

PlacesInv ==
  aborted = {} =>
    \A n \in Modules : \A h \in libs[n].hooks :
      OnlyWish(n) => OnItsWay(EventHandlers[h], n)

\* A list that keeps to modules that are there has nobody else, each once.
LEMMA KeepsStrictly ==
  ASSUME NEW s \in Seq(Names), NEW who, Keeps(s, who, {})
  PROVE  /\ \A x \in 1 .. Len(s) : s[x] \in who
         /\ \A x, y \in 1 .. Len(s) : s[x] = s[y] => x = y
BY DEF Keeps

\* Who comes later is behind those who want to be before others.
LEMMA BeforeOnAttach ==
  ASSUME NEW s \in Seq(Names), NEW n \in Names, NEW m \in Names, n # m,
         libs[n].wish.state = "PRIO_BEFORE", InPlace(s, n)
  PROVE  InPlace(Attach(s, m), n)
<1>1. CASE m \in Listed(s)
  BY <1>1 DEF Attach
<1>2. CASE m \notin Listed(s)
  <2> DEFINE t == Append(s, m)
             others == libs[n].wish.others \ {n}
  <2>1. /\ Len(s) \in Nat /\ Len(t) = Len(s) + 1 /\ t[Len(s) + 1] = m
        /\ \A i \in 1 .. Len(s) : t[i] = s[i]
    BY AppendProperties, LenProperties
  <2>2. Attach(s, m) = t
    BY <1>2 DEF Attach
  <2> HIDE DEF t
  <2>3. \A x \in Positions(s, {n}), y \in Positions(s, others) : x < y
    BY DEF InPlace
  <2>4. \A x \in Positions(t, {n}) : x \in Positions(s, {n}) /\ x < Len(s) + 1
    BY <2>1 DEF Positions
  <2>5. \A y \in Positions(t, others) :
          y \in Positions(s, others) \/ y = Len(s) + 1
    BY <2>1 DEF Positions
  <2>6. \A x \in Positions(t, {n}), y \in Positions(t, others) : x < y
    BY <2>3, <2>4, <2>5
  <2> QED BY <2>2, <2>6 DEF InPlace
<1> QED BY <1>1, <1>2

\* Whoever is attached anew is called last.
LEMMA LastOnAttach ==
  ASSUME NEW s \in Seq(Names), NEW n \in Names, n \notin Listed(s)
  PROVE  CalledLast(Attach(s, n), n)
<1>1. /\ Len(s) \in Nat /\ Len(Append(s, n)) = Len(s) + 1
      /\ \A i \in 1 .. Len(s) : Append(s, n)[i] = s[i]
  BY AppendProperties, LenProperties
<1> QED BY <1>1 DEF Attach, CalledLast, Positions, Listed

\* Attached and erased again.
LEMMA DetachUndoesAttach ==
  ASSUME NEW s \in Seq(Names), NEW n \in Names, n \notin Listed(s)
  PROVE  /\ Detach(Attach(s, n), n) = s
         /\ Detach(s, n) = s
<1> DEFINE t == Append(s, n)
<1>1. /\ t \in Seq(Names) /\ Len(s) \in Nat /\ Len(t) = Len(s) + 1
      /\ t[Len(s) + 1] = n
      /\ \A i \in 1 .. Len(s) : t[i] = s[i]
  BY AppendProperties, LenProperties
<1>2. Attach(s, n) = t
  BY DEF Attach
<1> HIDE DEF t
<1>3. Positions(t, {n}) = {Len(t)}
  BY <1>1 DEF Positions, Listed
<1>4. Least({Len(t)}) = Len(t)
  BY <1>1, LeastExists
<1>5. Detach(t, n) = Without(t, Len(t))
  BY <1>3, <1>4 DEF Detach, Without
<1>6. Len(t) \in 1 .. Len(t)
  BY <1>1
<1>7. /\ Without(t, Len(t)) \in Seq(Names) /\ Len(Without(t, Len(t))) = Len(s)
      /\ \A i \in 1 .. Len(s) : Without(t, Len(t))[i] = s[i]
  <2>1. /\ Without(t, Len(t)) \in Seq(Names)
        /\ Len(Without(t, Len(t))) = Len(t) - 1
        /\ \A i \in 1 .. Len(t) - 1 : Without(t, Len(t))[i] = t[i]
    BY <1>1, <1>6, Erased
  <2>2. Len(t) - 1 = Len(s)
    BY <1>1
  <2> QED BY <1>1, <2>1, <2>2
<1>8. Without(t, Len(t)) = s
  <2> DEFINE u == Without(t, Len(t))
  <2>1. u \in Seq(Names) /\ Len(u) = Len(s) /\ \A i \in 1 .. Len(u) : u[i] = s[i]
    BY <1>7
  <2> HIDE DEF u
  <2>2. u = s
    BY <2>1, SeqEqual
  <2> QED BY <2>2 DEF u
<1>9. Positions(s, {n}) = {}
  BY DEF Positions, Listed
<1> QED BY <1>2, <1>5, <1>8, <1>9 DEF Detach

\* Those that stay keep their order.
LEMMA PlaceOnDetach ==
  ASSUME NEW s \in Seq(Names), NEW n \in Names, NEW m \in Names, n # m,
         Names \subseteq Nat
  PROVE  /\ InPlace(s, n) => InPlace(Detach(s, m), n)
         /\ CalledLast(s, n) => CalledLast(Detach(s, m), n)
<1>1. CASE Positions(s, {m}) = {}
  BY <1>1 DEF Detach
<1>2. CASE Positions(s, {m}) # {}
  <2> DEFINE x == Least(Positions(s, {m}))
             others == libs[n].wish.others \ {n}
  <2>1. x \in 1 .. Len(s) /\ s[x] = m
    <3>1. Positions(s, {m}) \subseteq Nat
      BY LenProperties DEF Positions
    <3>2. x \in Positions(s, {m})
      BY <1>2, <3>1, LeastExists
    <3> QED BY <3>2 DEF Positions
  <2>2. Detach(s, m) = Without(s, x)
    BY <1>2 DEF Detach, Without
  <2> HIDE DEF x
  <2> DEFINE t == Without(s, x)
  <2>3. /\ t \in Seq(Names) /\ Len(t) = Len(s) - 1 /\ Len(s) \in Nat
        /\ \A i \in 1 .. x - 1 : t[i] = s[i]
        /\ \A i \in x .. Len(s) - 1 : t[i] = s[i + 1]
    BY <2>1, Erased
  <2>4. x \in Nat
    BY <2>1, <2>3
  <2> HIDE DEF t
  <2>5. \A i \in 1 .. Len(t) :
          \/ i < x /\ i \in 1 .. Len(s) /\ t[i] = s[i]
          \/ i >= x /\ i + 1 \in 1 .. Len(s) /\ t[i] = s[i + 1]
    <3> SUFFICES ASSUME NEW i \in 1 .. Len(t)
                 PROVE  \/ i < x /\ i \in 1 .. Len(s) /\ t[i] = s[i]
                        \/ i >= x /\ i + 1 \in 1 .. Len(s) /\ t[i] = s[i + 1]
      OBVIOUS
    <3>1. CASE i < x
      BY <2>1, <2>3, <2>4, <3>1
    <3>2. CASE i >= x
      BY <2>1, <2>3, <2>4, <3>2
    <3> QED BY <2>4, <3>1, <3>2
  <2>6. CalledLast(s, n) => CalledLast(t, n)
    <3> SUFFICES ASSUME CalledLast(s, n), NEW i \in 1 .. Len(t), t[i] = n
                 PROVE  i = Len(t)
      BY DEF CalledLast, Positions
    <3>1. \A k \in 1 .. Len(s) : s[k] = n => k = Len(s)
      BY DEF CalledLast, Positions
    <3> QED BY <2>1, <2>3, <2>4, <2>5, <3>1
  <2>7. Positions(s, {n}) \subseteq {1} => Positions(t, {n}) \subseteq {1}
    <3> SUFFICES ASSUME Positions(s, {n}) \subseteq {1},
                        NEW i \in 1 .. Len(t), t[i] = n
                 PROVE  i = 1
      BY DEF Positions
    <3>1. \A k \in 1 .. Len(s) : s[k] = n => k = 1
      BY DEF Positions
    <3> QED BY <2>1, <2>3, <2>4, <2>5, <3>1
  <2>8. ASSUME \A k \in Positions(s, {n}), l \in Positions(s, others) : k < l
        PROVE  \A i \in Positions(t, {n}), j \in Positions(t, others) : i < j
    <3> SUFFICES ASSUME NEW i \in 1 .. Len(t), t[i] = n,
                        NEW j \in 1 .. Len(t), t[j] \in others
                 PROVE  i < j
      BY DEF Positions
    <3>1. \A k, l \in 1 .. Len(s) : s[k] = n /\ s[l] \in others => k < l
      BY <2>8 DEF Positions
    <3> HIDE DEF others
    <3> DEFINE was(k) == IF k < x THEN k ELSE k + 1
    <3>2. was(i) \in 1 .. Len(s) /\ s[was(i)] = n
      BY <2>3, <2>4, <2>5
    <3>3. was(j) \in 1 .. Len(s) /\ s[was(j)] \in others
      BY <2>3, <2>4, <2>5
    <3>4. was(i) < was(j)
      BY <3>1, <3>2, <3>3
    <3> QED BY <2>3, <2>4, <3>4
  <2>9. InPlace(s, n) => InPlace(t, n)
    BY <2>6, <2>7, <2>8 DEF InPlace, CalledLast
  <2> QED BY <2>2, <2>6, <2>9 DEF t
<1> QED BY <1>1, <1>2

\* A module that does not care leaves the list as it is.
LEMMA DontCare ==
  ASSUME NEW s \in Seq(Names), NEW m \in Names, NEW wish,
         wish.state = "PRIO_DONTCARE"
  PROVE  SetPriority(s, m, wish) = s
<1>1. CASE m \notin Listed(s)
  BY <1>1 DEF SetPriority
<1>2. CASE m \in Listed(s)
  <2> DEFINE a == Least(Positions(s, {m}))
  <2>1. Positions(s, {m}) \subseteq Nat /\ Positions(s, {m}) # {}
    BY <1>2, LenProperties DEF Positions, Listed
  <2>2. a \in Positions(s, {m})
    BY <2>1, LeastExists
  <2>3. a \in 1 .. Len(s) /\ s[a] = m
    BY <2>2 DEF Positions
  <2>4. SwapPosition(s, a, wish) = a
    BY DEF SwapPosition
  <2>5. SetPriority(s, m, wish) = [s EXCEPT ![a] = s[a], ![a] = m]
    BY <1>2, <2>4 DEF SetPriority
  <2> HIDE DEF a
  <2>6. s = [x \in 1 .. Len(s) |-> s[x]]
    BY LenProperties
  <2> QED BY <2>3, <2>5, <2>6
<1> QED BY <1>1, <1>2

\* The one that cares has its place when it was asked, if its wish is to be
\* first or last whatever the list, and if it is to be before others when it
\* was last.
LEMMA PlaceOnPriority ==
  ASSUME NEW s \in Seq(Names), NEW n \in Names, NEW who, NEW wish,
         Keeps(s, who, {}), Names \subseteq Nat,
         wish.state = libs[n].wish.state,
         wish.others = libs[n].wish.others \cap who,
         wish.state = "PRIO_BEFORE" => InPlace(s, n) \/ CalledLast(s, n)
  PROVE  InPlace(SetPriority(s, n, wish), n)
<1>1. CASE n \notin Listed(s)
  BY <1>1 DEF SetPriority, InPlace, Positions, Listed
<1>2. CASE n \in Listed(s)
  <2> DEFINE a == Least(Positions(s, {n}))
             b == SwapPosition(s, a, wish)
             t == [s EXCEPT ![a] = s[b], ![b] = n]
             others == Positions(s, wish.others)
  <2>1. Positions(s, {n}) \subseteq Nat /\ Positions(s, {n}) # {}
    BY <1>2, LenProperties DEF Positions, Listed
  <2>2. a \in Positions(s, {n})
    BY <2>1, LeastExists
  <2>3. a \in 1 .. Len(s) /\ s[a] = n
    BY <2>2 DEF Positions
  <2>4. SetPriority(s, n, wish) = t
    BY <1>2 DEF SetPriority
  <2> HIDE DEF a
  <2>5. b \in 1 .. Len(s)
    BY <2>3, SwapInRange
  <2>6. Len(s) \in Nat /\ s = [x \in 1 .. Len(s) |-> s[x]]
    BY LenProperties
  <2>7. \A x, y \in 1 .. Len(s) : s[x] = s[y] => x = y
    BY KeepsStrictly
  <2>8. others = Positions(s, libs[n].wish.others)
    BY KeepsStrictly DEF Positions
  <2>9. /\ wish.state = "PRIO_FIRST" => b = 1
        /\ wish.state = "PRIO_LAST" => b = Len(s)
        /\ wish.state = "PRIO_BEFORE" =>
             b = IF a = Len(s) /\ others # {} THEN Least(others) ELSE a
    BY DEF SwapPosition
  <2> HIDE DEF b
  <2>10. /\ DOMAIN t = 1 .. Len(s)
         /\ \A x \in 1 .. Len(s) :
              t[x] = IF x = b THEN n ELSE IF x = a THEN s[b] ELSE s[x]
    BY <2>3, <2>5, <2>6
  <2>11. Len(t) = Len(s)
    <3> HIDE DEF t
    <3>1. Len(s) \in Nat /\ DOMAIN t = 1 .. Len(s)
      BY <2>6, <2>10
    <3>2. t \in Seq(Names)
      BY <2>4, KeepsPriority
    <3> QED BY <3>1, <3>2, LenProperties
  <2> HIDE DEF t
  <2>12. \A x \in 1 .. Len(t) : t[x] = n => x = b
    BY <2>3, <2>5, <2>7, <2>10, <2>11
  <2>13. CASE wish.state = "PRIO_FIRST"
    BY <2>4, <2>9, <2>12, <2>13 DEF InPlace, Positions
  <2>14. CASE wish.state = "PRIO_LAST"
    BY <2>4, <2>9, <2>11, <2>12, <2>14 DEF InPlace, Positions
  <2>15. CASE wish.state = "PRIO_BEFORE"
    <3> DEFINE before == libs[n].wish.others \ {n}
    <3>1. others \subseteq 1 .. Len(s) /\ 1 .. Len(s) \subseteq Nat
      BY <2>6 DEF Positions
    <3>2. SUFFICES ASSUME NEW y \in 1 .. Len(t), t[y] \in before
                   PROVE  b < y
      <4>1. \A x \in Positions(t, {n}), y \in Positions(t, before) : x < y
        BY <2>12, <3>2 DEF Positions
      <4> QED BY <2>4, <2>15, <4>1 DEF InPlace
    <3>3. y # b /\ t[y] # n
      BY <2>5, <2>10, <2>11, <3>2
    <3>4. CASE a = Len(s) /\ others # {}
      <4>1. b = Least(others) /\ \A z \in others : Least(others) <= z
        BY <2>9, <2>15, <3>1, <3>4, LeastExists
      <4>2. CASE y = a
        BY <2>5, <2>6, <3>3, <3>4, <4>2
      <4>3. CASE y # a
        <5>1. t[y] = s[y] /\ y \in others
          BY <2>8, <2>10, <2>11, <3>2, <3>3, <4>3 DEF Positions
        <5>2. b <= y /\ b \in Nat /\ y \in Nat
          BY <2>5, <2>6, <3>1, <4>1, <5>1
        <5> QED BY <3>3, <5>2
      <4> QED BY <4>2, <4>3
    <3>5. CASE ~(a = Len(s) /\ others # {})
      <4>1. b = a
        BY <2>9, <2>15, <3>5
      <4>2. t[y] = s[y] /\ y \in 1 .. Len(s)
        BY <2>10, <2>11, <3>3, <4>1
      <4>3. y \in others
        BY <2>8, <3>2, <4>2 DEF Positions
      <4>4. a # Len(s)
        BY <3>5, <4>3
      <4>5. ~CalledLast(s, n)
        BY <2>2, <4>4 DEF CalledLast
      <4>6. \A x \in Positions(s, {n}), z \in Positions(s, before) : x < z
        BY <2>15, <4>5 DEF InPlace
      <4>7. y \in Positions(s, before)
        BY <3>2, <4>2 DEF Positions
      <4> QED BY <2>2, <4>1, <4>6, <4>7
    <3> QED BY <3>4, <3>5
  <2>16. CASE wish.state \notin {"PRIO_FIRST", "PRIO_LAST", "PRIO_BEFORE"}
    BY <2>16 DEF InPlace
  <2> QED BY <2>4, <2>13, <2>14, <2>15, <2>16
<1> QED BY <1>1, <1>2

\* What a step has to show.
LEMMA PlacesAfter ==
  ASSUME libs' = libs,
         aborted' = {} =>
           \A m \in Modules' : \A h \in libs[m].hooks : OnlyWish(m) =>
             /\ m \notin prioritizing' => InPlace(EventHandlers'[h], m)
             /\ libs[m].wish.state = "PRIO_BEFORE" =>
                  \/ InPlace(EventHandlers'[h], m)
                  \/ CalledLast(EventHandlers'[h], m)
  PROVE  PlacesInv'
<1> SUFFICES ASSUME aborted' = {}, NEW m \in Modules', NEW h \in libs[m].hooks,
                    OnlyWish(m)
             PROVE  OnItsWay(EventHandlers[h], m)'
  BY DEF PlacesInv, OnlyWish
<1>1. /\ m \notin prioritizing' => InPlace(EventHandlers'[h], m)
      /\ libs[m].wish.state = "PRIO_BEFORE" =>
           InPlace(EventHandlers'[h], m) \/ CalledLast(EventHandlers'[h], m)
  OBVIOUS
<1>2. InPlace(EventHandlers[h], m)' <=> InPlace(EventHandlers'[h], m)
  BY DEF InPlace
<1>3. CalledLast(EventHandlers[h], m)' <=> CalledLast(EventHandlers'[h], m)
  BY DEF CalledLast
<1> QED BY <1>1, <1>2, <1>3 DEF OnItsWay

\* What is known of a list before a step.
LEMMA PlaceNow ==
  ASSUME PointersInv, PlacesInv, aborted = {},
         NEW m \in Modules, NEW h \in libs[m].hooks
  PROVE  /\ m \in Names /\ Names \subseteq Nat /\ h \in Hooks
         /\ EventHandlers[h] \in Seq(Names)
         /\ Keeps(EventHandlers[h], Modules, {})
         /\ OnlyWish(m) => OnItsWay(EventHandlers[h], m)
<1>1. m \in Names /\ Names \subseteq Nat /\ Hooked(h) \subseteq Modules
  BY ModuleNames DEF PointersInv, ModulesTypeOK, Hooked
<1>2. h \in Hooks
  <2>1. libs[m].hooks \subseteq Hooks
    BY <1>1, LibraryOf DEF PointersInv
  <2> QED BY <2>1
<1>3. EventHandlers[h] \in Seq(Names) /\ Keeps(EventHandlers[h], Hooked(h), {})
  BY <1>2 DEF PointersInv, ModulesTypeOK
<1> QED BY <1>1, <1>2, <1>3, KeepsMore DEF PlacesInv

\* A module that is not there is in no list.
LEMMA NewIsNowhere ==
  ASSUME PointersInv, aborted = {}, NEW n, n \notin alive, NEW h \in Hooks
  PROVE  n \notin Listed(EventHandlers[h])
<1>1. Keeps(EventHandlers[h], Hooked(h), {}) /\ n \notin Hooked(h)
  BY DEF PointersInv, Hooked
<1> QED BY <1>1 DEF Keeps, Listed

LEMMA PlacesInitially == ModuleInit => PlacesInv
BY DEF ModuleInit, PlacesInv

LEMMA PlacesUnchanged == PlacesInv /\ UNCHANGED pointed => PlacesInv'
<1> SUFFICES ASSUME PlacesInv, UNCHANGED pointed PROVE PlacesInv'
  OBVIOUS
<1> QED BY PlacesAfter DEF PlacesInv, OnItsWay, pointed, registries

LEMMA PlacesLoadWrongAPI ==
  ASSUME PointersInv, PlacesInv, NEW n, LoadWrongAPI(n), UNCHANGED libs
  PROVE  PlacesInv'
<1>1. n \in Names /\ n \notin alive
  BY LoadableIsNamed DEF LoadWrongAPI
<1>2. /\ aborted' = aborted /\ Modules' = Modules /\ prioritizing' = prioritizing
      /\ EventHandlers' = DetachAll(Attached(n), n)
  BY DEF LoadWrongAPI
<1> SUFFICES ASSUME aborted = {}, NEW m \in Modules, NEW h \in libs[m].hooks,
                    OnlyWish(m)
             PROVE  EventHandlers'[h] = EventHandlers[h]
                      /\ OnItsWay(EventHandlers[h], m)
  BY <1>2, PlacesAfter DEF OnItsWay
<1>3. /\ h \in Hooks /\ EventHandlers[h] \in Seq(Names)
      /\ OnItsWay(EventHandlers[h], m)
  BY PlaceNow
<1>4. n \notin Listed(EventHandlers[h])
  BY <1>1, <1>3, NewIsNowhere
<1>5. EventHandlers'[h] =
        Detach(IF h \in libs[n].hooks THEN Attach(EventHandlers[h], n)
               ELSE EventHandlers[h], n)
  BY <1>2, <1>3 DEF DetachAll, Attached
<1> QED BY <1>1, <1>3, <1>4, <1>5, DetachUndoesAttach

LEMMA PlacesLoadSucceeds ==
  ASSUME PointersInv, PlacesInv, prioritizing = {}, NEW n, LoadSucceeds(n),
         UNCHANGED libs
  PROVE  PlacesInv'
<1>1. n \in Names /\ n \notin alive
  BY LoadableIsNamed DEF LoadSucceeds
<1>2. /\ aborted' = aborted /\ Modules' = Modules \cup {n}
      /\ prioritizing' = Modules' /\ EventHandlers' = Attached(n)
  BY DEF LoadSucceeds
<1> SUFFICES ASSUME aborted = {}, NEW m \in Modules \cup {n},
                    NEW h \in libs[m].hooks, OnlyWish(m),
                    libs[m].wish.state = "PRIO_BEFORE"
             PROVE  \/ InPlace(EventHandlers'[h], m)
                    \/ CalledLast(EventHandlers'[h], m)
  BY <1>2, PlacesAfter
<1>3. CASE m = n
  <2>1. h \in Hooks
    BY <1>1, <1>3, LibraryOf DEF PointersInv
  <2>2. EventHandlers[h] \in Seq(Names) /\ n \notin Listed(EventHandlers[h])
    BY <1>1, <2>1, NewIsNowhere DEF PointersInv, ModulesTypeOK
  <2>3. EventHandlers'[h] = Attach(EventHandlers[h], n)
    BY <1>2, <1>3, <2>1 DEF Attached
  <2>4. CalledLast(Attach(EventHandlers[h], n), n)
    BY <1>1, <2>2, LastOnAttach
  <2> QED BY <1>3, <2>3, <2>4
<1>4. CASE m # n
  <2>1. /\ m \in Names /\ h \in Hooks /\ EventHandlers[h] \in Seq(Names)
        /\ OnItsWay(EventHandlers[h], m)
    BY <1>4, PlaceNow
  <2>2. InPlace(EventHandlers[h], m)
    BY <2>1 DEF OnItsWay
  <2>3. InPlace(Attach(EventHandlers[h], n), m)
    BY <1>1, <1>4, <2>1, <2>2, BeforeOnAttach
  <2>4. \/ EventHandlers'[h] = Attach(EventHandlers[h], n)
        \/ EventHandlers'[h] = EventHandlers[h]
    BY <1>2, <2>1 DEF Attached
  <2> QED BY <2>2, <2>3, <2>4
<1> QED BY <1>3, <1>4

LEMMA PlacesLoad ==
  ASSUME PointersInv, PlacesInv, prioritizing = {}, NEW n,
         LoadFails(n) \/ LoadSucceeds(n), UNCHANGED libs
  PROVE  PlacesInv'
<1>1. CASE LoadRefused(n)
  BY <1>1, PlacesUnchanged DEF LoadRefused, pointed
<1>2. CASE LoadThrows(n)
  BY <1>2 DEF LoadThrows, PlacesInv
<1> QED BY <1>1, <1>2, PlacesLoadWrongAPI, PlacesLoadSucceeds DEF LoadFails

LEMMA PlacesUnload ==
  ASSUME PointersInv, PlacesInv, NEW n, Unload(n), UNCHANGED libs
  PROVE  PlacesInv'
<1>1. CASE UnloadFails(n)
  BY <1>1, PlacesUnchanged DEF UnloadFails, pointed
<1>2. CASE UnloadSucceeds(n)
  <2>1. /\ aborted' = aborted /\ Modules' = Modules \ {n}
        /\ prioritizing' = prioritizing
        /\ EventHandlers' = DetachAll(EventHandlers, n)
    BY <1>2 DEF UnloadSucceeds
  <2>2. n \in Names
    BY <1>2 DEF UnloadSucceeds, UnloadRefusal, PointersInv, ModulesTypeOK
  <2> SUFFICES ASSUME aborted = {}, NEW m \in Modules, m # n,
                      NEW h \in libs[m].hooks, OnlyWish(m)
               PROVE  OnItsWay(EventHandlers'[h], m)
    BY <2>1, PlacesAfter DEF OnItsWay
  <2>3. /\ m \in Names /\ Names \subseteq Nat /\ h \in Hooks
        /\ EventHandlers[h] \in Seq(Names) /\ OnItsWay(EventHandlers[h], m)
    BY PlaceNow
  <2>4. EventHandlers'[h] = Detach(EventHandlers[h], n)
    BY <2>1, <2>3 DEF DetachAll
  <2>5. /\ InPlace(EventHandlers[h], m) =>
             InPlace(Detach(EventHandlers[h], n), m)
        /\ CalledLast(EventHandlers[h], m) =>
             CalledLast(Detach(EventHandlers[h], n), m)
    BY <2>2, <2>3, PlaceOnDetach
  <2> QED BY <2>3, <2>4, <2>5 DEF OnItsWay
<1> QED BY <1>1, <1>2 DEF Unload

LEMMA PlacesPrioritize ==
  ASSUME PointersInv, PlacesInv, Prioritize
  PROVE  PlacesInv'
<1> DEFINE n == Least(prioritizing)
           wish == [libs[n].wish EXCEPT !.others = @ \cap Modules]
<1>1. n \in Names /\ n \in prioritizing
  BY ModuleNames, LeastExists DEF Prioritize, PointersInv, ModulesTypeOK
<1>2. /\ EventHandlers' =
           [h \in Hooks |-> IF h \in libs[n].hooks
                            THEN SetPriority(EventHandlers[h], n, wish)
                            ELSE EventHandlers[h]]
      /\ prioritizing' = prioritizing \ {n}
      /\ libs' = libs /\ Modules' = Modules /\ aborted' = aborted
  BY DEF Prioritize
<1>3. /\ wish.state = libs[n].wish.state
      /\ wish.others = libs[n].wish.others \cap Modules
  <2>1. /\ libs[n].wish \in [state : {"PRIO_DONTCARE", "PRIO_FIRST",
               "PRIO_LAST", "PRIO_AFTER", "PRIO_BEFORE"}, others : SUBSET Names]
    BY <1>1 DEF PointersInv, ModulesTypeOK, Library
  <2> QED BY <2>1
<1> HIDE DEF n, wish
<1> SUFFICES ASSUME aborted = {}, NEW m \in Modules, NEW h \in libs[m].hooks,
                    OnlyWish(m)
             PROVE  /\ m \notin prioritizing \ {n} =>
                         InPlace(EventHandlers'[h], m)
                    /\ libs[m].wish.state = "PRIO_BEFORE" =>
                         \/ InPlace(EventHandlers'[h], m)
                         \/ CalledLast(EventHandlers'[h], m)
  BY <1>2, PlacesAfter
<1>4. /\ m \in Names /\ Names \subseteq Nat /\ h \in Hooks
      /\ EventHandlers[h] \in Seq(Names)
      /\ Keeps(EventHandlers[h], Modules, {})
      /\ OnItsWay(EventHandlers[h], m)
  BY PlaceNow
<1>5. CASE m = n
  <2>1. EventHandlers'[h] = SetPriority(EventHandlers[h], n, wish)
    BY <1>2, <1>4, <1>5
  <2>2. wish.state = "PRIO_BEFORE" =>
          InPlace(EventHandlers[h], n) \/ CalledLast(EventHandlers[h], n)
    BY <1>3, <1>4, <1>5 DEF OnItsWay
  <2>3. InPlace(SetPriority(EventHandlers[h], n, wish), n)
    BY <1>1, <1>3, <1>4, <2>2, PlaceOnPriority
  <2> QED BY <1>5, <2>1, <2>3
<1>6. CASE m # n
  <2>1. wish.state = "PRIO_DONTCARE"
    BY <1>1, <1>3, <1>6 DEF OnlyWish
  <2>2. EventHandlers'[h] = EventHandlers[h]
    BY <1>1, <1>2, <1>4, <2>1, DontCare
  <2> QED BY <1>4, <1>6, <2>2 DEF OnItsWay
<1> QED BY <1>5, <1>6

PlacesAndPointers == PointersInv /\ PlacesInv

LEMMA PlacesModules ==
  PlacesAndPointers /\ [ModuleNext]_moduleVars => PlacesAndPointers'
<1> SUFFICES ASSUME PointersInv, PlacesInv, [ModuleNext]_moduleVars
             PROVE  PlacesInv'
  BY PointersModules DEF PlacesAndPointers
<1>1. CASE UNCHANGED moduleVars
  BY <1>1, PlacesUnchanged DEF moduleVars, pointed
<1>2. ASSUME NEW n \in Names, LoadModule(n) PROVE PlacesInv'
  BY <1>2, PlacesLoad DEF LoadModule
<1>3. ASSUME NEW n \in Names, UnloadModule(n) PROVE PlacesInv'
  BY <1>3, PlacesUnload DEF UnloadModule
<1>4. CASE Prioritize
  BY <1>4, PlacesPrioritize
<1> QED BY <1>1, <1>2, <1>3, <1>4 DEF ModuleNext

LEMMA PlacesStartup ==
  PlacesAndPointers /\ [StartupNext]_startupVars => PlacesAndPointers'
<1> SUFFICES ASSUME PointersInv, PlacesInv, [StartupNext]_startupVars
             PROVE  PointersInv' /\ PlacesInv'
  BY DEF PlacesAndPointers
<1>1. UNCHANGED startupVars => UNCHANGED pointed
  BY DEF startupVars, moduleVars, pointed
<1> QED BY <1>1, StartupModules, PointersStartup, PlacesUnchanged, PlacesLoad,
           PlacesUnload, PlacesPrioritize

LEMMA PlacesAreKept == PlacesAndPointers => PriorityHonoured
BY DEF PlacesAndPointers, PlacesInv, OnItsWay, PriorityHonoured

\* A module that alone cares for its place is first, last, or before the
\* modules that it named in every hook's list, whatever else is loaded and
\* unloaded, once Load has asked all modules.
THEOREM PriorityIsHonoured == ModulesSpec => []PriorityHonoured
<1>1. ModuleInit => PlacesAndPointers
  BY PointersInitially, PlacesInitially DEF PlacesAndPointers
<1> QED BY <1>1, PlacesModules, PlacesAreKept, PTL DEF ModulesSpec

\* The same of the server, whatever its configuration loads.
THEOREM PriorityIsHonouredInTheServer == StartupSpec => []PriorityHonoured
<1>1. StartupInit => PlacesAndPointers
  BY PointersInitially, PlacesInitially DEF StartupInit, PlacesAndPointers
<1> QED BY <1>1, PlacesStartup, PlacesAreKept, PTL DEF StartupSpec

-----------------------------------------------------------------------------
(* Interfaces.  The count of an interface is that of the living modules that *)
(* use it, and is zero when nobody implements it; a module is behind every   *)
(* interface that it implements and no other, so that Unload, which asks for *)
(* the count of one interface, asks for the right one if there is only one.  *)

Users(i) == {n \in alive : i \in libs[n].needs}

\* Whoever implements the interface implements nothing else.
Solo(i) ==
  \A n \in Names : i \in libs[n].provides => libs[n].provides = {i}

Serves(i) ==
  /\ Listed(InterfaceTable[i].list) \subseteq {n \in Names : i \in libs[n].provides}
  /\ Providers(i) \subseteq Listed(InterfaceTable[i].list)
  /\ Solo(i) =>
       /\ InterfaceTable[i].uses = Cardinality(Users(i))
       /\ InterfaceTable[i].list = <<>> => InterfaceTable[i].uses = 0

UsesInv ==
  /\ PointersInv /\ IsFiniteSet(alive)
  /\ \A i \in Interfaces : Serves(i)

LEMMA NobodyListed ==
  ASSUME NEW S, NEW s \in Seq(S)
  PROVE  /\ s = <<>> <=> Listed(s) = {}
         /\ s = <<>> <=> Len(s) = 0
<1>1. s = <<>> <=> Len(s) = 0
  BY EmptySeq
<1>2. Len(s) \in Nat
  BY LenProperties
<1>3. Len(s) # 0 => 1 \in 1 .. Len(s)
  BY <1>2
<1>4. Len(s) = 0 => 1 .. Len(s) = {}
  BY <1>2
<1> QED BY <1>1, <1>3, <1>4 DEF Listed

LEMMA AppendListed ==
  ASSUME NEW s \in Seq(Names), NEW n \in Names
  PROVE  /\ Listed(Append(s, n)) = Listed(s) \cup {n}
         /\ Append(s, n) \in Seq(Names) /\ Len(Append(s, n)) = Len(s) + 1
         /\ Append(s, n) # <<>>
<1> DEFINE t == Append(s, n)
<1>1. /\ t \in Seq(Names) /\ Len(t) = Len(s) + 1 /\ Len(s) \in Nat
      /\ \A x \in 1 .. Len(s) : t[x] = s[x]
      /\ t[Len(s) + 1] = n
  BY AppendProperties, LenProperties
<1> HIDE DEF t
<1>2. 1 .. Len(t) = 1 .. Len(s) \cup {Len(s) + 1}
  BY <1>1
<1>3. Listed(t) = Listed(s) \cup {n}
  BY <1>1, <1>2 DEF Listed
<1>4. t # <<>>
  BY <1>3, <1>1, NobodyListed
<1> QED BY <1>1, <1>3, <1>4 DEF t

LEMMA DetachListed ==
  ASSUME NEW s \in Seq(Names), NEW n \in Names, Names \subseteq Nat
  PROVE  /\ Listed(s) \ {n} \subseteq Listed(Detach(s, n))
         /\ Listed(Detach(s, n)) \subseteq Listed(s)
         /\ Detach(s, n) \in Seq(Names)
         /\ Len(Detach(s, n)) = IF n \in Listed(s) THEN Len(s) - 1 ELSE Len(s)
<1>1. Positions(s, {n}) \subseteq 1 .. Len(s) /\ 1 .. Len(s) \subseteq Nat
  BY LenProperties DEF Positions
<1>2. n \in Listed(s) <=> Positions(s, {n}) # {}
  BY DEF Positions, Listed
<1>3. CASE Positions(s, {n}) = {}
  BY <1>2, <1>3 DEF Detach
<1>4. CASE Positions(s, {n}) # {}
  <2> DEFINE x == Least(Positions(s, {n}))
  <2>1. x \in Positions(s, {n})
    BY <1>1, <1>4, LeastExists
  <2>2. x \in 1 .. Len(s) /\ s[x] = n
    BY <2>1 DEF Positions
  <2>3. Detach(s, n) = Without(s, x)
    BY <1>4 DEF Detach, Without
  <2> HIDE DEF x
  <2>4. /\ Without(s, x) \in Seq(Names)
        /\ Len(Without(s, x)) = Len(s) - 1
    BY <2>2, Erased
  <2>5. /\ Listed(s) \ {s[x]} \subseteq Listed(Without(s, x))
        /\ Listed(Without(s, x)) \subseteq Listed(s)
    BY <2>2, ErasedMembers
  <2> QED BY <1>2, <1>4, <2>2, <2>3, <2>4, <2>5
<1> QED BY <1>3, <1>4

LEMMA UsersFinite ==
  ASSUME IsFiniteSet(alive), NEW i
  PROVE  /\ IsFiniteSet(Users(i)) /\ Cardinality(Users(i)) \in Nat
         /\ Cardinality(Users(i)) = 0 <=> Users(i) = {}
<1>1. Users(i) \in SUBSET alive
  BY DEF Users
<1>2. IsFiniteSet(Users(i))
  BY <1>1, FS_Subset
<1> QED BY <1>2, FS_CardinalityType, FS_EmptySet

LEMMA UsesInitially == ModuleInit => UsesInv
<1> SUFFICES ASSUME ModuleInit PROVE UsesInv
  OBVIOUS
<1>1. PointersInv
  BY PointersInitially
<1>2. alive = {} /\ IsFiniteSet(alive)
  BY FS_EmptySet DEF ModuleInit
<1>3. ASSUME NEW i \in Interfaces PROVE Serves(i)
  <2>1. InterfaceTable[i] = Absent
    BY DEF ModuleInit
  <2>2. <<>> \in Seq(Names)
    BY EmptySeq
  <2>3. Listed(<<>>) = {}
    BY <2>2, NobodyListed
  <2>4. Cardinality(Users(i)) = 0 /\ Providers(i) = {}
    BY <1>2, UsersFinite DEF Users, Providers
  <2> QED BY <2>1, <2>3, <2>4 DEF Serves, Absent
<1> QED BY <1>1, <1>2, <1>3 DEF UsesInv

\* One step for all interfaces: the list changed by as much as the modules did.
LEMMA PublishedServes ==
  ASSUME UsesInv, NEW n \in Names, n \notin alive, NEW i \in Interfaces
  PROVE  LET p == Published(n)[i]  e == InterfaceTable[i] IN
         /\ p \in EntryType /\ p.uses = e.uses
         /\ Listed(p.list) = Listed(e.list)
              \cup (IF i \in libs[n].provides THEN {n} ELSE {})
         /\ i \in libs[n].provides => p.list = Append(e.list, n)
         /\ i \notin libs[n].provides => p.list = e.list
<1> DEFINE e == InterfaceTable[i]
<1>1. e \in EntryType /\ e.list \in Seq(Names)
  BY DEF UsesInv, PointersInv, ModulesTypeOK, EntryType
<1>2. Published(n)[i] = IF i \in libs[n].provides THEN PublishInterface(e, n)
                        ELSE e
  BY DEF Published
<1>3. Published(n)[i] \in EntryType
  BY PublishedKeeps DEF UsesInv
<1> HIDE DEF e
<1>4. /\ PublishInterface(e, n).list = Append(e.list, n)
      /\ PublishInterface(e, n).uses = e.uses
  BY <1>1 DEF PublishInterface, EntryType
<1>5. Listed(Append(e.list, n)) = Listed(e.list) \cup {n}
  BY <1>1, AppendListed
<1> QED BY <1>2, <1>3, <1>4, <1>5 DEF e

LEMMA InUseServes ==
  ASSUME UsesInv, NEW n \in Names, n \notin alive, ~NeedsAbsent(n),
         NEW i \in Interfaces
  PROVE  LET u == InUse(n)[i]  p == Published(n)[i] IN
         /\ u \in EntryType /\ u.list = p.list
         /\ u.uses = p.uses + (IF i \in libs[n].needs THEN 1 ELSE 0)
         /\ i \in libs[n].needs => p.list # <<>>
<1> DEFINE p == Published(n)[i]
<1>1. p \in EntryType
  BY PublishedKeeps DEF UsesInv
<1>2. InUse(n)[i] = IF i \in libs[n].needs THEN UseInterface(p) ELSE p
  BY DEF InUse
<1>3. InUse(n)[i] \in EntryType
  BY InUseKeeps DEF UsesInv
<1>4. i \in libs[n].needs => p.list # <<>>
  BY DEF NeedsAbsent
<1> HIDE DEF p
<1>5. p.list # <<>> => /\ UseInterface(p).uses = p.uses + 1
                       /\ UseInterface(p).list = p.list
  BY <1>1 DEF UseInterface, EntryType
<1>6. p.uses \in Int
  BY <1>1 DEF EntryType
<1> QED BY <1>2, <1>3, <1>4, <1>5, <1>6 DEF p

LEMMA DestroyServes ==
  ASSUME NEW n \in Names, NEW table \in [Interfaces -> EntryType],
         NEW i \in Interfaces
  PROVE  LET e == table[i]  rest == Detach(e.list, n)
             uses == e.uses - (IF i \in libs[n].needs /\ e.list # <<>> THEN 1
                               ELSE 0)
             d == Destroy(n, table)[i] IN
         /\ i \notin libs[n].provides => d.list = e.list /\ d.uses = uses
         /\ i \in libs[n].provides =>
              /\ d.list = rest
              /\ d.uses = IF rest = <<>> THEN 0 ELSE uses
<1> DEFINE e == table[i]
           rest == Detach(e.list, n)
           uses == e.uses - (IF i \in libs[n].needs /\ e.list # <<>> THEN 1
                             ELSE 0)
           done == IF i \in libs[n].needs THEN DoneWithInterface(e) ELSE e
<1>1. e \in EntryType
  OBVIOUS
<1>2. Destroy(n, table)[i] =
        IF i \in libs[n].provides THEN UnpublishInterface(done, n) ELSE done
  BY DEF Destroy
<1> HIDE DEF e
<1>3. done \in EntryType /\ done.list = e.list /\ done.uses = uses
  BY <1>1 DEF DoneWithInterface, EntryType
<1> HIDE DEF done
<1>4. /\ UnpublishInterface(done, n).list = rest
      /\ UnpublishInterface(done, n).uses = IF rest = <<>> THEN 0 ELSE done.uses
  BY <1>3 DEF UnpublishInterface, Absent, EntryType
<1> QED BY <1>2, <1>3, <1>4 DEF e

LEMMA UsesLoadThrows ==
  ASSUME UsesInv, NEW n, LoadThrows(n), UNCHANGED libs
  PROVE  UsesInv'
<1>1. n \in Names /\ n \notin alive
  BY LoadableIsNamed DEF LoadThrows, UsesInv
<1>2. PointersInv'
  BY PointersLoadThrows DEF UsesInv
<1>3. /\ alive' = alive /\ libs' = libs
      /\ \A i : Providers(i)' = Providers(i) /\ Users(i)' = Users(i)
      /\ \A i : Solo(i)' = Solo(i)
  BY DEF LoadThrows, Providers, Users, Solo
<1>4. InterfaceTable' = InterfaceTable \/ InterfaceTable' = Published(n)
  BY DEF LoadThrows, ConstructorThrows, registries
<1>5. ASSUME NEW i \in Interfaces PROVE Serves(i)'
  <2> DEFINE e == InterfaceTable[i]
             p == Published(n)[i]
  <2>1. /\ Listed(e.list) \subseteq {m \in Names : i \in libs[m].provides}
        /\ Providers(i) \subseteq Listed(e.list)
        /\ Solo(i) => /\ e.uses = Cardinality(Users(i))
                      /\ e.list = <<>> => e.uses = 0
    BY DEF UsesInv, Serves
  <2>2. e.list \in Seq(Names)
    BY DEF UsesInv, PointersInv, ModulesTypeOK, EntryType
  <2>3. /\ p.uses = e.uses
        /\ Listed(p.list) = Listed(e.list)
             \cup (IF i \in libs[n].provides THEN {n} ELSE {})
        /\ i \in libs[n].provides => p.list = Append(e.list, n)
        /\ i \notin libs[n].provides => p.list = e.list
    BY <1>1, PublishedServes
  <2>4. Append(e.list, n) # <<>>
    BY <1>1, <2>2, AppendListed
  <2>5. InterfaceTable'[i] = e \/ InterfaceTable'[i] = p
    BY <1>4
  <2> HIDE DEF e, p
  <2>6. CASE InterfaceTable'[i] = e
    BY <1>3, <2>1, <2>6 DEF Serves
  <2>7. CASE InterfaceTable'[i] = p
    BY <1>1, <1>3, <2>1, <2>3, <2>4, <2>7 DEF Serves
  <2> QED BY <2>5, <2>6, <2>7
<1> QED BY <1>2, <1>3, <1>5 DEF UsesInv

LEMMA UsesLoadWrongAPI ==
  ASSUME UsesInv, NEW n, LoadWrongAPI(n), UNCHANGED libs
  PROVE  UsesInv'
<1>1. n \in Names /\ n \notin alive /\ ~NeedsAbsent(n) /\ Names \subseteq Nat
  BY LoadableIsNamed, ModuleNames DEF LoadWrongAPI, UsesInv, Throws
<1>2. PointersInv'
  BY PointersLoadWrongAPI DEF UsesInv
<1>3. /\ alive' = alive /\ libs' = libs
      /\ InterfaceTable' = Destroy(n, InUse(n))
      /\ \A i : Providers(i)' = Providers(i) /\ Users(i)' = Users(i)
      /\ \A i : Solo(i)' = Solo(i)
      /\ \A i : n \notin Providers(i)
  BY <1>1 DEF LoadWrongAPI, Providers, Users, Solo
<1>4. InUse(n) \in [Interfaces -> EntryType]
  BY <1>1, InUseKeeps DEF UsesInv
<1>5. ASSUME NEW i \in Interfaces PROVE Serves(i)'
  <2> DEFINE e == InterfaceTable[i]
             p == Published(n)[i]
             u == InUse(n)[i]
             d == InterfaceTable'[i]
             rest == Detach(u.list, n)
             needed == IF i \in libs[n].needs THEN 1 ELSE 0
  <2>1. /\ Listed(e.list) \subseteq {m \in Names : i \in libs[m].provides}
        /\ Providers(i) \subseteq Listed(e.list)
        /\ Solo(i) => /\ e.uses = Cardinality(Users(i))
                      /\ e.list = <<>> => e.uses = 0
    BY DEF UsesInv, Serves
  <2>2. e.list \in Seq(Names) /\ e.uses \in Int
    BY DEF UsesInv, PointersInv, ModulesTypeOK, EntryType
  <2>3. /\ p.uses = e.uses
        /\ Listed(p.list) = Listed(e.list)
             \cup (IF i \in libs[n].provides THEN {n} ELSE {})
        /\ i \in libs[n].provides => p.list = Append(e.list, n)
        /\ i \notin libs[n].provides => p.list = e.list
        /\ p.list \in Seq(Names)
    BY <1>1, PublishedServes DEF EntryType
  <2>4. /\ u.list = p.list /\ u.uses = p.uses + needed
        /\ i \in libs[n].needs => p.list # <<>>
    BY <1>1, InUseServes
  <2>5. /\ i \notin libs[n].provides =>
             /\ d.list = u.list
             /\ d.uses = u.uses
                  - (IF i \in libs[n].needs /\ u.list # <<>> THEN 1 ELSE 0)
        /\ i \in libs[n].provides =>
             /\ d.list = rest
             /\ d.uses = IF rest = <<>> THEN 0 ELSE u.uses
                  - (IF i \in libs[n].needs /\ u.list # <<>> THEN 1 ELSE 0)
    BY <1>1, <1>3, <1>4, DestroyServes
  <2>6. /\ Listed(u.list) \ {n} \subseteq Listed(rest)
        /\ Listed(rest) \subseteq Listed(u.list)
        /\ rest \in Seq(Names)
        /\ Len(rest) = IF n \in Listed(u.list) THEN Len(u.list) - 1
                       ELSE Len(u.list)
    BY <1>1, <2>3, <2>4, DetachListed
  <2> HIDE DEF e, p, u, d, rest
  <2>7. (IF i \in libs[n].needs /\ u.list # <<>> THEN 1 ELSE 0) = needed
    BY <2>4
  <2>8. u.uses - needed = e.uses
    BY <2>2, <2>3, <2>4
  <2>9. CASE i \in libs[n].provides
    <3>1. Len(u.list) = Len(e.list) + 1 /\ n \in Listed(u.list)
          /\ Len(e.list) \in Nat
      BY <1>1, <2>2, <2>3, <2>4, <2>9, AppendListed, LenProperties
    <3>2. Len(rest) = Len(e.list)
      BY <2>6, <3>1
    <3>3. rest = <<>> <=> e.list = <<>>
      BY <2>2, <2>6, <3>2, NobodyListed
    <3>4. d.list = rest /\ d.uses = IF rest = <<>> THEN 0 ELSE e.uses
      BY <2>5, <2>7, <2>8, <2>9
    <3>5. /\ Listed(rest) \subseteq {m \in Names : i \in libs[m].provides}
          /\ Providers(i) \subseteq Listed(rest)
      BY <1>1, <1>3, <2>1, <2>3, <2>4, <2>6, <2>9
    <3> QED BY <1>3, <2>1, <3>3, <3>4, <3>5 DEF Serves, d
  <2>10. CASE i \notin libs[n].provides
    <3>1. d.list = e.list /\ d.uses = e.uses
      BY <2>3, <2>4, <2>5, <2>7, <2>8, <2>10
    <3> QED BY <1>3, <2>1, <3>1 DEF Serves, d
  <2> QED BY <2>9, <2>10
<1> QED BY <1>2, <1>3, <1>5 DEF UsesInv

LEMMA UsesLoadSucceeds ==
  ASSUME UsesInv, NEW n, LoadSucceeds(n), UNCHANGED libs
  PROVE  UsesInv'
<1>1. n \in Names /\ n \notin alive /\ ~NeedsAbsent(n)
  BY LoadableIsNamed DEF LoadSucceeds, UsesInv, Throws
<1>2. PointersInv'
  BY PointersLoadSucceeds DEF UsesInv
<1>3. /\ alive' = alive \cup {n} /\ libs' = libs
      /\ InterfaceTable' = InUse(n)
      /\ \A i : Solo(i)' = Solo(i)
      /\ \A i : Providers(i)' = Providers(i)
                  \cup (IF i \in libs[n].provides THEN {n} ELSE {})
      /\ \A i : Users(i)' = Users(i)
                  \cup (IF i \in libs[n].needs THEN {n} ELSE {})
      /\ \A i : n \notin Users(i)
  BY <1>1 DEF LoadSucceeds, Providers, Users, Solo
<1>4. IsFiniteSet(alive')
  BY <1>3, FS_AddElement DEF UsesInv
<1>5. ASSUME NEW i \in Interfaces PROVE Serves(i)'
  <2> DEFINE e == InterfaceTable[i]
             p == Published(n)[i]
             u == InUse(n)[i]
             needed == IF i \in libs[n].needs THEN 1 ELSE 0
  <2>1. /\ Listed(e.list) \subseteq {m \in Names : i \in libs[m].provides}
        /\ Providers(i) \subseteq Listed(e.list)
        /\ Solo(i) => /\ e.uses = Cardinality(Users(i))
                      /\ e.list = <<>> => e.uses = 0
    BY DEF UsesInv, Serves
  <2>2. e.list \in Seq(Names) /\ e.uses \in Int
    BY DEF UsesInv, PointersInv, ModulesTypeOK, EntryType
  <2>3. /\ p.uses = e.uses
        /\ Listed(p.list) = Listed(e.list)
             \cup (IF i \in libs[n].provides THEN {n} ELSE {})
        /\ i \in libs[n].provides => p.list = Append(e.list, n)
        /\ i \notin libs[n].provides => p.list = e.list
    BY <1>1, PublishedServes
  <2>4. /\ u.list = p.list /\ u.uses = p.uses + needed
        /\ i \in libs[n].needs => p.list # <<>>
    BY <1>1, InUseServes
  <2>5. Append(e.list, n) # <<>>
    BY <1>1, <2>2, AppendListed
  <2>6. /\ IsFiniteSet(Users(i)) /\ Cardinality(Users(i)) \in Nat
        /\ Cardinality(Users(i) \cup {n}) = Cardinality(Users(i)) + 1
    BY <1>3, UsersFinite, FS_AddElement DEF UsesInv
  <2>7. InterfaceTable'[i] = u
    BY <1>3
  <2> HIDE DEF e, p, u
  <2>8. /\ Listed(u.list) \subseteq {m \in Names : i \in libs[m].provides}
        /\ Providers(i)' \subseteq Listed(u.list)
    BY <1>1, <1>3, <2>1, <2>3, <2>4
  <2>9. Cardinality(Users(i)') = Cardinality(Users(i)) + needed
    <3>1. CASE i \in libs[n].needs
      <4>1. Users(i)' = Users(i) \cup {n}
        BY <1>3, <3>1
      <4> QED BY <2>6, <3>1, <4>1
    <3>2. CASE i \notin libs[n].needs
      <4>1. Users(i)' = Users(i)
        BY <1>3, <3>2
      <4> QED BY <2>6, <3>2, <4>1
    <3> QED BY <3>1, <3>2
  <2>10. Solo(i) => u.uses = Cardinality(Users(i)')
    BY <2>1, <2>3, <2>4, <2>9
  <2>11. Solo(i) /\ u.list = <<>> => u.uses = 0
    BY <2>1, <2>3, <2>4, <2>5
  <2> QED BY <1>3, <2>7, <2>8, <2>10, <2>11 DEF Serves
<1> QED BY <1>2, <1>4, <1>5 DEF UsesInv

\* Unload asks for the count of one interface: that of a module that
\* implements only one.
LEMMA CountOfTheOne ==
  ASSUME UsesInv, NEW n \in alive, NEW i \in Interfaces, Solo(i),
         i \in libs[n].provides
  PROVE  GetInterfaceInstanceCount(n) = InterfaceTable[i].uses
<1> DEFINE its == {j \in Interfaces : n \in Listed(InterfaceTable[j].list)}
<1>1. n \in Names /\ libs[n].provides = {i}
  BY DEF Solo, UsesInv, PointersInv, ModulesTypeOK
<1>2. i \in its
  BY DEF UsesInv, Serves, Providers
<1>3. \A j \in its : j \in libs[n].provides
  BY DEF UsesInv, Serves
<1>4. its = {i}
  BY <1>1, <1>2, <1>3
<1>5. Least({i}) = i
  BY ModuleNames DEF Least
<1> QED BY <1>4, <1>5 DEF GetInterfaceInstanceCount

LEMMA UsesUnloadSucceeds ==
  ASSUME UsesInv, NEW n, UnloadSucceeds(n), UNCHANGED libs
  PROVE  UsesInv'
<1>1. n \in alive /\ n \in Names /\ Names \subseteq Nat
  BY ModuleNames
     DEF UnloadSucceeds, UnloadRefusal, UsesInv, PointersInv, ModulesTypeOK
<1>2. ~(GetInterfaceInstanceCount(n) > 0)
  BY DEF UnloadSucceeds, UnloadRefusal
<1>3. PointersInv'
  BY PointersUnloadSucceeds DEF UsesInv
<1>4. /\ alive' = alive \ {n} /\ libs' = libs
      /\ InterfaceTable' = Destroy(n, InterfaceTable)
      /\ \A i : Solo(i)' = Solo(i)
      /\ \A i : Providers(i)' = Providers(i) \ {n}
      /\ \A i : Users(i)' = Users(i) \ {n}
      /\ \A i : n \in Users(i) <=> i \in libs[n].needs
      /\ \A i : n \in Providers(i) <=> i \in libs[n].provides
  BY <1>1 DEF UnloadSucceeds, Providers, Users, Solo
<1>5. IsFiniteSet(alive')
  BY <1>4, FS_RemoveElement DEF UsesInv
<1>6. InterfaceTable \in [Interfaces -> EntryType]
  BY DEF UsesInv, PointersInv, ModulesTypeOK
<1>7. ASSUME NEW i \in Interfaces PROVE Serves(i)'
  <2> DEFINE e == InterfaceTable[i]
             d == InterfaceTable'[i]
             rest == Detach(e.list, n)
             uses == e.uses - (IF i \in libs[n].needs /\ e.list # <<>> THEN 1
                               ELSE 0)
  <2>1. /\ Listed(e.list) \subseteq {m \in Names : i \in libs[m].provides}
        /\ Providers(i) \subseteq Listed(e.list)
        /\ Solo(i) => /\ e.uses = Cardinality(Users(i))
                      /\ e.list = <<>> => e.uses = 0
    BY DEF UsesInv, Serves
  <2>2. e.list \in Seq(Names) /\ e.uses \in Int
    BY <1>6 DEF EntryType
  <2>3. /\ i \notin libs[n].provides => d.list = e.list /\ d.uses = uses
        /\ i \in libs[n].provides =>
             /\ d.list = rest
             /\ d.uses = IF rest = <<>> THEN 0 ELSE uses
    BY <1>1, <1>4, <1>6, DestroyServes
  <2>4. /\ Listed(e.list) \ {n} \subseteq Listed(rest)
        /\ Listed(rest) \subseteq Listed(e.list)
    BY <1>1, <2>2, DetachListed
  <2>5. i \in libs[n].provides /\ Solo(i) => ~(e.uses > 0)
    BY <1>1, <1>2, CountOfTheOne
  <2>6. /\ IsFiniteSet(Users(i)) /\ Cardinality(Users(i)) \in Nat
        /\ Cardinality(Users(i)) = 0 <=> Users(i) = {}
        /\ Cardinality(Users(i) \ {n}) = IF n \in Users(i)
                                         THEN Cardinality(Users(i)) - 1
                                         ELSE Cardinality(Users(i))
    BY UsersFinite, FS_RemoveElement DEF UsesInv
  <2> HIDE DEF e, d, rest
  <2>7. /\ Listed(d.list) \subseteq {m \in Names : i \in libs[m].provides}
        /\ Providers(i)' \subseteq Listed(d.list)
    BY <1>4, <2>1, <2>3, <2>4
  <2>8. ASSUME Solo(i) PROVE uses = Cardinality(Users(i)')
    <3>1. CASE i \in libs[n].needs
      <4>1. n \in Users(i) /\ Cardinality(Users(i)') = Cardinality(Users(i)) - 1
        BY <1>4, <2>6, <3>1
      <4>2. e.list # <<>>
        BY <2>1, <2>6, <2>8, <4>1
      <4> QED BY <2>1, <2>8, <3>1, <4>1, <4>2
    <3>2. CASE i \notin libs[n].needs
      <4>1. Cardinality(Users(i)') = Cardinality(Users(i))
        BY <1>4, <2>6, <3>2
      <4> QED BY <2>1, <2>2, <2>8, <3>2, <4>1
    <3> QED BY <3>1, <3>2
  <2>9. Cardinality(Users(i)') \in Nat
    BY <1>4, <2>6, FS_CardinalityType, FS_RemoveElement
  <2>10. ASSUME Solo(i), i \in libs[n].provides PROVE uses = 0
    <3>1. e.uses = 0 /\ Users(i) = {}
      BY <2>1, <2>2, <2>5, <2>6, <2>10
    <3>2. i \notin libs[n].needs
      BY <1>4, <3>1
    <3>3. uses = e.uses - 0
      BY <3>2
    <3> HIDE DEF uses
    <3> QED BY <3>1, <3>3
  <2>11. ASSUME Solo(i), e.list = <<>> PROVE uses = 0
    BY <2>1, <2>11
  <2> HIDE DEF uses
  <2>12. Solo(i) => d.uses = Cardinality(Users(i)')
    BY <2>3, <2>8, <2>10
  <2>13. Solo(i) /\ d.list = <<>> => d.uses = 0
    BY <2>3, <2>10, <2>11
  <2> QED BY <1>4, <2>7, <2>12, <2>13 DEF Serves, d
<1> QED BY <1>3, <1>5, <1>7 DEF UsesInv

LEMMA UsesSame ==
  ASSUME UsesInv, PointersInv',
         libs' = libs, alive' = alive, InterfaceTable' = InterfaceTable
  PROVE  UsesInv'
<1>1. \A i : /\ Providers(i)' = Providers(i) /\ Users(i)' = Users(i)
             /\ Solo(i)' = Solo(i)
  BY DEF Providers, Users, Solo
<1>2. \A i \in Interfaces : Serves(i)'
  BY <1>1 DEF UsesInv, Serves
<1> QED BY <1>2 DEF UsesInv

LEMMA UsesLoad ==
  ASSUME UsesInv, NEW n, LoadFails(n) \/ LoadSucceeds(n), UNCHANGED libs
  PROVE  UsesInv'
<1>1. CASE LoadRefused(n)
  <2>1. PointersInv'
    BY PointersLoad DEF UsesInv
  <2> QED BY <1>1, <2>1, UsesSame DEF LoadRefused, registries
<1> QED BY <1>1, UsesLoadThrows, UsesLoadWrongAPI, UsesLoadSucceeds
           DEF LoadFails

LEMMA UsesUnload ==
  ASSUME UsesInv, NEW n, Unload(n), UNCHANGED libs
  PROVE  UsesInv'
<1>1. CASE UnloadFails(n)
  <2>1. PointersInv'
    BY PointersUnload DEF UsesInv
  <2> QED BY <1>1, <2>1, UsesSame DEF UnloadFails, registries
<1> QED BY <1>1, UsesUnloadSucceeds DEF Unload

LEMMA UsesPrioritize ==
  ASSUME UsesInv, Prioritize
  PROVE  UsesInv'
<1>1. PointersInv'
  BY PointersPrioritize DEF UsesInv
<1> QED BY <1>1, UsesSame DEF Prioritize

LEMMA UsesUnchanged == UsesInv /\ UNCHANGED pointed => UsesInv'
<1>1. UsesInv /\ UNCHANGED pointed => PointersInv'
  BY PointersUnchanged DEF UsesInv
<1> QED BY <1>1, UsesSame DEF pointed, registries

LEMMA UsesModules == UsesInv /\ [ModuleNext]_moduleVars => UsesInv'
<1> SUFFICES ASSUME UsesInv, [ModuleNext]_moduleVars PROVE UsesInv'
  OBVIOUS
<1>1. CASE UNCHANGED moduleVars
  BY <1>1, UsesUnchanged DEF moduleVars, pointed
<1>2. ASSUME NEW n \in Names, LoadModule(n) PROVE UsesInv'
  BY <1>2, UsesLoad DEF LoadModule
<1>3. ASSUME NEW n \in Names, UnloadModule(n) PROVE UsesInv'
  BY <1>3, UsesUnload DEF UnloadModule
<1> QED BY <1>1, <1>2, <1>3, UsesPrioritize DEF ModuleNext

LEMMA UsesStartup == UsesInv /\ [StartupNext]_startupVars => UsesInv'
<1>1. UNCHANGED startupVars => UNCHANGED pointed
  BY DEF startupVars, moduleVars, pointed
<1> QED BY <1>1, StartupModules, UsesUnchanged, UsesLoad, UsesUnload,
           UsesPrioritize

LEMMA UsersAreServed == UsesInv => ProviderOutlivesUsers
<1> SUFFICES ASSUME UsesInv, NEW n \in Modules, NEW i \in libs[n].needs,
                    \A m \in Names : i \in libs[m].provides =>
                      ~(Cardinality(libs[m].provides) > 1)
             PROVE  InterfaceTable[i].list # <<>>
  BY DEF ProviderOutlivesUsers
<1>1. n \in alive /\ n \in Names /\ i \in Interfaces
  BY DEF UsesInv, PointersInv, ModulesTypeOK, Library
<1>2. Solo(i)
  <2> SUFFICES ASSUME NEW m \in Names, i \in libs[m].provides
               PROVE  libs[m].provides = {i}
    BY DEF Solo
  <2> DEFINE S == libs[m].provides
  <2>1. S \in SUBSET Interfaces
    BY DEF UsesInv, PointersInv, ModulesTypeOK, Library
  <2> HIDE DEF S
  <2>2. IsFiniteSet(S)
    BY <2>1, ModuleNames, FS_Subset
  <2>3. Cardinality(S) \in Nat /\ ~(Cardinality(S) > 1) /\ S # {}
    BY <2>2, FS_CardinalityType DEF S
  <2>4. Cardinality(S) # 0
    BY <2>2, <2>3, FS_EmptySet
  <2>5. Cardinality(S) = 1
    BY <2>3, <2>4
  <2>6. \E x : S = {x}
    BY <2>2, <2>5, FS_Singleton
  <2> QED BY <2>6 DEF S
<1>3. n \in Users(i)
  BY <1>1 DEF Users
<1> QED BY <1>1, <1>2, <1>3, UsersFinite DEF UsesInv, Serves

\* A module that implements one interface stays for as long as a module is
\* loaded that uses it, whatever was loaded and unloaded before: the count of
\* its uses is right, and Unload asks for that count.
THEOREM ProvidersOutliveUsers == ModulesSpec => []ProviderOutlivesUsers
BY UsesInitially, UsesModules, UsersAreServed, PTL DEF ModulesSpec

\* The same of the server, through its start and its Exit.
THEOREM ProvidersOutliveUsersInTheServer ==
  StartupSpec => []ProviderOutlivesUsers
<1>1. StartupInit => UsesInv
  BY UsesInitially DEF StartupInit
<1> QED BY <1>1, UsesStartup, UsersAreServed, PTL DEF StartupSpec

-----------------------------------------------------------------------------
(* The end.  When a round of Unload is over, those that are left and that    *)
(* the fewest are built upon are static, or held by somebody who will not go *)
(* either: each round settles one layer more.                                *)

\* depth grows from those who need a service to those who offer it.
OnLayers(depth) ==
  \A m, n \in Names :
    libs[m].needs \cap libs[n].provides # {} => depth[m] < depth[n]

\* The services of every directory are built on each other in no more layers
\* than Cleanup has rounds, and no module offers two of them.
FewLayers ==
  \A d \in Directories :
    /\ \E depth \in [Names -> 1 .. Rounds] : \A m, n \in Names :
         d[m].needs \cap d[n].provides # {} => depth[m] < depth[n]
    /\ \A n \in Names : \A i \in d[n].provides : d[n].provides = {i}

\* None of them goes as long as the others stay.
Held(fixed) ==
  \A n \in fixed :
    \/ libs[n].static
    \/ \E m \in fixed : libs[m].needs \cap libs[n].provides # {}

\* This round has been to n, or one before it has been to what it is under.
Settled(depth, n) ==
  \/ depth[n] < tries
  \/ depth[n] <= tries /\ n \notin module_names

RoundInv ==
  \A depth \in [Names -> 1 .. Rounds] : OnLayers(depth) =>
    \E fixed \in SUBSET Modules :
      Held(fixed) /\ \A n \in Modules : Settled(depth, n) => n \in fixed

CleanInv ==
  /\ UsesInv /\ libs \in Directories
  /\ pc \in {"Unloading", "Exited"} => ports = {}
  /\ pc = "Unloading" =>
       tries \in 1 .. Rounds /\ module_names \subseteq Names /\ RoundInv
  /\ pc = "Exited" =>
       /\ logger # "open"
       /\ \A depth \in [Names -> 1 .. Rounds] : OnLayers(depth) => Held(Modules)

LEMMA AllSolo ==
  ASSUME FewLayers, libs \in Directories
  PROVE  \A i \in Interfaces : Solo(i)
BY DEF FewLayers, Solo

\* Unload refuses a module for one that uses it, or since it is static; and
\* only then.
LEMMA WhoIsRefused ==
  ASSUME UsesInv, \A i \in Interfaces : Solo(i), NEW n \in Modules
  PROVE  UnloadRefusal(n) # "" <=>
           \/ libs[n].static
           \/ \E m \in Modules : libs[m].needs \cap libs[n].provides # {}
<1>1. /\ Modules = alive /\ n \in Names /\ alive \subseteq Names
      /\ libs \in [Names -> Library]
  BY DEF UsesInv, PointersInv, ModulesTypeOK
<1>2. libs[n].provides \subseteq Interfaces
  BY <1>1, LibraryOf DEF UsesInv, PointersInv
<1>3. \A i \in Interfaces :
        /\ IsFiniteSet(Users(i)) /\ Cardinality(Users(i)) \in Nat
        /\ Cardinality(Users(i)) = 0 <=> Users(i) = {}
  BY UsersFinite DEF UsesInv
<1>4. ASSUME NEW i \in libs[n].provides
      PROVE  GetInterfaceInstanceCount(n) = Cardinality(Users(i))
  <2>1. i \in Interfaces /\ Solo(i) /\ n \in alive
    BY <1>1, <1>2
  <2>2. GetInterfaceInstanceCount(n) = InterfaceTable[i].uses
    BY <2>1, CountOfTheOne
  <2> QED BY <2>1, <2>2 DEF UsesInv, Serves
<1>5. ASSUME libs[n].provides = {}
      PROVE  GetInterfaceInstanceCount(n) = 0
  <2>1. \A i \in Interfaces : n \notin Listed(InterfaceTable[i].list)
    BY <1>5 DEF UsesInv, Serves
  <2> QED BY <2>1 DEF GetInterfaceInstanceCount
<1>6. GetInterfaceInstanceCount(n) > 0 <=>
        \E m \in Modules : libs[m].needs \cap libs[n].provides # {}
  <2>1. CASE libs[n].provides = {}
    BY <1>5, <2>1
  <2>2. ASSUME NEW i \in libs[n].provides
        PROVE  GetInterfaceInstanceCount(n) > 0 <=>
                 \E m \in Modules : libs[m].needs \cap libs[n].provides # {}
    <3>1. i \in Interfaces /\ libs[n].provides = {i}
      BY <1>1, <1>2 DEF Solo
    <3>2. GetInterfaceInstanceCount(n) > 0 <=> Users(i) # {}
      BY <1>3, <1>4, <3>1
    <3> QED BY <1>1, <3>1, <3>2 DEF Users
  <2> QED BY <2>1, <2>2
<1>7. UnloadRefusal(n) # "" <=>
        libs[n].static \/ GetInterfaceInstanceCount(n) > 0
  BY DEF UnloadRefusal
<1> QED BY <1>6, <1>7

\* What a step has to show.
LEMMA RoundAfter ==
  ASSUME libs' = libs,
         \A depth \in [Names -> 1 .. Rounds] : OnLayers(depth) =>
           \E fixed \in SUBSET Modules' :
             /\ Held(fixed)
             /\ \A n \in Modules' :
                  \/ depth[n] < tries'
                  \/ depth[n] <= tries' /\ n \notin module_names'
                  => n \in fixed
  PROVE  RoundInv'
BY DEF RoundInv, OnLayers, Held, Settled

LEMMA RoundBegins ==
  ASSUME UsesInv, StartCleanup
  PROVE  RoundInv'
<1>1. /\ tries' = 1 /\ module_names' = Modules /\ Modules' = Modules
      /\ libs' = libs /\ Modules \subseteq Names
  BY DEF StartCleanup, moduleVars, UsesInv, PointersInv, ModulesTypeOK
<1>2. Held({}) /\ {} \in SUBSET Modules'
  BY DEF Held
<1>3. ASSUME NEW depth \in [Names -> 1 .. Rounds], NEW n \in Modules'
      PROVE  /\ ~(depth[n] < tries')
             /\ ~(depth[n] <= tries' /\ n \notin module_names')
  <2>1. depth[n] \in 1 .. Rounds
    BY <1>1
  <2> QED BY <1>1, <2>1 DEF Rounds
<1> QED BY <1>1, <1>2, <1>3, RoundAfter

LEMMA RoundGoesOn ==
  ASSUME UsesInv, \A i \in Interfaces : Solo(i), RoundInv,
         tries \in 1 .. Rounds, module_names \subseteq Names, UnloadNext
  PROVE  RoundInv' /\ module_names' \subseteq Names
<1> DEFINE n == Least(module_names)
<1>1. n \in module_names /\ n \in Names
  BY ModuleNames, LeastExists DEF UnloadNext
<1>2. /\ Unload(n) /\ module_names' = module_names \ {n}
      /\ libs' = libs /\ tries' = tries
  BY DEF UnloadNext
<1>3. Modules \subseteq Names
  BY DEF UsesInv, PointersInv, ModulesTypeOK
<1> HIDE DEF n
<1> SUFFICES ASSUME NEW depth \in [Names -> 1 .. Rounds], OnLayers(depth)
             PROVE  \E fixed \in SUBSET Modules' :
                      /\ Held(fixed)
                      /\ \A m \in Modules' :
                           \/ depth[m] < tries
                           \/ depth[m] <= tries /\ m \notin module_names \ {n}
                           => m \in fixed
  BY <1>2, RoundAfter
<1>4. PICK fixed \in SUBSET Modules :
        Held(fixed) /\ \A m \in Modules : Settled(depth, m) => m \in fixed
  BY DEF RoundInv
<1>5. CASE UnloadSucceeds(n)
  <2>1. UnloadRefusal(n) = "" /\ Modules' = Modules \ {n}
    BY <1>5 DEF UnloadSucceeds
  <2>2. n \in Modules
    BY <2>1 DEF UnloadRefusal
  <2>3. /\ ~libs[n].static
        /\ ~\E m \in Modules : libs[m].needs \cap libs[n].provides # {}
    BY <2>1, <2>2, WhoIsRefused
  <2>4. n \notin fixed
    BY <1>4, <2>3 DEF Held
  <2>5. fixed \in SUBSET Modules'
    BY <1>4, <2>1, <2>4
  <2> QED BY <1>4, <2>1, <2>5 DEF Settled
<1>6. CASE UnloadFails(n)
  <2>1. UnloadRefusal(n) # "" /\ Modules' = Modules
    BY <1>6 DEF UnloadFails
  <2>2. CASE n \in Modules /\ depth[n] <= tries
    <3>1. \/ libs[n].static
          \/ \E m \in Modules : libs[m].needs \cap libs[n].provides # {}
      BY <2>1, <2>2, WhoIsRefused
    <3>2. ASSUME NEW m \in Modules, libs[m].needs \cap libs[n].provides # {}
          PROVE  m \in fixed
      <4>1. m \in Names /\ depth[m] < depth[n]
        BY <1>1, <1>3, <3>2 DEF OnLayers
      <4>2. /\ depth[m] \in 1 .. Rounds /\ depth[n] \in 1 .. Rounds
            /\ Rounds = 3
        BY <1>1, <4>1 DEF Rounds
      <4>3. depth[m] < tries
        BY <2>2, <4>1, <4>2
      <4> QED BY <1>4, <4>3 DEF Settled
    <3>3. Held(fixed \cup {n})
      BY <1>4, <3>1, <3>2 DEF Held
    <3>4. fixed \cup {n} \in SUBSET Modules'
      BY <1>4, <2>1, <2>2
    <3>5. ASSUME NEW m \in Modules', m # n,
                 \/ depth[m] < tries
                 \/ depth[m] <= tries /\ m \notin module_names \ {n}
          PROVE  m \in fixed
      BY <1>4, <2>1, <3>5 DEF Settled
    <3> QED BY <3>3, <3>4, <3>5
  <2>3. CASE ~(n \in Modules /\ depth[n] <= tries)
    <3>1. ASSUME NEW m \in Modules,
                 \/ depth[m] < tries
                 \/ depth[m] <= tries /\ m \notin module_names \ {n}
          PROVE  m \in fixed
      <4>1. CASE m # n
        BY <1>4, <3>1, <4>1 DEF Settled
      <4>2. CASE m = n
        <5>1. depth[n] \in 1 .. Rounds /\ Rounds = 3
          BY <1>1 DEF Rounds
        <5> QED BY <2>3, <3>1, <4>2, <5>1
      <4> QED BY <4>1, <4>2
    <3> QED BY <1>4, <2>1, <3>1
  <2> QED BY <2>2, <2>3
<1> QED BY <1>1, <1>2, <1>5, <1>6 DEF Unload

LEMMA RoundEnds ==
  ASSUME UsesInv, RoundInv, tries \in 1 .. Rounds, NextRound
  PROVE  RoundInv'
<1>1. /\ module_names = {} /\ module_names' = Modules /\ tries' = tries + 1
      /\ Modules' = Modules /\ libs' = libs
  BY DEF NextRound, moduleVars
<1>2. Modules \subseteq Names
  BY DEF UsesInv, PointersInv, ModulesTypeOK
<1> SUFFICES ASSUME NEW depth \in [Names -> 1 .. Rounds], OnLayers(depth)
             PROVE  \E fixed \in SUBSET Modules :
                      /\ Held(fixed)
                      /\ \A n \in Modules : depth[n] < tries + 1 => n \in fixed
  BY <1>1, RoundAfter
<1>3. PICK fixed \in SUBSET Modules :
        Held(fixed) /\ \A n \in Modules : Settled(depth, n) => n \in fixed
  BY DEF RoundInv
<1>4. ASSUME NEW n \in Modules, depth[n] < tries + 1 PROVE n \in fixed
  <2>1. depth[n] \in 1 .. Rounds /\ Rounds = 3
    BY <1>2 DEF Rounds
  <2>2. depth[n] <= tries
    BY <1>4, <2>1
  <2> QED BY <1>1, <1>3, <2>2 DEF Settled
<1> QED BY <1>3, <1>4

\* After the last round nobody is left who is not held.
LEMMA RoundsAreEnough ==
  ASSUME UsesInv, RoundInv, module_names = {}, tries = Rounds,
         NEW depth \in [Names -> 1 .. Rounds], OnLayers(depth)
  PROVE  Held(Modules)
<1>1. PICK fixed \in SUBSET Modules :
        Held(fixed) /\ \A n \in Modules : Settled(depth, n) => n \in fixed
  BY DEF RoundInv
<1>2. \A n \in Modules : Settled(depth, n)
  <2> SUFFICES ASSUME NEW n \in Modules PROVE depth[n] <= tries
    BY DEF Settled
  <2>1. depth[n] \in 1 .. Rounds
    BY DEF UsesInv, PointersInv, ModulesTypeOK
  <2> QED BY <2>1 DEF Rounds
<1>3. fixed = Modules
  BY <1>1, <1>2
<1> QED BY <1>1, <1>3

LEMMA CleanInitially == StartupInit => CleanInv
BY UsesInitially DEF StartupInit, ModuleInit, CleanInv

\* The start of the server, and the signals, keep away from what is left.
LEMMA CleanElsewhere ==
  ASSUME StartupNext
  PROVE  \/ pc' \notin {"Unloading", "Exited"}
         \/ StartCleanup \/ UnloadNext \/ NextRound \/ CloseLog
         \/ /\ pc' = pc
            /\ UNCHANGED <<Modules, ports, logger, tries, module_names>>
<1> USE DEF Goto, Exit, QuickExit, moduleVars, cleanupVars, portVars
<1>1. CASE Options
  BY <1>1 DEF Options
<1>2. CASE OpenLog
  BY <1>2 DEF OpenLog
<1>3. CASE SetSignals
  BY <1>3 DEF SetSignals
<1>4. CASE DaemonSeed
  BY <1>4 DEF DaemonSeed
<1>5. CASE Child
  BY <1>5 DEF Child
<1>6. CASE ConfigRead
  <2>1. Read
    BY <1>6 DEF ConfigRead
  <2>2. CASE ReadFile
    BY <2>2 DEF ReadFile
  <2>3. CASE ReadValue
    BY <2>3 DEF ReadValue
  <2>4. CASE ReadModules
    BY <2>4 DEF ReadModules
  <2>5. CASE SkipModule
    BY <2>5 DEF SkipModule, LoadingModules
  <2>6. CASE LoadOne
    BY <2>6 DEF LoadOne, LoadingModules
  <2>7. CASE OpenDirectory
    BY <2>7 DEF OpenDirectory, LoadingModules
  <2>8. CASE LoadMatch
    BY <2>8 DEF LoadMatch
  <2>9. CASE CloseDirectory
    BY <2>9 DEF CloseDirectory
  <2>10. CASE EndLoading
    BY <2>10 DEF EndLoading
  <2>11. CASE ReadPrioritizes
    BY <2>11 DEF ReadPrioritizes
  <2>12. CASE CheckOnce
    BY <2>12 DEF CheckOnce
  <2> QED BY <2>1, <2>2, <2>3, <2>4, <2>5, <2>6, <2>7, <2>8, <2>9, <2>10,
             <2>11, <2>12 DEF Read
<1>7. CASE TryPID
  BY <1>7 DEF TryPID, WritePID
<1>8. CASE BindPort
  BY <1>8 DEF BindPort
<1>9. CASE BindPorts
  BY <1>9 DEF BindPorts
<1>10. CASE KillParent
  BY <1>10 DEF KillParent
<1>11. CASE ChRoot
  BY <1>11 DEF ChRoot, Privileges
<1>12. CASE SetUser
  BY <1>12 DEF SetUser, Privileges
<1>13. CASE SetGroup
  BY <1>13 DEF SetGroup, Privileges
<1>14. CASE FinalPID
  BY <1>14 DEF FinalPID, WritePID
<1>15. CASE Main
  BY <1>15 DEF Main
<1>16. CASE ParentLooks
  BY <1>16 DEF ParentLooks
<1>17. CASE SigTerm
  <2>1. UNCHANGED <<Modules, ports, logger, tries, module_names>>
    BY <1>17 DEF SigTerm
  <2>2. pc' \in {"Killed", "QuickExit", "Crashed", "Cleanup"} \/ pc' = pc
    BY <1>17 DEF SigTerm
  <2> QED BY <2>1, <2>2
<1>18. CASE ParentKilled
  BY <1>18 DEF ParentKilled
<1> QED
  BY <1>1, <1>2, <1>3, <1>4, <1>5, <1>6, <1>7, <1>8, <1>9, <1>10, <1>11,
     <1>12, <1>13, <1>14, <1>15, <1>16, <1>17, <1>18 DEF StartupNext, MainThread

\* No library changes while the server runs.
LEMMA SameLibraries == [StartupNext]_startupVars => libs' = libs
<1>1. UNCHANGED startupVars => libs' = libs
  BY DEF startupVars, moduleVars
<1> QED BY <1>1, StartupModules DEF pointed, Prioritize

LEMMA CleanStep ==
  ASSUME FewLayers, CleanInv, [StartupNext]_startupVars
  PROVE  CleanInv'
<1>1. UsesInv' /\ libs' = libs /\ libs' \in Directories
  BY UsesStartup, SameLibraries DEF CleanInv
<1>2. \A i \in Interfaces : Solo(i)
  BY AllSolo DEF CleanInv
<1>3. CASE pc' \notin {"Unloading", "Exited"}
  BY <1>1, <1>3 DEF CleanInv
<1>4. CASE pc' = pc /\ UNCHANGED <<Modules, ports, logger, tries, module_names>>
  BY <1>1, <1>4 DEF CleanInv, RoundInv, OnLayers, Held, Settled
<1>5. CASE StartCleanup
  <2>1. /\ RoundInv' /\ tries' = 1 /\ module_names' \subseteq Names
        /\ pc' = "Unloading" /\ ports' = {}
    BY <1>5, RoundBegins
       DEF StartCleanup, Goto, CleanInv, UsesInv, PointersInv, ModulesTypeOK
  <2> QED BY <1>1, <2>1 DEF CleanInv, Rounds
<1>6. CASE UnloadNext
  <2>1. pc = "Unloading" /\ pc' = pc /\ ports' = ports /\ tries' = tries
    BY <1>6 DEF UnloadNext, portVars
  <2>2. RoundInv' /\ module_names' \subseteq Names
    BY <1>2, <1>6, <2>1, RoundGoesOn DEF CleanInv
  <2> QED BY <1>1, <2>1, <2>2 DEF CleanInv
<1>7. CASE NextRound
  <2>1. /\ pc = "Unloading" /\ pc' = pc /\ ports' = ports /\ tries' = tries + 1
        /\ tries < Rounds /\ module_names' = Modules
    BY <1>7 DEF NextRound, portVars
  <2>2. RoundInv' /\ module_names' \subseteq Names
    BY <1>7, <2>1, RoundEnds DEF CleanInv, UsesInv, PointersInv, ModulesTypeOK
  <2> QED BY <1>1, <2>1, <2>2 DEF CleanInv, Rounds
<1>8. CASE CloseLog
  <2>1. /\ pc = "Unloading" /\ ports' = ports /\ Modules' = Modules
        /\ module_names = {} /\ tries = Rounds
        /\ logger' # "open" /\ pc' \in {"Exited", "Crashed"}
    BY <1>8 DEF CloseLog, portVars, moduleVars
  <2>2. \A depth \in [Names -> 1 .. Rounds] : OnLayers(depth) => Held(Modules)
    BY <2>1, RoundsAreEnough DEF CleanInv
  <2>3. (\A depth \in [Names -> 1 .. Rounds] : OnLayers(depth) => Held(Modules))'
    BY <1>1, <2>1, <2>2 DEF OnLayers, Held
  <2> QED BY <1>1, <2>1, <2>3 DEF CleanInv
<1>9. UNCHANGED startupVars => pc' = pc /\
        UNCHANGED <<Modules, ports, logger, tries, module_names>>
  BY DEF startupVars, moduleVars, cleanupVars, portVars
<1> QED BY <1>3, <1>4, <1>5, <1>6, <1>7, <1>8, <1>9, CleanElsewhere

LEMMA NobodyIsHeld ==
  ASSUME Modules \subseteq Names, Held(Modules),
         NEW depth \in [Names -> 1 .. Rounds], OnLayers(depth),
         \A n \in Modules : ~libs[n].static
  PROVE  Modules = {}
<1> SUFFICES ASSUME Modules # {} PROVE FALSE
  OBVIOUS
<1> DEFINE depths == {depth[n] : n \in Modules}
<1>1. depths \subseteq Nat /\ depths # {}
  BY DEF Rounds
<1> HIDE DEF depths
<1>2. Least(depths) \in depths /\ \A x \in depths : Least(depths) <= x
  BY <1>1, LeastExists
<1>3. PICK n \in Modules : depth[n] = Least(depths)
  BY <1>2 DEF depths
<1>4. PICK m \in Modules : libs[m].needs \cap libs[n].provides # {}
  BY <1>3 DEF Held
<1>5. depth[m] < depth[n] /\ depth[m] \in depths
  BY <1>3, <1>4 DEF OnLayers, depths
<1>6. depth[m] \in Nat /\ depth[n] \in Nat
  BY <1>1, <1>2, <1>3, <1>5
<1> QED BY <1>2, <1>3, <1>5, <1>6

LEMMA CleanIsClean == FewLayers /\ CleanInv => CleanExit
<1> SUFFICES ASSUME FewLayers, CleanInv, pc = "Exited" PROVE CleanExit
  BY DEF CleanExit
<1>1. PICK depth \in [Names -> 1 .. Rounds] : OnLayers(depth)
  BY DEF FewLayers, CleanInv, OnLayers
<1>2. Held(Modules) /\ ports = {} /\ logger # "open"
  BY <1>1 DEF CleanInv
<1>3. \A n \in Modules : Pinned(n)
  BY <1>2 DEF Held, Pinned
<1>4. Modules \subseteq Names
  BY DEF CleanInv, UsesInv, PointersInv, ModulesTypeOK
<1>5. (\A n \in Modules : ~libs[n].static) => Modules = {}
  BY <1>1, <1>2, <1>4, NobodyIsHeld
<1> QED BY <1>2, <1>3, <1>5 DEF CleanExit

\* Exit closes the listeners and the log and leaves no module but those that
\* are static and those they need, if services are built on each other in at
\* most as many layers as Cleanup has rounds.
THEOREM ExitIsClean == FewLayers /\ StartupSpec => []CleanExit
<1>1. CASE FewLayers
  <2>1. CleanInv /\ [StartupNext]_startupVars => CleanInv'
    BY <1>1, CleanStep
  <2>2. CleanInv => CleanExit
    BY <1>1, CleanIsClean
  <2> QED BY <2>1, <2>2, CleanInitially, PTL DEF StartupSpec
<1> QED BY <1>1

-----------------------------------------------------------------------------
(* Confinement.  What <security> says reaches Config although Read strips    *)
(* linefeeds on its way, and each of the three calls is made under what the  *)
(* ones before it left.                                                      *)

Three == {"user", "group", "chroot"}

\* A file that is to be taken at its word has one <security>, with each of the
\* three in it at most once on one line: of several, Read takes the first.
Plain(data) ==
  /\ data \in Seq([tag : STRING,
                   items : Seq([key : STRING, text : STRING,
                                linefeed : BOOLEAN])])
  /\ \A s, r \in DOMAIN data :
       data[s].tag = "security" /\ data[r].tag = "security" => s = r
  /\ \A s \in DOMAIN data, var \in Three :
       data[s].tag = "security" =>
         \A i, j \in Answers(data[s].items, var) : i = j
PlainFiles == \A e \in Scenarios : e.file.ok => Plain(e.file.data)

\* What Read has left of the file when it has looked up the values in done.
Remains(data, d, done) ==
  /\ DOMAIN d = DOMAIN data
  /\ \A s \in DOMAIN data :
       /\ d[s] = [tag |-> data[s].tag, items |-> d[s].items]
       /\ DOMAIN d[s].items = DOMAIN data[s].items
       /\ \A i \in DOMAIN data[s].items :
            /\ d[s].items[i] = [key |-> data[s].items[i].key,
                                text |-> data[s].items[i].text,
                                linefeed |-> d[s].items[i].linefeed]
            /\ data[s].items[i].key \notin done =>
                 d[s].items[i].linefeed = data[s].items[i].linefeed

Fields == {Values[i].value : i \in DOMAIN Values}
LookedUp == {Values[i].value : i \in 1 .. Index - 1}

Configured == {"LoadAll", "CheckOnce", "TryPID", "AddModules", "BindPorts",
               "KillParent", "chroot", "setuid", "setgid", "WritePID", "main",
               "Run"}
AfterChroot == {"setuid", "setgid", "WritePID", "main", "Run"}
AfterUser == {"setgid", "WritePID", "main", "Run"}
AfterGroup == {"WritePID", "main", "Run"}

InRoot == Wanted("chroot") # "" => proc.root = Wanted("chroot")
AsUser ==
  Wanted("user") # "" => proc.uid = env.users[proc.root][Wanted("user")]
InGroup ==
  Wanted("group") # "" => proc.gid = env.groups[proc.root][Wanted("group")]

ConfinedInv ==
  /\ env \in Scenarios
  /\ proc = [uid |-> proc.uid, gid |-> proc.gid, root |-> proc.root]
  /\ DOMAIN Config = Fields
  /\ pc = "Values" =>
       /\ env.file.ok
       /\ Index \in 1 .. Len(Values) + 1
       /\ Remains(env.file.data, config_data, LookedUp)
       /\ \A var \in Three \cap LookedUp : Config[var] = Wanted(var)
  /\ pc \in Configured => \A var \in Three : Config[var] = Wanted(var)
  /\ pc \in AfterChroot => InRoot
  /\ pc \in AfterUser => AsUser
  /\ pc \in AfterGroup => InGroup

\* The rows of the three.
LEMMA TableLength == Len(Values) = 20 /\ DOMAIN Values = 1 .. 20
BY DEF Values, Checked, Text, Whole, Flag, Row

LEMMA ThreeRows ==
  /\ Values[9].value = "user" /\ Values[10].value = "group"
  /\ Values[11].value = "chroot"
  /\ \A i \in 9 .. 11 :
       /\ Values[i].tag = "security" /\ Values[i].default = ""
       /\ Values[i].type = "DT_CHARPTR" /\ Values[i].check = ""
  /\ \A i \in 1 .. 20 : /\ Values[i].value = "user" => i = 9
                        /\ Values[i].value = "group" => i = 10
                        /\ Values[i].value = "chroot" => i = 11
<1> USE DEF Values, Checked, Text, Whole, Flag, Row
<1>1. /\ Values[9] = Row("security", "user", "", "DT_CHARPTR", "")
      /\ Values[10] = Row("security", "group", "", "DT_CHARPTR", "")
      /\ Values[11] = Row("security", "chroot", "", "DT_CHARPTR", "")
  OBVIOUS
<1>2. \A i \in 9 .. 11 :
        /\ Values[i].tag = "security" /\ Values[i].default = ""
        /\ Values[i].type = "DT_CHARPTR" /\ Values[i].check = ""
  <2>2. /\ Values[9].tag = "security" /\ Values[9].default = ""
        /\ Values[9].type = "DT_CHARPTR" /\ Values[9].check = ""
    BY <1>1
  <2>3. /\ Values[10].tag = "security" /\ Values[10].default = ""
        /\ Values[10].type = "DT_CHARPTR" /\ Values[10].check = ""
    BY <1>1
  <2>4. /\ Values[11].tag = "security" /\ Values[11].default = ""
        /\ Values[11].type = "DT_CHARPTR" /\ Values[11].check = ""
    BY <1>1
  <2> HIDE DEF Values
  <2>5. \A i \in 9 .. 11 : i = 9 \/ i = 10 \/ i = 11
    OBVIOUS
  <2> QED BY <2>2, <2>3, <2>4, <2>5
<1>3. /\ Values[1].value = "document-root"
      /\ Values[2].value = "softlimit"
      /\ Values[3].value = "loglevel"
      /\ Values[4].value = "netbuffersize"
      /\ Values[5].value = "moduledir"
      /\ Values[6].value = "customversion"
      /\ Values[7].value = "pidfile"
      /\ Values[8].value = "follow-symlinks"
      /\ Values[9].value = "user"
      /\ Values[10].value = "group"
      /\ Values[11].value = "chroot"
      /\ Values[12].value = "stat-cache-time"
      /\ Values[13].value = "noatime"
      /\ Values[14].value = "max-conn-queue"
      /\ Values[15].value = "keepalive-max"
      /\ Values[16].value = "timeout-frequency"
      /\ Values[17].value = "timeout-total-lifetime"
      /\ Values[18].value = "timeout-idle-lifetime"
      /\ Values[19].value = "max-post-body"
      /\ Values[20].value = "max-dynamic-processes"
  OBVIOUS
<1> HIDE DEF Values
<1>4. \A i \in 1 .. 20 :
         i = 1 \/ i = 2 \/ i = 3 \/ i = 4 \/ i = 5 \/ i = 6 \/ i = 7 \/ i =
         8 \/ i = 9 \/ i = 10 \/ i = 11 \/ i = 12 \/ i = 13 \/ i = 14 \/ i
         = 15 \/ i = 16 \/ i = 17 \/ i = 18 \/ i = 19 \/ i = 20
  OBVIOUS
<1>5. \A i \in 1 .. 20 : /\ Values[i].value = "user" => i = 9
                         /\ Values[i].value = "group" => i = 10
                         /\ Values[i].value = "chroot" => i = 11
  BY <1>3, <1>4
<1> QED BY <1>2, <1>3, <1>5

LEMMA RemainsWhole ==
  ASSUME NEW data, Plain(data)
  PROVE  Remains(data, data, {})
<1>1. ASSUME NEW s \in DOMAIN data
      PROVE  /\ data[s] = [tag |-> data[s].tag, items |-> data[s].items]
             /\ \A i \in DOMAIN data[s].items :
                  data[s].items[i] = [key |-> data[s].items[i].key,
                                      text |-> data[s].items[i].text,
                                      linefeed |-> data[s].items[i].linefeed]
  <2> DEFINE Item == [key : STRING, text : STRING, linefeed : BOOLEAN]
             section == data[s]
             items == section.items
  <2>1. section \in [tag : STRING, items : Seq(Item)]
    <3>1. data \in Seq([tag : STRING, items : Seq(Item)])
      BY DEF Plain
    <3>2. s \in 1 .. Len(data)
      BY <3>1, LenProperties
    <3> QED BY <3>1, <3>2, ElementOfSeq
  <2> HIDE DEF section
  <2>2. /\ section = [tag |-> section.tag, items |-> section.items]
        /\ items \in Seq(Item)
    BY <2>1
  <2> HIDE DEF items
  <2>3. ASSUME NEW i \in DOMAIN items
        PROVE  items[i] = [key |-> items[i].key, text |-> items[i].text,
                           linefeed |-> items[i].linefeed]
    <3>1. i \in 1 .. Len(items)
      BY <2>2, LenProperties
    <3>2. items[i] \in Item
      BY <2>2, <3>1, ElementOfSeq
    <3> QED BY <3>2
  <2> QED BY <2>2, <2>3 DEF section, items
<1> QED BY <1>1 DEF Remains

\* Sections keep their places, and an item that was not looked up its flag.
LEMMA RemainsFound ==
  ASSUME NEW data, NEW d, NEW done, Plain(data), Remains(data, d, done),
         NEW tag, NEW var, var \notin done
  PROVE  /\ Section(d, tag, 0) = Section(data, tag, 0)
         /\ \A s \in DOMAIN data :
              /\ Answers(d[s].items, var) = Answers(data[s].items, var)
              /\ Answers(d[s].items, var) \subseteq DOMAIN data[s].items
              /\ \A i \in DOMAIN data[s].items :
                   d[s].items[i].text = data[s].items[i].text
<1>1. DOMAIN data = 1 .. Len(data) /\ Len(data) \in Nat
  BY LenProperties DEF Plain
<1>2. DOMAIN d = DOMAIN data
        /\ \A s \in DOMAIN data : d[s].tag = data[s].tag
  BY DEF Remains
<1>3. ASSUME NEW s \in DOMAIN data
      PROVE  {r \in 1 .. s - 1 : d[r].tag = tag}
               = {r \in 1 .. s - 1 : data[r].tag = tag}
  <2>1. 1 .. s - 1 \subseteq DOMAIN data
    BY <1>1
  <2> QED BY <1>2, <2>1
<1>4. Section(d, tag, 0) = Section(data, tag, 0)
  BY <1>2, <1>3 DEF Section
<1>5. ASSUME NEW s \in DOMAIN data, NEW i \in DOMAIN data[s].items
      PROVE  /\ d[s].items[i].key = data[s].items[i].key
             /\ d[s].items[i].text = data[s].items[i].text
             /\ data[s].items[i].key = var =>
                  d[s].items[i].linefeed = data[s].items[i].linefeed
  <2> DEFINE x == d[s].items[i]
             o == data[s].items[i]
  <2>1. /\ x = [key |-> o.key, text |-> o.text, linefeed |-> x.linefeed]
        /\ o.key \notin done => x.linefeed = o.linefeed
    BY DEF Remains
  <2> HIDE DEF x, o
  <2>2. x.key = o.key /\ x.text = o.text
    BY <2>1
  <2> QED BY <2>1, <2>2 DEF x, o
<1>6. \A s \in DOMAIN data : DOMAIN d[s].items = DOMAIN data[s].items
  BY DEF Remains
<1>7. ASSUME NEW s \in DOMAIN data
      PROVE  Answers(d[s].items, var) = Answers(data[s].items, var)
  BY <1>5, <1>6 DEF Answers
<1> QED BY <1>4, <1>5, <1>6, <1>7 DEF Answers

LEMMA FlagSet ==
  ASSUME NEW k, NEW t, NEW f, NEW g, NEW x,
         x = [key |-> k, text |-> t, linefeed |-> f]
  PROVE  [x EXCEPT !.linefeed = g] = [key |-> k, text |-> t, linefeed |-> g]
OBVIOUS

LEMMA RemainsStripped ==
  ASSUME NEW data, NEW d, NEW done, Plain(data), Remains(data, d, done),
         NEW tag, NEW var
  PROVE  Remains(data, Stripped(d, tag, var, 0), done \cup {var})
<1> DEFINE e == Stripped(d, tag, var, 0)
<1>1. DOMAIN e = DOMAIN d /\ DOMAIN d = DOMAIN data
  BY DEF Stripped, Remains
<1>2. ASSUME NEW s \in DOMAIN data
      PROVE  /\ e[s] = [tag |-> data[s].tag, items |-> e[s].items]
             /\ DOMAIN e[s].items = DOMAIN data[s].items
             /\ \A i \in DOMAIN data[s].items :
                  /\ e[s].items[i] = [key |-> data[s].items[i].key,
                                      text |-> data[s].items[i].text,
                                      linefeed |-> e[s].items[i].linefeed]
                  /\ data[s].items[i].key \notin done \cup {var} =>
                       e[s].items[i].linefeed = data[s].items[i].linefeed
  <2> DEFINE section == d[s]
             items == section.items
             o == data[s].items
             less == [i \in DOMAIN items |->
                        IF items[i].key = var
                           /\ \A j \in Answers(items, var) : i < j
                        THEN [items[i] EXCEPT !.linefeed = FALSE]
                        ELSE items[i]]
  <2>1. /\ section = [tag |-> data[s].tag, items |-> items]
        /\ DOMAIN items = DOMAIN o
        /\ \A i \in DOMAIN o :
             /\ items[i] = [key |-> o[i].key, text |-> o[i].text,
                            linefeed |-> items[i].linefeed]
             /\ o[i].key \notin done => items[i].linefeed = o[i].linefeed
    BY DEF Remains
  <2>2. e[s] = IF s \notin Section(d, tag, 0) THEN section
               ELSE [section EXCEPT !.items = less]
    BY <1>1 DEF Stripped
  <2> HIDE DEF section, e
  <2>3. CASE s \notin Section(d, tag, 0)
    <3>1. e[s] = section /\ e[s].items = items
      BY <2>2, <2>3
    <3> QED BY <2>1, <3>1 DEF o
  <2>4. CASE s \in Section(d, tag, 0)
    <3> HIDE DEF less, o
    <3>1. e[s] = [tag |-> data[s].tag, items |-> less] /\ e[s].items = less
      BY <2>1, <2>2, <2>4
    <3>2. DOMAIN less = DOMAIN o
      BY <2>1 DEF less
    <3>3. ASSUME NEW i \in DOMAIN o
          PROVE  /\ less[i] = [key |-> o[i].key, text |-> o[i].text,
                               linefeed |-> less[i].linefeed]
                 /\ o[i].key \notin done \cup {var} =>
                      less[i].linefeed = o[i].linefeed
      <4> DEFINE x == items[i]
      <4>1. /\ x = [key |-> o[i].key, text |-> o[i].text,
                    linefeed |-> x.linefeed]
            /\ o[i].key \notin done => x.linefeed = o[i].linefeed
        BY <2>1
      <4>2. \/ less[i] = x
            \/ less[i] = [x EXCEPT !.linefeed = FALSE] /\ x.key = var
        BY <2>1, <3>2 DEF less
      <4> HIDE DEF x
      <4>3. CASE less[i] = x
        BY <4>1, <4>3
      <4>4. CASE less[i] = [x EXCEPT !.linefeed = FALSE] /\ x.key = var
        <5> DEFINE no == FALSE
        <5>1. less[i] = [x EXCEPT !.linefeed = no] /\ x.key = var
          BY <4>4
        <5> HIDE DEF no
        <5>2. less[i] = [key |-> o[i].key, text |-> o[i].text, linefeed |-> no]
          BY <4>1, <5>1, FlagSet
        <5>3. o[i].key = var
          BY <4>1, <5>1
        <5> QED BY <5>2, <5>3
      <4> QED BY <4>2, <4>3, <4>4
    <3> QED BY <3>1, <3>2, <3>3 DEF o
  <2> QED BY <2>3, <2>4
<1> QED BY <1>1, <1>2 DEF Remains

\* What Read takes for one of the three is what the file says.
LEMMA TakenAtItsWord ==
  ASSUME NEW d, NEW done, NEW var \in Three, env.file.ok,
         Plain(env.file.data), Remains(env.file.data, d, done), var \notin done
  PROVE  ConfValue(d, "security", var, "", 0) = Wanted(var)
<1> DEFINE data == env.file.data
           places == UNION {{<<s, i>> : i \in Answers(d[s].items, var)} :
                           s \in Section(d, "security", 0)}
           said == {item.text : item \in
                     {x \in UNION {Listed(section.items) : section \in
                                   {y \in Listed(data) : y.tag = "security"}} :
                        x.key = var /\ ~x.linefeed}}
           first == CHOOSE x \in places : \A y \in places : x[2] <= y[2]
<1>1. DOMAIN data = 1 .. Len(data) /\ Len(data) \in Nat
  BY LenProperties DEF Plain
<1>2. /\ Section(d, "security", 0) = Section(data, "security", 0)
      /\ \A s \in DOMAIN data :
           /\ Answers(d[s].items, var) = Answers(data[s].items, var)
           /\ \A i \in Answers(data[s].items, var) :
                /\ i \in DOMAIN data[s].items
                /\ d[s].items[i].text = data[s].items[i].text
  <2> HIDE DEF data, places, said
  <2>1. Plain(data) /\ Remains(data, d, done)
    BY DEF data
  <2>2. /\ Section(d, "security", 0) = Section(data, "security", 0)
        /\ \A s \in DOMAIN data :
             /\ Answers(d[s].items, var) = Answers(data[s].items, var)
             /\ Answers(d[s].items, var) \subseteq DOMAIN data[s].items
             /\ \A i \in DOMAIN data[s].items :
                  d[s].items[i].text = data[s].items[i].text
    BY <2>1, RemainsFound
  <2> QED BY <2>2
<1>3. \A s : s \in Section(data, "security", 0)
              <=> s \in DOMAIN data /\ data[s].tag = "security"
  <2> SUFFICES ASSUME NEW s \in DOMAIN data, data[s].tag = "security"
               PROVE  Cardinality({r \in 1 .. s - 1 : data[r].tag = "security"}) = 0
    BY DEF Section
  <2>1. \A r \in 1 .. s - 1 : r \in DOMAIN data /\ r # s
    BY <1>1
  <2>2. {r \in 1 .. s - 1 : data[r].tag = "security"} = {}
    BY <2>1 DEF Plain
  <2> QED BY <2>2, FS_EmptySet
<1>4. \A x : x \in places <=>
        \E s \in DOMAIN data : \E i \in Answers(data[s].items, var) :
          data[s].tag = "security" /\ x = <<s, i>>
  BY <1>2, <1>3
<1>5. \A text : text \in said <=>
        \E s \in DOMAIN data : \E i \in Answers(data[s].items, var) :
          data[s].tag = "security" /\ text = data[s].items[i].text
  <2>1. \A y : y \in Listed(data) <=> \E s \in DOMAIN data : y = data[s]
    BY <1>1 DEF Listed
  <2>2. ASSUME NEW s \in DOMAIN data
        PROVE  DOMAIN data[s].items = 1 .. Len(data[s].items)
    <3>1. data[s] \in [tag : STRING, items : Seq([key : STRING, text : STRING,
                                                  linefeed : BOOLEAN])]
      BY <1>1, ElementOfSeq DEF Plain
    <3>2. data[s].items \in Seq([key : STRING, text : STRING,
                                 linefeed : BOOLEAN])
      BY <3>1
    <3> QED BY <3>2, LenProperties
  <2>3. ASSUME NEW s \in DOMAIN data, NEW x
        PROVE  x \in Listed(data[s].items)
                 <=> \E i \in DOMAIN data[s].items : x = data[s].items[i]
    BY <2>2 DEF Listed
  <2> DEFINE secure == {y \in Listed(data) : y.tag = "security"}
             items == UNION {Listed(section.items) : section \in secure}
  <2>4. \A x : x \in items <=>
          \E s \in DOMAIN data : \E i \in DOMAIN data[s].items :
            data[s].tag = "security" /\ x = data[s].items[i]
    <3>1. \A y : y \in secure <=>
            \E s \in DOMAIN data : y = data[s] /\ data[s].tag = "security"
      BY <2>1
    <3>2. \A x : x \in items <=> \E y \in secure : x \in Listed(y.items)
      <4> HIDE DEF secure
      <4> QED OBVIOUS
    <3> HIDE DEF secure, items
    <3>3. ASSUME NEW x \in items
          PROVE  \E s \in DOMAIN data : \E i \in DOMAIN data[s].items :
                   data[s].tag = "security" /\ x = data[s].items[i]
      <4>1. PICK y \in secure : x \in Listed(y.items)
        BY <3>2
      <4>2. PICK s \in DOMAIN data : y = data[s] /\ data[s].tag = "security"
        BY <3>1
      <4> QED BY <2>3, <4>1, <4>2
    <3>4. ASSUME NEW s \in DOMAIN data, NEW i \in DOMAIN data[s].items,
                 data[s].tag = "security"
          PROVE  data[s].items[i] \in items
      <4>1. data[s] \in secure /\ data[s].items[i] \in Listed(data[s].items)
        BY <2>3, <3>1, <3>4
      <4> QED BY <3>2, <4>1
    <3> QED BY <3>3, <3>4
  <2> HIDE DEF items
  <2>5. said = {item.text : item \in {x \in items : x.key = var /\ ~x.linefeed}}
    BY DEF items
  <2> HIDE DEF said
  <2> QED BY <2>4, <2>5 DEF Answers
<1> HIDE DEF places, said
<1>6. Wanted(var) = IF said = {} THEN "" ELSE CHOOSE text \in said : TRUE
  BY DEF Wanted, said
<1>7. ConfValue(d, "security", var, "", 0) =
        IF places # {}
        THEN d[first[1]].items[first[2]].text ELSE ""
  BY DEF ConfValue, places, first
<1>8. CASE places = {}
  <2>1. said = {}
    BY <1>4, <1>5, <1>8
  <2> QED BY <1>6, <1>7, <1>8, <2>1
<1>9. CASE places # {}
  <2>0. PICK s \in DOMAIN data :
          Answers(data[s].items, var) # {} /\ data[s].tag = "security"
    BY <1>4, <1>9
  <2>1. PICK i \in Answers(data[s].items, var) : data[s].tag = "security"
    BY <2>0
  <2>2. \A r \in DOMAIN data : \A j \in Answers(data[r].items, var) :
          data[r].tag = "security" => r = s /\ j = i
    BY <2>1 DEF Plain
  <2>3. places = {<<s, i>>}
    BY <1>4, <2>1, <2>2
  <2>4. said = {data[s].items[i].text}
    BY <1>5, <2>1, <2>2
  <2>5. i \in Nat
    <3>1. data[s] \in [tag : STRING, items : Seq([key : STRING, text : STRING,
                                                  linefeed : BOOLEAN])]
      BY <1>1, ElementOfSeq DEF Plain
    <3>2. data[s].items \in Seq([key : STRING, text : STRING,
                                 linefeed : BOOLEAN])
      BY <3>1
    <3> QED BY <2>1, <3>2, LenProperties DEF Answers
  <2>6. first[1] = s /\ first[2] = i
    <3>1. \A y \in places : <<s, i>>[2] <= y[2]
      BY <2>3, <2>5
    <3>2. <<s, i>> \in places
      BY <2>3
    <3>3. first \in places
      BY <3>1, <3>2, Zenon
    <3> HIDE DEF first
    <3> QED BY <2>3, <3>3
  <2> HIDE DEF first
  <2>7. ConfValue(d, "security", var, "", 0) = d[s].items[i].text
    BY <1>7, <1>9, <2>6
  <2>8. d[s].items[i].text = data[s].items[i].text
    BY <1>2, <2>1
  <2>9. Wanted(var) = data[s].items[i].text
    BY <1>6, <2>4
  <2> QED BY <2>7, <2>8, <2>9
<1> QED BY <1>8, <1>9

LEMMA ConfinedInitially == StartupInit => ConfinedInv
<1> SUFFICES ASSUME StartupInit PROVE ConfinedInv
  OBVIOUS
<1>1. DOMAIN Config = Fields
  BY DEF StartupInit, Unread, Fields
<1>2. env \in Scenarios /\ pc = "Options"
      /\ proc = [uid |-> env.uid, gid |-> env.gid, root |-> "/"]
  BY DEF StartupInit
<1>3. proc = [uid |-> proc.uid, gid |-> proc.gid, root |-> proc.root]
  BY <1>2
<1> QED BY <1>1, <1>2, <1>3
           DEF ConfinedInv, Configured, AfterChroot, AfterUser, AfterGroup

\* A step that goes on, or gives up, with what the three are, and does not
\* change who the process is.
LEMMA ConfinedGoesOn ==
  ASSUME ConfinedInv, env' = env, proc' = proc, Config' = Config,
         pc' # "Values",
         pc' \in Configured => pc \in Configured,
         pc' \in AfterChroot => pc \in AfterChroot,
         pc' \in AfterUser => pc \in AfterUser,
         pc' \in AfterGroup => pc \in AfterGroup
  PROVE  ConfinedInv'
<1>1. \A var : Wanted(var)' = Wanted(var)
  BY DEF Wanted
<1>2. InRoot' = InRoot /\ AsUser' = AsUser /\ InGroup' = InGroup
  BY <1>1 DEF InRoot, AsUser, InGroup
<1> QED BY <1>1, <1>2 DEF ConfinedInv

LEMMA ConfinedStays ==
  ASSUME ConfinedInv, env' = env, proc' = proc, Config' = Config, pc' = pc,
         config_data' = config_data, Index' = Index
  PROVE  ConfinedInv'
<1>1. \A var : Wanted(var)' = Wanted(var)
  BY DEF Wanted
<1>2. InRoot' = InRoot /\ AsUser' = AsUser /\ InGroup' = InGroup
  BY <1>1 DEF InRoot, AsUser, InGroup
<1>3. LookedUp' = LookedUp
  BY DEF LookedUp
<1> QED BY <1>1, <1>2, <1>3 DEF ConfinedInv

LEMMA ConfinedReadFile ==
  ASSUME PlainFiles, ConfinedInv, ReadFile, env' = env, proc' = proc
  PROVE  ConfinedInv'
<1> USE DEF Configured, AfterChroot, AfterUser, AfterGroup
<1>1. CASE ~env.file.ok
  <2>1. pc' = "Cleanup" /\ Config' = Config
    BY <1>1 DEF ReadFile, Exit
  <2> QED BY <2>1, ConfinedGoesOn
<1>2. CASE env.file.ok
  <2>1. /\ config_data' = env.file.data /\ Index' = 1 /\ pc' = "Values"
        /\ Config' = Config
    BY <1>2 DEF ReadFile
  <2>2. Plain(env.file.data)
    BY <1>2 DEF PlainFiles, ConfinedInv
  <2>3. LookedUp' = {}
    BY <2>1 DEF LookedUp
  <2>4. Remains(env.file.data, env.file.data, {})
    BY <2>2, RemainsWhole
  <2>5. Index' \in 1 .. Len(Values) + 1
    BY <2>1, TableLength
  <2> QED BY <1>2, <2>1, <2>3, <2>4, <2>5 DEF ConfinedInv
<1> QED BY <1>1, <1>2

\* A text without a check is taken as it is.
LEMMA TextValue ==
  ASSUME NEW row, NEW text, row.type = "DT_CHARPTR", row.check = ""
  PROVE  Value(row, text) = text
<1>1. row.type # "DT_INTEGER" /\ row.type # "DT_BOOLEAN"
  OBVIOUS
<1>2. Converted(row, text) = text
  BY <1>1 DEF Converted
<1>3. Value(row, text) = Converted(row, text)
  BY DEF Value
<1> QED BY <1>2, <1>3

LEMMA ConfinedReadValue ==
  ASSUME PlainFiles, ConfinedInv, ReadValue, env' = env, proc' = proc
  PROVE  ConfinedInv'
<1> USE DEF Configured, AfterChroot, AfterUser, AfterGroup
<1> DEFINE row == Values[Index]
           data == env.file.data
           text == ConfValue(config_data, row.tag, row.value, row.default, 0)
<1>1. /\ pc = "Values" /\ env.file.ok /\ Plain(data)
      /\ Index \in 1 .. 20
      /\ Remains(data, config_data, LookedUp)
      /\ \A var \in Three \cap LookedUp : Config[var] = Wanted(var)
  <2>1. pc = "Values" /\ Index <= 20
    BY TableLength DEF ReadValue
  <2>2. /\ env.file.ok /\ Plain(data) /\ Index \in 1 .. 21
        /\ Remains(data, config_data, LookedUp)
        /\ \A var \in Three \cap LookedUp : Config[var] = Wanted(var)
    BY <2>1, TableLength DEF ConfinedInv, PlainFiles
  <2>3. Index \in 1 .. 20
    BY <2>1, <2>2
  <2> QED BY <2>1, <2>2, <2>3
<1>2. /\ row.value \in Fields
      /\ row.value = "user" => Index = 9
      /\ row.value = "group" => Index = 10
      /\ row.value = "chroot" => Index = 11
      /\ \A i \in 1 .. Index - 1 : i \in 1 .. 20
  <2>1. row.value \in Fields
    BY <1>1, TableLength DEF Fields
  <2>2. \A i \in 1 .. Index - 1 : i \in 1 .. 20
    BY <1>1
  <2> QED BY <1>1, <2>1, <2>2, ThreeRows
<1>3. row.value \in Three =>
        /\ row.tag = "security" /\ row.default = ""
        /\ row.type = "DT_CHARPTR" /\ row.check = ""
        /\ row.value \notin LookedUp
  <2> SUFFICES ASSUME row.value \in Three
               PROVE  /\ Index \in 9 .. 11
                      /\ row.value \notin LookedUp
    BY ThreeRows
  <2>1. Index = 9 \/ Index = 10 \/ Index = 11
    BY <1>2 DEF Three
  <2>2. \A i \in 1 .. Index - 1 : i \in 1 .. 20 /\ i # Index
    BY <1>1, <1>2
  <2>3. ASSUME NEW i \in 1 .. Index - 1, Values[i].value = row.value
        PROVE  FALSE
    <3>1. i \in 1 .. 20 /\ i # Index
      BY <2>2
    <3> HIDE DEF row
    <3> QED BY <1>2, <2>3, <3>1, ThreeRows DEF Three
  <2> QED BY <2>1, <2>3 DEF LookedUp
<1>4. /\ config_data' = Stripped(config_data, row.tag, row.value, 0)
      /\ Valid(row, text) =>
           /\ Config' = [Config EXCEPT ![row.value] = Value(row, text)]
           /\ Index' = Index + 1 /\ pc' = pc
      /\ ~Valid(row, text) => Config' = Config /\ pc' = "Cleanup"
  BY DEF ReadValue, Exit
<1>5. row.value \in Three => Value(row, text) = text
  <2> HIDE DEF row, text
  <2> QED BY <1>3, TextValue
<1>6. row.value \in Three => text = Wanted(row.value)
  <2> SUFFICES ASSUME row.value \in Three PROVE text = Wanted(row.value)
    OBVIOUS
  <2>1. row.tag = "security" /\ row.default = "" /\ row.value \notin LookedUp
    BY <1>3
  <2>2. ConfValue(config_data, "security", row.value, "", 0) = Wanted(row.value)
    <3> HIDE DEF row
    <3> QED BY <1>1, <2>1, TakenAtItsWord
  <2> QED BY <2>1, <2>2
<1>7. CASE ~Valid(row, text)
  <2>1. Config' = Config /\ pc' = "Cleanup"
    BY <1>4, <1>7
  <2> QED BY <2>1, ConfinedGoesOn
<1>8. CASE Valid(row, text)
  <2> DEFINE value == Value(row, text)
  <2>1. Config' = [Config EXCEPT ![row.value] = value]
        /\ Index' = Index + 1 /\ pc' = "Values"
    BY <1>1, <1>4, <1>8
  <2>2. DOMAIN Config' = Fields
    BY <2>1 DEF ConfinedInv
  <2>3. LookedUp' = LookedUp \cup {row.value}
    <3>1. 1 .. Index' - 1 = (1 .. Index - 1) \cup {Index}
      BY <1>1, <2>1
    <3> QED BY <3>1 DEF LookedUp
  <2>4. Remains(data, config_data', LookedUp')
    <3> HIDE DEF row
    <3>1. Remains(data, Stripped(config_data, row.tag, row.value, 0),
                  LookedUp \cup {row.value})
      BY <1>1, RemainsStripped
    <3> QED BY <1>4, <2>3, <3>1
  <2>5. \A var : Wanted(var)' = Wanted(var)
    BY DEF Wanted
  <2>6. ASSUME NEW var \in Three \cap LookedUp'
        PROVE  Config'[var] = Wanted(var)
    <3> HIDE DEF value
    <3>1. CASE var = row.value
      <4>1. Config'[var] = value
        BY <1>2, <2>1, <3>1 DEF ConfinedInv
      <4>2. value = Wanted(var)
        BY <1>5, <1>6, <2>6, <3>1 DEF value
      <4> QED BY <4>1, <4>2
    <3>2. CASE var # row.value
      <4>1. var \in LookedUp
        BY <2>3, <3>2
      <4>2. Config'[var] = Config[var]
        <5>1. LookedUp \subseteq Fields
          BY <1>2, TableLength DEF LookedUp, Fields
        <5> QED BY <2>1, <3>2, <4>1, <5>1 DEF ConfinedInv
      <4> QED BY <1>1, <4>1, <4>2
    <3> QED BY <3>1, <3>2
  <2>7. Index' \in 1 .. Len(Values) + 1
    BY <1>1, <2>1, TableLength
  <2> QED BY <1>1, <2>1, <2>2, <2>4, <2>5, <2>6, <2>7 DEF ConfinedInv
<1> QED BY <1>7, <1>8

LEMMA ConfinedReadModules ==
  ASSUME ConfinedInv, ReadModules, env' = env, proc' = proc
  PROVE  ConfinedInv'
<1> USE DEF Configured, AfterChroot, AfterUser, AfterGroup
<1>1. pc = "Values" /\ Index = 21 /\ pc' = "LoadAll" /\ Config' = Config
  BY TableLength DEF ReadModules
<1>2. Three \subseteq LookedUp
  <2>1. 9 \in 1 .. Index - 1 /\ 10 \in 1 .. Index - 1 /\ 11 \in 1 .. Index - 1
    BY <1>1
  <2>2. Values[9].value = "user" /\ Values[10].value = "group"
        /\ Values[11].value = "chroot"
    BY ThreeRows
  <2> QED BY <2>1, <2>2 DEF Three, LookedUp
<1>3. \A var \in Three : Config[var] = Wanted(var)
  BY <1>1, <1>2 DEF ConfinedInv
<1>4. \A var : Wanted(var)' = Wanted(var)
  BY DEF Wanted
<1> QED BY <1>1, <1>3, <1>4 DEF ConfinedInv

LEMMA ConfinedRead ==
  ASSUME PlainFiles, ConfinedInv, ConfigRead
  PROVE  ConfinedInv'
<1> USE DEF Configured, AfterChroot, AfterUser, AfterGroup
<1>1. env' = env /\ proc' = proc /\ Read
  BY DEF ConfigRead, processVars
<1>2. CASE SkipModule
  BY <1>1, <1>2, ConfinedGoesOn DEF SkipModule, LoadingModules
<1>3. CASE LoadOne
  BY <1>1, <1>3, ConfinedGoesOn DEF LoadOne, LoadingModules, Exit
<1>4. CASE OpenDirectory
  BY <1>1, <1>4, ConfinedGoesOn DEF OpenDirectory, LoadingModules
<1>5. CASE LoadMatch
  BY <1>1, <1>5, ConfinedGoesOn DEF LoadMatch
<1>6. CASE CloseDirectory
  BY <1>1, <1>6, ConfinedGoesOn DEF CloseDirectory, Exit
<1>7. CASE EndLoading
  BY <1>1, <1>7, ConfinedGoesOn DEF EndLoading
<1>8. CASE ReadPrioritizes
  BY <1>1, <1>8, ConfinedGoesOn DEF ReadPrioritizes, configVars
<1>9. CASE CheckOnce
  BY <1>1, <1>9, ConfinedGoesOn DEF CheckOnce, configVars
<1> QED BY <1>1, <1>2, <1>3, <1>4, <1>5, <1>6, <1>7, <1>8, <1>9,
           ConfinedReadFile, ConfinedReadValue, ConfinedReadModules DEF Read

\* chroot, and setuid and setgid after it: each keeps what the ones before it
\* have done, and goes on only if it is done as well.
LEMMA ConfinedChRoot ==
  ASSUME ConfinedInv, ChRoot
  PROVE  ConfinedInv'
<1> USE DEF Configured, AfterChroot, AfterUser, AfterGroup
<1> DEFINE to == Config["chroot"]
<1>1. pc = "chroot" /\ env' = env /\ Config' = Config /\ to = Wanted("chroot")
  BY DEF ChRoot, Privileges, configVars, ConfinedInv, Three
<1>2. \A var : Wanted(var)' = Wanted(var)
  BY <1>1 DEF Wanted
<1>3. \/ pc' = "setuid" /\ to = "" /\ proc' = proc
      \/ pc' = "setuid" /\ proc' = [proc EXCEPT !.root = to]
      \/ pc' = "QuickExit" /\ proc' = proc
  BY DEF ChRoot, Privileges, Goto, QuickExit
<1> HIDE DEF to
<1>4. CASE pc' = "QuickExit" /\ proc' = proc
  BY <1>1, <1>4, ConfinedGoesOn
<1>5. CASE pc' = "setuid" /\ to = "" /\ proc' = proc
  BY <1>1, <1>2, <1>5 DEF ConfinedInv, InRoot
<1>6. CASE pc' = "setuid" /\ proc' = [proc EXCEPT !.root = to]
  <2>1. proc' = [uid |-> proc.uid, gid |-> proc.gid, root |-> to]
    BY <1>6 DEF ConfinedInv
  <2>2. InRoot'
    BY <1>1, <1>2, <2>1 DEF InRoot
  <2> QED BY <1>1, <1>2, <1>6, <2>1, <2>2 DEF ConfinedInv
<1> QED BY <1>3, <1>4, <1>5, <1>6

LEMMA ConfinedSetUser ==
  ASSUME ConfinedInv, SetUser
  PROVE  ConfinedInv'
<1> USE DEF Configured, AfterChroot, AfterUser, AfterGroup
<1> DEFINE name == Config["user"]
           uid == env.users[proc.root][name]
<1>1. pc = "setuid" /\ env' = env /\ Config' = Config /\ name = Wanted("user")
  BY DEF SetUser, Privileges, configVars, ConfinedInv, Three
<1>2. \A var : Wanted(var)' = Wanted(var)
  BY <1>1 DEF Wanted
<1>3. \/ pc' = "setgid" /\ name = "" /\ proc' = proc
      \/ pc' = "setgid" /\ proc' = [proc EXCEPT !.uid = uid]
      \/ pc' = "QuickExit" /\ proc' = proc
  BY DEF SetUser, Privileges, Goto, QuickExit
<1> HIDE DEF name, uid
<1>4. CASE pc' = "QuickExit" /\ proc' = proc
  BY <1>1, <1>4, ConfinedGoesOn
<1>5. CASE pc' = "setgid" /\ name = "" /\ proc' = proc
  BY <1>1, <1>2, <1>5 DEF ConfinedInv, InRoot, AsUser
<1>6. CASE pc' = "setgid" /\ proc' = [proc EXCEPT !.uid = uid]
  <2>1. proc' = [uid |-> uid, gid |-> proc.gid, root |-> proc.root]
    BY <1>6 DEF ConfinedInv
  <2>2. proc'.root = proc.root /\ proc'.uid = uid
    BY <2>1
  <2>3. InRoot'
    BY <1>1, <1>2, <2>2 DEF InRoot, ConfinedInv
  <2>4. AsUser'
    BY <1>1, <1>2, <2>2 DEF AsUser, uid
  <2> QED BY <1>1, <1>2, <1>6, <2>1, <2>3, <2>4 DEF ConfinedInv
<1> QED BY <1>3, <1>4, <1>5, <1>6

LEMMA ConfinedSetGroup ==
  ASSUME ConfinedInv, SetGroup
  PROVE  ConfinedInv'
<1> USE DEF Configured, AfterChroot, AfterUser, AfterGroup
<1> DEFINE name == Config["group"]
           gid == env.groups[proc.root][name]
<1>1. pc = "setgid" /\ env' = env /\ Config' = Config /\ name = Wanted("group")
  BY DEF SetGroup, Privileges, configVars, ConfinedInv, Three
<1>2. \A var : Wanted(var)' = Wanted(var)
  BY <1>1 DEF Wanted
<1>3. \/ pc' = "WritePID" /\ name = "" /\ proc' = proc
      \/ pc' = "WritePID" /\ proc' = [proc EXCEPT !.gid = gid]
      \/ pc' = "QuickExit" /\ proc' = proc
  BY DEF SetGroup, Privileges, Goto, QuickExit
<1> HIDE DEF name, gid
<1>4. CASE pc' = "QuickExit" /\ proc' = proc
  BY <1>1, <1>4, ConfinedGoesOn
<1>5. CASE pc' = "WritePID" /\ name = "" /\ proc' = proc
  BY <1>1, <1>2, <1>5 DEF ConfinedInv, InRoot, AsUser, InGroup
<1>6. CASE pc' = "WritePID" /\ proc' = [proc EXCEPT !.gid = gid]
  <2>1. proc' = [uid |-> proc.uid, gid |-> gid, root |-> proc.root]
    BY <1>6 DEF ConfinedInv
  <2>2. proc'.root = proc.root /\ proc'.uid = proc.uid /\ proc'.gid = gid
    BY <2>1
  <2>3. InRoot' /\ AsUser'
    BY <1>1, <1>2, <2>2 DEF InRoot, AsUser, ConfinedInv
  <2>4. InGroup'
    BY <1>1, <1>2, <2>2 DEF InGroup, gid
  <2> QED BY <1>1, <1>2, <1>6, <2>1, <2>3, <2>4 DEF ConfinedInv
<1> QED BY <1>3, <1>4, <1>5, <1>6

LEMMA ConfinedStep ==
  ASSUME PlainFiles, ConfinedInv, [StartupNext]_startupVars
  PROVE  ConfinedInv'
<1> USE ConfinedGoesOn, ConfinedStays
    DEF Configured, AfterChroot, AfterUser, AfterGroup, processVars,
        configVars, Goto, Exit, QuickExit
<1>1. CASE Options
  BY <1>1 DEF Options
<1>2. CASE OpenLog
  BY <1>2 DEF OpenLog
<1>3. CASE SetSignals
  BY <1>3 DEF SetSignals
<1>4. CASE DaemonSeed
  BY <1>4 DEF DaemonSeed
<1>5. CASE Child
  BY <1>5 DEF Child
<1>6. CASE ConfigRead
  BY <1>6, ConfinedRead
<1>7. CASE TryPID
  BY <1>7 DEF TryPID, WritePID
<1>8. CASE BindPort
  BY <1>8 DEF BindPort
<1>9. CASE BindPorts
  BY <1>9 DEF BindPorts
<1>10. CASE KillParent
  BY <1>10 DEF KillParent
<1>11. CASE FinalPID
  BY <1>11 DEF FinalPID, WritePID
<1>12. CASE Main
  BY <1>12 DEF Main
<1>13. CASE StartCleanup
  BY <1>13 DEF StartCleanup
<1>14. CASE UnloadNext
  BY <1>14 DEF UnloadNext
<1>15. CASE NextRound
  BY <1>15 DEF NextRound
<1>16. CASE CloseLog
  BY <1>16 DEF CloseLog
<1>17. CASE ParentLooks
  BY <1>17 DEF ParentLooks
<1>18. CASE SigTerm
  <2>1. /\ env' = env /\ proc' = proc /\ Config' = Config
        /\ config_data' = config_data /\ Index' = Index
    BY <1>18 DEF SigTerm
  <2>2. pc' \in {"Killed", "QuickExit", "Crashed", "Cleanup"} \/ pc' = pc
    BY <1>18 DEF SigTerm
  <2> QED BY <2>1, <2>2
<1>19. CASE ParentKilled
  BY <1>19 DEF ParentKilled
<1>20. CASE UNCHANGED startupVars
  BY <1>20 DEF startupVars
<1> QED
  BY <1>1, <1>2, <1>3, <1>4, <1>5, <1>6, <1>7, <1>8, <1>9, <1>10, <1>11,
     <1>12, <1>13, <1>14, <1>15, <1>16, <1>17, <1>18, <1>19, <1>20,
     ConfinedChRoot, ConfinedSetUser, ConfinedSetGroup
     DEF StartupNext, MainThread

\* Whatever fails at its start, and in whatever environment, a server that
\* runs is in the chroot, and is the user and the group, that its file asks
\* for, if the file asks for them on one line of one <security>.
THEOREM ServerIsConfined == PlainFiles /\ StartupSpec => []Confined
<1>1. ConfinedInv => Confined
  BY DEF ConfinedInv, Confined, InRoot, AsUser, InGroup, AfterChroot,
         AfterUser, AfterGroup
<1>2. CASE PlainFiles
  <2>1. ConfinedInv /\ [StartupNext]_startupVars => ConfinedInv'
    BY <1>2, ConfinedStep
  <2> QED BY <1>1, <2>1, ConfinedInitially, PTL DEF StartupSpec
<1> QED BY <1>2

-----------------------------------------------------------------------------
(* Scripts.  A response is appended to what was sent and what waits to be,   *)
(* and what is flushed moves from one to the other: neither changes what is  *)
(* in the stream already.  A script that runs, or has just been asked for,   *)
(* has no part in it yet.                                                    *)

ScriptSpec == ScriptInit /\ [][ScriptNext]_scriptVars

Stream == sent \o sendq
Asking(s) == {s[i].of : i \in DOMAIN s}

\* A stream of whole responses, each to a later request than the one before.
InFull(s) ==
  /\ \A i \in DOMAIN s : s[i].unit = 0 =>
       \A j \in i .. i + s[i].size :
         j \in DOMAIN s /\ s[j] = [s[i] EXCEPT !.unit = j - i]
  /\ \A j \in DOMAIN s : \E i \in DOMAIN s :
       s[i].unit = 0 /\ j \in i .. i + s[i].size
  /\ \A i, j \in DOMAIN s :
       s[i].unit = 0 /\ s[j].unit = 0 /\ i < j => s[i].of < s[j].of

\* The response to request k, if there is one, is the end of the stream.
EndsWith(s, k) ==
  k \in Asking(s) =>
    \E i \in DOMAIN s :
      /\ Len(s) = i + s[i].size
      /\ \A j \in DOMAIN s : s[j].of = k <=> j >= i
      /\ \A j \in i .. Len(s) : s[j].size = s[i].size

UnitType == [of : Nat, unit : Nat, size : Nat]
ScriptTypeOK ==
  /\ hup \in BOOLEAN
  /\ batch \subseteq {"end", "output", "readable", "writeable"}
  /\ asked \in Nat /\ written \in Nat
  /\ request \in {"none", "script", "missing"}
  /\ kind \in {"none", "script", "missing"}
  /\ sent \in Seq(UnitType) /\ sendq \in Seq(UnitType)
  /\ pipe \in Seq(Nat) /\ rbuf \in Seq(Nat)
  /\ script \in {"none", "running", "ended"}
  /\ cgi \in {"none", "open", "done"}
  /\ State \in {"HTTP_WAIT_REQUEST", "HTTP_SEND_DATA", "HTTP_FINISHED", "closed"}
  /\ keepalive \in BOOLEAN /\ ResponseBufferDone \in BOOLEAN
  /\ awaited \in {"IN", "OUT"} /\ quitting \in BOOLEAN
  /\ unwatched \in BOOLEAN /\ uncaught \in BOOLEAN

\* What is on its way has been asked for; a request that has not been read, or
\* whose script runs, has no answer yet.
AnswersOK ==
  /\ InFull(Stream) /\ EndsWith(Stream, asked)
  /\ Asking(Stream) \subseteq 1 .. asked
  /\ cgi = "open" \/ request # "none" => asked >= 1 /\ asked \notin Asking(Stream)

\* The output of the script is in rbuf and in the pipe.
OutputOK ==
  /\ cgi = "open" => /\ request = "none"
                     /\ Len(rbuf) + Len(pipe) = written
                     /\ \A i \in 1 .. Len(rbuf) : rbuf[i] = i
                     /\ \A i \in 1 .. Len(pipe) : pipe[i] = Len(rbuf) + i
  /\ script # "none" => cgi = "open"
  /\ cgi = "done" /\ ~hup => Len(rbuf) = written
  /\ "end" \in batch => hup

\* The connection waits, or sends; it is written to only when there is
\* something to write, or nothing that OnBufferFlushed could delete.
WaitsOrSends ==
  \/ /\ State = "HTTP_WAIT_REQUEST" /\ ~ResponseBufferDone
     /\ sendq = <<>> /\ cgi # "done"
  \/ /\ State = "HTTP_SEND_DATA" /\ ResponseBufferDone
     /\ sendq # <<>> /\ cgi # "open" /\ request = "none"
     /\ asked \in Asking(Stream)
Undisturbed ==
  /\ WaitsOrSends
  /\ "readable" \in batch => request # "none" /\ awaited = "IN"
  /\ "writeable" \in batch => awaited = "OUT"
  /\ awaited = "OUT" /\ sendq = <<>> => cgi = "none"
  /\ awaited = "IN" => sendq = <<>>
  /\ asked \in Asking(Stream) \/ asked = 0 \/ request # "none"
       \/ cgi = "open" \/ unwatched

ScriptInv ==
  /\ ScriptTypeOK
  /\ State = "closed" => quitting /\ batch = {}
  /\ State # "closed" => AnswersOK /\ OutputOK /\ (~quitting => Undisturbed)

\* What is sent of a queue, and what is left of it, make up the queue.
LEMMA FlushSplits ==
  ASSUME NEW s \in Seq(UnitType), NEW q \in Seq(UnitType), NEW n \in 0 .. Len(q)
  PROVE  /\ s \o SubSeq(q, 1, n) \in Seq(UnitType)
         /\ SubSeq(q, n + 1, Len(q)) \in Seq(UnitType)
         /\ (s \o SubSeq(q, 1, n)) \o SubSeq(q, n + 1, Len(q)) = s \o q
         /\ SubSeq(q, n + 1, Len(q)) = <<>> <=> n = Len(q)
<1> DEFINE a == SubSeq(q, 1, n)
           b == SubSeq(q, n + 1, Len(q))
<1>1. Len(q) \in Nat /\ n \in Nat /\ \A i \in 1 .. Len(q) : q[i] \in UnitType
  BY LenProperties, ElementOfSeq
<1>2. a \in Seq(UnitType)
  <2>1. \A i \in 1 .. n : q[i] \in UnitType
    BY <1>1
  <2> QED BY <1>1, <2>1, SubSeqProperties
<1>3. b \in Seq(UnitType) /\ Len(b) = Len(q) - n
  <2>1. \A i \in n + 1 .. Len(q) : q[i] \in UnitType
    BY <1>1
  <2>2. /\ b \in Seq(UnitType)
        /\ Len(b) = IF n + 1 <= Len(q) THEN Len(q) - (n + 1) + 1 ELSE 0
    BY <1>1, <2>1, SubSeqProperties
  <2> HIDE DEF b
  <2> QED BY <1>1, <2>2
<1>4. a \o b = q
  <2>1. 1 \in 1 .. Len(q) + 1 /\ n \in 1 - 1 .. Len(q) /\ Len(q) \in n .. Len(q)
    BY <1>1
  <2>2. a \o b = SubSeq(q, 1, Len(q))
    BY <2>1, ConcatAdjacentSubSeq
  <2> QED BY <2>2, SubSeqFull
<1> HIDE DEF a, b
<1>5. s \o a \in Seq(UnitType) /\ (s \o a) \o b = s \o (a \o b)
  BY <1>2, <1>3, ConcatProperties, ConcatAssociative
<1>6. b = <<>> <=> n = Len(q)
  BY <1>1, <1>3, EmptySeq, LenProperties
<1> QED BY <1>2, <1>3, <1>4, <1>5, <1>6 DEF a, b

\* A response is its headers and the units that they announce, one by one.
LEMMA ResponseInTurn ==
  ASSUME NEW data \in Seq(Nat), \A i \in 1 .. Len(data) : data[i] = i,
         asked \in Nat
  PROVE  /\ Response(data) \in Seq(UnitType)
         /\ Len(Response(data)) = Len(data) + 1
         /\ \A u \in 1 .. Len(data) + 1 : Response(data)[u] =
              [of |-> asked, unit |-> u - 1, size |-> Len(data)]
<1> DEFINE n == Len(data)
           at(u) == [of |-> asked, unit |-> u - 1, size |-> n]
<1>1. n \in Nat
  BY LenProperties
<1>2. ASSUME NEW u \in 1 .. n + 1
      PROVE  Unit(IF u = 1 THEN 0 ELSE data[u - 1], n) = at(u)
  <2>1. CASE u = 1
    BY <2>1 DEF Unit
  <2>2. CASE u # 1
    <3>1. u - 1 \in 1 .. Len(data)
      BY <1>1, <2>2
    <3>2. data[u - 1] = u - 1
      BY <3>1
    <3> QED BY <2>2, <3>2 DEF Unit
  <2> QED BY <2>1, <2>2
<1>3. Response(data) = [u \in 1 .. n + 1 |-> at(u)]
  BY <1>2 DEF Response
<1>4. \A u \in 1 .. n + 1 : at(u) \in UnitType
  BY <1>1 DEF UnitType
<1> HIDE DEF n, at
<1>5. n + 1 \in Nat
  BY <1>1
<1>6. [u \in 1 .. n + 1 |-> at(u)] \in Seq(UnitType)
  BY <1>4, <1>5, IsASeq
<1>7. Len([u \in 1 .. n + 1 |-> at(u)]) = n + 1
  BY <1>5
<1> QED BY <1>3, <1>6, <1>7 DEF n, at

\* The response to the last request, at the end of what answers the others.
LEMMA ResponseAppended ==
  ASSUME NEW s \in Seq(UnitType), InFull(s), asked \in Nat, asked >= 1,
         Asking(s) \subseteq 1 .. asked, asked \notin Asking(s),
         NEW data \in Seq(Nat), \A i \in 1 .. Len(data) : data[i] = i
  PROVE  LET t == s \o Response(data) IN
         /\ InFull(t) /\ EndsWith(t, asked)
         /\ Asking(t) \subseteq 1 .. asked /\ asked \in Asking(t)
<1> DEFINE r == Response(data)
           n == Len(data)
           k == Len(s)
           t == s \o r
<1>1. /\ r \in Seq(UnitType) /\ Len(r) = n + 1 /\ n \in Nat /\ k \in Nat
      /\ \A u \in 1 .. n + 1 :
           r[u] = [of |-> asked, unit |-> u - 1, size |-> n]
  BY ResponseInTurn, LenProperties
<1> HIDE DEF r, n
<1>2. /\ DOMAIN s = 1 .. k /\ DOMAIN t = 1 .. k + n + 1 /\ Len(t) = k + n + 1
      /\ \A i \in 1 .. k : t[i] = s[i]
      /\ \A i \in k + 1 .. k + n + 1 :
           t[i] = [of |-> asked, unit |-> i - (k + 1), size |-> n]
  <2>1. /\ t \in Seq(UnitType) /\ Len(t) = k + (n + 1)
        /\ \A i \in 1 .. k + (n + 1) : t[i] = IF i <= k THEN s[i] ELSE r[i - k]
    BY <1>1, ConcatProperties
  <2> HIDE DEF t
  <2>2. DOMAIN s = 1 .. k /\ DOMAIN t = 1 .. k + n + 1 /\ Len(t) = k + n + 1
    BY <1>1, <2>1, LenProperties
  <2> HIDE DEF k
  <2>3. \A i \in 1 .. k : t[i] = s[i]
    BY <1>1, <2>1
  <2>4. ASSUME NEW i \in k + 1 .. k + n + 1
        PROVE  t[i] = [of |-> asked, unit |-> i - (k + 1), size |-> n]
    <3>1. /\ i \in 1 .. k + (n + 1) /\ ~(i <= k) /\ i - k \in 1 .. n + 1
          /\ i - k - 1 = i - (k + 1)
      BY <1>1
    <3>2. t[i] = r[i - k] /\ r[i - k] = [of |-> asked, unit |-> i - k - 1, size |-> n]
      BY <1>1, <2>1, <3>1
    <3> QED BY <3>1, <3>2
  <2> QED BY <2>2, <2>3, <2>4
<1>3. \A i \in 1 .. k : s[i] \in UnitType
  BY <1>1, ElementOfSeq
<1>4. ASSUME NEW i \in 1 .. k
      PROVE  /\ t[i].of < asked /\ t[i].of \in 1 .. asked /\ t[i].of # asked
             /\ t[i].unit \in Nat /\ t[i].size \in Nat
  <2>1. s[i].of \in Asking(s)
    BY <1>2 DEF Asking
  <2>2. s[i].of \in 1 .. asked /\ s[i].of # asked
    BY <2>1
  <2> QED BY <1>2, <1>3, <2>2 DEF UnitType
<1> HIDE DEF t, k
<1>4a. ASSUME NEW i \in k + 1 .. k + n + 1
      PROVE  /\ i \in Int /\ i >= k + 1 /\ i <= k + n + 1
             /\ t[i] = [of |-> asked, unit |-> i - (k + 1), size |-> n]
             /\ t[i].of = asked /\ t[i].unit = i - (k + 1) /\ t[i].size = n
  <2>1. t[i] = [of |-> asked, unit |-> i - (k + 1), size |-> n]
    BY <1>2
  <2> QED BY <1>1, <2>1
<1>5. \A i \in 1 .. k + n + 1 : i \in 1 .. k \/ i \in k + 1 .. k + n + 1
  BY <1>1
<1>6. ASSUME NEW i \in DOMAIN t, t[i].unit = 0
      PROVE  \A j \in i .. i + t[i].size :
               j \in DOMAIN t /\ t[j] = [t[i] EXCEPT !.unit = j - i]
  <2>1. CASE i \in 1 .. k
    <3>1. \A j \in i .. i + s[i].size :
            j \in DOMAIN s /\ s[j] = [s[i] EXCEPT !.unit = j - i]
      BY <1>2, <1>6, <2>1 DEF InFull
    <3>2. \A j \in 1 .. k : j \in 1 .. k + n + 1
      BY <1>1
    <3> QED BY <1>2, <2>1, <3>1, <3>2
  <2>2. CASE i \in k + 1 .. k + n + 1
    <3>0. t[i].unit = i - (k + 1) /\ t[i].size = n /\ i \in Int
      BY <1>4a, <2>2
    <3>1. i = k + 1 /\ t[i].size = n
      BY <1>1, <1>6, <3>0
    <3>2. ASSUME NEW j \in i .. i + n
          PROVE  j \in DOMAIN t /\ t[j] = [t[i] EXCEPT !.unit = j - i]
      <4>1. /\ j \in k + 1 .. k + n + 1 /\ j \in 1 .. k + n + 1
            /\ j - (k + 1) = j - i
        BY <1>1, <3>1, <3>2
      <4>2. t[j] = [of |-> asked, unit |-> j - i, size |-> n]
        BY <1>4a, <4>1
      <4>3. t[i] = [of |-> asked, unit |-> i - (k + 1), size |-> n]
        BY <1>4a, <2>2
      <4> QED BY <1>2, <4>1, <4>2, <4>3
    <3> QED BY <3>1, <3>2
  <2> QED BY <1>2, <1>5, <2>1, <2>2
<1>7. ASSUME NEW j \in DOMAIN t
      PROVE  \E i \in DOMAIN t : t[i].unit = 0 /\ j \in i .. i + t[i].size
  <2>1. CASE j \in 1 .. k
    <3>1. PICK i \in DOMAIN s : s[i].unit = 0 /\ j \in i .. i + s[i].size
      BY <1>2, <2>1 DEF InFull
    <3>2. i \in 1 .. k /\ i \in 1 .. k + n + 1
      BY <1>1, <1>2
    <3> QED BY <1>2, <3>1, <3>2
  <2>2. CASE j \in k + 1 .. k + n + 1
    <3>1. /\ k + 1 \in 1 .. k + n + 1 /\ k + 1 \in k + 1 .. k + n + 1
          /\ j \in k + 1 .. (k + 1) + n /\ (k + 1) - (k + 1) = 0
      BY <1>1, <2>2
    <3>2. t[k + 1].unit = 0 /\ t[k + 1].size = n
      BY <1>4a, <3>1
    <3> QED BY <1>2, <3>1, <3>2
  <2> QED BY <1>2, <1>5, <2>1, <2>2
<1>8. ASSUME NEW i \in DOMAIN t, NEW j \in DOMAIN t,
             t[i].unit = 0, t[j].unit = 0, i < j
      PROVE  t[i].of < t[j].of
  <2>1. CASE j \in 1 .. k
    <3>1. i \in 1 .. k
      BY <1>1, <1>2, <1>8, <2>1
    <3> QED BY <1>2, <1>8, <2>1, <3>1 DEF InFull
  <2>2. CASE j \in k + 1 .. k + n + 1
    <3>0. t[j].of = asked /\ t[j].unit = j - (k + 1) /\ j \in Int
      BY <1>4a, <2>2
    <3>1. t[j].of = asked /\ j = k + 1
      BY <1>1, <1>8, <3>0
    <3>2. i \in 1 .. k
      BY <1>1, <1>2, <1>8, <3>1
    <3> QED BY <1>4, <3>1, <3>2
  <2> QED BY <1>2, <1>5, <2>1, <2>2
<1>9. InFull(t)
  BY <1>6, <1>7, <1>8 DEF InFull
<1>10. k + 1 \in DOMAIN t /\ t[k + 1].size = n /\ t[k + 1].of = asked
  <2>1. k + 1 \in k + 1 .. k + n + 1 /\ k + 1 \in 1 .. k + n + 1
    BY <1>1
  <2> QED BY <1>2, <1>4a, <2>1
<1>11. \A j \in DOMAIN t : t[j].of = asked <=> j >= k + 1
  <2> SUFFICES ASSUME NEW j \in DOMAIN t PROVE t[j].of = asked <=> j >= k + 1
    OBVIOUS
  <2>1. CASE j \in 1 .. k
    BY <1>1, <1>4, <2>1
  <2>2. CASE j \in k + 1 .. k + n + 1
    BY <1>4a, <2>2
  <2> QED BY <1>2, <1>5, <2>1, <2>2
<1>12. Len(t) = (k + 1) + t[k + 1].size
         /\ \A j \in k + 1 .. Len(t) : t[j].size = t[k + 1].size
  <2>1. \A j \in k + 1 .. k + n + 1 : t[j].size = n
    BY <1>4a
  <2> QED BY <1>1, <1>2, <1>10, <2>1
<1>13. EndsWith(t, asked)
  BY <1>10, <1>11, <1>12 DEF EndsWith
<1>14. asked \in Asking(t)
  BY <1>10 DEF Asking
<1>15. Asking(t) \subseteq 1 .. asked
  <2> SUFFICES ASSUME NEW j \in DOMAIN t PROVE t[j].of \in 1 .. asked
    BY DEF Asking
  <2>1. CASE j \in 1 .. k
    BY <1>4, <2>1
  <2>2. CASE j \in k + 1 .. k + n + 1
    <3>1. t[j].of = asked
      BY <1>4a, <2>2
    <3> QED BY <3>1
  <2> QED BY <1>2, <1>5, <2>1, <2>2
<1> QED BY <1>9, <1>13, <1>14, <1>15 DEF t, r

LEMMA StreamOf ==
  ASSUME sent \in Seq(UnitType), sendq \in Seq(UnitType)
  PROVE  /\ Stream \in Seq(UnitType) /\ Len(Stream) = Len(sent) + Len(sendq)
         /\ DOMAIN sent = 1 .. Len(sent) /\ DOMAIN Stream = 1 .. Len(Stream)
         /\ Len(sent) \in Nat /\ Len(sendq) \in Nat
         /\ \A i \in 1 .. Len(sent) : i \in 1 .. Len(Stream) /\ Stream[i] = sent[i]
<1>1. /\ Stream \in Seq(UnitType) /\ Len(Stream) = Len(sent) + Len(sendq)
      /\ \A i \in 1 .. Len(sent) + Len(sendq) :
           Stream[i] = IF i <= Len(sent) THEN sent[i] ELSE sendq[i - Len(sent)]
  BY ConcatProperties DEF Stream
<1>2. /\ DOMAIN sent = 1 .. Len(sent) /\ DOMAIN Stream = 1 .. Len(Stream)
      /\ Len(sent) \in Nat /\ Len(sendq) \in Nat
  BY <1>1, LenProperties
<1> QED BY <1>1, <1>2

\* What has been answered is in the stream.
LEMMA AnsweredIsIn ==
  ASSUME sent \in Seq(UnitType), sendq \in Seq(UnitType), asked # 0, Answered
  PROVE  asked \in Asking(Stream)
<1>1. PICK i \in DOMAIN sent : sent[i].of = asked
  BY DEF Answered
<1>2. i \in DOMAIN Stream /\ Stream[i].of = asked
  BY <1>1, StreamOf
<1> QED BY <1>2 DEF Asking

\* When the last answer has come in full, nothing waits to be sent.
LEMMA AllSent ==
  ASSUME sent \in Seq(UnitType), sendq \in Seq(UnitType), asked # 0, Answered,
         EndsWith(Stream, asked)
  PROVE  sendq = <<>>
<1> DEFINE mine == {i \in DOMAIN sent : sent[i].of = asked}
           a == Len(sent)
           b == Len(sendq)
<1>1. PICK i \in mine : Cardinality(mine) = sent[i].size + 1
  BY DEF Answered
<1>2. PICK h \in DOMAIN Stream :
        /\ Len(Stream) = h + Stream[h].size
        /\ \A j \in DOMAIN Stream : Stream[j].of = asked <=> j >= h
        /\ \A j \in h .. Len(Stream) : Stream[j].size = Stream[h].size
  BY AnsweredIsIn DEF EndsWith
<1>3. /\ Len(Stream) = a + b /\ a \in Nat /\ b \in Nat
      /\ DOMAIN sent = 1 .. a /\ DOMAIN Stream = 1 .. a + b
      /\ \A j \in 1 .. a : Stream[j] = sent[j]
      /\ Stream \in Seq(UnitType)
  BY StreamOf
<1> HIDE DEF a, b
<1>4. h \in 1 .. a + b
  BY <1>2, <1>3
<1>5. mine = h .. a
  <2>1. ASSUME NEW j \in 1 .. a PROVE sent[j].of = asked <=> j >= h
    <3>1. j \in 1 .. a + b
      BY <1>3
    <3> QED BY <1>2, <1>3, <3>1
  <2>2. \A j \in h .. a : j \in 1 .. a
    BY <1>3, <1>4
  <2>3. \A j \in 1 .. a : j >= h => j \in h .. a
    BY <1>3, <1>4
  <2>4. \A j \in h .. a : j >= h
    BY <1>3, <1>4
  <2> QED BY <1>3, <2>1, <2>2, <2>3, <2>4
<1> HIDE DEF mine
<1>6. i \in Int /\ h <= i /\ i <= a /\ i \in 1 .. a /\ i \in h .. a + b
  BY <1>3, <1>4, <1>5
<1>7. sent[i].size = Stream[h].size /\ Stream[h].size \in Nat
  <2>1. Stream[i] = sent[i]
    BY <1>3, <1>6
  <2>2. Stream[h] \in UnitType
    BY <1>3, <1>4, ElementOfSeq
  <2> QED BY <1>2, <1>3, <1>6, <2>1, <2>2 DEF UnitType
<1>8. Cardinality(h .. a) = a - h + 1
  <2>1. h \in Int /\ a \in Int /\ ~(h > a)
    BY <1>3, <1>4, <1>6
  <2>2. Cardinality(h .. a) = IF h > a THEN 0 ELSE a - h + 1
    BY <2>1, FS_Interval
  <2> QED BY <2>1, <2>2
<1>9. b = 0
  <2>1. a - h + 1 = Stream[h].size + 1 /\ a + b = h + Stream[h].size
    BY <1>1, <1>2, <1>3, <1>5, <1>7, <1>8
  <2> QED BY <1>3, <1>4, <1>7, <2>1
<1> QED BY <1>9, EmptySeq DEF b

\* The three ends of FlushWriteBuf.
Emptied(st, done, otherwise) ==
  /\ sendq' = <<>> /\ awaited' = otherwise
  /\ cgi' = "none" /\ script' = IF cgi = "open" THEN "none" ELSE script
  /\ IF st = "HTTP_SEND_DATA" /\ done
     THEN EndRequest(keepalive)
     ELSE State' = st /\ ResponseBufferDone' = done /\ UNCHANGED quitting
Partly(q, st, done) ==
  /\ q # <<>> /\ sendq' # <<>> /\ awaited' = "OUT"
  /\ State' = st /\ ResponseBufferDone' = done
  /\ UNCHANGED <<cgi, script, quitting>>
Failed(done, otherwise) ==
  /\ quitting' = TRUE /\ State' = "HTTP_FINISHED"
  /\ awaited' = otherwise /\ ResponseBufferDone' = done
  /\ UNCHANGED <<cgi, script>>

LEMMA Flushed ==
  ASSUME sent \in Seq(UnitType), NEW q \in Seq(UnitType),
         NEW st, NEW done, NEW otherwise,
         FlushWriteBuf(q, st, done, otherwise)
  PROVE  /\ sent' \in Seq(UnitType) /\ sendq' \in Seq(UnitType)
         /\ Stream' = sent \o q
         /\ \/ Emptied(st, done, otherwise)
            \/ Partly(q, st, done)
            \/ Failed(done, otherwise)
<1>1. ASSUME NEW n \in 0 .. Len(q),
             sent' = sent \o SubSeq(q, 1, n), sendq' = SubSeq(q, n + 1, Len(q)),
             awaited' = IF n < Len(q) THEN "OUT" ELSE otherwise,
             IF n = Len(q)
             THEN cgi' = "none" /\ script' = IF cgi = "open" THEN "none" ELSE script
             ELSE UNCHANGED <<cgi, script>>,
             IF n = Len(q) /\ st = "HTTP_SEND_DATA" /\ done
             THEN EndRequest(keepalive)
             ELSE State' = st /\ ResponseBufferDone' = done /\ UNCHANGED quitting
      PROVE  /\ sent' \in Seq(UnitType) /\ sendq' \in Seq(UnitType)
             /\ Stream' = sent \o q
             /\ \/ Emptied(st, done, otherwise)
                \/ Partly(q, st, done)
  <2>1. /\ sent' \in Seq(UnitType) /\ sendq' \in Seq(UnitType)
        /\ sent' \o sendq' = sent \o q
        /\ sendq' = <<>> <=> n = Len(q)
    BY <1>1, FlushSplits
  <2>2. CASE n = Len(q)
    <3>1. ~(n < Len(q))
      BY <2>2, LenProperties
    <3> QED BY <1>1, <2>1, <2>2, <3>1 DEF Emptied, Stream
  <2>3. CASE n # Len(q)
    <3>1. n < Len(q) /\ Len(q) # 0
      BY <2>3, LenProperties
    <3>2. q # <<>>
      BY <3>1, EmptySeq
    <3> QED BY <1>1, <2>1, <2>3, <3>1, <3>2 DEF Partly, Stream
  <2> QED BY <2>2, <2>3
<1>2. ASSUME q # <<>>, quitting' = TRUE, State' = "HTTP_FINISHED", sendq' = q,
             awaited' = otherwise, ResponseBufferDone' = done,
             UNCHANGED <<sent, cgi, script>>
      PROVE  /\ sent' \in Seq(UnitType) /\ sendq' \in Seq(UnitType)
             /\ Stream' = sent \o q
             /\ Failed(done, otherwise)
  BY <1>2 DEF Failed, Stream
<1> QED BY <1>1, <1>2 DEF FlushWriteBuf

-----------------------------------------------------------------------------
(* The steps of the client, the script and the loop.                        *)

USE DEF clientVars, outputVars, connVars, cgiVars

LEMMA ScriptAsk == ScriptInv /\ Ask => ScriptInv'
<1> SUFFICES ASSUME ScriptInv, Ask PROVE ScriptInv'
  OBVIOUS
<1>1. ScriptTypeOK'
  <2>1. asked' \in Nat
    BY DEF ScriptInv, ScriptTypeOK, Ask
  <2>2. /\ kind' \in {"none", "script", "missing"}
        /\ request' \in {"none", "script", "missing"}
        /\ unwatched' \in BOOLEAN
        /\ UNCHANGED <<hup, batch, sent, outputVars, cgiVars, connVars, uncaught>>
    BY DEF Ask
  <2> QED BY <2>1, <2>2 DEF ScriptInv, ScriptTypeOK
<1>2. CASE State = "closed"
  BY <1>1, <1>2 DEF ScriptInv, Ask
<1>3. CASE State # "closed"
  <2>1. /\ Stream' = Stream /\ asked \in Nat /\ asked' = asked + 1
        /\ request' # "none" /\ AnswersOK /\ OutputOK
        /\ sent \in Seq(UnitType) /\ sendq \in Seq(UnitType)
    BY <1>3 DEF ScriptInv, ScriptTypeOK, Ask, Stream
  <2>2. asked # 0 => asked \in Asking(Stream)
    BY <2>1, AnsweredIsIn DEF Ask
  <2>3. AnswersOK'
    <3>1. asked' >= 1 /\ asked' \notin 1 .. asked /\ 1 .. asked \subseteq 1 .. asked'
      BY <2>1
    <3>2. asked' \notin Asking(Stream) /\ Asking(Stream) \subseteq 1 .. asked'
      BY <2>1, <3>1 DEF AnswersOK
    <3>3. EndsWith(Stream, asked')
      BY <3>2 DEF EndsWith
    <3> QED BY <2>1, <3>1, <3>2, <3>3 DEF AnswersOK
  <2>4. cgi # "open"
    BY <2>1, <2>2 DEF AnswersOK
  <2>5. OutputOK'
    BY <2>1, <2>4 DEF OutputOK, Ask
  <2>6. ASSUME ~quitting PROVE Undisturbed'
    <3>1. asked \in Asking(Stream) => sendq = <<>>
      <4>1. asked \in Asking(Stream) => asked # 0
        BY <2>1 DEF AnswersOK
      <4> QED BY <2>1, <4>1, AllSent DEF AnswersOK, Ask
    <3>2. /\ State = "HTTP_WAIT_REQUEST" /\ ~ResponseBufferDone
          /\ sendq = <<>> /\ cgi # "done" /\ Undisturbed
      BY <1>3, <2>6, <3>1 DEF ScriptInv, Undisturbed, WaitsOrSends
    <3> QED BY <2>1, <3>2 DEF Undisturbed, WaitsOrSends, Ask
  <2> QED BY <1>1, <1>3, <2>3, <2>5, <2>6 DEF ScriptInv, Ask
<1> QED BY <1>2, <1>3

LEMMA ScriptScriptWrites == ScriptInv /\ ScriptWrites => ScriptInv'
<1> SUFFICES ASSUME ScriptInv, ScriptWrites PROVE ScriptInv'
  OBVIOUS
<1>1. /\ pipe \in Seq(Nat) /\ rbuf \in Seq(Nat) /\ written \in Nat
      /\ written' = written + 1 /\ pipe' = Append(pipe, written + 1)
      /\ rbuf' = rbuf
  BY DEF ScriptInv, ScriptTypeOK, ScriptWrites
<1>2. /\ pipe' \in Seq(Nat) /\ Len(pipe') = Len(pipe) + 1
      /\ Len(pipe) \in Nat /\ Len(rbuf) \in Nat
      /\ \A i \in 1 .. Len(pipe) : pipe'[i] = pipe[i]
      /\ pipe'[Len(pipe) + 1] = written + 1
  BY <1>1, AppendProperties, LenProperties
<1>3. ScriptTypeOK'
  BY <1>1, <1>2 DEF ScriptInv, ScriptTypeOK, ScriptWrites
<1>4. ASSUME State # "closed" PROVE OutputOK'
  <2>1. OutputOK /\ cgi = "open"
    BY <1>4 DEF ScriptInv, OutputOK, ScriptWrites
  <2>2. Len(rbuf) + Len(pipe) = written
    BY <2>1 DEF OutputOK
  <2>3. \A i \in 1 .. Len(pipe') : pipe'[i] = Len(rbuf) + i
    <3> SUFFICES ASSUME NEW i \in 1 .. Len(pipe') PROVE pipe'[i] = Len(rbuf) + i
      OBVIOUS
    <3>1. i \in 1 .. Len(pipe) \/ i = Len(pipe) + 1
      BY <1>2
    <3>2. CASE i \in 1 .. Len(pipe)
      BY <1>2, <2>1, <3>2 DEF OutputOK
    <3>3. CASE i = Len(pipe) + 1
      <4>1. pipe'[i] = written + 1
        BY <1>2, <3>3
      <4>2. written + 1 = Len(rbuf) + i
        <5>1. Len(pipe) \in Nat /\ Len(rbuf) \in Nat /\ written \in Nat
          BY <1>1, <1>2
        <5> QED BY <2>2, <3>3, <5>1
      <4> QED BY <4>1, <4>2
    <3> QED BY <3>1, <3>2, <3>3
  <2>4. Len(rbuf') + Len(pipe') = written'
    BY <1>1, <1>2, <2>2
  <2> QED BY <1>1, <2>1, <2>3, <2>4 DEF OutputOK, ScriptWrites
<1>5. /\ UNCHANGED <<State, quitting, batch>>
      /\ AnswersOK => AnswersOK'
      /\ Undisturbed => Undisturbed'
  BY DEF ScriptWrites, AnswersOK, Undisturbed, WaitsOrSends, Stream
<1> QED BY <1>3, <1>4, <1>5 DEF ScriptInv

LEMMA ScriptScriptEnds == ScriptInv /\ ScriptEnds => ScriptInv'
<1> SUFFICES ASSUME ScriptInv, ScriptEnds PROVE ScriptInv'
  OBVIOUS
<1>1. ScriptTypeOK'
  BY DEF ScriptInv, ScriptTypeOK, ScriptEnds
<1>2. /\ UNCHANGED <<State, quitting, batch>>
      /\ AnswersOK => AnswersOK'
      /\ Undisturbed => Undisturbed'
  BY DEF ScriptEnds, AnswersOK, Undisturbed, WaitsOrSends, Stream
<1>3. OutputOK => OutputOK'
  BY DEF ScriptEnds, OutputOK
<1> QED BY <1>1, <1>2, <1>3 DEF ScriptInv

LEMMA ScriptReportEvents == ScriptInv /\ ReportEvents => ScriptInv'
<1> SUFFICES ASSUME ScriptInv, ReportEvents PROVE ScriptInv'
  OBVIOUS
<1>1. /\ batch' \subseteq {"end", "output", "readable", "writeable"}
      /\ "end" \in batch' => hup
      /\ "readable" \in batch' => request # "none" /\ awaited # "OUT"
      /\ "writeable" \in batch' => awaited = "OUT"
  BY DEF ReportEvents, PipeEvents, SocketEvents
<1>2. ScriptTypeOK'
  BY <1>1 DEF ScriptInv, ScriptTypeOK, ReportEvents
<1>3. State # "closed" /\ State' = State /\ quitting' = quitting
  BY DEF ReportEvents
<1>4. AnswersOK'
  BY <1>3 DEF ScriptInv, AnswersOK, ReportEvents, Stream
<1>5. OutputOK'
  BY <1>1, <1>3 DEF ScriptInv, OutputOK, ReportEvents
<1>6. ASSUME ~quitting PROVE Undisturbed'
  <2>1. awaited \in {"IN", "OUT"} /\ Undisturbed
    BY <1>3, <1>6 DEF ScriptInv, ScriptTypeOK
  <2> QED BY <1>1, <2>1 DEF Undisturbed, WaitsOrSends, ReportEvents, Stream
<1> QED BY <1>2, <1>3, <1>4, <1>5, <1>6 DEF ScriptInv

LEMMA ScriptDeleteConnection == ScriptInv /\ DeleteConnection => ScriptInv'
<1> SUFFICES ASSUME ScriptInv, DeleteConnection PROVE ScriptInv'
  OBVIOUS
<1>1. ScriptTypeOK' /\ State # "closed" /\ State' # "closed" /\ quitting'
  BY DEF ScriptInv, ScriptTypeOK, DeleteConnection
<1>2. AnswersOK'
  BY <1>1 DEF ScriptInv, AnswersOK, DeleteConnection, Stream
<1>3. OutputOK'
  BY <1>1 DEF ScriptInv, OutputOK, DeleteConnection
<1> QED BY <1>1, <1>2, <1>3 DEF ScriptInv

LEMMA ScriptApplyCulls == ScriptInv /\ ApplyCulls => ScriptInv'
<1> SUFFICES ASSUME ScriptInv, ApplyCulls PROVE ScriptInv'
  OBVIOUS
<1>1. <<>> \in Seq(UnitType)
  BY EmptySeq
<1>2. ScriptTypeOK'
  BY <1>1 DEF ScriptInv, ScriptTypeOK, ApplyCulls
<1> QED BY <1>2 DEF ScriptInv, ApplyCulls

-----------------------------------------------------------------------------
(* The steps of the connection.                                             *)

\* What FlushWriteBuf leaves of the types.
LEMMA FlushedTypes ==
  ASSUME ScriptTypeOK, NEW q \in Seq(UnitType), NEW done \in BOOLEAN,
         NEW st \in {"HTTP_WAIT_REQUEST", "HTTP_SEND_DATA", "HTTP_FINISHED"},
         NEW otherwise \in {"IN", "OUT"},
         FlushWriteBuf(q, st, done, otherwise)
  PROVE  /\ sent' \in Seq(UnitType) /\ sendq' \in Seq(UnitType)
         /\ script' \in {"none", "running", "ended"}
         /\ cgi' \in {"none", cgi} /\ cgi' \in {"none", "open", "done"}
         /\ State' \in {"HTTP_WAIT_REQUEST", "HTTP_SEND_DATA", "HTTP_FINISHED"}
         /\ ResponseBufferDone' \in BOOLEAN /\ quitting' \in BOOLEAN
         /\ awaited' \in {"IN", "OUT"} /\ (quitting => quitting')
         /\ script' = script \/ (script' = "none" /\ cgi' = "none")
         /\ cgi = "open" /\ cgi' # "open" => script' = "none"
<1>1. sent \in Seq(UnitType) /\ keepalive \in BOOLEAN /\ quitting \in BOOLEAN
      /\ script \in {"none", "running", "ended"} /\ cgi \in {"none", "open", "done"}
  BY DEF ScriptTypeOK
<1>2. /\ sent' \in Seq(UnitType) /\ sendq' \in Seq(UnitType)
      /\ \/ Emptied(st, done, otherwise)
         \/ Partly(q, st, done)
         \/ Failed(done, otherwise)
  BY <1>1, Flushed
<1>3. CASE Emptied(st, done, otherwise)
  BY <1>1, <1>2, <1>3 DEF Emptied, EndRequest
<1>4. CASE Partly(q, st, done)
  BY <1>1, <1>2, <1>4 DEF Partly
<1>5. CASE Failed(done, otherwise)
  BY <1>1, <1>2, <1>5 DEF Failed
<1> QED BY <1>2, <1>3, <1>4, <1>5

LEMMA ScriptHandleWrite == ScriptInv /\ HandleWrite => ScriptInv'
<1> SUFFICES ASSUME ScriptInv, HandleWrite PROVE ScriptInv'
  OBVIOUS
<1>1. /\ State # "closed" /\ ScriptTypeOK /\ AnswersOK /\ OutputOK
      /\ ~quitting => Undisturbed
  BY DEF ScriptInv, HandleWrite
<1>2. /\ FlushWriteBuf(sendq, State, ResponseBufferDone, "IN")
      /\ "writeable" \in batch /\ batch' = batch \ {"writeable"}
      /\ UNCHANGED <<hup, clientVars, written, pipe, rbuf, keepalive, unwatched,
                     uncaught>>
  BY DEF HandleWrite
<1>3. /\ sent \in Seq(UnitType) /\ sendq \in Seq(UnitType)
      /\ ResponseBufferDone \in BOOLEAN
      /\ State \in {"HTTP_WAIT_REQUEST", "HTTP_SEND_DATA", "HTTP_FINISHED"}
  BY <1>1 DEF ScriptTypeOK
<1>4. /\ Stream' = Stream
      /\ \/ Emptied(State, ResponseBufferDone, "IN")
         \/ Partly(sendq, State, ResponseBufferDone)
         \/ Failed(ResponseBufferDone, "IN")
  BY <1>2, <1>3, Flushed DEF Stream
<1>5. /\ sent' \in Seq(UnitType) /\ sendq' \in Seq(UnitType)
      /\ script' \in {"none", "running", "ended"}
      /\ cgi' \in {"none", cgi} /\ cgi' \in {"none", "open", "done"}
      /\ State' \in {"HTTP_WAIT_REQUEST", "HTTP_SEND_DATA", "HTTP_FINISHED"}
      /\ ResponseBufferDone' \in BOOLEAN /\ quitting' \in BOOLEAN
      /\ awaited' \in {"IN", "OUT"} /\ (quitting => quitting')
      /\ script' = script \/ (script' = "none" /\ cgi' = "none")
      /\ cgi = "open" /\ cgi' # "open" => script' = "none"
  BY <1>1, <1>2, <1>3, FlushedTypes
<1>6. ScriptTypeOK'
  BY <1>1, <1>2, <1>5 DEF ScriptTypeOK
<1>7. AnswersOK'
  BY <1>1, <1>2, <1>4, <1>5 DEF AnswersOK
<1>8. OutputOK'
  BY <1>1, <1>2, <1>5 DEF OutputOK
<1>9. ASSUME ~quitting' PROVE Undisturbed'
  <2>1. ~quitting /\ Undisturbed /\ WaitsOrSends
    BY <1>1, <1>5, <1>9 DEF Undisturbed
  <2>2. /\ awaited = "OUT" /\ "readable" \notin batch
        /\ cgi # "open"
        /\ asked \in Asking(Stream) \/ asked = 0 \/ request # "none" \/ unwatched
    BY <1>2, <2>1 DEF Undisturbed, WaitsOrSends
  <2>3. /\ "readable" \notin batch' /\ "writeable" \notin batch'
        /\ asked \in Asking(Stream') \/ asked = 0 \/ request # "none" \/ unwatched
    BY <1>2, <1>4, <2>2
  <2>4. CASE Emptied(State, ResponseBufferDone, "IN")
    <3>1. /\ State' = "HTTP_WAIT_REQUEST" /\ ~ResponseBufferDone'
          /\ sendq' = <<>> /\ cgi' = "none" /\ awaited' = "IN"
      BY <1>9, <2>1, <2>4 DEF Emptied, EndRequest, WaitsOrSends
    <3> QED BY <1>2, <2>3, <3>1 DEF Undisturbed, WaitsOrSends
  <2>5. CASE Partly(sendq, State, ResponseBufferDone)
    <3>1. /\ State' = "HTTP_SEND_DATA" /\ ResponseBufferDone' /\ cgi' # "open"
          /\ request' = "none" /\ asked' \in Asking(Stream')
          /\ sendq' # <<>> /\ awaited' = "OUT"
      BY <1>2, <1>4, <2>1, <2>2, <2>5 DEF Partly, WaitsOrSends
    <3> QED BY <1>2, <2>3, <3>1 DEF Undisturbed, WaitsOrSends
  <2>6. ~Failed(ResponseBufferDone, "IN")
    BY <1>9 DEF Failed
  <2> QED BY <1>4, <2>4, <2>5, <2>6
<1> QED BY <1>5, <1>6, <1>7, <1>8, <1>9 DEF ScriptInv

\* A request that is answered at once, with an error.
LEMMA ScriptSendError ==
  ASSUME ScriptInv, State = "HTTP_WAIT_REQUEST", ~quitting, "readable" \in batch,
         batch' = batch \ {"readable"}, request' = "none",
         NEW fatal \in BOOLEAN, SendError(fatal),
         UNCHANGED <<hup, asked, kind, uncaught>>
  PROVE  ScriptInv'
<1> DEFINE q == sendq \o Response(<<1>>)
<1>1. /\ ScriptTypeOK /\ AnswersOK /\ OutputOK /\ Undisturbed
      /\ sent \in Seq(UnitType) /\ sendq \in Seq(UnitType)
  BY DEF ScriptInv, ScriptTypeOK
<1>2. /\ sendq = <<>> /\ cgi = "none" /\ script = "none" /\ request # "none"
      /\ asked \in Nat /\ asked >= 1 /\ asked \notin Asking(Stream)
      /\ awaited = "IN" /\ "writeable" \notin batch
  BY <1>1 DEF Undisturbed, WaitsOrSends, AnswersOK, OutputOK, ScriptTypeOK
<1>3. <<1>> \in Seq(Nat) /\ \A i \in 1 .. Len(<<1>>) : <<1>>[i] = i
  <2>1. Len(<<1>>) = 1 /\ <<1>>[1] = 1
    OBVIOUS
  <2>2. \A i \in 1 .. 1 : i = 1
    OBVIOUS
  <2> QED BY <2>1, <2>2
<1>4. Response(<<1>>) \in Seq(UnitType)
  BY <1>2, <1>3, ResponseInTurn
<1>5. q \in Seq(UnitType) /\ sent \o q = Stream \o Response(<<1>>)
  <2> DEFINE r == Response(<<1>>)
  <2>1. r \in Seq(UnitType)
    BY <1>4
  <2> HIDE DEF r
  <2>2. sendq \o r \in Seq(UnitType)
    BY <1>1, <2>1, ConcatProperties
  <2>3. sent \o (sendq \o r) = (sent \o sendq) \o r
    BY <1>1, <2>1, ConcatAssociative
  <2> QED BY <2>2, <2>3 DEF Stream, r
<1> HIDE DEF q
<1>6. FlushWriteBuf(q, "HTTP_SEND_DATA", TRUE, "OUT")
  BY DEF SendError, q
<1>7. /\ keepalive' = (keepalive /\ ~fatal)
      /\ UNCHANGED <<written, pipe, rbuf, unwatched>>
  BY DEF SendError
<1>8. /\ Stream' = Stream \o Response(<<1>>)
      /\ \/ Emptied("HTTP_SEND_DATA", TRUE, "OUT")
         \/ Partly(q, "HTTP_SEND_DATA", TRUE)
         \/ Failed(TRUE, "OUT")
  BY <1>1, <1>5, <1>6, Flushed
<1>9. /\ sent' \in Seq(UnitType) /\ sendq' \in Seq(UnitType)
      /\ cgi' = "none" /\ script' = "none"
      /\ State' \in {"HTTP_WAIT_REQUEST", "HTTP_SEND_DATA", "HTTP_FINISHED"}
      /\ ResponseBufferDone' \in BOOLEAN /\ quitting' \in BOOLEAN
      /\ awaited' \in {"IN", "OUT"}
  BY <1>1, <1>2, <1>5, <1>6, FlushedTypes
<1>10. ScriptTypeOK'
  BY <1>1, <1>7, <1>9 DEF ScriptTypeOK
<1>11. /\ InFull(Stream') /\ EndsWith(Stream', asked)
       /\ Asking(Stream') \subseteq 1 .. asked /\ asked \in Asking(Stream')
  <2>1. Stream \in Seq(UnitType)
    BY <1>1, StreamOf
  <2> QED BY <1>1, <1>2, <1>3, <1>8, <2>1, ResponseAppended DEF AnswersOK
<1>12. AnswersOK'
  BY <1>9, <1>11 DEF AnswersOK
<1>13. OutputOK'
  BY <1>1, <1>9 DEF OutputOK
<1>14. ASSUME ~quitting' PROVE Undisturbed'
  <2>1. "readable" \notin batch' /\ "writeable" \notin batch'
    BY <1>2
  <2>2. CASE Emptied("HTTP_SEND_DATA", TRUE, "OUT")
    <3>1. /\ State' = "HTTP_WAIT_REQUEST" /\ ~ResponseBufferDone'
          /\ sendq' = <<>> /\ awaited' = "OUT"
      BY <1>14, <2>2 DEF Emptied, EndRequest
    <3> QED BY <1>9, <1>11, <2>1, <3>1 DEF Undisturbed, WaitsOrSends
  <2>3. CASE Partly(q, "HTTP_SEND_DATA", TRUE)
    <3>1. /\ State' = "HTTP_SEND_DATA" /\ ResponseBufferDone'
          /\ sendq' # <<>> /\ awaited' = "OUT"
      BY <2>3 DEF Partly
    <3> QED BY <1>9, <1>11, <2>1, <3>1 DEF Undisturbed, WaitsOrSends
  <2>4. ~Failed(TRUE, "OUT")
    BY <1>14 DEF Failed
  <2> QED BY <1>8, <2>2, <2>3, <2>4
<1> QED BY <1>9, <1>10, <1>12, <1>13, <1>14 DEF ScriptInv

LEMMA ScriptReadRequest == ScriptInv /\ ReadRequest => ScriptInv'
<1> SUFFICES ASSUME ScriptInv, ReadRequest PROVE ScriptInv'
  OBVIOUS
<1>1. /\ "readable" \in batch /\ batch' = batch \ {"readable"}
      /\ State # "closed" /\ ScriptTypeOK /\ AnswersOK /\ OutputOK
      /\ ~quitting => Undisturbed
      /\ UNCHANGED <<hup, asked, kind, uncaught>>
  BY DEF ScriptInv, ReadRequest
<1>2. CASE ~quitting /\ State = "HTTP_WAIT_REQUEST"
  <2>1. request' = "none"
    BY <1>2 DEF ReadRequest
  <2>2. /\ sendq = <<>> /\ cgi = "none" /\ script = "none" /\ request # "none"
        /\ asked \in Nat /\ asked >= 1 /\ asked \notin Asking(Stream)
        /\ awaited = "IN" /\ "writeable" \notin batch /\ ~ResponseBufferDone
    BY <1>1, <1>2
       DEF Undisturbed, WaitsOrSends, AnswersOK, OutputOK, ScriptTypeOK
  <2>3. ASSUME NEW fatal \in BOOLEAN, SendError(fatal) PROVE ScriptInv'
    BY <1>1, <1>2, <2>1, <2>3, ScriptSendError
  <2>4. ASSUME script' = "running", written' = 0, pipe' = <<>>, rbuf' = <<>>,
               cgi' = "open", UNCHANGED <<sent, connVars, unwatched>>
        PROVE  ScriptInv'
    <3>1. <<>> \in Seq(Nat) /\ Len(<<>>) = 0 /\ \A i \in 1 .. 0 : FALSE
      BY EmptySeq
    <3>2. ScriptTypeOK'
      BY <1>1, <2>1, <2>4, <3>1 DEF ScriptTypeOK
    <3>3. AnswersOK'
      BY <1>1, <2>1, <2>2, <2>4 DEF AnswersOK, Stream
    <3>4. OutputOK'
      BY <1>1, <2>1, <2>4, <3>1 DEF OutputOK
    <3>5. Undisturbed'
      BY <1>1, <1>2, <2>1, <2>2, <2>4 DEF Undisturbed, WaitsOrSends
    <3> QED BY <1>1, <2>4, <3>2, <3>3, <3>4, <3>5 DEF ScriptInv
  <2>5. ASSUME cgi' = "none", unwatched' = TRUE,
               UNCHANGED <<sent, script, written, pipe, rbuf, connVars>>
        PROVE  ScriptInv'
    <3>1. ScriptTypeOK'
      BY <1>1, <2>1, <2>5 DEF ScriptTypeOK
    <3>2. AnswersOK'
      BY <1>1, <2>1, <2>5 DEF AnswersOK, Stream
    <3>3. OutputOK'
      BY <1>1, <2>2, <2>5 DEF OutputOK
    <3>4. Undisturbed'
      BY <1>1, <1>2, <2>1, <2>2, <2>5 DEF Undisturbed, WaitsOrSends
    <3> QED BY <1>1, <2>5, <3>1, <3>2, <3>3, <3>4 DEF ScriptInv
  <2>6. \/ SendError(FALSE) \/ SendError(TRUE)
        \/ /\ script' = "running" /\ written' = 0 /\ pipe' = <<>> /\ rbuf' = <<>>
           /\ cgi' = "open" /\ UNCHANGED <<sent, connVars, unwatched>>
        \/ /\ cgi' = "none" /\ unwatched' = TRUE
           /\ UNCHANGED <<sent, script, written, pipe, rbuf, connVars>>
    BY <1>2 DEF ReadRequest, OnPreRequest
  <2> QED BY <2>3, <2>4, <2>5, <2>6
<1>3. CASE quitting \/ State # "HTTP_WAIT_REQUEST"
  <2>1. quitting
    BY <1>1, <1>3 DEF Undisturbed, WaitsOrSends
  <2>2. UNCHANGED <<hup, clientVars, sent, outputVars, cgiVars, connVars,
                    unwatched, uncaught>>
    BY <1>1, <2>1 DEF ReadRequest
  <2>3. ScriptTypeOK'
    BY <1>1, <2>2 DEF ScriptTypeOK
  <2>4. AnswersOK' /\ OutputOK'
    BY <1>1, <2>2 DEF AnswersOK, OutputOK, Stream
  <2> QED BY <1>1, <2>1, <2>2, <2>3, <2>4 DEF ScriptInv
<1> QED BY <1>2, <1>3

-----------------------------------------------------------------------------
(* The steps of the CGIRequest.                                             *)

LEMMA ScriptRespond ==
  ASSUME ScriptInv, State # "closed", cgi = "open", hup \/ Len(rbuf) = written,
         Respond, batch' \subseteq batch, UNCHANGED <<hup, clientVars, unwatched>>
  PROVE  ScriptInv'
<1>1. /\ ScriptTypeOK /\ AnswersOK /\ OutputOK /\ (~quitting => Undisturbed)
      /\ sent \in Seq(UnitType) /\ sendq \in Seq(UnitType)
      /\ asked \in Nat /\ rbuf \in Seq(Nat)
  BY DEF ScriptInv, ScriptTypeOK
<1>2. /\ request = "none" /\ asked >= 1 /\ asked \notin Asking(Stream)
      /\ \A i \in 1 .. Len(rbuf) : rbuf[i] = i
  BY <1>1 DEF AnswersOK, OutputOK
<1> DEFINE r == Response(rbuf)
<1>3. r \in Seq(UnitType) /\ Len(r) = Len(rbuf) + 1
  BY <1>1, <1>2, ResponseInTurn
<1>4. /\ sendq' = sendq \o r /\ cgi' = "done" /\ script' = "none"
      /\ awaited' = "OUT" /\ State' = "HTTP_SEND_DATA" /\ ResponseBufferDone'
      /\ ResponseBufferDone' \in BOOLEAN
      /\ quitting' = (quitting \/ (rbuf = <<>> /\ ~keepalive))
      /\ UNCHANGED <<sent, keepalive, written, pipe, rbuf, uncaught>>
  BY DEF Respond
<1> HIDE DEF r
<1>5. /\ sendq' \in Seq(UnitType) /\ sendq' # <<>>
      /\ Stream' = Stream \o r
  <2>1. /\ sendq \o r \in Seq(UnitType)
        /\ Len(sendq \o r) = Len(sendq) + Len(r)
        /\ Len(sendq) \in Nat /\ Len(rbuf) \in Nat
    BY <1>1, <1>3, ConcatProperties, LenProperties
  <2>2. sent \o (sendq \o r) = (sent \o sendq) \o r
    <3>1. sent \in Seq(UnitType) /\ sendq \in Seq(UnitType) /\ r \in Seq(UnitType)
      BY <1>1, <1>3
    <3> QED BY ONLY <3>1, ConcatAssociative
  <2>3. Len(sendq \o r) # 0
    BY <1>3, <2>1
  <2>4. sendq \o r # <<>>
    BY <2>3, EmptySeq
  <2> QED BY <1>4, <2>1, <2>2, <2>4 DEF Stream
<1>6. /\ InFull(Stream') /\ EndsWith(Stream', asked)
      /\ Asking(Stream') \subseteq 1 .. asked /\ asked \in Asking(Stream')
  <2>1. Stream \in Seq(UnitType)
    BY <1>1, StreamOf
  <2> QED BY <1>1, <1>2, <1>5, <2>1, ResponseAppended DEF AnswersOK, r
<1>7. ScriptTypeOK'
  BY <1>1, <1>4, <1>5 DEF ScriptTypeOK
<1>8. AnswersOK'
  BY <1>2, <1>4, <1>6 DEF AnswersOK
<1>9. OutputOK'
  BY <1>1, <1>2, <1>4 DEF OutputOK
<1>10. ASSUME ~quitting' PROVE Undisturbed'
  <2>1. "readable" \notin batch
    BY <1>1, <1>2, <1>4, <1>10 DEF Undisturbed
  <2> QED BY <1>2, <1>4, <1>5, <1>6, <2>1 DEF Undisturbed, WaitsOrSends
<1> QED BY <1>4, <1>7, <1>8, <1>9, <1>10 DEF ScriptInv

\* An event that changes nothing.
LEMMA ScriptNothing ==
  ASSUME ScriptInv, batch' \subseteq batch, State # "closed",
         UNCHANGED <<hup, clientVars, sent, outputVars, cgiVars, connVars,
                     unwatched>>,
         uncaught' \in BOOLEAN
  PROVE  ScriptInv'
<1>1. ScriptTypeOK'
  BY DEF ScriptInv, ScriptTypeOK
<1>2. AnswersOK'
  BY DEF ScriptInv, AnswersOK, Stream
<1>3. OutputOK'
  BY DEF ScriptInv, OutputOK
<1>4. ~quitting => Undisturbed'
  BY DEF ScriptInv, Undisturbed, WaitsOrSends, Stream
<1> QED BY <1>1, <1>2, <1>3, <1>4 DEF ScriptInv

LEMMA ScriptPipeEnds == ScriptInv /\ PipeEnds => ScriptInv'
<1> SUFFICES ASSUME ScriptInv, PipeEnds PROVE ScriptInv'
  OBVIOUS
<1>1. /\ batch' \subseteq batch /\ State # "closed" /\ hup
      /\ uncaught \in BOOLEAN
  BY DEF ScriptInv, ScriptTypeOK, OutputOK, PipeEnds
<1>2. CASE cgi = "open"
  BY <1>1, <1>2, ScriptRespond DEF PipeEnds
<1>3. CASE cgi # "open"
  BY <1>1, <1>3, ScriptNothing DEF PipeEnds
<1> QED BY <1>2, <1>3

\* What read() takes from the pipe is the next of the output.
LEMMA OutputTaken ==
  ASSUME rbuf \in Seq(Nat), pipe \in Seq(Nat), written \in Nat,
         Len(rbuf) + Len(pipe) = written,
         \A i \in 1 .. Len(rbuf) : rbuf[i] = i,
         \A i \in 1 .. Len(pipe) : pipe[i] = Len(rbuf) + i,
         NEW n \in 1 .. Len(pipe),
         rbuf' = rbuf \o SubSeq(pipe, 1, n),
         pipe' = SubSeq(pipe, n + 1, Len(pipe))
  PROVE  /\ rbuf' \in Seq(Nat) /\ pipe' \in Seq(Nat)
         /\ Len(rbuf') + Len(pipe') = written
         /\ \A i \in 1 .. Len(rbuf') : rbuf'[i] = i
         /\ \A i \in 1 .. Len(pipe') : pipe'[i] = Len(rbuf') + i
<1> DEFINE a == SubSeq(pipe, 1, n)
           b == SubSeq(pipe, n + 1, Len(pipe))
           p == Len(pipe)
           r == Len(rbuf)
<1>1. p \in Nat /\ r \in Nat /\ n \in Nat /\ n <= p /\ n >= 1 /\ r + p = written
  BY LenProperties
<1>2. \A i \in 1 .. p : pipe[i] \in Nat /\ pipe[i] = r + i
  BY ElementOfSeq
<1>3. a \in Seq(Nat) /\ Len(a) = n /\ \A i \in 1 .. n : a[i] = r + i
  <2> HIDE DEF p, r
  <2>1. \A i \in 1 .. n : i \in 1 .. p
    BY <1>1
  <2>2. \A i \in 1 .. n : pipe[i] \in Nat
    BY <1>2, <2>1
  <2>3. /\ a \in Seq(Nat)
        /\ Len(a) = IF 1 <= n THEN n - 1 + 1 ELSE 0
        /\ \A i \in 1 .. n - 1 + 1 : a[i] = pipe[1 + i - 1]
    BY <1>1, <2>2, SubSeqProperties
  <2> HIDE DEF a
  <2>4. ASSUME NEW i \in 1 .. n PROVE a[i] = r + i
    <3>1. i \in 1 .. n - 1 + 1 /\ 1 + i - 1 = i
      BY <1>1
    <3> QED BY <1>2, <2>1, <2>3, <3>1
  <2> QED BY <1>1, <2>3, <2>4
<1>4. b \in Seq(Nat) /\ Len(b) = p - n /\ \A i \in 1 .. p - n : b[i] = r + n + i
  <2>1. \A i \in n + 1 .. p : pipe[i] \in Nat
    BY <1>1, <1>2
  <2>2. /\ b \in Seq(Nat)
        /\ Len(b) = IF n + 1 <= p THEN p - (n + 1) + 1 ELSE 0
        /\ \A i \in 1 .. p - (n + 1) + 1 : b[i] = pipe[(n + 1) + i - 1]
    <3>1. n + 1 \in Int /\ p \in Int
      BY <1>1
    <3> HIDE DEF p
    <3> QED BY <2>1, <3>1, SubSeqProperties DEF p
  <2> HIDE DEF b, p, r
  <2>3. ASSUME NEW i \in 1 .. p - n PROVE b[i] = r + n + i
    <3>1. /\ i \in 1 .. p - (n + 1) + 1 /\ (n + 1) + i - 1 = n + i
          /\ n + i \in 1 .. p /\ r + n + i = r + (n + i)
      BY <1>1
    <3>2. b[i] = pipe[n + i] /\ pipe[n + i] = r + (n + i)
      BY <1>2, <2>2, <3>1
    <3> QED BY <3>1, <3>2
  <2> QED BY <1>1, <2>2, <2>3
<1> HIDE DEF a, b, p, r
<1>5. /\ rbuf' \in Seq(Nat) /\ Len(rbuf') = r + n
      /\ \A i \in 1 .. r + n : rbuf'[i] = IF i <= r THEN rbuf[i] ELSE a[i - r]
  <2>1. rbuf' = rbuf \o a
    BY DEF a
  <2>2. /\ rbuf \o a \in Seq(Nat) /\ Len(rbuf \o a) = Len(rbuf) + Len(a)
        /\ \A i \in 1 .. Len(rbuf) + Len(a) :
             (rbuf \o a)[i] = IF i <= Len(rbuf) THEN rbuf[i] ELSE a[i - Len(rbuf)]
    BY <1>3, ConcatProperties
  <2> QED BY <1>3, <2>1, <2>2 DEF r
<1>6. ASSUME NEW i \in 1 .. r + n PROVE rbuf'[i] = i
  <2>1. CASE i <= r
    <3>1. i \in 1 .. r
      BY <1>1, <2>1
    <3>2. rbuf[i] = i
      BY <3>1 DEF r
    <3> QED BY <1>5, <2>1, <3>2
  <2>2. CASE ~(i <= r)
    <3>1. i - r \in 1 .. n /\ r + (i - r) = i
      BY <1>1, <2>2
    <3> QED BY <1>3, <1>5, <2>2, <3>1
  <2> QED BY <2>1, <2>2
<1>7. pipe' = b
  BY DEF b
<1>8. Len(rbuf') + Len(pipe') = written
  <2>1. Len(rbuf') = r + n /\ Len(pipe') = p - n
    BY <1>4, <1>5, <1>7
  <2> QED BY ONLY <1>1, <2>1
<1> QED BY <1>4, <1>5, <1>6, <1>7, <1>8

LEMMA ScriptOnRead == ScriptInv /\ OnRead => ScriptInv'
<1> SUFFICES ASSUME ScriptInv, OnRead PROVE ScriptInv'
  OBVIOUS
<1>1. /\ batch' \subseteq batch /\ State # "closed" /\ uncaught \in BOOLEAN
      /\ UNCHANGED <<hup, clientVars, unwatched>>
      /\ ScriptTypeOK /\ AnswersOK /\ OutputOK /\ (~quitting => Undisturbed)
  BY DEF ScriptInv, ScriptTypeOK, OnRead
<1>2. ASSUME cgi = "open", NEW n \in 1 .. Len(pipe), Taken(n),
             pipe' = SubSeq(pipe, n + 1, Len(pipe)),
             UNCHANGED <<sent, script, written, cgi, connVars, uncaught>>
      PROVE  ScriptInv'
  <2>1. /\ rbuf \in Seq(Nat) /\ pipe \in Seq(Nat) /\ written \in Nat
        /\ Len(rbuf) + Len(pipe) = written
        /\ \A i \in 1 .. Len(rbuf) : rbuf[i] = i
        /\ \A i \in 1 .. Len(pipe) : pipe[i] = Len(rbuf) + i
    BY <1>1, <1>2 DEF ScriptTypeOK, OutputOK
  <2>2. /\ rbuf' \in Seq(Nat) /\ pipe' \in Seq(Nat)
        /\ Len(rbuf') + Len(pipe') = written
        /\ \A i \in 1 .. Len(rbuf') : rbuf'[i] = i
        /\ \A i \in 1 .. Len(pipe') : pipe'[i] = Len(rbuf') + i
    BY <1>2, <2>1, OutputTaken DEF Taken
  <2>3. ScriptTypeOK'
    BY <1>1, <1>2, <2>2 DEF ScriptTypeOK
  <2>4. AnswersOK'
    BY <1>1, <1>2 DEF AnswersOK, Stream
  <2>5. OutputOK'
    BY <1>1, <1>2, <2>2 DEF OutputOK
  <2>6. ~quitting => Undisturbed'
    BY <1>1, <1>2 DEF Undisturbed, WaitsOrSends, Stream
  <2> QED BY <1>1, <1>2, <2>3, <2>4, <2>5, <2>6 DEF ScriptInv
<1>3. ASSUME cgi = "open", pipe = <<>>, Respond PROVE ScriptInv'
  <2>1. Len(rbuf) = written
    <3>1. Len(rbuf) + Len(pipe) = written /\ Len(pipe) = 0 /\ Len(rbuf) \in Nat
      BY <1>1, <1>3, LenProperties DEF OutputOK, ScriptTypeOK
    <3> QED BY <3>1
  <2> QED BY <1>1, <1>3, <2>1, ScriptRespond
<1>4. ASSUME UNCHANGED <<sent, outputVars, cgiVars, connVars>>,
             uncaught' \in BOOLEAN
      PROVE  ScriptInv'
  BY <1>1, <1>4, ScriptNothing
<1>5. \/ /\ cgi = "open"
         /\ \E n \in 1 .. Len(pipe) :
              Taken(n) /\ pipe' = SubSeq(pipe, n + 1, Len(pipe))
         /\ UNCHANGED <<sent, script, written, cgi, connVars, uncaught>>
      \/ cgi = "open" /\ pipe = <<>> /\ Respond
      \/ /\ UNCHANGED <<sent, outputVars, cgiVars, connVars>>
         /\ uncaught' = TRUE \/ uncaught' = uncaught
  BY DEF OnRead
<1> QED BY <1>1, <1>2, <1>3, <1>4, <1>5

-----------------------------------------------------------------------------
LEMMA ScriptInitially == ScriptInit => ScriptInv
<1> SUFFICES ASSUME ScriptInit PROVE ScriptInv
  OBVIOUS
<1>1. <<>> \in Seq(UnitType) /\ <<>> \in Seq(Nat)
  BY EmptySeq
<1>2. ScriptTypeOK
  BY <1>1 DEF ScriptInit, ScriptTypeOK
<1>3. Stream = <<>> /\ DOMAIN Stream = {}
  <2>1. <<>> \o <<>> = <<>>
    BY <1>1, ConcatEmptySeq
  <2>2. Stream = <<>>
    BY <2>1 DEF ScriptInit, Stream
  <2> QED BY <2>2
<1>4. AnswersOK
  BY <1>3 DEF ScriptInit, AnswersOK, InFull, EndsWith, Asking
<1>5. OutputOK /\ Undisturbed
  BY DEF ScriptInit, OutputOK, Undisturbed, WaitsOrSends
<1> QED BY <1>2, <1>4, <1>5 DEF ScriptInit, ScriptInv

LEMMA ScriptStep == ScriptInv /\ [ScriptNext]_scriptVars => ScriptInv'
<1>1. ScriptInv /\ UNCHANGED scriptVars => ScriptInv'
  BY DEF scriptVars, ScriptInv, ScriptTypeOK, AnswersOK, OutputOK, Undisturbed,
         WaitsOrSends, Stream
<1> QED BY <1>1, ScriptAsk, ScriptScriptWrites, ScriptScriptEnds,
           ScriptReportEvents, ScriptDeleteConnection, ScriptApplyCulls,
           ScriptHandleWrite, ScriptReadRequest, ScriptPipeEnds, ScriptOnRead
           DEF ScriptNext

LEMMA ScriptIsAnswered == ScriptInv => ScriptAnswered
<1> SUFFICES ASSUME ScriptInv, State # "closed" PROVE ScriptAnswered
  BY DEF ScriptAnswered
<1> DEFINE heads == {i \in DOMAIN Stream : Stream[i].unit = 0}
           frame(i) == i .. i + Stream[i].size
<1>1. /\ InFull(Stream) /\ OutputOK /\ AnswersOK /\ (~quitting => Undisturbed)
      /\ sent \in Seq(UnitType) /\ sendq \in Seq(UnitType) /\ asked \in Nat
  BY DEF ScriptInv, ScriptTypeOK, AnswersOK
<1>2. /\ \A i \in heads : \A j \in frame(i) :
           j \in DOMAIN Stream /\ Stream[j] = [Stream[i] EXCEPT !.unit = j - i]
      /\ \A j \in DOMAIN Stream : \E i \in heads : j \in frame(i)
      /\ \A i, j \in heads : i < j => Stream[i].of < Stream[j].of
  BY <1>1 DEF InFull
<1>3. DOMAIN Stream = UNION {frame(i) : i \in heads}
  BY <1>2
<1>4. asked \in Asking(Stream) => asked \in {Stream[i].of : i \in heads}
  <2> SUFFICES ASSUME NEW j \in DOMAIN Stream, Stream[j].of = asked
               PROVE  \E i \in heads : Stream[i].of = asked
    BY DEF Asking
  <2>1. PICK i \in heads : j \in frame(i)
    BY <1>2
  <2>2. Stream[j] = [Stream[i] EXCEPT !.unit = j - i]
    BY <1>2, <2>1
  <2>3. Stream[i] \in UnitType
    BY <1>1, StreamOf, ElementOfSeq
  <2>4. Stream[j].of = Stream[i].of
    BY <2>2, <2>3 DEF UnitType
  <2> QED BY <2>4
<1>5. ASSUME ~quitting, Answered, sendq = <<>>
      PROVE  State = "HTTP_WAIT_REQUEST" /\ ~ResponseBufferDone /\ cgi = "none"
  <2>1. asked # 0 => asked \in Asking(Stream)
    BY <1>1, <1>5, AnsweredIsIn
  <2>2. cgi # "open"
    BY <1>1, <2>1 DEF AnswersOK
  <2>3. WaitsOrSends /\ cgi \in {"none", "open", "done"}
    BY <1>1, <1>5 DEF Undisturbed, ScriptInv, ScriptTypeOK
  <2> QED BY <1>5, <2>2, <2>3 DEF WaitsOrSends
<1>6. ~quitting =>
        \/ asked \in {Stream[i].of : i \in heads} \cup {0}
        \/ request # "none" \/ cgi = "open" \/ unwatched
  BY <1>1, <1>4 DEF Undisturbed
<1>7. cgi = "done" /\ ~hup => Len(rbuf) = written
  BY <1>1 DEF OutputOK
<1> QED BY <1>2, <1>3, <1>5, <1>6, <1>7 DEF ScriptAnswered, Stream

\* Whatever is read, written, flushed and deleted meanwhile, and in any order
\* of the events of a pass, a client that waits for its answers gets one whole
\* response to each request, in turn, and the connection then waits for the
\* next one.
THEOREM EveryScriptIsAnswered == ScriptSpec => []ScriptAnswered
BY ScriptInitially, ScriptStep, ScriptIsAnswered, PTL DEF ScriptSpec
=============================================================================
