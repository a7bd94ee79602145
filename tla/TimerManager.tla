---------------------------- MODULE TimerManager ----------------------------
(***************************************************************************)
(* TimerManager (src/timer.cpp, include/timer.h): the sorted list of       *)
(* timers, which the loop ticks when the second has changed.  What a Tick  *)
(* does is external: it may add timers, delete timers, its own one among   *)
(* them, and cancel a repetition, in any order, and so may anybody between *)
(* two passes of the loop.                                                 *)
(***************************************************************************)
EXTENDS Integers, Sequences, FiniteSets

CONSTANTS
  TimerIds,   \* addresses of timers
  Intervals,  \* the secs of a timer
  MaxTime,    \* bound: when the clock stops
  NoTimer

ASSUME TimerInput ==
  Intervals \subseteq Nat /\ MaxTime \in Nat /\ NoTimer \notin TimerIds

VARIABLES
  Timers,   \* the list
  timer,    \* timer -> its trigger, secs and repeat, for those that exist
  ticking,  \* the timer whose Tick is running
  TIME,     \* of the last call of TickTimers
  inTick,   \* TickTimers has not returned
  clock

timerVars == <<Timers, timer, ticking, TIME, inTick, clock>>

TimersInit ==
  /\ Timers = <<>> /\ timer = <<>> /\ ticking = NoTimer
  /\ TIME = 0 /\ inTick = FALSE /\ clock = 0

-----------------------------------------------------------------------------
AddTimer_Unsorted(list, of, t) == {Append(list, t)}
\* push_back and sort, which leaves timers of one second in any order.
AddTimer(list, of, t) ==
  {s \in [1 .. Len(list) + 1 -> DOMAIN of] :
     /\ {s[i] : i \in DOMAIN s} = {list[i] : i \in DOMAIN list} \cup {t}
     /\ \A i, j \in DOMAIN s : i < j => of[s[i]].trigger <= of[s[j]].trigger}

NewTimer(t, secs, again) ==
  /\ t \notin DOMAIN timer
  /\ timer' = [u \in DOMAIN timer \cup {t} |->
                IF u = t THEN [trigger |-> clock + secs, secs |-> secs,
                               repeat |-> again]
                ELSE timer[u]]
  /\ Timers' \in AddTimer(Timers, timer', t)
  /\ UNCHANGED <<ticking, TIME, inTick, clock>>

\* A timer that is ticking is in no list: nothing is found, nothing is done.
DelTimer(t) ==
  /\ \E x \in DOMAIN Timers :
       /\ Timers[x] = t
       /\ Timers' = SubSeq(Timers, 1, x - 1) \o SubSeq(Timers, x + 1, Len(Timers))
  /\ timer' = [u \in DOMAIN timer \ {t} |-> timer[u]]
  /\ UNCHANGED <<ticking, TIME, inTick, clock>>

CancelRepeat(t) ==
  /\ t \in DOMAIN timer /\ timer[t].repeat
  /\ timer' = [timer EXCEPT ![t].repeat = FALSE]
  /\ UNCHANGED <<Timers, ticking, TIME, inTick, clock>>

\* The loop finds that time() has changed; by more than one second if a pass
\* took long.
TickTimers ==
  /\ ~inTick /\ clock < MaxTime
  /\ \E seconds \in 1 .. 2 : clock' = clock + seconds /\ TIME' = clock'
  /\ inTick' = TRUE
  /\ UNCHANGED <<Timers, timer, ticking>>

Overdue == Timers # <<>> /\ TIME > timer[Head(Timers)].trigger

Tick ==
  /\ inTick /\ ticking = NoTimer /\ Overdue
  /\ ticking' = Head(Timers) /\ Timers' = Tail(Timers)
  /\ UNCHANGED <<timer, TIME, inTick, clock>>

AfterTick ==
  /\ ticking # NoTimer
  /\ ticking' = NoTimer
  /\ IF timer[ticking].repeat
     THEN /\ timer' = [timer EXCEPT ![ticking].trigger =
                                  TIME + timer[ticking].secs]
          /\ Timers' \in AddTimer(Timers, timer', ticking)
     ELSE /\ timer' = [u \in DOMAIN timer \ {ticking} |-> timer[u]]
          /\ UNCHANGED Timers
  /\ UNCHANGED <<TIME, inTick, clock>>

EndTicks ==
  /\ inTick /\ ticking = NoTimer /\ ~Overdue
  /\ inTick' = FALSE
  /\ UNCHANGED <<Timers, timer, ticking, TIME, clock>>

TimersNext ==
  \/ \E t \in TimerIds :
       \/ \E secs \in Intervals, again \in BOOLEAN : NewTimer(t, secs, again)
       \/ DelTimer(t) \/ CancelRepeat(t)
  \/ TickTimers \/ Tick \/ AfterTick \/ EndTicks

-----------------------------------------------------------------------------

\* "This will ensure timers are not missed" (timer.h:110-113): whatever the
\* ticks do to the list that is being walked, each timer that exists is in it
\* once, or is ticking, and none is overdue when TickTimers returns.
TimersNotMissed ==
  /\ Len(Timers) = Cardinality({Timers[i] : i \in DOMAIN Timers})
  /\ DOMAIN timer =
       {Timers[i] : i \in DOMAIN Timers} \cup ({ticking} \ {NoTimer})
  /\ ~inTick => \A t \in DOMAIN timer : TIME <= timer[t].trigger
=============================================================================
