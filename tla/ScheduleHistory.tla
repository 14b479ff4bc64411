--------------------------- MODULE ScheduleHistory ---------------------------
(***************************************************************************)
(* What a schedule means, told forwards: a clock ticks, events fire, and   *)
(* the firings are remembered.  pkg/schedule answers the same questions    *)
(* backwards, by searching from `now'; the properties below compare the    *)
(* two at every instant.                                                   *)
(***************************************************************************)
EXTENDS Schedule

CONSTANTS
    Schedules,   \* the lists of events to consider
    Offsets,     \* the values of spec.timezone.offsetSeconds
    MaxTime      \* bound on the clock

ASSUME ScheduleAssumption == Schedules \subseteq Seq(EventSpec) /\ Offsets \subseteq Int

VARIABLES
    events, offset,   \* the schedule, fixed
    now,
    running,          \* was the last firing a start?
    periodStart,      \* when running last became TRUE
    lastStop          \* when a stop last fired
vars == <<events, offset, now, running, periodStart, lastStop>>

Init == /\ events \in Schedules
        /\ offset \in Offsets
        /\ now = 0
        /\ running = FALSE
        /\ periodStart = Nil
        /\ lastStop = Nil

Firing(t) == {events[i].action : i \in {k \in DOMAIN events : Fires(events[k], t + offset)}}

Tick ==
    /\ now < MaxTime
    /\ now' = now + 1
    /\ UNCHANGED <<events, offset>>
    /\ \/ /\ Firing(now + 1) = {}
          /\ UNCHANGED <<running, periodStart, lastStop>>
       \/ /\ "stop" \in Firing(now + 1)
          /\ lastStop' = now + 1
          /\ running' = FALSE
          /\ UNCHANGED periodStart
       \/ /\ "start" \in Firing(now + 1)
          /\ running' = TRUE
          /\ lastStop' = IF "stop" \in Firing(now + 1) THEN now + 1 ELSE lastStop
          /\ periodStart' = IF running /\ "stop" \notin Firing(now + 1)
                            THEN periodStart ELSE now + 1

Done == now = MaxTime /\ UNCHANGED vars

Next == Tick \/ Done
Spec == Init /\ [][Next]_vars

-----------------------------------------------------------------------------
Supported == ~ScheduleError(TRUE, events, now, offset)
State == StateFor(events, now, offset)
NeverClashes == \A t \in 1 .. Period : Cardinality(Firing(t)) <= 1

(***************************************************************************)
(* After two cycles every firing the search can find has been seen.        *)
(***************************************************************************)
Settled == now >= 2 * Period

(***************************************************************************)
(* Inside a run period the backward search finds exactly the instant at    *)
(* which the job went from stopped to started, duplicate starts ignored,   *)
(* for schedules whose starts and stops never fire together                *)
(* (findStartOfCurrentRunPeriod, State.ShouldBeRunning).                   *)
(***************************************************************************)
StartIsTheTransition ==
    Settled /\ NeverClashes /\ Supported /\ running =>
        /\ State.shouldBeRunning
        /\ State.startOfCurrentRunPeriod = periodStart

(***************************************************************************)
(* Outside a run period the search says so, and the period it names is     *)
(* never one that has begun: no job can be created for a finished period   *)
(* (findStartOfCurrentRunPeriod between a stop and the next start).        *)
(***************************************************************************)
StoppedNamesNoPastPeriod ==
    Settled /\ NeverClashes /\ Supported /\ ~running =>
        /\ ~State.shouldBeRunning
        /\ State.startOfCurrentRunPeriod # Nil => State.startOfCurrentRunPeriod > now

\* The stop that expires jobs is the last one that fired (findMostRecentStopTime).
LastStopIsRemembered == Settled => State.lastStopTime = lastStop

\* A step that changes the answer happens at the wake-up.
WakesInTime ==
    Settled /\ Supported
       /\ <<running, periodStart, lastStop>>' # <<running, periodStart, lastStop>>
    => State.nextEventTime = now'

(***************************************************************************)
(* The time at which the operator asks to be woken is never later than     *)
(* the next instant at which the answer to `should it be running, and      *)
(* since when' changes: waking at NextEventTime misses no transition.      *)
(***************************************************************************)
NoTransitionBeforeWakeUp == [][WakesInTime]_vars
=============================================================================
