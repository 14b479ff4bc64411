------------------------------ MODULE Schedule ------------------------------
(***************************************************************************)
(* pkg/schedule: from a ControlledJob's list of start and stop events and  *)
(* an instant `now' to the state of its schedule: is it inside a run       *)
(* period, when did that period start, what was the last stop and what is  *)
(* the next event.                                                         *)
(*                                                                         *)
(* Time is a count of ticks.  A cron schedule repeats itself, so an event  *)
(* is the set of ticks of a cycle of Period ticks at which it fires.       *)
(***************************************************************************)
EXTENDS GoValues, Sequences, FiniteSetsExt

CONSTANT Period   \* ticks in one cycle of the schedules

ASSUME PeriodAssumption == Period \in Nat \ {0}

(***************************************************************************)
(* An entry of spec.events: what it does, whether its cron expression can  *)
(* be parsed, and when it fires in local time.  The action restart, "not   *)
(* yet supported" (controlledjob_types.go:54), is left out.                *)
(***************************************************************************)
EventSpec ==
    [action : {"start", "stop"}, valid : BOOLEAN, at : SUBSET (0 .. Period - 1)]

Fires(event, t) == t % Period \in event.at

\* Mutant of CronPrev: a firing at t itself does not count.
CronPrevStrictly(event, t) ==
    LET times == {u \in (t - Period) .. (t - 1) : Fires(event, u)}
    IN  IF times = {} THEN Nil ELSE Max(times)

\* cronPrev: the latest firing at or before t.
CronPrev(event, t) ==
    LET times == {u \in (t - Period + 1) .. t : Fires(event, u)}
    IN  IF times = {} THEN Nil ELSE Max(times)

\* cron.SpecSchedule.Next: the earliest firing strictly after t.
CronNext(event, t) ==
    LET times == {u \in (t + 1) .. (t + Period) : Fires(event, u)}
    IN  IF times = {} THEN Nil ELSE Min(times)

-----------------------------------------------------------------------------
eventIsNearer(test, reference, direction) ==
    IF direction = "next" THEN test < reference ELSE test > reference

\* Mutant of AdjacentTime: the offset is not taken off again.
AdjacentTimeKeepingOffset(events, i, now, offset, direction) ==
    IF direction = "next" THEN CronNext(events[i], now + offset)
                          ELSE CronPrev(events[i], now + offset)

(***************************************************************************)
(* The firing of event i that is nearest to now, the user's extra offset   *)
(* added before the cron arithmetic and taken off its result.              *)
(***************************************************************************)
AdjacentTime(events, i, now, offset, direction) ==
    LET t == IF direction = "next" THEN CronNext(events[i], now + offset)
                                   ELSE CronPrev(events[i], now + offset)
    IN  IF t = Nil THEN Nil ELSE t - offset

(***************************************************************************)
(* The nearest firing of an event whose action is in `actions', Nil when   *)
(* there is none.  The loop replaces its candidate only by a strictly      *)
(* nearer one, so of two events that fire together the first listed wins.  *)
(***************************************************************************)
findNearestEvent(events, now, offset, direction, actions) ==
    LET time(i) == AdjacentTime(events, i, now, offset, direction)
        found   == {i \in DOMAIN events : events[i].action \in actions /\ time(i) # Nil}
        wins(i, j) == \/ eventIsNearer(time(i), time(j), direction)
                      \/ time(i) = time(j) /\ i < j
        nearest == CHOOSE i \in found : \A j \in found \ {i} : wins(i, j)
    IN  IF found = {} THEN Nil
        ELSE [type |-> events[nearest].action, time |-> time(nearest)]

\* What the loop finds: a ScheduledEvent.
ScheduledEvent == [type : {"start", "stop"}, time : Int]

ASSUME NilIsNoEvent == Nil \notin ScheduledEvent

TimeOf(event) == IF event = Nil THEN Nil ELSE event.time

findMostRecentStopTime(events, now, offset) ==
    TimeOf(findNearestEvent(events, now, offset, "previous", {"stop"}))

HasStartEvent(events) == \E i \in DOMAIN events : events[i].action = "start"

\* Mutant of findStartOfCurrentRunPeriod: the last start, duplicates included.
findLastStart(events, now, offset) ==
    TimeOf(findNearestEvent(events, now, offset, "previous", {"start"}))

\* From the most recent stop forward to the first start strictly after it.
findStartOfCurrentRunPeriod(events, now, offset) ==
    LET lastStop == findMostRecentStopTime(events, now, offset)
    IN  IF lastStop = Nil THEN Nil
        ELSE TimeOf(findNearestEvent(events, lastStop, offset, "next", {"start"}))

(***************************************************************************)
(* The errors of StateFor: an unknown timezone, an event whose cron        *)
(* expression does not parse, a schedule that starts and never stops.      *)
(***************************************************************************)
ScheduleError(timezoneValid, events, now, offset) ==
    \/ ~timezoneValid
    \/ \E i \in DOMAIN events : ~events[i].valid
    \/ /\ findMostRecentStopTime(events, now, offset) = Nil
       /\ HasStartEvent(events)

StateFor(events, now, offset) ==
    LET previous == findNearestEvent(events, now, offset, "previous", {"start", "stop"})
        next     == findNearestEvent(events, now, offset, "next", {"start", "stop"})
    IN  [shouldBeRunning |-> previous # Nil /\ previous.type = "start",
         startOfCurrentRunPeriod |-> findStartOfCurrentRunPeriod(events, now, offset),
         lastStopTime  |-> findMostRecentStopTime(events, now, offset),
         nextEventTime |-> TimeOf(next)]
=============================================================================
