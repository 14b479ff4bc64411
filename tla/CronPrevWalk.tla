---------------------------- MODULE CronPrevWalk ----------------------------
(***************************************************************************)
(* pkg/schedule/cron_prev.go: the walk back in time from an instant to the *)
(* latest one a cron schedule names.  Field by field, from the month down  *)
(* to the second, the walk cuts the time down to the start of the current  *)
(* unit and takes one second off, until the field matches.                 *)
(*                                                                         *)
(* Instants are seconds of UTC.  The calendar is a parameter, so that a    *)
(* small one can be searched: the days of a year, and how many units each  *)
(* unit has.  A zone is an offset to UTC that changes at most once.        *)
(***************************************************************************)
EXTENDS Integers, Sequences

CONSTANTS
    Days,                     \* the days of a year: their months and days of the month
    Week,                     \* days in a week
    Hours, Minutes, Seconds,  \* in a day, an hour, a minute
    Years,                    \* how many years back the walk may go (5 in the code)
    Zones, Schedules,
    Instants                  \* instants from which the walk may start

Zone == [before : Int, after : Int, at : Int]

(***************************************************************************)
(* A parsed cron expression: the values of each field; star says that the  *)
(* day of the month or the day of the week was given as a star.            *)
(***************************************************************************)
Schedule == [month : SUBSET Int, day : SUBSET Int, weekday : SUBSET Int, star : BOOLEAN,
             hour : SUBSET Int, minute : SUBSET Int, second : SUBSET Int]

\* The days of a month follow one another, from the first.
ASSUME DaysAssumption ==
    /\ Days \in Seq([month : Nat, day : Nat \ {0}]) /\ Days # <<>>
    /\ \A i \in DOMAIN Days : \A k \in 0 .. Days[i].day - 1 :
          i - k \in DOMAIN Days /\ Days[i - k] = [month |-> Days[i].month, day |-> Days[i].day - k]
ASSUME UnitsAssumption == {Week, Hours, Minutes, Seconds} \subseteq Nat \ {0} /\ Years \in Nat
\* Offsets are whole minutes: time.Truncate knows no zone.
ASSUME ZonesAssumption ==
    /\ Zones \subseteq Zone
    /\ \A z \in Zones : z.before % Seconds = 0 /\ z.after % Seconds = 0
ASSUME SchedulesAssumption == Schedules \subseteq Schedule
ASSUME InstantsAssumption == Instants \subseteq Int

-----------------------------------------------------------------------------
(* Local time, counted in seconds, and what a calendar and a clock show.   *)

MinuteOf(l) == l \div Seconds
HourOf(l)   == MinuteOf(l) \div Minutes
DayOf(l)    == HourOf(l) \div Hours
YearOf(l)   == DayOf(l) \div Len(Days)

DateOf(d) == Days[(d % Len(Days)) + 1]

\* time.Time's Month, Day, Weekday, Hour, Minute and Second.
Reading(l) ==
    [month |-> DateOf(DayOf(l)).month, day |-> DateOf(DayOf(l)).day, weekday |-> DayOf(l) % Week,
     hour |-> HourOf(l) % Hours, minute |-> MinuteOf(l) % Minutes, second |-> l % Seconds]

StartOfMinute(m) == m * Seconds
StartOfHour(h)   == StartOfMinute(h * Minutes)
StartOfDay(d)    == StartOfHour(d * Hours)

Offset(z, u) == IF u < z.at THEN z.before ELSE z.after

Local(z, u) == u + Offset(z, u)

(***************************************************************************)
(* time.Date: it looks the zone up as if the local time were UTC, and once *)
(* more when what follows is on the other side of a change of the zone.    *)
(* Of two instants with the same local time it may return either; for a    *)
(* local time that is skipped it returns one that reads differently.       *)
(***************************************************************************)
Date(z, l) ==
    LET offset == Offset(z, l)
        utc == l - offset
    IN  IF offset = 0 \/ (utc < z.at <=> l < z.at) THEN utc ELSE l - Offset(z, utc)

dayMatches(s, r) ==
    IF s.star THEN r.day \in s.day /\ r.weekday \in s.weekday
              ELSE r.day \in s.day \/ r.weekday \in s.weekday

Levels == {"month", "day", "hour", "minute", "second"}

Matches(s, level, r) ==
    CASE level = "month"  -> r.month \in s.month
      [] level = "day"    -> dayMatches(s, r)
      [] level = "hour"   -> r.hour \in s.hour
      [] level = "minute" -> r.minute \in s.minute
      [] level = "second" -> r.second \in s.second

-----------------------------------------------------------------------------
VARIABLES
    zone, schedule, from,   \* the arguments
    t,                      \* the timestamp being considered
    pc,                     \* the loop it is in; year is the label WRAP
    truncated               \* the second has still to be taken off

args == <<zone, schedule, from>>
vars == <<zone, schedule, from, t, pc, truncated>>

Now == Reading(Local(zone, t))

TypeOK ==
    /\ zone \in Zones /\ schedule \in Schedules /\ from \in Instants
    /\ t \in Int
    /\ pc \in Levels \cup {"year", "found", "none"}
    /\ truncated \in BOOLEAN

Init ==
    /\ zone \in Zones /\ schedule \in Schedules /\ from \in Instants
    /\ t = from
    /\ pc = "year"
    /\ truncated = FALSE

yearLimit == YearOf(Local(zone, from)) - Years

\* Mutant of CheckYear: the limit is taken anew each time.
CheckYearFromHere ==
    /\ pc = "year"
    /\ pc' = IF YearOf(Local(zone, t)) < YearOf(Local(zone, t)) - Years THEN "none" ELSE "month"
    /\ UNCHANGED <<args, t, truncated>>

\* WRAP: the zero time is returned when the limit is passed.
CheckYear ==
    /\ pc = "year"
    /\ pc' = IF YearOf(Local(zone, t)) < yearLimit THEN "none" ELSE "month"
    /\ UNCHANGED <<args, t, truncated>>

After == [month |-> "day", day |-> "hour", hour |-> "minute", minute |-> "second",
          second |-> "found"]

\* The loop of a level ends.
Continue ==
    /\ pc \in Levels /\ ~truncated
    /\ Matches(schedule, pc, Now)
    /\ pc' = After[pc]
    /\ UNCHANGED <<args, t, truncated>>

\* Months, days and hours are cut down in local time, minutes and seconds in UTC.
Truncated(level, z, u) ==
    LET l == Local(z, u)
    IN  CASE level = "month"  -> Date(z, StartOfDay(DayOf(l) - (DateOf(DayOf(l)).day - 1)))
          [] level = "day"    -> Date(z, StartOfDay(DayOf(l)))
          [] level = "hour"   -> Date(z, StartOfHour(HourOf(l)))
          [] level = "minute" -> u - (u % Seconds)
          [] level = "second" -> u

Truncate ==
    /\ pc \in Levels /\ ~truncated
    /\ ~Matches(schedule, pc, Now)
    /\ t' = Truncated(pc, zone, t)
    /\ truncated' = TRUE
    /\ UNCHANGED <<args, pc>>

\* Mutant of Wraps: the day loop goes on when it leaves the month.
WrapsUnlessDay(level, before, after) ==
    CASE level = "month"  -> after.month = Days[Len(Days)].month
      [] level = "day"    -> FALSE
      [] level = "hour"   -> after.hour = Hours - 1
      [] level = "minute" -> after.minute = Minutes - 1
      [] level = "second" -> after.second = Seconds - 1

\* Did the second that was taken off lead into another unit of a level above?
Wraps(level, before, after) ==
    CASE level = "month"  -> after.month = Days[Len(Days)].month
      [] level = "day"    -> before.day = 1
      [] level = "hour"   -> after.hour = Hours - 1
      [] level = "minute" -> after.minute = Minutes - 1
      [] level = "second" -> after.second = Seconds - 1

\* Mutant of Back: no second is taken off.
BackNotAtAll ==
    /\ truncated
    /\ truncated' = FALSE
    /\ UNCHANGED <<args, t, pc>>

Back ==
    /\ truncated
    /\ t' = t - 1
    /\ truncated' = FALSE
    /\ pc' = IF Wraps(pc, Now, Reading(Local(zone, t - 1))) THEN "year" ELSE pc
    /\ UNCHANGED args

Next == CheckYear \/ Continue \/ Truncate \/ Back

Spec == Init /\ [][Next]_vars

\* The walk is a loop of one goroutine: it goes on.
FairSpec == Spec /\ WF_vars(Next)

-----------------------------------------------------------------------------
\* The schedule names instant u.
Fires(u) == \A level \in Levels : Matches(schedule, level, Reading(Local(zone, u)))

(***************************************************************************)
(* cronPrev returns "the most recent previous time this schedule was       *)
(* activated, less than OR EQUAL TO the given time", and the zero time     *)
(* only when there is none back to the limit (cron_prev.go:9-10).          *)
(***************************************************************************)
ResultIsPrev ==
    /\ pc = "found" => Fires(t)
    /\ pc = "none" => YearOf(Local(zone, t)) < yearLimit
    /\ pc \in {"found", "none"} => t <= from /\ \A u \in t + 1 .. from : ~Fires(u)

(***************************************************************************)
(* The walk ends: "we keep going backwards in time until we find the first *)
(* second that matches all restrictions" (cron_prev.go:13-14).             *)
(***************************************************************************)
Terminates == <>(pc \in {"found", "none"})

(***************************************************************************)
(* The most rounds the loops may still take: for each second back to the   *)
(* year limit one of each kind that may look at it.                        *)
(***************************************************************************)
Passed == [year |-> 0, month |-> 2, day |-> 4, hour |-> 6, minute |-> 8, second |-> 10,
           found |-> 12, none |-> 12]

\* The last second before the limit, as local time and in UTC.
BeforeLimit == StartOfDay(yearLimit * Len(Days)) - 1
Earliest == BeforeLimit - (IF zone.before > zone.after THEN zone.before ELSE zone.after)

RoundsLeft == 13 * (t - Earliest) + 12 - Passed[pc] - (IF truncated THEN 1 ELSE 0)

(***************************************************************************)
(* Why it ends: "keep going backwards in time" (cron_prev.go:13).  No      *)
(* round goes over ground that has been covered, and none goes further     *)
(* back than the second before the year limit, so that the rounds left     *)
(* run out.                                                                *)
(***************************************************************************)
WalkRunsOut == [][RoundsLeft' \in 0 .. RoundsLeft - 1]_vars
=============================================================================
