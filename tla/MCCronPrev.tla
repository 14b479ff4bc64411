----------------------------- MODULE MCCronPrev -----------------------------
EXTENDS CronPrevWalk

\* Two months, of two days and one; days of four hours of two minutes of two
\* seconds; weeks of two days, so that weekdays move from year to year.
MCDays == <<[month |-> 1, day |-> 1], [month |-> 1, day |-> 2], [month |-> 2, day |-> 1]>>

An(hour) == hour * Minutes * Seconds

\* Days are 16 seconds and years 48: from the start of the third year to the
\* middle of its last day.
MCInstants == {96 + 4 * k : k \in 0 .. 9} \cup {97, 103}

\* An hour is 4 seconds.  UTC; east of it, fixed and put forward at 01:00 UTC;
\* west of it, put back and put forward, neither over a local midnight.
MCZones == {[before |-> 0, after |-> 0, at |-> 0],
            [before |-> 4, after |-> 4, at |-> 0],
            [before |-> 4, after |-> 8, at |-> 100],
            [before |-> 0, after |-> -4, at |-> 100],
            [before |-> -4, after |-> -8, at |-> 108],
            [before |-> -8, after |-> -4, at |-> 112]}

\* London in autumn: put back from offset one hour to none.
MCEastInAutumn == {[before |-> 4, after |-> 0, at |-> 100]}

MCDayFields == {[day |-> {1, 2}, weekday |-> {0, 1}, star |-> TRUE],
                [day |-> {1}, weekday |-> {0, 1}, star |-> TRUE],
                [day |-> {2}, weekday |-> {0, 1}, star |-> TRUE],
                [day |-> {1, 2}, weekday |-> {1}, star |-> TRUE],
                [day |-> {2}, weekday |-> {0}, star |-> FALSE],
                [day |-> {3}, weekday |-> {0, 1}, star |-> TRUE]}

MCSchedules ==
    {[month |-> m, day |-> d.day, weekday |-> d.weekday, star |-> d.star,
      hour |-> h, minute |-> i, second |-> {0}] :
        m \in {{2}, {1, 2}}, d \in MCDayFields, h \in {{0}, {1}, {0, 3}}, i \in {{0}, {1}}}

MCDaily == {[month |-> {1, 2}, day |-> {1, 2}, weekday |-> {0, 1}, star |-> TRUE,
             hour |-> {3}, minute |-> {0}, second |-> {0}]}
=============================================================================
