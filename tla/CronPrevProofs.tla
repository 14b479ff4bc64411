--------------------------- MODULE CronPrevProofs ---------------------------
(***************************************************************************)
(* The walk of cronPrev is right, for every calendar, schedule and start,  *)
(* in zones that keep one offset to UTC.                                   *)
(***************************************************************************)
EXTENDS CronPrevWalk, TLAPS

FixedZones == \A z \in Zones : z.before = z.after

-----------------------------------------------------------------------------
(* Division.                                                               *)

\* A quotient, and the multiple of the divisor it stands for.
LEMMA DivBounds ==
    ASSUME NEW a \in Int, NEW n \in Nat \ {0}
    PROVE  a \div n \in Int /\ n * (a \div n) <= a /\ a < n * (a \div n) + n
OBVIOUS

\* Division is monotonic.
LEMMA DivMonotonic ==
    ASSUME NEW a \in Int, NEW b \in Int, a <= b, NEW n \in Nat \ {0}
    PROVE  a \div n <= b \div n
<1> DEFINE p == a \div n
           q == b \div n
<1>1. p \in Int /\ q \in Int /\ n * p <= a /\ a < n * p + n /\ n * q <= b /\ b < n * q + n
  BY DivBounds
<1> HIDE DEF p, q
<1> SUFFICES ASSUME q <= p - 1 PROVE FALSE
  BY <1>1 DEF p, q
<1>2. n * q <= n * (p - 1)
  BY <1>1
<1> QED  BY <1>1, <1>2

\* A multiple, and what comes just before it.
LEMMA DivMultiple ==
    ASSUME NEW k \in Int, NEW n \in Nat \ {0}
    PROVE  /\ (k * n) \div n = k
           /\ (k * n - 1) \div n = k - 1
OBVIOUS

\* Going back within a cycle.
LEMMA ModBack ==
    ASSUME NEW a \in Int, NEW n \in Nat \ {0}, NEW k \in Nat, k <= a % n
    PROVE  (a - k) % n = (a % n) - k
OBVIOUS

\* One step back that does not end on the last unit stays in the cycle.
LEMMA NoCarry ==
    ASSUME NEW a \in Int, NEW n \in Nat \ {0}, (a - 1) % n # n - 1
    PROVE  (a - 1) \div n = a \div n
OBVIOUS

\* An offset of whole units does not change the place within the unit.
LEMMA ModShift ==
    ASSUME NEW a \in Int, NEW o \in Int, NEW n \in Nat \ {0}, o % n = 0
    PROVE  (a + o) % n = a % n
<1> DEFINE q == a \div n
           k == o \div n
           r == a % n
<1>1. q \in Int /\ k \in Int /\ r \in 0 .. n - 1 /\ a = n * q + r
  OBVIOUS
<1>2. o = n * k
  OBVIOUS
<1> HIDE DEF q, k, r
<1>3. a + o = (q + k) * n + r
  BY <1>1, <1>2
<1>4. ((q + k) * n + r) % n = r
  BY <1>1, <1>2
<1> QED  BY <1>3, <1>4 DEF r

\* Cutting down to a multiple.
LEMMA DivCut ==
    ASSUME NEW a \in Int, NEW n \in Nat \ {0}
    PROVE  a - (a % n) = (a \div n) * n
OBVIOUS

-----------------------------------------------------------------------------
(* Minutes, hours and days: where they start and what comes before.        *)

\* The calendar is a sequence of days.
LEMMA DaysType ==
    /\ Len(Days) \in Nat \ {0}
    /\ DOMAIN Days = 1 .. Len(Days)
    /\ \A i \in DOMAIN Days : Days[i] \in [month : Nat, day : Nat \ {0}]
<1> DEFINE Entry == [month : Nat, day : Nat \ {0}]
<1>1. Days \in Seq(Entry) /\ Days # <<>>
  BY DaysAssumption
<1>2. \A i \in DOMAIN Days : Days[i] \in Entry
  <2> HIDE DEF Entry
  <2> QED  BY <1>1
<1>3. Len(Days) \in Nat \ {0} /\ DOMAIN Days = 1 .. Len(Days)
  <2> HIDE DEF Entry
  <2> QED  BY <1>1
<1> QED  BY <1>2, <1>3

\* The sizes of the units.
LEMMA UnitTypes ==
    /\ Week \in Nat \ {0} /\ Hours \in Nat \ {0} /\ Minutes \in Nat \ {0} /\ Seconds \in Nat \ {0}
    /\ Years \in Nat
    /\ Len(Days) \in Nat \ {0}
BY DaysType, UnitsAssumption

\* Every second belongs to a minute, an hour and a day.
LEMMA IndexTypes ==
    ASSUME NEW l \in Int
    PROVE  MinuteOf(l) \in Int /\ HourOf(l) \in Int /\ DayOf(l) \in Int /\ YearOf(l) \in Int
BY UnitTypes, DivBounds DEF MinuteOf, HourOf, DayOf, YearOf

\* Units have starts.
LEMMA StartTypes ==
    ASSUME NEW k \in Int
    PROVE  StartOfMinute(k) \in Int /\ StartOfHour(k) \in Int /\ StartOfDay(k) \in Int
BY UnitTypes DEF StartOfMinute, StartOfHour, StartOfDay

\* The units follow one another.
LEMMA IndexMonotonic ==
    ASSUME NEW l \in Int, NEW v \in Int, v <= l
    PROVE  MinuteOf(v) <= MinuteOf(l) /\ HourOf(v) <= HourOf(l) /\ DayOf(v) <= DayOf(l)
<1>1. MinuteOf(v) <= MinuteOf(l)
  BY UnitTypes, DivMonotonic DEF MinuteOf
<1>2. HourOf(v) <= HourOf(l)
  BY <1>1, IndexTypes, UnitTypes, DivMonotonic DEF HourOf
<1>3. DayOf(v) <= DayOf(l)
  BY <1>2, IndexTypes, UnitTypes, DivMonotonic DEF DayOf
<1> QED  BY <1>1, <1>2, <1>3

\* A unit starts within itself, and the second before belongs to the one before.
LEMMA Starts ==
    ASSUME NEW k \in Int
    PROVE  /\ MinuteOf(StartOfMinute(k)) = k /\ MinuteOf(StartOfMinute(k) - 1) = k - 1
           /\ HourOf(StartOfHour(k)) = k /\ HourOf(StartOfHour(k) - 1) = k - 1
           /\ DayOf(StartOfDay(k)) = k /\ DayOf(StartOfDay(k) - 1) = k - 1
<1> USE UnitTypes
<1>1. ASSUME NEW m \in Int
      PROVE  MinuteOf(StartOfMinute(m)) = m /\ MinuteOf(StartOfMinute(m) - 1) = m - 1
  BY DivMultiple DEF MinuteOf, StartOfMinute
<1>2. ASSUME NEW h \in Int
      PROVE  HourOf(StartOfHour(h)) = h /\ HourOf(StartOfHour(h) - 1) = h - 1
  <2>1. h * Minutes \in Int
    OBVIOUS
  <2>2. /\ MinuteOf(StartOfHour(h)) = h * Minutes
        /\ MinuteOf(StartOfHour(h) - 1) = h * Minutes - 1
    BY <1>1, <2>1 DEF StartOfHour
  <2> QED  BY <2>2, DivMultiple DEF HourOf
<1>3. DayOf(StartOfDay(k)) = k /\ DayOf(StartOfDay(k) - 1) = k - 1
  <2>1. k * Hours \in Int
    OBVIOUS
  <2>2. HourOf(StartOfDay(k)) = k * Hours /\ HourOf(StartOfDay(k) - 1) = k * Hours - 1
    BY <1>2, <2>1 DEF StartOfDay
  <2> QED  BY <2>2, DivMultiple DEF DayOf
<1> QED  BY <1>1, <1>2, <1>3

\* Products with a number of units grow with the other factor.
LEMMA TimesMonotonic ==
    ASSUME NEW a \in Int, NEW b \in Int, a <= b, NEW n \in Nat \ {0}
    PROVE  a * n \in Int /\ a * n <= n * b
OBVIOUS

\* A unit starts before any second of it, and a later unit starts later.
LEMMA StartsBefore ==
    ASSUME NEW l \in Int
    PROVE  /\ StartOfMinute(MinuteOf(l)) <= l
           /\ StartOfHour(HourOf(l)) <= l
           /\ \A d \in Int : d <= DayOf(l) => StartOfDay(d) <= l
<1>1. MinuteOf(l) \in Int /\ HourOf(l) \in Int /\ DayOf(l) \in Int
  BY IndexTypes
<1>2. Hours \in Nat \ {0} /\ Minutes \in Nat \ {0} /\ Seconds \in Nat \ {0}
  BY UnitTypes
<1>3. /\ Seconds * MinuteOf(l) <= l
      /\ Minutes * HourOf(l) <= MinuteOf(l)
      /\ Hours * DayOf(l) <= HourOf(l)
  BY <1>1, <1>2, DivBounds DEF MinuteOf, HourOf, DayOf
<1>4. ASSUME NEW m \in Int, m <= MinuteOf(l) PROVE StartOfMinute(m) <= l
  <2>1. m * Seconds \in Int /\ m * Seconds <= Seconds * MinuteOf(l)
    BY <1>1, <1>2, <1>4, TimesMonotonic
  <2>2. Seconds * MinuteOf(l) \in Int
    BY <1>1, <1>2
  <2> QED  BY <1>3, <2>1, <2>2 DEF StartOfMinute
<1>5. ASSUME NEW h \in Int, h <= HourOf(l) PROVE StartOfHour(h) <= l
  <2>1. h * Minutes \in Int /\ h * Minutes <= Minutes * HourOf(l)
    BY <1>1, <1>2, <1>5, TimesMonotonic
  <2>2. Minutes * HourOf(l) \in Int
    BY <1>1, <1>2
  <2>3. h * Minutes <= MinuteOf(l)
    BY <1>1, <1>3, <2>1, <2>2
  <2> QED  BY <1>4, <2>1, <2>3 DEF StartOfHour
<1>6. ASSUME NEW d \in Int, d <= DayOf(l) PROVE StartOfDay(d) <= l
  <2>1. d * Hours \in Int /\ d * Hours <= Hours * DayOf(l)
    BY <1>1, <1>2, <1>6, TimesMonotonic
  <2>2. Hours * DayOf(l) \in Int
    BY <1>1, <1>2
  <2>3. d * Hours <= HourOf(l)
    BY <1>1, <1>3, <2>1, <2>2
  <2> QED  BY <1>5, <2>1, <2>3 DEF StartOfDay
<1>7. StartOfMinute(MinuteOf(l)) <= l
  BY <1>1, <1>4
<1>8. StartOfHour(HourOf(l)) <= l
  BY <1>1, <1>5
<1> QED  BY <1>6, <1>7, <1>8

-----------------------------------------------------------------------------
(* What a level compares, and what it leaves alone.                        *)

\* l and v are the same to the loop of a level, and to those above it.
Agree(level, l, v) ==
    CASE level = "month"  -> DateOf(DayOf(l)).month = DateOf(DayOf(v)).month
      [] level = "day"    -> DayOf(l) = DayOf(v)
      [] level = "hour"   -> HourOf(l) = HourOf(v)
      [] level = "minute" -> MinuteOf(l) = MinuteOf(v)
      [] level = "second" -> l = v

Above == [month |-> {}, day |-> {"month"}, hour |-> {"month", "day"},
          minute |-> {"month", "day", "hour"}, second |-> {"month", "day", "hour", "minute"}]

MatchesAt(s, level, l) == Matches(s, level, Reading(l))

\* Seconds that agree at a level are matched alike there and above.
LEMMA AgreeMatches ==
    ASSUME NEW s, NEW level \in Levels, NEW l, NEW v, Agree(level, l, v)
    PROVE  \A k \in Above[level] \cup {level} : MatchesAt(s, k, l) = MatchesAt(s, k, v)
<1> USE DEF MatchesAt, Matches, Reading
<1>1. ASSUME DateOf(DayOf(l)).month = DateOf(DayOf(v)).month
      PROVE  MatchesAt(s, "month", l) = MatchesAt(s, "month", v)
  BY <1>1
<1>2. ASSUME DayOf(l) = DayOf(v)
      PROVE  /\ MatchesAt(s, "day", l) = MatchesAt(s, "day", v)
             /\ MatchesAt(s, "month", l) = MatchesAt(s, "month", v)
  BY <1>2 DEF dayMatches
<1>3. ASSUME HourOf(l) = HourOf(v)
      PROVE  /\ MatchesAt(s, "hour", l) = MatchesAt(s, "hour", v)
             /\ DayOf(l) = DayOf(v)
  BY <1>3 DEF DayOf
<1>4. ASSUME MinuteOf(l) = MinuteOf(v)
      PROVE  /\ MatchesAt(s, "minute", l) = MatchesAt(s, "minute", v)
             /\ HourOf(l) = HourOf(v)
  BY <1>4 DEF HourOf
<1> HIDE DEF MatchesAt, Matches, Reading
<1>5. CASE level = "month"
  <2>1. Above[level] = {}
    BY <1>5 DEF Above
  <2> QED  BY <1>1, <1>5, <2>1 DEF Agree
<1>6. CASE level = "day"
  <2>1. Above[level] = {"month"}
    BY <1>6 DEF Above
  <2> QED  BY <1>2, <1>6, <2>1 DEF Agree
<1>7. CASE level = "hour"
  <2>1. Above[level] = {"month", "day"}
    BY <1>7 DEF Above
  <2> QED  BY <1>2, <1>3, <1>7, <2>1 DEF Agree
<1>8. CASE level = "minute"
  <2>1. Above[level] = {"month", "day", "hour"}
    BY <1>8 DEF Above
  <2> QED  BY <1>2, <1>3, <1>4, <1>8, <2>1 DEF Agree
<1>9. CASE level = "second"
  BY <1>9 DEF Agree
<1> QED  BY <1>5, <1>6, <1>7, <1>8, <1>9 DEF Levels

\* Days of one month, counted back from one of them.
LEMMA DaysBack ==
    ASSUME NEW d \in Int, NEW k \in 0 .. DateOf(d).day - 1
    PROVE  /\ DateOf(d - k) = [month |-> DateOf(d).month, day |-> DateOf(d).day - k]
           /\ DateOf(d).day \in Nat \ {0}
<1> DEFINE n == Len(Days)
           r == d % n
           i == r + 1
<1>1. n \in Nat \ {0}
  BY UnitTypes
<1>2. r \in 0 .. n - 1
  BY <1>1
<1>3. DOMAIN Days = 1 .. n
  BY DaysType
<1>4. i \in DOMAIN Days /\ DateOf(d) = Days[i]
  BY <1>2, <1>3 DEF DateOf
<1>5. Days[i] \in [month : Nat, day : Nat \ {0}]
  BY <1>4, DaysType
<1>6. i - k \in DOMAIN Days /\ Days[i - k] = [month |-> Days[i].month, day |-> Days[i].day - k]
  BY <1>4, DaysAssumption
<1>7. k \in Nat /\ k <= r
  BY <1>1, <1>2, <1>3, <1>4, <1>5, <1>6
<1>8. (d - k) % n = r - k
  BY <1>1, <1>7, ModBack
<1>9. DateOf(d - k) = Days[i - k]
  BY <1>2, <1>7, <1>8 DEF DateOf
<1> QED  BY <1>4, <1>5, <1>6, <1>9

(***************************************************************************)
(* In a zone with one offset a truncation is exact: it goes back, to the   *)
(* start of the unit, over seconds that agree with the one it started at.  *)
(***************************************************************************)
AtStart(level, l) ==
    CASE level = "month"  -> DateOf(DayOf(l)).day = 1 /\ l = StartOfDay(DayOf(l))
      [] level = "day"    -> l = StartOfDay(DayOf(l))
      [] level = "hour"   -> l = StartOfHour(HourOf(l))
      [] level = "minute" -> l = StartOfMinute(MinuteOf(l))
      [] level = "second" -> TRUE

\* Where a level cuts local time down to.
Cut(level, l) ==
    CASE level = "month"  -> StartOfDay(DayOf(l) - (DateOf(DayOf(l)).day - 1))
      [] level = "day"    -> StartOfDay(DayOf(l))
      [] level = "hour"   -> StartOfHour(HourOf(l))
      [] level = "minute" -> StartOfMinute(MinuteOf(l))
      [] level = "second" -> l

\* What lies between two seconds of a unit lies in the unit.
LEMMA Between ==
    ASSUME NEW c \in Int, NEW l \in Int, NEW v \in Int, c <= v, v <= l
    PROVE  /\ MinuteOf(c) = MinuteOf(l) => MinuteOf(v) = MinuteOf(l)
           /\ HourOf(c) = HourOf(l) => HourOf(v) = HourOf(l)
           /\ DayOf(c) = DayOf(l) => DayOf(v) = DayOf(l)
<1>1. /\ MinuteOf(c) <= MinuteOf(v) /\ HourOf(c) <= HourOf(v) /\ DayOf(c) <= DayOf(v)
      /\ MinuteOf(v) <= MinuteOf(l) /\ HourOf(v) <= HourOf(l) /\ DayOf(v) <= DayOf(l)
  BY IndexMonotonic
<1>2. /\ MinuteOf(c) \in Int /\ HourOf(c) \in Int /\ DayOf(c) \in Int
      /\ MinuteOf(l) \in Int /\ HourOf(l) \in Int /\ DayOf(l) \in Int
      /\ MinuteOf(v) \in Int /\ HourOf(v) \in Int /\ DayOf(v) \in Int
  BY IndexTypes
<1> QED  BY <1>1, <1>2

LEMMA CutIsExact ==
    ASSUME NEW level \in Levels, NEW l \in Int
    PROVE  /\ Cut(level, l) \in Int /\ Cut(level, l) <= l
           /\ AtStart(level, Cut(level, l))
           /\ \A v \in Int : Cut(level, l) <= v /\ v <= l => Agree(level, l, v)
<1> DEFINE c == Cut(level, l)
<1>1. MinuteOf(l) \in Int /\ HourOf(l) \in Int /\ DayOf(l) \in Int
  BY IndexTypes
<1>2. CASE level = "month"
  <2> DEFINE d == DayOf(l)
             k == DateOf(d).day - 1
  <2>1. DateOf(d).day \in Nat \ {0}
    <3>1. (d % Len(Days)) + 1 \in DOMAIN Days
      BY <1>1, DaysType
    <3> QED  BY <3>1, DaysType DEF DateOf
  <2>2. d \in Int /\ k \in 0 .. DateOf(d).day - 1 /\ d - k \in Int /\ d - k <= d
    BY <1>1, <2>1
  <2>3. c = StartOfDay(d - k)
    BY <1>2 DEF Cut
  <2>5. /\ DateOf(d - k).day = 1
        /\ \A j \in 0 .. k : DateOf(d - j).month = DateOf(d).month
    <3>1. k = DateOf(d).day - 1 /\ 0 .. DateOf(d).day - 1 = 0 .. k
      OBVIOUS
    <3> HIDE DEF d, k
    <3>2. \A j \in 0 .. k : DateOf(d - j) = [month |-> DateOf(d).month, day |-> DateOf(d).day - j]
      BY <2>2, <3>1, DaysBack
    <3>3. k \in 0 .. k /\ DateOf(d).day - k = 1
      BY <2>1, <2>2, <3>1
    <3>4. DateOf(d - k) = [month |-> DateOf(d).month, day |-> DateOf(d).day - k]
      BY <3>2, <3>3
    <3>5. DateOf(d - k).day = 1
      BY <3>3, <3>4
    <3>6. ASSUME NEW j \in 0 .. k PROVE DateOf(d - j).month = DateOf(d).month
      <4>1. DateOf(d - j) = [month |-> DateOf(d).month, day |-> DateOf(d).day - j]
        BY <3>2
      <4> QED  BY <4>1
    <3> QED  BY <3>5, <3>6
  <2> HIDE DEF c, k
  <2>4. c \in Int /\ c <= l /\ DayOf(c) = d - k
    <3> DEFINE b == d - k
    <3>1. b \in Int /\ b <= DayOf(l) /\ c = StartOfDay(b)
      BY <2>2, <2>3
    <3> HIDE DEF b
    <3>2. c \in Int /\ c <= l /\ DayOf(c) = b
      BY <3>1, StartTypes, StartsBefore, Starts
    <3> QED  BY <3>2 DEF b
  <2>6. ASSUME NEW v \in Int, c <= v, v <= l PROVE Agree(level, l, v)
    <3>1. DayOf(v) \in Int /\ d - k <= DayOf(v) /\ DayOf(v) <= d
      BY <2>4, <2>6, IndexMonotonic, IndexTypes
    <3> DEFINE j == d - DayOf(v)
    <3>2. j \in 0 .. k /\ d - j = DayOf(v)
      BY <2>1, <2>2, <3>1 DEF k
    <3>3. DateOf(DayOf(v)).month = DateOf(d).month
      <4> HIDE DEF d, j
      <4> QED  BY <2>5, <3>2
    <3> QED  BY <1>2, <3>3 DEF Agree
  <2>7. AtStart(level, c)
    BY <1>2, <2>3, <2>4, <2>5 DEF AtStart
  <2> QED  BY <2>4, <2>6, <2>7 DEF c
<1>3. CASE level = "day"
  <2> HIDE DEF c
  <2>1. c = StartOfDay(DayOf(l))
    BY <1>3 DEF Cut, c
  <2>2. c \in Int /\ c <= l /\ DayOf(c) = DayOf(l)
    BY <1>1, <2>1, StartTypes, StartsBefore, Starts
  <2>3. \A v \in Int : c <= v /\ v <= l => DayOf(v) = DayOf(l)
    BY <2>2, Between
  <2> QED  BY <1>3, <2>1, <2>2, <2>3 DEF Agree, AtStart, c
<1>4. CASE level = "hour"
  <2> HIDE DEF c
  <2>1. c = StartOfHour(HourOf(l))
    BY <1>4 DEF Cut, c
  <2>2. c \in Int /\ c <= l /\ HourOf(c) = HourOf(l)
    BY <1>1, <2>1, StartTypes, StartsBefore, Starts
  <2>3. \A v \in Int : c <= v /\ v <= l => HourOf(v) = HourOf(l)
    BY <2>2, Between
  <2> QED  BY <1>4, <2>1, <2>2, <2>3 DEF Agree, AtStart, c
<1>5. CASE level = "minute"
  <2> HIDE DEF c
  <2>1. c = StartOfMinute(MinuteOf(l))
    BY <1>5 DEF Cut, c
  <2>2. c \in Int /\ c <= l /\ MinuteOf(c) = MinuteOf(l)
    BY <1>1, <2>1, StartTypes, StartsBefore, Starts
  <2>3. \A v \in Int : c <= v /\ v <= l => MinuteOf(v) = MinuteOf(l)
    BY <2>2, Between
  <2> QED  BY <1>5, <2>1, <2>2, <2>3 DEF Agree, AtStart, c
<1>6. CASE level = "second"
  BY <1>6 DEF Cut, Agree, AtStart
<1> QED  BY <1>2, <1>3, <1>4, <1>5, <1>6 DEF Levels

\* The second before a unit, when it is in the same unit of the level above.
LEMMA BackKeeps ==
    ASSUME NEW s, NEW level \in Levels, NEW l \in Int,
           AtStart(level, l), ~Wraps(level, Reading(l), Reading(l - 1))
    PROVE  \A k \in Above[level] : MatchesAt(s, k, l) = MatchesAt(s, k, l - 1)
<1> USE UnitTypes
<1>1. l - 1 \in Int /\ MinuteOf(l) \in Int /\ HourOf(l) \in Int /\ DayOf(l) \in Int
  BY IndexTypes
<1>2. CASE level = "month"
  BY <1>2 DEF Above
<1>3. CASE level = "day"
  <2>1. DayOf(l - 1) = DayOf(l) - 1
    BY <1>1, <1>3, Starts DEF AtStart
  <2>2. DateOf(DayOf(l)).day # 1
    BY <1>3 DEF Wraps, Reading
  <2>3. DateOf(DayOf(l)).day \in Nat \ {0}
    <3>1. (DayOf(l) % Len(Days)) + 1 \in DOMAIN Days
      BY <1>1, DaysType
    <3> QED  BY <3>1, DaysType DEF DateOf
  <2>4. 1 \in 0 .. DateOf(DayOf(l)).day - 1
    BY <2>2, <2>3
  <2>5. DateOf(DayOf(l) - 1) = [month |-> DateOf(DayOf(l)).month, day |-> DateOf(DayOf(l)).day - 1]
    BY <1>1, <2>4, DaysBack
  <2>6. Agree("month", l, l - 1)
    BY <2>1, <2>5 DEF Agree
  <2> QED  BY <1>3, <2>6, AgreeMatches DEF Above, Levels
<1>4. CASE level = "hour"
  <2>1. HourOf(l - 1) = HourOf(l) - 1
    BY <1>1, <1>4, Starts DEF AtStart
  <2>2. (HourOf(l) - 1) % Hours # Hours - 1
    BY <1>4, <2>1 DEF Wraps, Reading
  <2>3. Agree("day", l, l - 1)
    BY <1>1, <2>1, <2>2, NoCarry DEF Agree, DayOf
  <2> QED  BY <1>4, <2>3, AgreeMatches DEF Above, Levels
<1>5. CASE level = "minute"
  <2>1. MinuteOf(l - 1) = MinuteOf(l) - 1
    BY <1>1, <1>5, Starts DEF AtStart
  <2>2. (MinuteOf(l) - 1) % Minutes # Minutes - 1
    BY <1>5, <2>1 DEF Wraps, Reading
  <2>3. Agree("hour", l, l - 1)
    BY <1>1, <2>1, <2>2, NoCarry DEF Agree, HourOf
  <2> QED  BY <1>5, <2>3, AgreeMatches DEF Above, Levels
<1>6. CASE level = "second"
  <2>1. (l - 1) % Seconds # Seconds - 1
    BY <1>6 DEF Wraps, Reading
  <2>2. Agree("minute", l, l - 1)
    BY <2>1, NoCarry DEF Agree, MinuteOf
  <2> QED  BY <1>6, <2>2, AgreeMatches DEF Above, Levels
<1> QED  BY <1>2, <1>3, <1>4, <1>5, <1>6 DEF Levels

\* One offset: local time runs with UTC, and time.Date turns it back.
LEMMA FixedLocal ==
    ASSUME NEW z \in Zones, z.before = z.after, NEW u \in Int
    PROVE  /\ z.before \in Int /\ Local(z, u) = u + z.before /\ Date(z, u) = u - z.before
<1>1. z \in Zone
  BY ZonesAssumption
<1> QED  BY <1>1 DEF Zone, Local, Date, Offset

LEMMA TruncatedIsCut ==
    ASSUME NEW z \in Zones, z.before = z.after, NEW u \in Int, NEW level \in Levels
    PROVE  Truncated(level, z, u) = Cut(level, Local(z, u)) - z.before
<1> DEFINE l == Local(z, u)
           o == z.before
<1>1. o \in Int /\ l = u + o /\ l \in Int
  BY FixedLocal
<1>2. \A c \in Int : Date(z, c) = c - o
  BY FixedLocal
<1>3. Cut(level, l) \in Int
  BY <1>1, CutIsExact
<1>4. CASE level = "minute"
  <2>1. o % Seconds = 0
    BY ZonesAssumption
  <2> HIDE DEF o, l
  <2>2. l % Seconds = u % Seconds
    BY <1>1, <2>1, UnitTypes, ModShift
  <2>3. l - (l % Seconds) = Cut(level, l)
    BY <1>1, <1>4, UnitTypes, DivCut DEF Cut, StartOfMinute, MinuteOf
  <2>4. u % Seconds \in Int
    BY UnitTypes
  <2>5. u - (u % Seconds) = Cut(level, l) - o
    BY <1>1, <2>2, <2>3, <2>4
  <2> QED  BY <1>4, <2>5 DEF Truncated, l, o
<1>5. CASE level = "second"
  <2>1. Cut(level, l) = l /\ Truncated(level, z, u) = u
    BY <1>5 DEF Cut, Truncated
  <2> QED  BY <1>1, <2>1
<1>6. CASE level \in {"month", "day", "hour"}
  <2>1. Truncated(level, z, u) = Date(z, Cut(level, l))
    BY <1>6 DEF Truncated, Cut
  <2> QED  BY <1>2, <1>3, <2>1
<1> QED  BY <1>4, <1>5, <1>6 DEF Levels

-----------------------------------------------------------------------------
(* The inductive invariant.                                                *)

Here(k) == MatchesAt(schedule, k, Local(zone, t))

NoneSkipped == \A u \in Int : t < u /\ u <= from => ~Fires(u)

IInv ==
    /\ TypeOK
    /\ t <= from
    /\ NoneSkipped
    /\ pc \in Levels => \A k \in Above[pc] : Here(k)
    /\ pc = "found" => Fires(t)
    /\ pc = "none" => YearOf(Local(zone, t)) < yearLimit
    /\ truncated => pc \in Levels /\ ~Here(pc) /\ AtStart(pc, Local(zone, t))

LEMMA InitIInv == Init => IInv
<1> SUFFICES ASSUME Init PROVE IInv
  OBVIOUS
<1>1. TypeOK /\ t = from
  BY InstantsAssumption DEF Init, TypeOK
<1>2. t \in Int
  BY <1>1 DEF TypeOK
<1>3. NoneSkipped
  BY <1>1, <1>2 DEF NoneSkipped
<1> QED  BY <1>1, <1>2, <1>3 DEF Init, IInv, Levels

LEMMA StepIInv ==
    ASSUME FixedZones
    PROVE  IInv /\ [Next]_vars => IInv'
<1> SUFFICES ASSUME IInv, [Next]_vars PROVE IInv'
  OBVIOUS
<1>0. /\ TypeOK /\ zone \in Zones /\ zone.before = zone.after /\ from \in Int /\ t \in Int
      /\ t <= from /\ NoneSkipped
  BY InstantsAssumption DEF FixedZones, IInv, TypeOK
<1>1. CASE CheckYear
  <2>1. TypeOK' /\ (t <= from)' /\ NoneSkipped'
    BY <1>0, <1>1 DEF CheckYear, args, TypeOK, NoneSkipped, Fires, Levels
  <2>2. (pc = "none" => YearOf(Local(zone, t)) < yearLimit)'
    BY <1>1 DEF CheckYear, args, yearLimit
  <2>3. (pc \in Levels => \A k \in Above[pc] : Here(k))'
    BY <1>1 DEF CheckYear, Above, Levels
  <2>4. (pc # "found" /\ ~truncated)'
    BY <1>0, <1>1 DEF CheckYear, IInv, Levels
  <2> QED  BY <2>1, <2>2, <2>3, <2>4 DEF IInv
<1>2. CASE Continue
  <2>0. /\ pc \in Levels /\ ~truncated /\ Here(pc)
        /\ pc' = After[pc] /\ UNCHANGED <<zone, schedule, from, t, truncated>>
    BY <1>2 DEF Continue, args, Now, Here, MatchesAt
  <2>1. pc' \in {"day", "hour", "minute", "second", "found"}
    BY <2>0 DEF Levels, After
  <2>2. TypeOK' /\ (t <= from)' /\ NoneSkipped'
    BY <1>0, <2>0, <2>1 DEF TypeOK, NoneSkipped, Fires, Levels
  <2>3. \A k \in Above[pc] \cup {pc} : Here(k)'
    BY <2>0 DEF IInv, Here
  <2>4. (pc \in Levels => \A k \in Above[pc] : Here(k))'
    <3>1. ASSUME pc' \in Levels PROVE Above[pc'] = Above[pc] \cup {pc}
      BY <2>0, <3>1 DEF Levels, After, Above
    <3> QED  BY <2>3, <3>1
  <2>5. (pc = "found" => Fires(t))'
    <3> SUFFICES ASSUME pc' = "found" PROVE Fires(t)'
      OBVIOUS
    <3>1. pc = "second"
      BY <2>0 DEF Levels, After
    <3>2. \A k \in Levels : Here(k)'
      BY <2>3, <3>1 DEF Above, Levels
    <3> QED  BY <3>2 DEF Fires, Here, MatchesAt
  <2>6. (pc # "none" /\ ~truncated)'
    BY <2>0, <2>1
  <2> QED  BY <2>2, <2>4, <2>5, <2>6 DEF IInv
<1>3. CASE Truncate
  <2> DEFINE l == Local(zone, t)
             o == zone.before
             c == Cut(pc, l)
  <2>0. /\ pc \in Levels /\ ~truncated /\ ~Here(pc)
        /\ t' = Truncated(pc, zone, t) /\ truncated'
        /\ UNCHANGED <<zone, schedule, from, pc>>
    BY <1>3 DEF Truncate, args, Now, Here, MatchesAt
  <2>1. o \in Int /\ l = t + o /\ l \in Int /\ t' = c - o
    BY <1>0, <2>0, FixedLocal, TruncatedIsCut
  <2>2. /\ c \in Int /\ c <= l /\ AtStart(pc, c)
        /\ \A v \in Int : c <= v /\ v <= l => Agree(pc, l, v)
    BY <2>0, <2>1, CutIsExact
  <2>3. t' \in Int /\ t' <= t /\ t' <= from /\ Local(zone, t)' = c
    <3> HIDE DEF o, l, c
    <3>1. t' \in Int /\ t' <= t /\ t' <= from
      BY <1>0, <2>1, <2>2
    <3>2. Local(zone, t') = t' + o
      BY <1>0, <3>1, FixedLocal DEF o
    <3>3. Local(zone, t)' = Local(zone, t')
      BY <2>0 DEF Local, Offset
    <3> QED  BY <2>1, <2>2, <3>1, <3>2, <3>3
  <2>4. TypeOK'
    BY <1>0, <2>0, <2>3 DEF TypeOK
  <2>5. ASSUME NEW v \in Int, c <= v, v <= l
        PROVE  \A k \in Above[pc] \cup {pc} :
                  MatchesAt(schedule, k, l) = MatchesAt(schedule, k, v)
    BY <2>0, <2>2, <2>5, AgreeMatches
  <2>6. NoneSkipped'
    <3> SUFFICES ASSUME NEW u \in Int, t' < u, u <= from PROVE ~Fires(u)'
      BY <2>0 DEF NoneSkipped
    <3>1. CASE t < u
      BY <1>0, <2>0, <3>1 DEF NoneSkipped, Fires
    <3>2. CASE u <= t
      <4>1. Local(zone, u) = u + o
        BY <1>0, FixedLocal
      <4>2. Local(zone, u) \in Int /\ c <= Local(zone, u) /\ Local(zone, u) <= l
        <5> HIDE DEF o, l, c
        <5> QED  BY <1>0, <2>1, <2>2, <3>2, <4>1
      <4>3. ~MatchesAt(schedule, pc, Local(zone, u))
        BY <2>0, <2>5, <4>2 DEF Here
      <4> QED  BY <2>0, <4>3 DEF Fires, MatchesAt
    <3> QED  BY <1>0, <3>1, <3>2
  <2>7. /\ \A k \in Above[pc] : Here(k)'
        /\ ~Here(pc)' /\ AtStart(pc, Local(zone, t)')
    <3>1. \A k \in Above[pc] \cup {pc} : MatchesAt(schedule, k, l) = MatchesAt(schedule, k, c)
      BY <2>2, <2>5
    <3>2. \A k \in Above[pc] \cup {pc} : Here(k)' = Here(k)
      BY <2>0, <2>3, <3>1 DEF Here
    <3> QED  BY <2>0, <2>2, <2>3, <3>2 DEF IInv
  <2> HIDE DEF l, o, c
  <2>8. pc' = pc /\ pc \notin {"found", "none"}
    BY <2>0 DEF Levels
  <2> QED  BY <2>0, <2>3, <2>4, <2>6, <2>7, <2>8 DEF IInv
<1>4. CASE Back
  <2> DEFINE l == Local(zone, t)
  <2>0. /\ truncated /\ ~truncated' /\ t' = t - 1 /\ UNCHANGED <<zone, schedule, from>>
        /\ pc' = IF Wraps(pc, Reading(l), Reading(Local(zone, t - 1))) THEN "year" ELSE pc
        /\ truncated' = FALSE
    BY <1>4 DEF Back, args, Now
  <2>1. pc \in Levels /\ ~Here(pc) /\ AtStart(pc, l) /\ \A k \in Above[pc] : Here(k)
    BY <2>0 DEF IInv
  <2>2. l \in Int /\ Local(zone, t - 1) = l - 1
    BY <1>0, FixedLocal
  <2>3. TypeOK' /\ (t <= from)'
    <3>1. pc' \in Levels \cup {"year"}
      BY <2>0, <2>1
    <3>2. t' \in Int /\ t' <= from
      BY <1>0, <2>0
    <3> HIDE DEF l
    <3>3. zone' \in Zones /\ schedule' \in Schedules /\ from' \in Instants /\ from' = from
      BY <1>0, <2>0 DEF TypeOK
    <3> QED  BY <2>0, <3>1, <3>2, <3>3 DEF TypeOK
  <2>4. NoneSkipped'
    <3> SUFFICES ASSUME NEW u \in Int, t - 1 < u, u <= from PROVE ~Fires(u)'
      BY <2>0 DEF NoneSkipped
    <3>1. CASE u = t
      BY <2>0, <2>1, <3>1 DEF Fires, Here, MatchesAt
    <3>2. CASE t < u
      BY <1>0, <2>0, <3>2 DEF NoneSkipped, Fires
    <3> QED  BY <1>0, <3>1, <3>2
  <2>5. (pc \in Levels => \A k \in Above[pc] : Here(k))'
    <3>1. CASE pc' = "year"
      BY <3>1 DEF Levels
    <3>2. CASE pc' # "year"
      <4>1. pc' = pc /\ ~Wraps(pc, Reading(l), Reading(l - 1))
        BY <2>0, <2>2, <3>2
      <4>2. \A k \in Above[pc] : MatchesAt(schedule, k, l) = MatchesAt(schedule, k, l - 1)
        BY <2>1, <2>2, <4>1, BackKeeps
      <4> QED  BY <2>0, <2>1, <2>2, <4>1, <4>2 DEF Here
    <3> QED  BY <3>1, <3>2
  <2>6. (pc \notin {"found", "none"})'
    BY <2>0, <2>1 DEF Levels
  <2> HIDE DEF l
  <2> QED  BY <2>0, <2>3, <2>4, <2>5, <2>6 DEF IInv
<1>5. CASE UNCHANGED vars
  BY <1>5 DEF vars, IInv, TypeOK, NoneSkipped, Here, Fires, yearLimit
<1> QED  BY <1>1, <1>2, <1>3, <1>4, <1>5 DEF Next

(***************************************************************************)
(* In a zone that keeps its offset, for every calendar, cron expression    *)
(* and instant: what cronPrev returns is the latest instant the schedule   *)
(* names that is not after the given one, and it returns the zero time     *)
(* only after it has passed the year limit without skipping one            *)
(* (cron_prev.go:9-10).                                                    *)
(***************************************************************************)
THEOREM CronPrevIsRight ==
    ASSUME FixedZones
    PROVE  Spec => []ResultIsPrev
<1>1. IInv => ResultIsPrev
  <2> SUFFICES ASSUME IInv PROVE ResultIsPrev
    OBVIOUS
  <2>1. t \in Int /\ from \in Int
    BY InstantsAssumption DEF IInv, TypeOK
  <2>2. \A u \in t + 1 .. from : ~Fires(u)
    BY <2>1 DEF IInv, NoneSkipped
  <2> QED  BY <2>2 DEF IInv, ResultIsPrev
<1>2. IInv /\ [Next]_vars => IInv'
  BY StepIInv
<1> QED  BY InitIInv, <1>1, <1>2, PTL DEF Spec

-----------------------------------------------------------------------------
(* The walk ends: it stays after the year limit, and always goes back.     *)

\* The years follow one another.
LEMMA YearMonotonic ==
    ASSUME NEW l \in Int, NEW v \in Int, v <= l
    PROVE  YearOf(v) <= YearOf(l)
BY IndexMonotonic, IndexTypes, UnitTypes, DivMonotonic DEF YearOf

\* Days that differ by no more than the place in the year are of one year.
LEMMA DivBack ==
    ASSUME NEW a \in Int, NEW n \in Nat \ {0}, NEW k \in Nat, k <= a % n
    PROVE  (a - k) \div n = a \div n
OBVIOUS

\* The calendar's first day is the first of a month.
LEMMA FirstDay ==
    ASSUME NEW d \in Int
    PROVE  /\ DateOf(d).day \in Nat \ {0}
           /\ DateOf(d).day - 1 <= d % Len(Days)
<1> DEFINE n == Len(Days)
           i == (d % n) + 1
           k == DateOf(d).day - 1
<1>1. n \in Nat \ {0} /\ DOMAIN Days = 1 .. n
  BY DaysType
<1>2. i \in DOMAIN Days /\ DateOf(d) = Days[i] /\ d % n \in Int
  BY <1>1 DEF DateOf
<1>3. DateOf(d).day \in Nat \ {0}
  BY <1>2, DaysType
<1>4. i - k \in DOMAIN Days
  <2>1. k \in 0 .. Days[i].day - 1
    BY <1>2, <1>3
  <2> QED  BY <1>2, <2>1, DaysAssumption
<1>5. i - k >= 1
  BY <1>1, <1>4
<1> QED  BY <1>1, <1>2, <1>3, <1>5

\* No level is cut down into the year before.
LEMMA CutKeepsYear ==
    ASSUME NEW level \in Levels, NEW l \in Int
    PROVE  YearOf(Cut(level, l)) = YearOf(l)
<1> DEFINE c == Cut(level, l)
<1>1. c \in Int /\ c <= l /\ Agree(level, l, c)
  BY CutIsExact
<1>2. CASE level = "month"
  <2> DEFINE d == DayOf(l)
             k == DateOf(d).day - 1
  <2>1. d \in Int
    BY IndexTypes
  <2> HIDE DEF d
  <2>2. k \in Nat /\ k <= d % Len(Days) /\ d - k \in Int
    <3>1. DateOf(d).day \in Nat \ {0} /\ DateOf(d).day - 1 <= d % Len(Days)
      BY <2>1, FirstDay
    <3> QED  BY <2>1, <3>1
  <2>3. c = StartOfDay(d - k)
    BY <1>2 DEF Cut, d
  <2> HIDE DEF c, k
  <2>4. DayOf(c) = d - k
    BY <2>2, <2>3, Starts
  <2>5. (d - k) \div Len(Days) = d \div Len(Days)
    BY <2>1, <2>2, UnitTypes, DivBack
  <2> QED  BY <2>4, <2>5 DEF YearOf, d, c
<1>3. CASE level # "month"
  <2>1. DayOf(l) = DayOf(c)
    BY <1>1, <1>3 DEF Agree, Levels, DayOf, HourOf
  <2> QED  BY <2>1 DEF YearOf
<1> QED  BY <1>2, <1>3

\* The second before a unit, when no wrap is seen, is of the same year.
LEMMA BackKeepsYear ==
    ASSUME NEW level \in Levels, NEW l \in Int,
           AtStart(level, l), ~Wraps(level, Reading(l), Reading(l - 1))
    PROVE  YearOf(l - 1) = YearOf(l)
<1> USE UnitTypes
<1>1. l - 1 \in Int /\ MinuteOf(l) \in Int /\ HourOf(l) \in Int /\ DayOf(l) \in Int
  BY IndexTypes
<1>2. CASE level \in {"month", "day"}
  <2> DEFINE d == DayOf(l)
             n == Len(Days)
  <2>1. l = StartOfDay(d)
    BY <1>2 DEF AtStart
  <2>2. DayOf(l - 1) = d - 1
    BY <1>1, <2>1, Starts
  <2>3. (d - 1) % n # n - 1 \/ d % n # 0
    <3>1. CASE level = "month"
      <4>1. DateOf(d - 1).month # Days[n].month
        BY <2>2, <3>1 DEF Wraps, Reading
      <4>2. (d - 1) % n = n - 1 => DateOf(d - 1) = Days[n]
        <5>1. (n - 1) + 1 = n
          OBVIOUS
        <5> QED  BY <5>1 DEF DateOf
      <4> QED  BY <4>1, <4>2
    <3>2. CASE level = "day"
      <4>1. DateOf(d).day # 1
        BY <3>2 DEF Wraps, Reading
      <4>2. d \in Int /\ DateOf(d).day \in Nat \ {0} /\ DateOf(d).day - 1 <= d % n
        BY <1>1, FirstDay
      <4>3. d % n \in Int
        BY <1>1
      <4> QED  BY <4>1, <4>2, <4>3
    <3> QED  BY <1>2, <3>1, <3>2
  <2>4. d \in Int /\ n \in Nat \ {0}
    BY <1>1
  <2> HIDE DEF d, n
  <2>5. (d - 1) \div n = d \div n
    <3>1. CASE (d - 1) % n # n - 1
      BY <2>4, <3>1, NoCarry
    <3>2. CASE d % n # 0
      <4>1. d % n \in Nat /\ 1 <= d % n
        BY <2>4, <3>2
      <4> QED  BY <2>4, <4>1, DivBack
    <3> QED  BY <2>3, <3>1, <3>2
  <2> QED  BY <2>2, <2>5 DEF YearOf, d, n
<1>3. CASE level = "hour"
  <2>1. HourOf(l - 1) = HourOf(l) - 1
    BY <1>1, <1>3, Starts DEF AtStart
  <2>2. (HourOf(l) - 1) % Hours # Hours - 1
    BY <1>3, <2>1 DEF Wraps, Reading
  <2>3. DayOf(l - 1) = DayOf(l)
    BY <1>1, <2>1, <2>2, NoCarry DEF DayOf
  <2> QED  BY <2>3 DEF YearOf
<1>4. CASE level = "minute"
  <2>1. MinuteOf(l - 1) = MinuteOf(l) - 1
    BY <1>1, <1>4, Starts DEF AtStart
  <2>2. (MinuteOf(l) - 1) % Minutes # Minutes - 1
    BY <1>4, <2>1 DEF Wraps, Reading
  <2>3. HourOf(l - 1) = HourOf(l)
    BY <1>1, <2>1, <2>2, NoCarry DEF HourOf
  <2> QED  BY <2>3 DEF YearOf, DayOf
<1>5. CASE level = "second"
  <2>1. (l - 1) % Seconds # Seconds - 1
    BY <1>5 DEF Wraps, Reading
  <2>2. MinuteOf(l - 1) = MinuteOf(l)
    BY <2>1, NoCarry DEF MinuteOf
  <2> QED  BY <2>2 DEF YearOf, DayOf, HourOf
<1> QED  BY <1>2, <1>3, <1>4, <1>5 DEF Levels

\* A year starts before the seconds of it and of the years that follow.
LEMMA YearStarts ==
    ASSUME NEW l \in Int, NEW y \in Int, y <= YearOf(l)
    PROVE  y * Len(Days) \in Int /\ StartOfDay(y * Len(Days)) <= l
<1> DEFINE n == Len(Days)
<1>1. n \in Nat \ {0} /\ DayOf(l) \in Int /\ YearOf(l) \in Int
  BY UnitTypes, IndexTypes
<1>2. n * YearOf(l) <= DayOf(l)
  BY <1>1, DivBounds DEF YearOf
<1>3. y * n \in Int /\ y * n <= n * YearOf(l)
  BY <1>1, TimesMonotonic
<1> HIDE DEF n
<1>4. n * YearOf(l) \in Int
  BY <1>1
<1>5. y * n <= DayOf(l)
  BY <1>1, <1>2, <1>3, <1>4
<1> QED  BY <1>3, <1>5, StartsBefore DEF n

(***************************************************************************)
(* The loops of the fields look at no second before the year limit, and    *)
(* only one of them takes the time over it.                                *)
(***************************************************************************)
WithinLimit ==
    /\ pc \in Levels \cup {"found"} => yearLimit <= YearOf(Local(zone, t))
    /\ yearLimit <= YearOf(Local(zone, t) + 1)

LEMMA InitWithinLimit ==
    ASSUME FixedZones, Init
    PROVE  WithinLimit
<1> DEFINE l == Local(zone, from)
<1>1. zone \in Zones /\ zone.before = zone.after /\ from \in Int /\ t = from /\ pc = "year"
  BY InstantsAssumption DEF FixedZones, Init
<1>2. l \in Int
  BY <1>1, FixedLocal
<1> HIDE DEF l
<1>3. l + 1 \in Int /\ YearOf(l) \in Int /\ YearOf(l + 1) \in Int /\ YearOf(l) <= YearOf(l + 1)
  BY <1>2, YearMonotonic, IndexTypes
<1>4. YearOf(l) - Years <= YearOf(l + 1)
  BY <1>3, UnitTypes
<1> QED  BY <1>1, <1>4 DEF WithinLimit, yearLimit, l, Levels

LEMMA StepWithinLimit ==
    ASSUME FixedZones
    PROVE  IInv /\ WithinLimit /\ [Next]_vars => WithinLimit'
<1> SUFFICES ASSUME IInv, WithinLimit, [Next]_vars PROVE WithinLimit'
  OBVIOUS
<1> DEFINE l == Local(zone, t)
           o == zone.before
<1>0. /\ zone \in Zones /\ zone.before = zone.after /\ from \in Int /\ t \in Int
      /\ o \in Int /\ l = t + o /\ l \in Int
      /\ yearLimit \in Int /\ YearOf(l) \in Int /\ YearOf(l + 1) \in Int
  <2>1. /\ zone \in Zones /\ zone.before = zone.after /\ from \in Int /\ t \in Int
    BY InstantsAssumption DEF FixedZones, IInv, TypeOK
  <2>2. o \in Int /\ l = t + o /\ l \in Int /\ Local(zone, from) \in Int
    BY <2>1, FixedLocal
  <2>3. YearOf(Local(zone, from)) \in Int /\ YearOf(l) \in Int /\ YearOf(l + 1) \in Int
    BY <2>2, IndexTypes
  <2> QED  BY <2>1, <2>2, <2>3, UnitTypes DEF yearLimit
<1>1. CASE CheckYear
  <2>1. Local(zone, t)' = l /\ yearLimit' = yearLimit
    BY <1>1 DEF CheckYear, args, yearLimit, Local, Offset
  <2>2. pc' \in Levels \cup {"found"} => yearLimit <= YearOf(l)
    <3>1. pc' = IF YearOf(l) < yearLimit THEN "none" ELSE "month"
      BY <1>1 DEF CheckYear
    <3> HIDE DEF l
    <3> QED  BY <1>0, <3>1 DEF Levels
  <2> QED  BY <2>1, <2>2 DEF WithinLimit
<1>2. CASE Continue
  <2>1. Local(zone, t)' = l /\ yearLimit' = yearLimit /\ pc \in Levels
    BY <1>2 DEF Continue, args, yearLimit, Local, Offset
  <2> QED  BY <2>1 DEF WithinLimit
<1>3. CASE Truncate
  <2> DEFINE c == Cut(pc, l)
  <2>1. /\ pc \in Levels /\ t' = Truncated(pc, zone, t)
        /\ zone' = zone /\ from' = from /\ yearLimit' = yearLimit
    BY <1>3 DEF Truncate, args, yearLimit
  <2>2. t' = c - o
    BY <1>0, <2>1, TruncatedIsCut
  <2>3. c \in Int /\ YearOf(c) = YearOf(l)
    BY <1>0, <2>1, CutIsExact, CutKeepsYear
  <2> HIDE DEF c, l, o
  <2>4. t' \in Int /\ t' + o = c
    BY <1>0, <2>2, <2>3
  <2>5. Local(zone, t)' = c
    <3>1. Local(zone, t') = t' + zone.before
      BY <1>0, <2>4, FixedLocal
    <3> QED  BY <2>1, <2>4, <3>1 DEF o, Local, Offset
  <2>6. yearLimit <= YearOf(c)
    BY <2>1, <2>3 DEF WithinLimit, l
  <2>7. YearOf(c) <= YearOf(c + 1) /\ YearOf(c) \in Int /\ YearOf(c + 1) \in Int
    <3>1. c + 1 \in Int /\ c <= c + 1
      BY <2>3
    <3> QED  BY <2>3, <3>1, YearMonotonic, IndexTypes
  <2>8. yearLimit <= YearOf(c + 1)
    BY <1>0, <2>6, <2>7
  <2> QED  BY <2>1, <2>5, <2>6, <2>8 DEF WithinLimit
<1>4. CASE Back
  <2>1. /\ truncated /\ t' = t - 1
        /\ zone' = zone /\ from' = from /\ yearLimit' = yearLimit
        /\ pc' = IF Wraps(pc, Reading(l), Reading(Local(zone, t - 1))) THEN "year" ELSE pc
    BY <1>4 DEF Back, args, yearLimit, Now
  <2>2. pc \in Levels /\ AtStart(pc, l)
    BY <2>1 DEF IInv
  <2>3. Local(zone, t)' = l - 1
    <3>1. Local(zone, t - 1) = (t - 1) + zone.before
      BY <1>0, FixedLocal
    <3>2. Local(zone, t)' = Local(zone, t - 1)
      BY <2>1 DEF Local, Offset
    <3> QED  BY <1>0, <3>1, <3>2
  <2>4. yearLimit <= YearOf(l)
    BY <2>2 DEF WithinLimit
  <2>5. ASSUME pc' # "year" PROVE YearOf(l - 1) = YearOf(l)
    <3>1. Local(zone, t - 1) = l - 1
      BY <2>1, <2>3 DEF Local, Offset
    <3>2. ~Wraps(pc, Reading(l), Reading(l - 1))
      BY <2>1, <2>5, <3>1
    <3> QED  BY <1>0, <2>2, <3>2, BackKeepsYear
  <2> HIDE DEF l
  <2>6. l - 1 + 1 = l
    BY <1>0
  <2> QED  BY <2>1, <2>3, <2>4, <2>5, <2>6 DEF WithinLimit, Levels
<1>5. CASE UNCHANGED vars
  BY <1>5 DEF vars, WithinLimit, yearLimit, Local, Offset
<1> QED  BY <1>1, <1>2, <1>3, <1>4, <1>5 DEF Next

\* The last second before the limit bounds the walk.
LEMMA LimitBounds ==
    ASSUME NEW z \in Zones, z.before = z.after, NEW f \in Int, NEW u \in Int,
           YearOf(Local(z, f)) - Years <= YearOf(Local(z, u) + 1)
    PROVE  LET start == StartOfDay((YearOf(Local(z, f)) - Years) * Len(Days))
           IN  start - 1 - z.before \in Int /\ start - 1 - z.before <= u
<1> DEFINE l == Local(z, u)
           y == YearOf(Local(z, f)) - Years
           start == StartOfDay(y * Len(Days))
<1>1. /\ z.before \in Int /\ l = u + z.before /\ l \in Int /\ l + 1 \in Int
      /\ Local(z, f) \in Int
  BY FixedLocal
<1>2. YearOf(Local(z, f)) \in Int
  BY <1>1, IndexTypes
<1>3. y \in Int /\ y <= YearOf(l + 1)
  BY <1>2, UnitTypes
<1> HIDE DEF l, y
<1>4. start \in Int /\ start <= l + 1
  BY <1>1, <1>3, YearStarts, StartTypes
<1> HIDE DEF start
<1>5. start - 1 - z.before \in Int /\ start - 1 - z.before <= u
  BY <1>1, <1>4
<1> QED  BY <1>5 DEF start, y

\* A step that cuts the time down goes back.
LEMMA CutBack ==
    ASSUME FixedZones, TypeOK, Truncate
    PROVE  t' <= t
<1> DEFINE l == Local(zone, t)
<1>1. /\ zone \in Zones /\ zone.before = zone.after /\ t \in Int /\ pc \in Levels
      /\ t' = Truncated(pc, zone, t)
  BY DEF FixedZones, TypeOK, Truncate
<1>2. zone.before \in Int /\ l = t + zone.before /\ l \in Int /\ t' = Cut(pc, l) - zone.before
  BY <1>1, FixedLocal, TruncatedIsCut
<1> HIDE DEF l
<1>3. Cut(pc, l) \in Int /\ Cut(pc, l) <= l
  BY <1>1, <1>2, CutIsExact
<1> QED  BY <1>1, <1>2, <1>3

\* Thirteen rounds for a second outweigh any place in the loops.
LEMMA RoundsDecrease ==
    ASSUME NEW u \in Int, NEW v \in Int, NEW e \in Int, e <= u, e <= v,
           NEW p \in 0 .. 12, NEW q \in 0 .. 12,
           v <= u, v = u => p < q
    PROVE  13 * (v - e) + 12 - q \in 0 .. 13 * (u - e) + 12 - p - 1
OBVIOUS

(***************************************************************************)
(* In a zone that keeps its offset every round of cronPrev's loops leaves  *)
(* fewer to go: no loop looks at a second twice, and none at one before    *)
(* the year limit (cron_prev.go:13-14, 58-61).                             *)
(***************************************************************************)
THEOREM WalkAlwaysRunsOut ==
    ASSUME FixedZones
    PROVE  Spec => WalkRunsOut
<1> DEFINE Inv == IInv /\ WithinLimit
<1>1. Init => Inv
  BY InitIInv, InitWithinLimit
<1>2. Inv /\ [Next]_vars => Inv'
  BY StepIInv, StepWithinLimit
<1>3. Inv /\ Inv' /\ [Next]_vars => [RoundsLeft' \in 0 .. RoundsLeft - 1]_vars
  <2> SUFFICES ASSUME Inv, Inv', Next PROVE RoundsLeft' \in 0 .. RoundsLeft - 1
    OBVIOUS
  <2>1. t \in Int /\ t' \in Int /\ Earliest \in Int /\ Earliest <= t /\ Earliest <= t'
    <3> DEFINE start == StartOfDay(yearLimit * Len(Days))
    <3>1. /\ zone \in Zones /\ zone.before = zone.after /\ from \in Int /\ t \in Int /\ t' \in Int
      BY InstantsAssumption DEF FixedZones, IInv, TypeOK
    <3>2. /\ yearLimit <= YearOf(Local(zone, t) + 1)
          /\ yearLimit <= YearOf(Local(zone, t') + 1)
      <4>1. zone' = zone /\ from' = from
        BY DEF Next, CheckYear, Continue, Truncate, Back, args
      <4>2. Local(zone, t)' = Local(zone, t') /\ yearLimit' = yearLimit
        BY <4>1 DEF Local, Offset, yearLimit
      <4> QED  BY <4>2 DEF WithinLimit
    <3>3. Earliest = start - 1 - zone.before
      BY <3>1 DEF Earliest, BeforeLimit
    <3>4. start - 1 - zone.before \in Int /\ start - 1 - zone.before <= t
      BY <3>1, <3>2, LimitBounds DEF yearLimit
    <3>5. start - 1 - zone.before <= t'
      BY <3>1, <3>2, LimitBounds DEF yearLimit
    <3> QED  BY <3>1, <3>3, <3>4, <3>5
  <2>2. Earliest' = Earliest
    BY DEF Next, CheckYear, Continue, Truncate, Back, args, Earliest, BeforeLimit, yearLimit
  <2> DEFINE place == Passed[pc] + (IF truncated THEN 1 ELSE 0)
  <2>3. place \in 0 .. 12 /\ place' \in 0 .. 12
    BY DEF IInv, TypeOK, Passed, Levels
  <2>4. t' <= t /\ (t' = t => place < place')
    <3>1. CASE CheckYear
      BY <2>1, <3>1 DEF CheckYear, Passed
    <3>2. CASE Continue
      BY <2>1, <3>2 DEF Continue, Passed, After, Levels
    <3>3. CASE Truncate
      <4>1. t' <= t
        BY <3>3, CutBack DEF IInv
      <4>2. pc' = pc /\ ~truncated /\ truncated'
        BY <3>3 DEF Truncate
      <4> QED  BY <2>1, <2>3, <4>1, <4>2 DEF IInv, TypeOK, Passed, Levels
    <3>4. CASE Back
      BY <2>1, <3>4 DEF Back
    <3> QED  BY <3>1, <3>2, <3>3, <3>4 DEF Next
  <2>5. RoundsLeft = 13 * (t - Earliest) + 12 - place
    BY <2>1, <2>3 DEF RoundsLeft, IInv, TypeOK, Passed, Levels
  <2>6. RoundsLeft' = 13 * (t' - Earliest) + 12 - place'
    BY <2>1, <2>2, <2>3 DEF RoundsLeft, IInv, TypeOK, Passed, Levels
  <2> HIDE DEF place
  <2>7. 13 * (t' - Earliest) + 12 - place' \in 0 .. 13 * (t - Earliest) + 12 - place - 1
    BY <2>1, <2>3, <2>4, RoundsDecrease, Zenon
  <2>8. RoundsLeft' \in 0 .. 13 * (t - Earliest) + 12 - place - 1
    BY <2>6, <2>7
  <2>9. RoundsLeft - 1 = 13 * (t - Earliest) + 12 - place - 1
    BY <2>1, <2>3, <2>5
  <2> QED  BY <2>8, <2>9
<1> QED  BY <1>1, <1>2, <1>3, PTL DEF Spec, WalkRunsOut
=============================================================================
