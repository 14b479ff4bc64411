--------------------------- MODULE ScheduleProofs ---------------------------
(***************************************************************************)
(* What the search through a schedule returns, for every schedule.         *)
(***************************************************************************)
EXTENDS Schedule, FiniteSetTheorems, TLAPS

(***************************************************************************)
(* A finite, non-empty set has a first element under any relation that is  *)
(* total and transitive on it.  The proof takes a smallest subset without  *)
(* one: finite sets are well founded under strict inclusion.               *)
(***************************************************************************)
LEMMA FirstOfFiniteSet ==
    ASSUME NEW S, IsFiniteSet(S), S # {}, NEW R,
           \A x, y \in S : x # y => <<x, y>> \in R \/ <<y, x>> \in R,
           \A x, y, z \in S : <<x, y>> \in R /\ <<y, z>> \in R => <<x, z>> \in R
    PROVE  \E m \in S : \A x \in S \ {m} : <<m, x>> \in R
<1> DEFINE Bad == {T \in FiniteSubsetsOf(S) :
                      T # {} /\ ~ \E m \in T : \A x \in T \ {m} : <<m, x>> \in R}
<1>1. S \in FiniteSubsetsOf(S)
  BY DEF FiniteSubsetsOf
<1>2. SUFFICES ASSUME Bad # {} PROVE FALSE
  BY <1>1
<1>3. PICK T \in Bad : \A U \in Bad : <<U, T>> \notin StrictSubsetOrdering(S)
  <2>1. IsWellFoundedOn(StrictSubsetOrdering(S), FiniteSubsetsOf(S))
    BY FS_StrictSubsetOrderingWellFounded
  <2>2. Bad \subseteq FiniteSubsetsOf(S)
    OBVIOUS
  <2>3. PICK U \in Bad : TRUE
    BY <1>2
  <2> HIDE DEF Bad
  <2> QED  BY <2>1, <2>2, <2>3, WFMin
<1>4. PICK x \in T : TRUE
  BY <1>3
<1> DEFINE U == T \ {x}
<1>5. U \in FiniteSubsetsOf(S) /\ <<U, T>> \in StrictSubsetOrdering(S)
  <2>1. T \in FiniteSubsetsOf(S)
    BY <1>3
  <2>2. IsFiniteSet(U)
    BY <2>1, FS_RemoveElement DEF FiniteSubsetsOf
  <2> QED  BY <1>4, <2>1, <2>2 DEF FiniteSubsetsOf, StrictSubsetOrdering
<1>6. U \notin Bad
  BY <1>3, <1>5
<1>7. T \subseteq S /\ x \in S
  BY <1>3, <1>4 DEF FiniteSubsetsOf
<1>8. CASE U = {}
  <2>1. \A y \in T \ {x} : <<x, y>> \in R
    BY <1>8
  <2> QED  BY <1>3, <1>4, <2>1
<1>9. CASE U # {}
  <2>1. PICK m \in U : \A y \in U \ {m} : <<m, y>> \in R
    BY <1>5, <1>6, <1>9
  <2>2. m \in S /\ m # x /\ m \in T
    BY <1>7, <2>1
  <2>3. CASE <<m, x>> \in R
    <3>1. \A y \in T \ {m} : <<m, y>> \in R
      BY <2>1, <2>3
    <3> QED  BY <1>3, <2>2, <3>1
  <2>4. CASE <<x, m>> \in R
    <3>1. \A y \in T \ {x} : <<x, y>> \in R
      BY <1>7, <2>1, <2>2, <2>4
    <3> QED  BY <1>3, <1>4, <3>1
  <2> QED  BY <1>7, <2>2, <2>3, <2>4
<1> QED  BY <1>8, <1>9

\* A finite, non-empty set of integers contains its maximum.
LEMMA MaxOfIntegers ==
    ASSUME NEW S \in SUBSET Int, IsFiniteSet(S), S # {}
    PROVE  Max(S) \in S /\ \A x \in S : Max(S) >= x
<1> DEFINE R == {p \in S \X S : p[1] >= p[2]}
<1>1. \E m \in S : \A x \in S \ {m} : <<m, x>> \in R
  <2>1. \A x, y \in S : x # y => <<x, y>> \in R \/ <<y, x>> \in R
    OBVIOUS
  <2>2. \A x, y, z \in S : <<x, y>> \in R /\ <<y, z>> \in R => <<x, z>> \in R
    OBVIOUS
  <2> HIDE DEF R
  <2> QED  BY <2>1, <2>2, FirstOfFiniteSet
<1>2. \E m \in S : \A x \in S : m >= x
  <2>1. PICK m \in S : \A x \in S \ {m} : <<m, x>> \in R
    BY <1>1
  <2>2. ASSUME NEW x \in S PROVE m >= x
    <3>1. CASE x = m
      BY <3>1
    <3>2. CASE x # m
      <4>1. <<m, x>> \in R
        BY <2>1, <3>2
      <4> QED  BY <4>1
    <3> QED  BY <3>1, <3>2
  <2> QED  BY <2>1, <2>2
<1> QED  BY <1>2 DEF Max

\* A finite, non-empty set of integers contains its minimum.
LEMMA MinOfIntegers ==
    ASSUME NEW S \in SUBSET Int, IsFiniteSet(S), S # {}
    PROVE  Min(S) \in S /\ \A x \in S : Min(S) =< x
<1> DEFINE R == {p \in S \X S : p[1] =< p[2]}
<1>1. \E m \in S : \A x \in S \ {m} : <<m, x>> \in R
  <2>1. \A x, y \in S : x # y => <<x, y>> \in R \/ <<y, x>> \in R
    OBVIOUS
  <2>2. \A x, y, z \in S : <<x, y>> \in R /\ <<y, z>> \in R => <<x, z>> \in R
    OBVIOUS
  <2> HIDE DEF R
  <2> QED  BY <2>1, <2>2, FirstOfFiniteSet
<1>2. \E m \in S : \A x \in S : m =< x
  <2>1. PICK m \in S : \A x \in S \ {m} : <<m, x>> \in R
    BY <1>1
  <2>2. ASSUME NEW x \in S PROVE m =< x
    <3>1. CASE x = m
      BY <3>1
    <3>2. CASE x # m
      <4>1. <<m, x>> \in R
        BY <2>1, <3>2
      <4> QED  BY <4>1
    <3> QED  BY <3>1, <3>2
  <2> QED  BY <2>1, <2>2
<1> QED  BY <1>2 DEF Min

\* A set of natural numbers that is not empty has a least element.
LEMMA LeastNatural ==
    ASSUME NEW S, S \subseteq Nat, S # {}
    PROVE  \E m \in S : \A x \in S : m =< x
<1>1. PICK b \in S : b \in Nat
  OBVIOUS
<1> DEFINE T == {x \in S : x =< b}
<1>0. \A x \in T : x \in Nat /\ x \in S /\ x =< b
  OBVIOUS
<1>2. IsFiniteSet(T)
  <2>1. T \subseteq 0 .. b
    <3> HIDE DEF T
    <3> QED  BY <1>0, <1>1
  <2>2. IsFiniteSet(0 .. b)
    BY <1>1, FS_Interval
  <2> QED  BY <2>1, <2>2, FS_Subset
<1>3. T \in SUBSET Int /\ b \in T
  <2>1. b \in T
    BY <1>1
  <2> HIDE DEF T
  <2> QED  BY <1>0, <2>1
<1>4. Min(T) \in T /\ \A x \in T : Min(T) =< x
  <2> HIDE DEF T
  <2> QED  BY <1>2, <1>3, MinOfIntegers
<1>5. \A x \in S : x \in T \/ b < x
  OBVIOUS
<1>6. Min(T) \in S /\ Min(T) \in Nat /\ Min(T) =< b
  BY <1>4
<1> HIDE DEF T
<1> QED  BY <1>1, <1>4, <1>5, <1>6

-----------------------------------------------------------------------------
(***************************************************************************)
(* The cron search finds the last firing of the cycle that ends at t, and  *)
(* the first one of the cycle after t.                                     *)
(***************************************************************************)
LEMMA CronPrevIsBefore ==
    ASSUME NEW event \in EventSpec, NEW t \in Int
    PROVE  /\ CronPrev(event, t)
                 \in {u \in Int : t - Period < u /\ u =< t /\ Fires(event, u)} \cup {Nil}
           /\ \A u \in (t - Period + 1) .. t :
                 Fires(event, u) => CronPrev(event, t) # Nil /\ CronPrev(event, t) >= u
<1> DEFINE times == {u \in (t - Period + 1) .. t : Fires(event, u)}
<1>1. CASE times = {}
  BY <1>1 DEF CronPrev
<1>2. CASE times # {}
  <2>1. IsFiniteSet(times)
    <3>1. t - Period + 1 \in Int /\ t \in Int
      BY PeriodAssumption
    <3>2. IsFiniteSet((t - Period + 1) .. (t))
      BY <3>1, FS_Interval
    <3>3. times \subseteq (t - Period + 1) .. (t)
      OBVIOUS
    <3> QED  BY <3>2, <3>3, FS_Subset
  <2>2. times \in SUBSET Int /\ \A u \in times : t - Period < u /\ u =< t /\ Fires(event, u)
    BY PeriodAssumption
  <2>3. Max(times) \in times /\ \A u \in times : Max(times) >= u
    BY <1>2, <2>1, <2>2, MaxOfIntegers
  <2>4. CronPrev(event, t) = Max(times)
    BY <1>2 DEF CronPrev
  <2> HIDE DEF times
  <2>5. /\ Max(times) \in {u \in Int : t - Period < u /\ u =< t /\ Fires(event, u)}
        /\ Max(times) # Nil
    BY <2>2, <2>3, NilAssumption
  <2>6. \A u \in (t - Period + 1) .. t : Fires(event, u) => u \in times
    BY DEF times
  <2> QED  BY <2>3, <2>4, <2>5, <2>6
<1> QED  BY <1>1, <1>2

LEMMA CronNextIsAfter ==
    ASSUME NEW event \in EventSpec, NEW t \in Int
    PROVE  /\ CronNext(event, t)
                 \in {u \in Int : t < u /\ u =< t + Period /\ Fires(event, u)} \cup {Nil}
           /\ \A u \in (t + 1) .. (t + Period) :
                 Fires(event, u) => CronNext(event, t) # Nil /\ CronNext(event, t) =< u
<1> DEFINE times == {u \in (t + 1) .. (t + Period) : Fires(event, u)}
<1>1. CASE times = {}
  BY <1>1 DEF CronNext
<1>2. CASE times # {}
  <2>1. IsFiniteSet(times)
    <3>1. t + 1 \in Int /\ t + Period \in Int
      BY PeriodAssumption
    <3>2. IsFiniteSet((t + 1) .. (t + Period))
      BY <3>1, FS_Interval
    <3>3. times \subseteq (t + 1) .. (t + Period)
      OBVIOUS
    <3> QED  BY <3>2, <3>3, FS_Subset
  <2>2. times \in SUBSET Int /\ \A u \in times : t < u /\ u =< t + Period /\ Fires(event, u)
    BY PeriodAssumption
  <2>3. Min(times) \in times /\ \A u \in times : Min(times) =< u
    BY <1>2, <2>1, <2>2, MinOfIntegers
  <2>4. CronNext(event, t) = Min(times)
    BY <1>2 DEF CronNext
  <2> HIDE DEF times
  <2>5. /\ Min(times) \in {u \in Int : t < u /\ u =< t + Period /\ Fires(event, u)}
        /\ Min(times) # Nil
    BY <2>2, <2>3, NilAssumption
  <2>6. \A u \in (t + 1) .. (t + Period) : Fires(event, u) => u \in times
    BY DEF times
  <2> QED  BY <2>3, <2>4, <2>5, <2>6
<1> QED  BY <1>1, <1>2

(***************************************************************************)
(* The offset does not disturb that.                                       *)
(***************************************************************************)
LEMMA AdjacentTimeIsAdjacent ==
    ASSUME NEW events \in Seq(EventSpec), NEW i \in DOMAIN events,
           NEW now \in Int, NEW offset \in Int
    PROVE  /\ AdjacentTime(events, i, now, offset, "next")
                 \in {u \in Int : /\ now < u /\ u =< now + Period
                                  /\ Fires(events[i], u + offset)} \cup {Nil}
           /\ \A u \in (now + 1) .. (now + Period) : Fires(events[i], u + offset) =>
                 /\ AdjacentTime(events, i, now, offset, "next") # Nil
                 /\ AdjacentTime(events, i, now, offset, "next") =< u
           /\ AdjacentTime(events, i, now, offset, "previous")
                 \in {u \in Int : /\ now - Period < u /\ u =< now
                                  /\ Fires(events[i], u + offset)} \cup {Nil}
           /\ \A u \in (now - Period + 1) .. now : Fires(events[i], u + offset) =>
                 /\ AdjacentTime(events, i, now, offset, "previous") # Nil
                 /\ AdjacentTime(events, i, now, offset, "previous") >= u
<1> DEFINE e == events[i]
           t == now + offset
<1>1. e \in EventSpec /\ t \in Int /\ Period \in Int
  BY PeriodAssumption
<1>2. /\ CronNext(e, t) \in {u \in Int : t < u /\ u =< t + Period /\ Fires(e, u)} \cup {Nil}
      /\ \A u \in (t + 1) .. (t + Period) :
            Fires(e, u) => CronNext(e, t) # Nil /\ CronNext(e, t) =< u
  BY <1>1, CronNextIsAfter
<1>3. /\ CronPrev(e, t) \in {u \in Int : t - Period < u /\ u =< t /\ Fires(e, u)} \cup {Nil}
      /\ \A u \in (t - Period + 1) .. t :
            Fires(e, u) => CronPrev(e, t) # Nil /\ CronPrev(e, t) >= u
  BY <1>1, CronPrevIsBefore
<1> DEFINE next == AdjacentTime(events, i, now, offset, "next")
           previous == AdjacentTime(events, i, now, offset, "previous")
<1>4. /\ next = IF CronNext(e, t) = Nil THEN Nil ELSE CronNext(e, t) - offset
      /\ previous = IF CronPrev(e, t) = Nil THEN Nil ELSE CronPrev(e, t) - offset
  BY DEF AdjacentTime
<1> HIDE DEF e, next, previous
<1>5. next \in {u \in Int : now < u /\ u =< now + Period /\ Fires(e, u + offset)} \cup {Nil}
  <2>1. CASE CronNext(e, t) = Nil
    BY <1>4, <2>1
  <2>2. CASE CronNext(e, t) # Nil
    <3>1. next \in Int /\ next + offset = CronNext(e, t)
      BY <1>2, <1>4, <2>2
    <3> QED  BY <1>1, <1>2, <2>2, <3>1
  <2> QED  BY <2>1, <2>2
<1>6. ASSUME NEW u \in (now + 1) .. (now + Period), Fires(e, u + offset)
      PROVE  next # Nil /\ next =< u
  <2>1. u + offset \in (t + 1) .. (t + Period)
    BY <1>1
  <2>2. CronNext(e, t) # Nil /\ CronNext(e, t) \in Int /\ CronNext(e, t) =< u + offset
    BY <1>2, <1>6, <2>1
  <2> QED  BY <1>4, <2>2, NilAssumption
<1>7. previous \in {u \in Int : now - Period < u /\ u =< now /\ Fires(e, u + offset)} \cup {Nil}
  <2>1. CASE CronPrev(e, t) = Nil
    BY <1>4, <2>1
  <2>2. CASE CronPrev(e, t) # Nil
    <3>1. previous \in Int /\ previous + offset = CronPrev(e, t)
      BY <1>3, <1>4, <2>2
    <3> QED  BY <1>1, <1>3, <2>2, <3>1
  <2> QED  BY <2>1, <2>2
<1>8. ASSUME NEW u \in (now - Period + 1) .. now, Fires(e, u + offset)
      PROVE  previous # Nil /\ previous >= u
  <2>1. u + offset \in (t - Period + 1) .. t
    BY <1>1
  <2>2. CronPrev(e, t) # Nil /\ CronPrev(e, t) \in Int /\ CronPrev(e, t) >= u + offset
    BY <1>3, <1>8, <2>1
  <2> QED  BY <1>4, <2>2, NilAssumption
<1> QED  BY <1>5, <1>6, <1>7, <1>8 DEF e, next, previous

(***************************************************************************)
(* What findNearestEvent returns is the firing of an event it may choose,  *)
(* and no event it may choose fires nearer.                                *)
(***************************************************************************)
LEMMA NearestEventIsNearest ==
    ASSUME NEW events \in Seq(EventSpec), NEW now \in Int, NEW offset \in Int,
           NEW direction \in {"next", "previous"}, NEW actions,
           \E i \in DOMAIN events : events[i].action \in actions
               /\ AdjacentTime(events, i, now, offset, direction) # Nil
    PROVE  \E k \in DOMAIN events :
              /\ events[k].action \in actions
              /\ AdjacentTime(events, k, now, offset, direction) # Nil
              /\ findNearestEvent(events, now, offset, direction, actions)
                    = [type |-> events[k].action,
                       time |-> AdjacentTime(events, k, now, offset, direction)]
              /\ \A j \in DOMAIN events :
                    events[j].action \in actions
                       /\ AdjacentTime(events, j, now, offset, direction) # Nil
                    => ~ eventIsNearer(AdjacentTime(events, j, now, offset, direction),
                                       AdjacentTime(events, k, now, offset, direction), direction)
<1> DEFINE time(i) == AdjacentTime(events, i, now, offset, direction)
           found == {i \in DOMAIN events : events[i].action \in actions /\ time(i) # Nil}
           wins(i, j) == \/ eventIsNearer(time(i), time(j), direction)
                         \/ time(i) = time(j) /\ i < j
           R == {p \in found \X found : wins(p[1], p[2])}
<1>1. \A i \in found : i \in Int /\ time(i) \in Int
  BY AdjacentTimeIsAdjacent
<1>2. IsFiniteSet(found)
  BY FS_Interval, FS_Subset
<1> HIDE DEF time
<1>3. \A i, j \in found : i # j => <<i, j>> \in R \/ <<j, i>> \in R
  BY <1>1 DEF eventIsNearer
<1>4. \A i, j, k \in found : <<i, j>> \in R /\ <<j, k>> \in R => <<i, k>> \in R
  BY <1>1 DEF eventIsNearer
<1>5. \E i \in found : \A j \in found \ {i} : <<i, j>> \in R
  <2>1. found # {}
    BY DEF time
  <2> HIDE DEF R, found
  <2> QED  BY ONLY <2>1, <1>2, <1>3, <1>4, FirstOfFiniteSet
<1>6. \E i \in found : \A j \in found \ {i} : wins(i, j)
  <2>1. PICK i \in found : \A j \in found \ {i} : <<i, j>> \in R
    BY <1>5
  <2>2. ASSUME NEW j \in found \ {i} PROVE wins(i, j)
    <3>1. <<i, j>> \in R
      BY <2>1
    <3> QED  BY <3>1
  <2> QED  BY <2>2
<1> DEFINE k == CHOOSE i \in found : \A j \in found \ {i} : wins(i, j)
<1>7. k \in found /\ \A j \in found \ {k} : wins(k, j)
  BY <1>6
<1>8. findNearestEvent(events, now, offset, direction, actions)
         = [type |-> events[k].action, time |-> time(k)]
  BY DEF findNearestEvent, time
<1> HIDE DEF k
<1>9. ASSUME NEW j \in found PROVE ~ eventIsNearer(time(j), time(k), direction)
  <2>1. CASE j = k
    BY <1>1, <1>7, <2>1 DEF eventIsNearer
  <2>2. CASE j # k
    BY <1>1, <1>7, <2>2 DEF eventIsNearer
  <2> QED  BY <2>1, <2>2
<1> QED  BY <1>7, <1>8, <1>9 DEF time

(***************************************************************************)
(* What the operator reads from the schedule: times, or Nil; the last stop *)
(* is not in the future and the start of the run period comes after it.    *)
(***************************************************************************)
LEMMA NearestEventTypes ==
    ASSUME NEW events \in Seq(EventSpec), NEW now \in Int, NEW offset \in Int, NEW actions
    PROVE  /\ TimeOf(findNearestEvent(events, now, offset, "next", actions))
                 \in {u \in Int : u > now} \cup {Nil}
           /\ TimeOf(findNearestEvent(events, now, offset, "previous", actions))
                 \in {u \in Int : u =< now} \cup {Nil}
<1> SUFFICES ASSUME NEW direction \in {"next", "previous"}
             PROVE  LET time == TimeOf(findNearestEvent(events, now, offset, direction, actions))
                    IN  IF direction = "next" THEN time \in {u \in Int : u > now} \cup {Nil}
                                              ELSE time \in {u \in Int : u =< now} \cup {Nil}
  OBVIOUS
<1> DEFINE found == {i \in DOMAIN events :
               events[i].action \in actions
                  /\ AdjacentTime(events, i, now, offset, direction) # Nil}
           event == findNearestEvent(events, now, offset, direction, actions)
<1>1. CASE found = {}
  <2>1. event = Nil
    BY <1>1 DEF findNearestEvent
  <2> QED  BY <2>1 DEF TimeOf
<1>2. CASE found # {}
  <2> DEFINE time(i) == AdjacentTime(events, i, now, offset, direction)
  <2>0. \E i \in DOMAIN events : events[i].action \in actions /\ time(i) # Nil
    BY <1>2
  <2>1. PICK k \in DOMAIN events : event = [type |-> events[k].action, time |-> time(k)]
    BY <2>0, NearestEventIsNearest
  <2>2. IF direction = "next" THEN time(k) \in {u \in Int : u > now} \cup {Nil}
                              ELSE time(k) \in {u \in Int : u =< now} \cup {Nil}
    BY AdjacentTimeIsAdjacent
  <2> HIDE DEF event, time
  <2>3. TimeOf(event) = IF event = Nil THEN Nil ELSE time(k)
    BY <2>1 DEF TimeOf
  <2> QED  BY <2>2, <2>3 DEF event
<1> QED  BY <1>1, <1>2

(***************************************************************************)
(* What StateFor tells the operator (pkg/schedule/state.go:71-105): the    *)
(* wake-up it asks for lies strictly in the future, so waking never spins; *)
(* the last stop is not in the future; the start of the run period comes   *)
(* strictly after the last stop, so a Job built for it is not expired.     *)
(***************************************************************************)
THEOREM StateForTypes ==
    ASSUME NEW events \in Seq(EventSpec), NEW now \in Int, NEW offset \in Int
    PROVE  LET st == StateFor(events, now, offset)
           IN  /\ st.lastStopTime \in {u \in Int : u =< now} \cup {Nil}
               /\ st.startOfCurrentRunPeriod \in Int \cup {Nil}
               /\ st.startOfCurrentRunPeriod # Nil =>
                     /\ st.lastStopTime # Nil
                     /\ st.startOfCurrentRunPeriod > st.lastStopTime
               /\ st.nextEventTime \in {u \in Int : u > now} \cup {Nil}
<1> DEFINE stop == findMostRecentStopTime(events, now, offset)
           start == findStartOfCurrentRunPeriod(events, now, offset)
<1>1. stop \in {u \in Int : u =< now} \cup {Nil}
  BY NearestEventTypes DEF findMostRecentStopTime
<1>2. stop # Nil => start \in {u \in Int : u > stop} \cup {Nil}
  <2>1. CASE stop = Nil
    BY <2>1
  <2>2. CASE stop # Nil
    <3>1. stop \in Int
      BY <1>1, <2>2
    <3>2. start = TimeOf(findNearestEvent(events, stop, offset, "next", {"start"}))
      BY <2>2 DEF findStartOfCurrentRunPeriod
    <3> HIDE DEF stop, start
    <3> QED  BY <3>1, <3>2, NearestEventTypes
  <2> QED  BY <2>1, <2>2
<1>3. stop = Nil => start = Nil
  BY DEF findStartOfCurrentRunPeriod
<1>4. TimeOf(findNearestEvent(events, now, offset, "next", {"start", "stop"}))
         \in {u \in Int : u > now} \cup {Nil}
  BY NearestEventTypes
<1>5. /\ StateFor(events, now, offset).lastStopTime = stop
      /\ StateFor(events, now, offset).startOfCurrentRunPeriod = start
      /\ StateFor(events, now, offset).nextEventTime
            = TimeOf(findNearestEvent(events, now, offset, "next", {"start", "stop"}))
  BY DEF StateFor
<1> HIDE DEF stop, start
<1> QED  BY <1>1, <1>2, <1>3, <1>4, <1>5

(***************************************************************************)
(* The run period that is under way has begun, and after the last stop     *)
(* (findStartOfCurrentRunPeriod): a Job is never created for a period that *)
(* lies in the future.  This holds for schedules whose starts and stops    *)
(* never fire at the same instant, and only for those.                     *)
(***************************************************************************)
THEOREM RunPeriodHasBegun ==
    ASSUME NEW events \in Seq(EventSpec), NEW now \in Int, NEW offset \in Int,
           \A i, j \in DOMAIN events : \A t \in Int :
              Fires(events[i], t) /\ Fires(events[j], t) => events[i].action = events[j].action,
           StateFor(events, now, offset).shouldBeRunning,
           StateFor(events, now, offset).lastStopTime # Nil
    PROVE  LET st == StateFor(events, now, offset)
           IN  /\ st.startOfCurrentRunPeriod # Nil
               /\ st.lastStopTime < st.startOfCurrentRunPeriod
               /\ st.startOfCurrentRunPeriod =< now
<1> DEFINE prev == findNearestEvent(events, now, offset, "previous", {"start", "stop"})
           stop == findMostRecentStopTime(events, now, offset)
           start == findStartOfCurrentRunPeriod(events, now, offset)
           before(i) == AdjacentTime(events, i, now, offset, "previous")
<1>1. prev # Nil /\ prev.type = "start" /\ stop # Nil
  BY DEF StateFor
<1>2. PICK k \in DOMAIN events :
         /\ events[k].action = "start" /\ before(k) # Nil
         /\ \A j \in DOMAIN events : events[j].action = "stop" /\ before(j) # Nil
               => ~ eventIsNearer(before(j), before(k), "previous")
  <2>1. \E i \in DOMAIN events : events[i].action \in {"start", "stop"} /\ before(i) # Nil
    BY <1>1 DEF findNearestEvent
  <2>2. PICK i \in DOMAIN events :
           /\ before(i) # Nil
           /\ prev = [type |-> events[i].action, time |-> before(i)]
           /\ \A j \in DOMAIN events : events[j].action \in {"start", "stop"} /\ before(j) # Nil
                 => ~ eventIsNearer(before(j), before(i), "previous")
    BY <2>1, NearestEventIsNearest
  <2>3. events[i].action = "start"
    BY <1>1, <2>2
  <2> QED  BY <2>2, <2>3
<1>3. PICK s \in DOMAIN events :
         events[s].action = "stop" /\ before(s) # Nil /\ stop = before(s)
  <2> DEFINE event == findNearestEvent(events, now, offset, "previous", {"stop"})
  <2>1. stop = TimeOf(event) /\ event # Nil
    BY <1>1 DEF findMostRecentStopTime, TimeOf
  <2>2. \E i \in DOMAIN events : events[i].action \in {"stop"} /\ before(i) # Nil
    BY <2>1 DEF findNearestEvent
  <2>3. PICK i \in DOMAIN events :
           /\ events[i].action \in {"stop"} /\ before(i) # Nil
           /\ event = [type |-> events[i].action, time |-> before(i)]
           /\ \A j \in DOMAIN events : events[j].action \in {"stop"} /\ before(j) # Nil
                 => ~ eventIsNearer(before(j), before(i), "previous")
    BY <2>2, NearestEventIsNearest
  <2>4. stop = before(i)
    BY <2>1, <2>3 DEF TimeOf
  <2> QED  BY <2>3, <2>4
<1>4. /\ before(k) \in Int /\ before(k) =< now /\ Fires(events[k], before(k) + offset)
      /\ stop \in Int /\ now - Period < stop /\ stop =< now /\ Fires(events[s], stop + offset)
  BY <1>2, <1>3, AdjacentTimeIsAdjacent
<1>5. before(k) >= stop
  BY <1>2, <1>3, <1>4 DEF eventIsNearer
<1>6. before(k) # stop
  <2> SUFFICES ASSUME before(k) = stop PROVE FALSE
    OBVIOUS
  <2>1. stop + offset \in Int
    BY <1>4
  <2>2. Fires(events[k], stop + offset)
    BY <1>4
  <2>3. events[k].action = events[s].action
    BY <1>4, <2>1, <2>2
  <2> QED  BY <1>2, <1>3, <2>3
<1> DEFINE after(i) == AdjacentTime(events, i, stop, offset, "next")
<1>7. after(k) # Nil /\ after(k) =< before(k) /\ after(k) \in Int
  <2>1. before(k) \in (stop + 1) .. (stop + Period)
    BY <1>4, <1>5, <1>6, PeriodAssumption
  <2> HIDE DEF stop, before
  <2> QED  BY <1>4, <2>1, AdjacentTimeIsAdjacent
<1>8. start \in Int /\ start =< after(k) /\ start # Nil
  <2> DEFINE event == findNearestEvent(events, stop, offset, "next", {"start"})
  <2>1. start = TimeOf(event)
    BY <1>1 DEF findStartOfCurrentRunPeriod
  <2> HIDE DEF start, stop
  <2>2. \E i \in DOMAIN events : events[i].action \in {"start"} /\ after(i) # Nil
    BY <1>2, <1>7
  <2>3. PICK i \in DOMAIN events :
           /\ events[i].action \in {"start"} /\ after(i) # Nil
           /\ event = [type |-> events[i].action, time |-> after(i)]
           /\ \A j \in DOMAIN events : events[j].action \in {"start"} /\ after(j) # Nil
                 => ~ eventIsNearer(after(j), after(i), "next")
    BY <1>4, <2>2, NearestEventIsNearest
  <2>4. after(i) \in Int
    BY <1>4, <2>3, AdjacentTimeIsAdjacent
  <2>5. start = after(i)
    <3> HIDE DEF event, after
    <3>1. event = [type |-> events[i].action, time |-> after(i)]
      BY <2>3
    <3>2. event # Nil
      <4>1. event \in ScheduledEvent
        BY <2>3, <2>4, <3>1 DEF ScheduledEvent
      <4> QED  BY <4>1, NilIsNoEvent
    <3> QED  BY <2>1, <3>1, <3>2 DEF TimeOf
  <2>6. ~ (after(k) < after(i))
    BY <1>2, <1>7, <2>3 DEF eventIsNearer
  <2> QED  BY <1>7, <2>4, <2>5, <2>6, NilAssumption
<1>9. stop < start
  BY <1>4, <1>8, StateForTypes DEF StateFor
<1>10. start =< now
  BY <1>4, <1>7, <1>8
<1> QED  BY <1>8, <1>9, <1>10 DEF StateFor
=============================================================================
