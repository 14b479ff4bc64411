--------------------------- MODULE HistoryProofs ---------------------------
(***************************************************************************)
(* Searching a schedule backwards finds what a clock running forwards has  *)
(* seen, for every list of events, offset and length of the cycle.         *)
(***************************************************************************)
EXTENDS ScheduleHistory, ScheduleProofs

-----------------------------------------------------------------------------
(* What findNearestEvent finds, told by the instants at which actions fire. *)

FiresAt(list, off, actions, u) ==
    \E i \in DOMAIN list : list[i].action \in actions /\ Fires(list[i], u + off)

\* Events start or stop.
LEMMA ActionType ==
    ASSUME NEW list \in Seq(EventSpec), NEW i \in DOMAIN list
    PROVE  list[i].action \in {"start", "stop"}
<1>1. list[i] \in EventSpec
  OBVIOUS
<1> QED  BY <1>1 DEF EventSpec

\* The last firing of the cycle that ends at an instant.
LEMMA NearestPrevious ==
    ASSUME NEW list \in Seq(EventSpec), NEW at \in Int, NEW off \in Int, NEW actions
    PROVE  LET f == findNearestEvent(list, at, off, "previous", actions)
           IN  \/ /\ f = Nil
                  /\ \A u \in at - Period + 1 .. at : ~FiresAt(list, off, actions, u)
               \/ /\ f # Nil /\ f.type \in {"start", "stop"} \cap actions
                  /\ f.time \in at - Period + 1 .. at
                  /\ FiresAt(list, off, {f.type}, f.time)
                  /\ \A u \in f.time + 1 .. at : ~FiresAt(list, off, actions, u)
<1> DEFINE f == findNearestEvent(list, at, off, "previous", actions)
           time(i) == AdjacentTime(list, i, at, off, "previous")
<1>1. Period \in Nat \ {0}
  BY PeriodAssumption
<1>2. \A i \in DOMAIN list : list[i].action \in {"start", "stop"}
  BY ActionType
<1>3. ASSUME NEW i \in DOMAIN list
      PROVE  /\ time(i) # Nil => /\ time(i) \in at - Period + 1 .. at
                                 /\ Fires(list[i], time(i) + off)
             /\ \A u \in at - Period + 1 .. at :
                   Fires(list[i], u + off) => time(i) # Nil /\ time(i) >= u
  <2> HIDE DEF time
  <2>1. time(i) \in {u \in Int : at - Period < u /\ u =< at /\ Fires(list[i], u + off)} \cup {Nil}
    BY AdjacentTimeIsAdjacent DEF time
  <2>2. \A u \in at - Period + 1 .. at :
                   Fires(list[i], u + off) => time(i) # Nil /\ time(i) >= u
    BY AdjacentTimeIsAdjacent DEF time
  <2> QED  BY <1>1, <2>1, <2>2
<1>4. CASE \A i \in DOMAIN list : list[i].action \in actions => time(i) = Nil
  <2>1. f = Nil
    BY <1>4 DEF findNearestEvent
  <2> HIDE DEF f, time
  <2>2. \A u \in at - Period + 1 .. at : ~FiresAt(list, off, actions, u)
    BY <1>3, <1>4 DEF FiresAt
  <2> QED  BY <2>1, <2>2 DEF f
<1>5. CASE \E i \in DOMAIN list : list[i].action \in actions /\ time(i) # Nil
  <2>1. PICK k \in DOMAIN list :
           /\ list[k].action \in actions /\ time(k) # Nil
           /\ f = [type |-> list[k].action, time |-> time(k)]
           /\ \A j \in DOMAIN list : list[j].action \in actions /\ time(j) # Nil
                 => ~ eventIsNearer(time(j), time(k), "previous")
    BY <1>5, NearestEventIsNearest
  <2> HIDE DEF f, time
  <2>2. f.type = list[k].action /\ f.time = time(k)
    BY <2>1
  <2>3. time(k) \in at - Period + 1 .. at /\ Fires(list[k], time(k) + off)
    BY <1>3, <2>1
  <2>4. f # Nil
    <3>1. f \in ScheduledEvent
      BY <1>1, <1>2, <2>1, <2>3 DEF ScheduledEvent
    <3> QED  BY <3>1, NilIsNoEvent
  <2>5. FiresAt(list, off, {f.type}, f.time)
    BY <2>2, <2>3 DEF FiresAt
  <2>6. ASSUME NEW u \in f.time + 1 .. at, FiresAt(list, off, actions, u) PROVE FALSE
    <3>1. PICK j \in DOMAIN list : list[j].action \in actions /\ Fires(list[j], u + off)
      BY <2>6 DEF FiresAt
    <3>2. u \in at - Period + 1 .. at /\ u > time(k) /\ time(k) \in Int
      BY <1>1, <2>2, <2>3
    <3>3. time(j) # Nil /\ time(j) >= u /\ time(j) \in Int
      BY <1>1, <1>3, <3>1, <3>2
    <3>4. ~ (time(j) > time(k))
      BY <2>1, <3>1, <3>3 DEF eventIsNearer
    <3> QED  BY <3>2, <3>3, <3>4
  <2> QED  BY <1>2, <2>1, <2>2, <2>3, <2>4, <2>5, <2>6 DEF f
<1> QED  BY <1>4, <1>5

\* The first firing of the cycle after an instant.
LEMMA NearestNext ==
    ASSUME NEW list \in Seq(EventSpec), NEW at \in Int, NEW off \in Int, NEW actions
    PROVE  LET f == findNearestEvent(list, at, off, "next", actions)
           IN  \/ /\ f = Nil
                  /\ \A u \in at + 1 .. at + Period : ~FiresAt(list, off, actions, u)
               \/ /\ f # Nil /\ f.type \in {"start", "stop"} \cap actions
                  /\ f.time \in at + 1 .. at + Period
                  /\ FiresAt(list, off, {f.type}, f.time)
                  /\ \A u \in at + 1 .. f.time - 1 : ~FiresAt(list, off, actions, u)
<1> DEFINE f == findNearestEvent(list, at, off, "next", actions)
           time(i) == AdjacentTime(list, i, at, off, "next")
<1>1. Period \in Nat \ {0}
  BY PeriodAssumption
<1>2. \A i \in DOMAIN list : list[i].action \in {"start", "stop"}
  BY ActionType
<1>3. ASSUME NEW i \in DOMAIN list
      PROVE  /\ time(i) # Nil => /\ time(i) \in at + 1 .. at + Period
                                 /\ Fires(list[i], time(i) + off)
             /\ \A u \in at + 1 .. at + Period :
                   Fires(list[i], u + off) => time(i) # Nil /\ time(i) =< u
  <2> HIDE DEF time
  <2>1. time(i) \in {u \in Int : at < u /\ u =< at + Period /\ Fires(list[i], u + off)} \cup {Nil}
    BY AdjacentTimeIsAdjacent DEF time
  <2>2. \A u \in at + 1 .. at + Period :
                   Fires(list[i], u + off) => time(i) # Nil /\ time(i) =< u
    BY AdjacentTimeIsAdjacent DEF time
  <2> QED  BY <1>1, <2>1, <2>2
<1>4. CASE \A i \in DOMAIN list : list[i].action \in actions => time(i) = Nil
  <2>1. f = Nil
    BY <1>4 DEF findNearestEvent
  <2> HIDE DEF f, time
  <2>2. \A u \in at + 1 .. at + Period : ~FiresAt(list, off, actions, u)
    BY <1>3, <1>4 DEF FiresAt
  <2> QED  BY <2>1, <2>2 DEF f
<1>5. CASE \E i \in DOMAIN list : list[i].action \in actions /\ time(i) # Nil
  <2>1. PICK k \in DOMAIN list :
           /\ list[k].action \in actions /\ time(k) # Nil
           /\ f = [type |-> list[k].action, time |-> time(k)]
           /\ \A j \in DOMAIN list : list[j].action \in actions /\ time(j) # Nil
                 => ~ eventIsNearer(time(j), time(k), "next")
    BY <1>5, NearestEventIsNearest
  <2> HIDE DEF f, time
  <2>2. f.type = list[k].action /\ f.time = time(k)
    BY <2>1
  <2>3. time(k) \in at + 1 .. at + Period /\ Fires(list[k], time(k) + off)
    BY <1>3, <2>1
  <2>4. f # Nil
    <3>1. f \in ScheduledEvent
      BY <1>1, <1>2, <2>1, <2>3 DEF ScheduledEvent
    <3> QED  BY <3>1, NilIsNoEvent
  <2>5. FiresAt(list, off, {f.type}, f.time)
    BY <2>2, <2>3 DEF FiresAt
  <2>6. ASSUME NEW u \in at + 1 .. f.time - 1, FiresAt(list, off, actions, u) PROVE FALSE
    <3>1. PICK j \in DOMAIN list : list[j].action \in actions /\ Fires(list[j], u + off)
      BY <2>6 DEF FiresAt
    <3>2. u \in at + 1 .. at + Period /\ u < time(k) /\ time(k) \in Int
      BY <1>1, <2>2, <2>3
    <3>3. time(j) # Nil /\ time(j) =< u /\ time(j) \in Int
      BY <1>1, <1>3, <3>1, <3>2
    <3>4. ~ (time(j) < time(k))
      BY <2>1, <3>1, <3>3 DEF eventIsNearer
    <3> QED  BY <3>2, <3>3, <3>4
  <2> QED  BY <1>2, <2>1, <2>2, <2>3, <2>4, <2>5, <2>6 DEF f
<1> QED  BY <1>4, <1>5

-----------------------------------------------------------------------------
(* Schedules repeat themselves.                                            *)

\* Whole cycles do not change the place within the cycle.
LEMMA Cycles ==
    ASSUME NEW a \in Int, NEW n \in Nat \ {0}, NEW k \in Int
    PROVE  (a + n * k) % n = a % n
<1> DEFINE q == a \div n
           r == a % n
<1>1. q \in Int /\ r \in 0 .. n - 1 /\ a = n * q + r
  OBVIOUS
<1> HIDE DEF q, r
<1>2. a + n * k = (q + k) * n + r
  BY <1>1
<1>3. ((q + k) * n + r) % n = r
  BY <1>1
<1> QED  BY <1>2, <1>3 DEF r

\* An event fires again after a cycle, and somewhere in the first cycle.
LEMMA FiresAgain ==
    ASSUME NEW event, NEW u \in Int, NEW off \in Int
    PROVE  /\ Fires(event, u + Period + off) <=> Fires(event, u + off)
           /\ \E v \in 1 .. Period : \A e : Fires(e, v + off) <=> Fires(e, u + off)
<1>1. Period \in Nat \ {0}
  BY PeriodAssumption
<1>2. (u + Period + off) % Period = (u + off) % Period
  <2> DEFINE a == u + off
  <2>1. a \in Int /\ 1 \in Int
    OBVIOUS
  <2>2. a + Period * 1 = u + Period + off
    BY <1>1
  <2> HIDE DEF a
  <2>3. (a + Period * 1) % Period = a % Period
    BY ONLY <1>1, <2>1, Cycles, Zenon
  <2> QED  BY <2>2, <2>3 DEF a
<1>3. PICK v \in 1 .. Period : (v + off) % Period = (u + off) % Period
  <2> DEFINE k == (u - 1) \div Period
             v == u - Period * k
  <2>1. k \in Int /\ v \in 1 .. Period
    BY <1>1
  <2> HIDE DEF k
  <2> DEFINE a == v + off
  <2>2. a \in Int
    BY <2>1
  <2>3. a + Period * k = u + off
    BY <1>1, <2>1
  <2> HIDE DEF a
  <2>4. (a + Period * k) % Period = a % Period
    BY ONLY <1>1, <2>1, <2>2, Cycles, Zenon
  <2> QED  BY <2>1, <2>3, <2>4 DEF a
<1> QED  BY <1>2, <1>3 DEF Fires

\* What fires now is what fires.
LEMMA FiringIsFiring ==
    ASSUME NEW u
    PROVE  /\ \A actions : FiresAt(events, offset, actions, u)
                              <=> \E a \in actions : a \in Firing(u)
           /\ events \in Seq(EventSpec) => Firing(u) \subseteq {"start", "stop"}
  BY ActionType DEF FiresAt, Firing

\* A start and a stop fire at once.
Together(u) == "start" \in Firing(u) /\ "stop" \in Firing(u)

\* One cycle without a clash is enough.
LEMMA NoClash ==
    ASSUME events \in Seq(EventSpec), offset \in Int, NeverClashes, NEW u \in Int
    PROVE  ~Together(u)
<1> SUFFICES ASSUME Together(u) PROVE FALSE
  OBVIOUS
<1>1. PICK v \in 1 .. Period : \A e : Fires(e, v + offset) <=> Fires(e, u + offset)
  BY FiresAgain
<1>2. Firing(v) = Firing(u)
  BY <1>1 DEF Firing
<1>3. Firing(v) = {"start"} \cup {"stop"}
  BY <1>2, FiringIsFiring DEF Together
<1>4. IsFiniteSet({"start"}) /\ Cardinality({"start"}) = 1
  BY FS_Singleton
<1>5. Cardinality(Firing(v)) = 2
  <2>1. "stop" \notin {"start"}
    OBVIOUS
  <2>2. Cardinality({"start"} \cup {"stop"}) = Cardinality({"start"}) + 1
    BY <1>4, <2>1, FS_AddElement, Zenon
  <2> QED  BY <1>3, <1>4, <2>2
<1> QED  BY <1>5 DEF NeverClashes
-----------------------------------------------------------------------------
(* What the clock remembers.                                               *)

\* No stop has fired since lastStop.
LastStopTold ==
    /\ lastStop # Nil => lastStop \in 1 .. now /\ FiresAt(events, offset, {"stop"}, lastStop)
    /\ \A u \in 1 .. now : FiresAt(events, offset, {"stop"}, u)
          => lastStop # Nil /\ u <= lastStop

\* Every start that was seen is over, or belongs to the period under way.
PeriodTold ==
    /\ running => /\ periodStart \in 1 .. now /\ FiresAt(events, offset, {"start"}, periodStart)
                  /\ lastStop = Nil \/ lastStop < periodStart
    /\ \A u \in 1 .. now : FiresAt(events, offset, {"start"}, u) =>
          \/ lastStop # Nil /\ u <= lastStop
          \/ running /\ periodStart <= u

IInv ==
    /\ events \in Seq(EventSpec) /\ offset \in Int /\ now \in Nat /\ running \in BOOLEAN
    /\ LastStopTold
    /\ NeverClashes => PeriodTold

\* Before the first tick nothing has fired.
LEMMA InitIInv == Init => IInv
<1> SUFFICES ASSUME Init PROVE IInv
  OBVIOUS
<1>1. events \in Seq(EventSpec) /\ offset \in Int /\ now = 0
  BY ScheduleAssumption DEF Init
<1>2. 1 .. now = {} /\ lastStop = Nil /\ running = FALSE
  BY <1>1 DEF Init
<1>3. LastStopTold
  BY <1>2 DEF LastStopTold
<1>4. PeriodTold
  BY <1>2 DEF PeriodTold
<1> QED  BY <1>1, <1>2, <1>3, <1>4 DEF IInv

\* A tick adds one instant.
LEMMA StepIInv ==
    ASSUME IInv, [Next]_vars
    PROVE  IInv'
<1>1. CASE UNCHANGED vars
  BY <1>1 DEF vars, IInv, LastStopTold, PeriodTold, NeverClashes, Firing
<1>2. CASE Done
  BY <1>1, <1>2 DEF Done
<1>3. CASE Tick
  <2> DEFINE n == now + 1
             Stop(u)  == FiresAt(events, offset, {"stop"}, u)
             Start(u) == FiresAt(events, offset, {"start"}, u)
  <2>1. events' = events /\ offset' = offset /\ now' = n
    BY <1>3 DEF Tick
  <2>2. NeverClashes' <=> NeverClashes
    BY <2>1 DEF Firing, NeverClashes
  <2>3. ("stop" \in Firing(n) <=> Stop(n)) /\ ("start" \in Firing(n) <=> Start(n))
    BY FiringIsFiring
  <2>4. /\ Stop(n) => lastStop' = n /\ (~Start(n) => running' = FALSE)
        /\ ~Stop(n) => lastStop' = lastStop
        /\ Start(n) /\ ~Stop(n) =>
              /\ running' = TRUE
              /\ periodStart' = IF running THEN periodStart ELSE n
        /\ ~Start(n) /\ ~Stop(n) => running' = running /\ periodStart' = periodStart
        /\ running' \in BOOLEAN
    <3>1. running \in BOOLEAN /\ Firing(n) \subseteq {"start", "stop"}
      BY FiringIsFiring DEF IInv
    <3>2. CASE Firing(n) = {}
      BY <1>3, <2>3, <3>1, <3>2 DEF Tick
    <3>3. CASE "stop" \in Firing(n)
      BY <1>3, <2>3, <3>1, <3>3 DEF Tick
    <3>4. CASE "start" \in Firing(n) /\ "stop" \notin Firing(n)
      BY <1>3, <2>3, <3>1, <3>4 DEF Tick
    <3> QED  BY <3>1, <3>2, <3>3, <3>4
  <2>5. /\ now \in Nat /\ n \in Nat /\ Nil # n /\ n \in 1 .. n /\ LastStopTold
        /\ \A u \in 1 .. n : u \in 1 .. now \/ u = n
        /\ \A u \in 1 .. now : u \in 1 .. n /\ u <= n /\ u < n
        /\ \A u \in 1 .. n : u <= n
    BY NilAssumption DEF IInv
  <2> HIDE DEF n, Stop, Start
  <2>6. LastStopTold'
    <3>1. LastStopTold' <=>
            /\ lastStop' # Nil => lastStop' \in 1 .. n /\ Stop(lastStop')
            /\ \A u \in 1 .. n : Stop(u) => lastStop' # Nil /\ u <= lastStop'
      BY <2>1 DEF LastStopTold, Stop
    <3>2. CASE Stop(n)
      BY <2>4, <2>5, <3>1, <3>2
    <3>3. CASE ~Stop(n)
      <4>1. lastStop # Nil => lastStop \in 1 .. now /\ Stop(lastStop)
        BY <2>5 DEF LastStopTold, Stop
      <4>2. \A u \in 1 .. now : Stop(u) => lastStop # Nil /\ u <= lastStop
        BY <2>5 DEF LastStopTold, Stop
      <4> QED  BY <2>4, <2>5, <3>1, <3>3, <4>1, <4>2
    <3> QED  BY <3>2, <3>3
  <2>7. ASSUME NeverClashes PROVE PeriodTold'
    <3>1. PeriodTold' <=>
            /\ running' => /\ periodStart' \in 1 .. n /\ Start(periodStart')
                           /\ lastStop' = Nil \/ lastStop' < periodStart'
            /\ \A u \in 1 .. n : Start(u) =>
                  \/ lastStop' # Nil /\ u <= lastStop'
                  \/ running' /\ periodStart' <= u
      BY <2>1 DEF PeriodTold, Start
    <3>2. /\ running => /\ periodStart \in 1 .. now /\ Start(periodStart)
                        /\ lastStop = Nil \/ lastStop < periodStart
          /\ \A u \in 1 .. now : Start(u) =>
                \/ lastStop # Nil /\ u <= lastStop
                \/ running /\ periodStart <= u
      BY <2>7 DEF IInv, PeriodTold, Start
    <3>3. ~ (Start(n) /\ Stop(n))
      BY <2>3, <2>5, <2>7, NoClash DEF IInv, Together
    <3>4. lastStop # Nil => lastStop \in 1 .. now
      BY <2>5 DEF LastStopTold
    <3>5. CASE Stop(n)
      <4>1. lastStop' = n /\ running' = FALSE
        BY <2>4, <3>3, <3>5
      <4> QED  BY <2>5, <3>1, <4>1
    <3>6. CASE Start(n) /\ running
      <4>1. lastStop' = lastStop /\ running' = TRUE /\ periodStart' = periodStart
        BY <2>4, <3>3, <3>6
      <4>2. periodStart <= n
        BY <2>5, <3>2, <3>6
      <4> QED  BY <2>5, <3>1, <3>2, <3>6, <4>1, <4>2
    <3>7. CASE Start(n) /\ ~running
      <4>1. lastStop' = lastStop /\ running' = TRUE /\ periodStart' = n
        BY <2>4, <3>3, <3>7
      <4>2. lastStop = Nil \/ lastStop < n
        BY <2>5, <3>4
      <4> QED  BY <2>5, <3>1, <3>2, <3>7, <4>1, <4>2
    <3>8. CASE ~Start(n) /\ ~Stop(n)
      <4>1. lastStop' = lastStop /\ running' = running /\ periodStart' = periodStart
        BY <2>4, <3>8
      <4> QED  BY <2>5, <3>1, <3>2, <3>8, <4>1
    <3> QED  BY <3>5, <3>6, <3>7, <3>8
  <2> QED  BY <2>1, <2>2, <2>4, <2>5, <2>6, <2>7 DEF IInv
<1> QED  BY <1>1, <1>2, <1>3 DEF Next

\* IInv is an invariant of the clock.
LEMMA IInvHolds == Spec => []IInv
<1>1. IInv /\ [Next]_vars => IInv'
  BY StepIInv
<1> QED  BY InitIInv, <1>1, PTL DEF Spec
-----------------------------------------------------------------------------
(* The search finds it.                                                    *)

\* What fires once fires again one cycle later.
LEMMA OneCycleLater ==
    ASSUME NEW u \in Int, offset \in Int, NEW actions
    PROVE  FiresAt(events, offset, actions, u)
              => FiresAt(events, offset, actions, u + Period)
BY FiresAgain DEF FiresAt

\* The search back finds the last stop: were it outside the search's window,
\* it would have fired again since.
LEMMA LastStopFound ==
    ASSUME IInv, Settled
    PROVE  /\ findMostRecentStopTime(events, now, offset) = lastStop
           /\ lastStop # Nil => lastStop \in now - Period + 1 .. now
<1> DEFINE f == findNearestEvent(events, now, offset, "previous", {"stop"})
           Stop(u) == FiresAt(events, offset, {"stop"}, u)
<1>1. /\ Period \in Nat \ {0} /\ now \in Nat /\ now >= 2 * Period /\ Nil \notin Int
      /\ events \in Seq(EventSpec) /\ offset \in Int
  BY PeriodAssumption, NilAssumption DEF IInv, Settled
<1>2. /\ lastStop # Nil => lastStop \in 1 .. now /\ Stop(lastStop)
      /\ \A u \in 1 .. now : Stop(u) => lastStop # Nil /\ u <= lastStop
  BY DEF IInv, LastStopTold
<1>3. findMostRecentStopTime(events, now, offset) = IF f = Nil THEN Nil ELSE f.time
  BY DEF findMostRecentStopTime, TimeOf
<1>4. \/ f = Nil /\ \A u \in now - Period + 1 .. now : ~Stop(u)
      \/ /\ f # Nil /\ f.time \in now - Period + 1 .. now /\ Stop(f.time)
         /\ \A u \in f.time + 1 .. now : ~Stop(u)
  <2>1. now \in Int
    BY <1>1
  <2>2. \/ f = Nil /\ \A u \in now - Period + 1 .. now : ~Stop(u)
        \/ /\ f # Nil /\ f.type \in {"start", "stop"} \cap {"stop"}
           /\ f.time \in now - Period + 1 .. now
           /\ FiresAt(events, offset, {f.type}, f.time)
           /\ \A u \in f.time + 1 .. now : ~Stop(u)
    BY <1>1, <2>1, NearestPrevious, Zenon
  <2> HIDE DEF f
  <2>3. f.type \in {"start", "stop"} \cap {"stop"} => f.type = "stop"
    OBVIOUS
  <2> QED  BY <2>2, <2>3
<1> HIDE DEF f
<1>5. CASE f = Nil
  <2>1. \A u \in now - Period + 1 .. now : ~Stop(u)
    BY <1>4, <1>5
  <2>2. SUFFICES ASSUME lastStop # Nil PROVE FALSE
    BY <1>3, <1>5
  <2>3. lastStop \in 1 .. now /\ Stop(lastStop)
    BY <1>2, <2>2
  <2>4. Stop(lastStop + Period)
    BY <1>1, <2>3, OneCycleLater
  <2> HIDE DEF Stop
  <2>5. lastStop <= now - Period
    BY <1>1, <2>1, <2>3
  <2>6. lastStop + Period \in 1 .. now /\ lastStop + Period > lastStop
    BY <1>1, <2>3, <2>5
  <2> QED  BY <1>2, <2>4, <2>6
<1>6. CASE f # Nil
  <2>1. /\ f.time \in now - Period + 1 .. now /\ Stop(f.time)
        /\ \A u \in f.time + 1 .. now : ~Stop(u)
    BY <1>4, <1>6, Zenon
  <2> HIDE DEF Stop
  <2>2. f.time \in 1 .. now
    BY <1>1, <2>1
  <2>3. lastStop # Nil /\ lastStop \in 1 .. now /\ Stop(lastStop) /\ f.time <= lastStop
    BY <1>2, <2>1, <2>2
  <2>4. f.time = lastStop
    BY <1>1, <2>1, <2>2, <2>3
  <2> QED  BY <1>3, <1>6, <2>1, <2>4
<1> QED  BY <1>5, <1>6

\* The last event of either kind is one the clock has seen.
LEMMA LastEventFound ==
    ASSUME IInv, Settled
    PROVE  LET f == findNearestEvent(events, now, offset, "previous", {"start", "stop"})
           IN  \/ /\ f = Nil
                  /\ \A u \in now - Period + 1 .. now :
                        /\ ~FiresAt(events, offset, {"start"}, u)
                        /\ ~FiresAt(events, offset, {"stop"}, u)
               \/ /\ f # Nil /\ f.type \in {"start", "stop"} /\ f.time \in 1 .. now
                  /\ FiresAt(events, offset, {f.type}, f.time)
                  /\ \A u \in f.time + 1 .. now :
                        /\ ~FiresAt(events, offset, {"start"}, u)
                        /\ ~FiresAt(events, offset, {"stop"}, u)
<1>1. /\ Period \in Nat \ {0} /\ now \in Nat /\ now >= 2 * Period
      /\ events \in Seq(EventSpec) /\ offset \in Int
  BY PeriodAssumption DEF IInv, Settled
<1>2. \A u : ~FiresAt(events, offset, {"start", "stop"}, u) =>
                ~FiresAt(events, offset, {"start"}, u) /\ ~FiresAt(events, offset, {"stop"}, u)
  BY DEF FiresAt
<1>3. now - Period + 1 .. now \subseteq 1 .. now
  BY <1>1
<1> DEFINE f == findNearestEvent(events, now, offset, "previous", {"start", "stop"})
<1>4. \/ /\ f = Nil
         /\ \A u \in now - Period + 1 .. now : ~FiresAt(events, offset, {"start", "stop"}, u)
      \/ /\ f # Nil /\ f.type \in {"start", "stop"} \cap {"start", "stop"}
         /\ f.time \in now - Period + 1 .. now
         /\ FiresAt(events, offset, {f.type}, f.time)
         /\ \A u \in f.time + 1 .. now : ~FiresAt(events, offset, {"start", "stop"}, u)
  <2>1. now \in Int
    BY <1>1
  <2> QED  BY <1>1, <2>1, NearestPrevious, Zenon
<1> HIDE DEF f
<1> QED  BY <1>2, <1>3, <1>4 DEF f

(***************************************************************************)
(* The first start after the last stop is at most now if and only if a run *)
(* period is under way, and is then the instant at which it began.         *)
(***************************************************************************)
LEMMA PeriodFound ==
    ASSUME IInv, Settled, NeverClashes
    PROVE  LET start == findStartOfCurrentRunPeriod(events, now, offset)
           IN  /\ ~running /\ start # Nil => start > now
               /\ running /\ lastStop # Nil => start = periodStart
<1> DEFINE start == findStartOfCurrentRunPeriod(events, now, offset)
           f == findNearestEvent(events, lastStop, offset, "next", {"start"})
           Start(u) == FiresAt(events, offset, {"start"}, u)
<1>1. /\ Period \in Nat \ {0} /\ now \in Nat /\ Nil \notin Int
      /\ events \in Seq(EventSpec) /\ offset \in Int
  BY PeriodAssumption, NilAssumption DEF IInv
<1>2. /\ running => /\ periodStart \in 1 .. now /\ Start(periodStart)
                    /\ lastStop = Nil \/ lastStop < periodStart
      /\ \A u \in 1 .. now : Start(u) =>
            \/ lastStop # Nil /\ u <= lastStop
            \/ running /\ periodStart <= u
  BY DEF IInv, PeriodTold
<1>3. /\ start = IF lastStop = Nil \/ f = Nil THEN Nil ELSE f.time
      /\ lastStop # Nil => lastStop \in now - Period + 1 .. now /\ lastStop \in 1 .. now
  <2>1. /\ findMostRecentStopTime(events, now, offset) = lastStop
        /\ lastStop # Nil => lastStop \in now - Period + 1 .. now
    BY LastStopFound
  <2>2. lastStop # Nil => lastStop \in 1 .. now
    BY DEF IInv, LastStopTold
  <2> QED  BY <2>1, <2>2 DEF findStartOfCurrentRunPeriod, TimeOf
<1>4. CASE lastStop = Nil
  BY <1>3, <1>4
<1>5. CASE lastStop # Nil
  <2>0. lastStop \in Int
    BY <1>3, <1>5
  <2>1. \/ f = Nil /\ \A u \in lastStop + 1 .. lastStop + Period : ~Start(u)
        \/ /\ f # Nil /\ f.type \in {"start", "stop"} \cap {"start"}
           /\ f.time \in lastStop + 1 .. lastStop + Period
           /\ FiresAt(events, offset, {f.type}, f.time)
           /\ \A u \in lastStop + 1 .. f.time - 1 : ~Start(u)
    BY <1>1, <2>0, NearestNext, Zenon
  <2>2. \/ f = Nil /\ \A u \in lastStop + 1 .. lastStop + Period : ~Start(u)
        \/ /\ f # Nil /\ f.time \in lastStop + 1 .. lastStop + Period /\ Start(f.time)
           /\ \A u \in lastStop + 1 .. f.time - 1 : ~Start(u)
    <3> HIDE DEF f
    <3>1. f.type \in {"start", "stop"} \cap {"start"} => f.type = "start"
      OBVIOUS
    <3> QED  BY <2>1, <3>1
  <2> HIDE DEF f, Start, start
  <2>3. ASSUME ~running, start # Nil PROVE start > now
    <3>1. start = f.time /\ Start(start) /\ start \in Int /\ start > lastStop
      BY <1>1, <1>3, <1>5, <2>2, <2>3
    <3>2. start \notin 1 .. now
      BY <1>1, <1>2, <1>3, <1>5, <2>3, <3>1
    <3> QED  BY <1>1, <1>3, <1>5, <3>1, <3>2
  <2>4. ASSUME running PROVE start = periodStart
    <3>1. periodStart \in lastStop + 1 .. lastStop + Period /\ Start(periodStart)
      BY <1>1, <1>2, <1>3, <1>5, <2>4
    <3>2. /\ f # Nil /\ start = f.time /\ start \in lastStop + 1 .. lastStop + Period
          /\ Start(start) /\ \A u \in lastStop + 1 .. start - 1 : ~Start(u)
      BY <1>3, <1>5, <2>2, <3>1
    <3>3. start <= periodStart
      BY <1>1, <1>3, <1>5, <3>1, <3>2
    <3>4. start \in 1 .. now /\ start > lastStop
      BY <1>1, <1>2, <1>3, <1>5, <2>4, <3>2, <3>3
    <3>5. periodStart <= start
      BY <1>1, <1>2, <1>3, <1>5, <3>2, <3>4
    <3> QED  BY <1>1, <1>3, <1>5, <3>1, <3>2, <3>3, <3>5
  <2> QED  BY <1>5, <2>3, <2>4 DEF start
<1> QED  BY <1>4, <1>5
(***************************************************************************)
(* The stop that expires Jobs is the last one that fired, whatever the     *)
(* events are (findMostRecentStopTime).                                    *)
(***************************************************************************)
THEOREM LastStopMatches == Spec => []LastStopIsRemembered
<1>1. IInv => LastStopIsRemembered
  <2> SUFFICES ASSUME IInv, Settled PROVE State.lastStopTime = lastStop
    BY DEF LastStopIsRemembered
  <2> QED  BY LastStopFound DEF State, StateFor
<1> QED  BY IInvHolds, <1>1, PTL

(***************************************************************************)
(* Inside a run period the search says so and finds the instant at which   *)
(* it began, however often a start fires again (findStartOfCurrentRunPeriod*)
(* and State.ShouldBeRunning), for events that do not clash.               *)
(***************************************************************************)
THEOREM StartMatches == Spec => []StartIsTheTransition
<1>1. IInv => StartIsTheTransition
  <2> SUFFICES ASSUME IInv, Settled, NeverClashes, Supported, running
               PROVE  State.shouldBeRunning /\ State.startOfCurrentRunPeriod = periodStart
    BY DEF StartIsTheTransition
  <2> DEFINE f == findNearestEvent(events, now, offset, "previous", {"start", "stop"})
             Start(u) == FiresAt(events, offset, {"start"}, u)
             Stop(u)  == FiresAt(events, offset, {"stop"}, u)
  <2>1. /\ now \in Nat /\ periodStart \in 1 .. now /\ Start(periodStart)
        /\ lastStop = Nil \/ lastStop < periodStart
        /\ \A u \in 1 .. now : Stop(u) => lastStop # Nil /\ u <= lastStop
    BY DEF IInv, PeriodTold, LastStopTold
  <2>2. /\ lastStop # Nil /\ lastStop \in now - Period + 1 .. now /\ lastStop \in 1 .. now
        /\ Stop(lastStop)
    <3>1. HasStartEvent(events)
      BY <2>1 DEF HasStartEvent, FiresAt
    <3>2. lastStop # Nil
      BY <3>1, LastStopFound DEF Supported, ScheduleError
    <3> QED  BY <3>2, LastStopFound DEF IInv, LastStopTold
  <2>3. State.startOfCurrentRunPeriod = periodStart
    BY <2>2, PeriodFound DEF State, StateFor
  <2>4. \/ f = Nil /\ \A u \in now - Period + 1 .. now : ~Start(u) /\ ~Stop(u)
        \/ /\ f # Nil /\ f.type \in {"start", "stop"} /\ f.time \in 1 .. now
           /\ FiresAt(events, offset, {f.type}, f.time)
           /\ \A u \in f.time + 1 .. now : ~Start(u) /\ ~Stop(u)
    BY LastEventFound
  <2>5. State.shouldBeRunning <=> f # Nil /\ f.type = "start"
    BY DEF State, StateFor
  <2>6. f.type = "stop" => (FiresAt(events, offset, {f.type}, f.time) <=> Stop(f.time))
    OBVIOUS
  <2> HIDE DEF f, Start, Stop
  <2>7. f # Nil
    BY <2>2, <2>4
  <2>8. ASSUME f.type = "stop" PROVE FALSE
    <3>1. f.time \in 1 .. now /\ Stop(f.time) /\ \A u \in f.time + 1 .. now : ~Start(u)
      BY <2>4, <2>6, <2>7, <2>8
    <3>2. f.time < periodStart
      BY <2>1, <2>2, <3>1
    <3> QED  BY <2>1, <3>1, <3>2
  <2> QED  BY <2>3, <2>4, <2>5, <2>7, <2>8
<1> QED  BY IInvHolds, <1>1, PTL

(***************************************************************************)
(* Outside a run period the search says so, and never names a period that  *)
(* has begun: no Job can be made for one that is over (State.ShouldBeRun-  *)
(* ning, findStartOfCurrentRunPeriod).                                     *)
(***************************************************************************)
THEOREM StopMatches == Spec => []StoppedNamesNoPastPeriod
<1>1. IInv => StoppedNamesNoPastPeriod
  <2> SUFFICES ASSUME IInv, Settled, NeverClashes, ~running
               PROVE  /\ ~State.shouldBeRunning
                      /\ State.startOfCurrentRunPeriod # Nil
                            => State.startOfCurrentRunPeriod > now
    BY DEF StoppedNamesNoPastPeriod
  <2> DEFINE f == findNearestEvent(events, now, offset, "previous", {"start", "stop"})
             Start(u) == FiresAt(events, offset, {"start"}, u)
             Stop(u)  == FiresAt(events, offset, {"stop"}, u)
  <2>1. /\ now \in Nat
        /\ \A u \in 1 .. now : Start(u) => lastStop # Nil /\ u <= lastStop
        /\ lastStop # Nil => lastStop \in 1 .. now /\ Stop(lastStop)
    BY DEF IInv, PeriodTold, LastStopTold
  <2>2. State.startOfCurrentRunPeriod # Nil => State.startOfCurrentRunPeriod > now
    BY PeriodFound DEF State, StateFor
  <2>3. \/ f = Nil
        \/ /\ f.time \in 1 .. now
           /\ FiresAt(events, offset, {f.type}, f.time)
           /\ \A u \in f.time + 1 .. now : ~Start(u) /\ ~Stop(u)
    BY LastEventFound
  <2>4. State.shouldBeRunning <=> f # Nil /\ f.type = "start"
    BY DEF State, StateFor
  <2>5. f.type = "start" => (FiresAt(events, offset, {f.type}, f.time) <=> Start(f.time))
    OBVIOUS
  <2>6. \A u \in 1 .. now : ~ (Start(u) /\ Stop(u))
    <3>1. \A u \in Int : ~Together(u)
      BY NoClash DEF IInv
    <3>2. \A u \in 1 .. now : ~Together(u)
      BY <2>1, <3>1
    <3> QED  BY <3>2, FiringIsFiring DEF Together
  <2> HIDE DEF f, Start, Stop
  <2>7. ASSUME f # Nil, f.type = "start" PROVE FALSE
    <3>1. f.time \in 1 .. now /\ Start(f.time) /\ \A u \in f.time + 1 .. now : ~Stop(u)
      BY <2>3, <2>5, <2>7
    <3>2. lastStop \in 1 .. now /\ Stop(lastStop) /\ f.time <= lastStop
      BY <2>1, <3>1
    <3>3. lastStop = f.time
      BY <2>1, <3>1, <3>2
    <3> QED  BY <2>6, <3>1, <3>2, <3>3
  <2> QED  BY <2>2, <2>4, <2>7
<1> QED  BY IInvHolds, <1>1, PTL

(***************************************************************************)
(* The wake-up the operator asks for (NextEventTime) is the next instant   *)
(* at which anything fires: none is slept through.                         *)
(***************************************************************************)
THEOREM WakeUpMatches == Spec => NoTransitionBeforeWakeUp
<1>1. IInv /\ [Next]_vars => [WakesInTime]_vars
  <2> SUFFICES ASSUME IInv, Tick, Settled,
                      <<running, periodStart, lastStop>>' # <<running, periodStart, lastStop>>
               PROVE  State.nextEventTime = now'
    BY DEF WakesInTime, Next, Done
  <2> DEFINE f == findNearestEvent(events, now, offset, "next", {"start", "stop"})
             Any(u) == FiresAt(events, offset, {"start", "stop"}, u)
  <2>1. /\ now \in Int /\ now' = now + 1 /\ Period \in Nat \ {0}
        /\ events \in Seq(EventSpec) /\ offset \in Int
    BY PeriodAssumption DEF IInv, Tick
  <2>2. Any(now + 1)
    <3>1. "start" \in Firing(now + 1) \/ "stop" \in Firing(now + 1)
      BY DEF Tick
    <3> QED  BY <3>1, FiringIsFiring
  <2>3. State.nextEventTime = IF f = Nil THEN Nil ELSE f.time
    BY DEF State, StateFor, TimeOf
  <2>4. \/ f = Nil /\ \A u \in now + 1 .. now + Period : ~Any(u)
        \/ /\ f # Nil /\ f.type \in {"start", "stop"} \cap {"start", "stop"}
           /\ f.time \in now + 1 .. now + Period
           /\ FiresAt(events, offset, {f.type}, f.time)
           /\ \A u \in now + 1 .. f.time - 1 : ~Any(u)
    BY <2>1, NearestNext, Zenon
  <2> HIDE DEF f, Any
  <2>5. now + 1 \in now + 1 .. now + Period
    BY <2>1
  <2>6. f # Nil /\ f.time \in now + 1 .. now + Period /\ \A u \in now + 1 .. f.time - 1 : ~Any(u)
    BY <2>2, <2>4, <2>5
  <2>7. f.time = now + 1
    BY <2>1, <2>2, <2>6
  <2> QED  BY <2>1, <2>3, <2>6, <2>7
<1> QED  BY IInvHolds, <1>1, PTL DEF Spec, NoTransitionBeforeWakeUp
=============================================================================
