-------------------------- MODULE StatusTypeProofs --------------------------
(***************************************************************************)
(* The history of actions for all names, actions and limits: what          *)
(* RecordEvent keeps, that it stays within its limit, that every start is  *)
(* its newest entry but for a repeated one; the types of the whole status; *)
(* and that the status settles, its history included.                      *)
(***************************************************************************)
EXTENDS StatusProofs

-----------------------------------------------------------------------------
(* The history.                                                            *)

Histories == {h \in Seq(Action) : Len(h) <= HistoryEntriesToKeep}

\* An action that repeats another is of its kind and Job.
LEMMA SameMeans ==
    ASSUME NEW existing \in Action, NEW proposed \in Action
    PROVE  isSameAction(existing, proposed) <=>
              existing.type = proposed.type /\ existing.job = proposed.job
BY DEF isSameAction, Action

\* An action at a time the clock can show is an entry.
LEMMA NewActionType ==
    ASSUME ClusterOK, NEW n \in Names, NEW type \in {"JobStarted", "JobStopped", "JobUnsuspended"}
    PROVE  newAction(type, n) \in Action
BY DEF newAction, Action, ClusterOK

\* An entry more is the newest one, and the oldest gives way to it, unless it
\* repeats the newest of before.
LEMMA EntryIsKept ==
    ASSUME NEW h \in Histories, NEW action \in Action
    PROVE  /\ addActionHistoryEntry(h, action) \in Histories
           /\ addActionHistoryEntry(h, action) # <<>>
           /\ \/ Head(addActionHistoryEntry(h, action)) = action
              \/ Repeats(h, action) /\ addActionHistoryEntry(h, action) = h
<1> DEFINE longer == <<action>> \o h
           k == Min({Len(h) + 1, HistoryEntriesToKeep})
<1>1. h \in Seq(Action) /\ Len(h) \in Nat /\ HistoryEntriesToKeep \in Nat \ {0}
  BY HistoryAssumption DEF Histories
<1>2. CASE Repeats(h, action)
  <2>1. addActionHistoryEntry(h, action) = h /\ h # <<>>
    BY <1>2 DEF addActionHistoryEntry, Repeats
  <2> QED  BY <1>2, <2>1
<1>3. CASE ~Repeats(h, action)
  <2>1. k \in {Len(h) + 1, HistoryEntriesToKeep} /\ k <= HistoryEntriesToKeep /\ k <= Len(h) + 1
    <3> DEFINE S == {Len(h) + 1, HistoryEntriesToKeep}
    <3>0. IsFiniteSet({Len(h) + 1}) /\ S = {Len(h) + 1} \cup {HistoryEntriesToKeep}
      BY FS_Singleton
    <3>1. IsFiniteSet(S) /\ S # {} /\ S \subseteq Int
      <4>1. S \subseteq Int /\ S # {}
        BY <1>1
      <4> HIDE DEF S
      <4> QED  BY <3>0, <4>1, FS_AddElement
    <3>2. Len(h) + 1 \in S /\ HistoryEntriesToKeep \in S
      OBVIOUS
    <3> HIDE DEF S
    <3>3. Min(S) \in S /\ \A x \in S : Min(S) <= x
      BY <3>1, MinOfIntegers
    <3> QED  BY <3>2, <3>3 DEF S
  <2>2. longer \in Seq(Action) /\ Len(longer) = Len(h) + 1 /\ longer[1] = action
    BY <1>1
  <2>3. k \in 1 .. Len(longer)
    BY <1>1, <2>1, <2>2
  <2> HIDE DEF longer, k
  <2>4. /\ SubSeq(longer, 1, k) \in Seq(Action)
        /\ Len(SubSeq(longer, 1, k)) = k
        /\ SubSeq(longer, 1, k)[1] = longer[1]
    BY <2>2, <2>3
  <2>5. addActionHistoryEntry(h, action) = SubSeq(longer, 1, k)
    BY <1>3 DEF addActionHistoryEntry, longer, k
  <2> QED  BY <2>1, <2>2, <2>3, <2>4, <2>5 DEF Histories
<1> QED  BY <1>2, <1>3

(***************************************************************************)
(* Told is recursive: that it exists is proved by the least number of      *)
(* names for which it would not.                                           *)
(***************************************************************************)
Recorded(g, h, type, names, i) ==
    IF i = 0 THEN h
    ELSE addActionHistoryEntry(g[i - 1], newAction(type, names[i]))

Records(g, h, type, names, k) ==
    g = [i \in 0 .. k |-> Recorded(g, h, type, names, i)]

LEMMA RecordsExist ==
    ASSUME NEW h, NEW type, NEW names
    PROVE  \A k \in Nat : \E g : Records(g, h, type, names, k)
<1> DEFINE Bad == {k \in Nat : ~ \E g : Records(g, h, type, names, k)}
<1>1. SUFFICES ASSUME Bad # {} PROVE FALSE
  OBVIOUS
<1>2. PICK k \in Bad : \A j \in Bad : k =< j
  <2>1. Bad \subseteq Nat
    OBVIOUS
  <2> HIDE DEF Bad
  <2> QED  BY <1>1, <2>1, LeastNatural
<1>3. k \in Nat /\ ~ \E g : Records(g, h, type, names, k)
  OBVIOUS
<1>4. CASE k = 0
  <2> DEFINE g == [i \in 0 .. 0 |-> h]
  <2>1. Records(g, h, type, names, 0)
    BY DEF Records, Recorded
  <2> QED  BY <1>3, <1>4, <2>1
<1>5. CASE k > 0
  <2>1. k - 1 \in Nat /\ k - 1 \notin Bad
    BY <1>2, <1>3, <1>5
  <2>2. PICK f : Records(f, h, type, names, k - 1)
    BY <2>1
  <2> HIDE DEF Bad
  <2> DEFINE g == [i \in 0 .. k |-> IF i = k THEN Recorded(f, h, type, names, k) ELSE f[i]]
  <2>3. ASSUME NEW i \in 0 .. k PROVE g[i] = Recorded(g, h, type, names, i)
    <3>1. i > 0 => i - 1 \in 0 .. k /\ i - 1 # k
      BY <1>3
    <3>2. i > 0 => g[i - 1] = f[i - 1]
      BY <3>1
    <3>3. Recorded(g, h, type, names, i) = Recorded(f, h, type, names, i)
      BY <1>3, <3>2 DEF Recorded
    <3>4. i # k => i \in 0 .. k - 1
      BY <1>3
    <3>5. i # k => f[i] = Recorded(f, h, type, names, i)
      BY <2>2, <3>4 DEF Records
    <3> QED  BY <3>3, <3>5
  <2>4. g = [i \in 0 .. k |-> g[i]]
    OBVIOUS
  <2> HIDE DEF g
  <2>5. Records(g, h, type, names, k)
    BY <2>3, <2>4 DEF Records
  <2> QED  BY <1>3, <2>5
<1> QED  BY <1>3, <1>4, <1>5

\* So Told does what its definition says.
LEMMA ToldUnfolds ==
    ASSUME NEW h, NEW type, NEW names, Len(names) \in Nat
    PROVE  \E g : /\ Records(g, h, type, names, Len(names))
                  /\ Told(h, type, names) = g[Len(names)]
<1> DEFINE Solves(g) ==
        g = [i \in 0 .. Len(names) |->
                IF i = 0 THEN h
                ELSE addActionHistoryEntry(g[i - 1], newAction(type, names[i]))]
<1>1. \A g : Solves(g) <=> Records(g, h, type, names, Len(names))
  BY DEF Records, Recorded
<1>2. \E g : Solves(g)
  <2> HIDE DEF Solves
  <2> QED  BY <1>1, RecordsExist
<1>3. Told(h, type, names) = (CHOOSE g : Solves(g))[Len(names)]
  BY DEF Told
<1> HIDE DEF Solves
<1>4. Solves(CHOOSE g : Solves(g))
  BY <1>2
<1> QED  BY <1>1, <1>3, <1>4

\* Whatever is told on the way is a history again.
LEMMA RecordsAreHistories ==
    ASSUME NEW h \in Histories, NEW type, NEW names, Len(names) \in Nat,
           \A i \in 1 .. Len(names) : newAction(type, names[i]) \in Action,
           NEW g, Records(g, h, type, names, Len(names))
    PROVE  \A i \in 0 .. Len(names) : g[i] \in Histories
<1> DEFINE Bad == {i \in Nat : i <= Len(names) /\ g[i] \notin Histories}
<1>2. SUFFICES ASSUME Bad # {} PROVE FALSE
  OBVIOUS
<1>3. PICK i \in Bad : \A j \in Bad : i =< j
  <2>1. Bad \subseteq Nat
    OBVIOUS
  <2> HIDE DEF Bad
  <2> QED  BY <1>2, <2>1, LeastNatural
<1>4. i \in Nat /\ i <= Len(names) /\ g[i] \notin Histories
  OBVIOUS
<1>5. g[i] = Recorded(g, h, type, names, i)
  <2>1. i \in 0 .. Len(names)
    BY <1>4
  <2> HIDE DEF Bad
  <2> QED  BY <2>1 DEF Records
<1>6. CASE i = 0
  BY <1>4, <1>5, <1>6 DEF Recorded
<1>7. CASE i > 0
  <2>1. i - 1 \in Nat /\ i - 1 <= Len(names) /\ ~(i =< i - 1)
    BY <1>4, <1>7
  <2>2. g[i - 1] \in Histories
    BY <1>3, <2>1
  <2>3. g[i] = addActionHistoryEntry(g[i - 1], newAction(type, names[i]))
    BY <1>5, <1>7 DEF Recorded
  <2>4. newAction(type, names[i]) \in Action
    BY <1>4, <1>7
  <2> QED  BY <1>4, <2>2, <2>3, <2>4, EntryIsKept
<1> QED  BY <1>4, <1>6, <1>7

\* So is what is told at the end.  No name leaves the history as it was; of some
\* names, the newest entry is of the kind that is told.
LEMMA ToldIsAHistory ==
    ASSUME NEW h \in Histories, NEW type, NEW names, Len(names) \in Nat,
           \A i \in 1 .. Len(names) : newAction(type, names[i]) \in Action
    PROVE  /\ Told(h, type, names) \in Histories
           /\ Len(names) = 0 => Told(h, type, names) = h
           /\ Len(names) > 0 => /\ Told(h, type, names) # <<>>
                                /\ Head(Told(h, type, names)).type = type
<1> DEFINE k == Len(names)
<1>1. PICK g : Records(g, h, type, names, k) /\ Told(h, type, names) = g[k]
  BY ToldUnfolds
<1>2. \A i \in 0 .. k : g[i] \in Histories
  BY <1>1, RecordsAreHistories
<1>3. k \in Nat /\ k \in 0 .. k
  OBVIOUS
<1> HIDE DEF k
<1>4. g[k] = Recorded(g, h, type, names, k)
  BY <1>1, <1>3 DEF Records
<1>5. k = 0 => g[k] = h
  BY <1>4 DEF Recorded
<1>6. ASSUME k > 0 PROVE g[k] # <<>> /\ Head(g[k]).type = type
  <2> DEFINE action == newAction(type, names[k])
  <2>1. g[k] = addActionHistoryEntry(g[k - 1], action)
    BY <1>4, <1>6 DEF Recorded
  <2>2. action \in Action /\ g[k - 1] \in Histories
    BY <1>2, <1>3, <1>6 DEF k
  <2>3. action.type = type
    BY DEF newAction
  <2> HIDE DEF action
  <2>4. /\ g[k] # <<>>
        /\ Head(g[k]) = action \/ (Repeats(g[k - 1], action) /\ g[k] = g[k - 1])
    BY <2>1, <2>2, EntryIsKept
  <2>5. ASSUME Repeats(g[k - 1], action) PROVE Head(g[k - 1]).type = type
    <3>1. Head(g[k - 1]) \in Action
      BY <2>2, <2>5 DEF Repeats, Histories
    <3> QED  BY <2>2, <2>3, <2>5, <3>1, SameMeans DEF Repeats
  <2> QED  BY <2>3, <2>4, <2>5
<1> QED  BY <1>1, <1>2, <1>3, <1>5, <1>6 DEF k

\* One name is one entry.
LEMMA ToldOnce ==
    ASSUME NEW h, NEW type, NEW names, Len(names) = 1
    PROVE  Told(h, type, names) = addActionHistoryEntry(h, newAction(type, names[1]))
<1>1. PICK g : Records(g, h, type, names, 1) /\ Told(h, type, names) = g[1]
  <2>1. Len(names) \in Nat
    OBVIOUS
  <2>2. \E g : /\ Records(g, h, type, names, Len(names))
               /\ Told(h, type, names) = g[Len(names)]
    BY <2>1, ToldUnfolds
  <2> QED  BY <2>2
<1>2. g[0] = h /\ g[1] = addActionHistoryEntry(g[0], newAction(type, names[1]))
  BY <1>1 DEF Records, Recorded
<1> QED  BY <1>1, <1>2

\* To tell of one name again changes nothing.
LEMMA ToldAgain ==
    ASSUME NEW h \in Histories, NEW action \in Action
    PROVE  /\ Repeats(addActionHistoryEntry(h, action), action)
           /\ Repeats(h, action) => addActionHistoryEntry(h, action) = h
<1>1. isSameAction(action, action)
  BY SameMeans
<1>2. /\ addActionHistoryEntry(h, action) # <<>>
      /\ \/ Head(addActionHistoryEntry(h, action)) = action
         \/ Repeats(h, action) /\ addActionHistoryEntry(h, action) = h
  BY EntryIsKept
<1>3. Repeats(addActionHistoryEntry(h, action), action)
  BY <1>1, <1>2 DEF Repeats
<1> QED  BY <1>3 DEF addActionHistoryEntry

\* The stops of a decision are told last, if there are any.
LEMMA StopsAreTold ==
    ASSUME ClusterOK, history \in Histories, NEW d, NEW deleted, NEW order,
           d = makeDecision(State, jobs, clock, FALSE), ~d.fails,
           deleted \subseteq Doomed(d), order \in Orders(d, deleted)
    PROVE  /\ Told(history, "JobStopped", order) \in Histories
           /\ \/ Told(history, "JobStopped", order) = history
              \/ /\ Told(history, "JobStopped", order) # <<>>
                 /\ Head(Told(history, "JobStopped", order)).type = "JobStopped"
<1>1. d.expired \subseteq Names /\ d.surplus \subseteq Names
  BY DecidedType
<1>2. deleted \subseteq Names /\ Cardinality(deleted) \in Nat
  BY <1>1, NamesAssumption, FS_Subset, FS_CardinalityType DEF Doomed
<1>3. order \in [1 .. Cardinality(deleted) -> deleted]
  BY DEF Orders, Bijection, Injection
<1>4. Len(order) \in Nat /\ \A i \in 1 .. Len(order) : order[i] \in Names
  BY <1>2, <1>3
<1>5. \A i \in 1 .. Len(order) : newAction("JobStopped", order[i]) \in Action
  BY <1>4, NewActionType
<1> QED  BY <1>4, <1>5, ToldIsAHistory

\* What the calls of a decision add to the history.
LEMMA CallHistoryType ==
    ASSUME ClusterOK, history \in Histories, NEW d, NEW deleted, NEW failing, NEW order,
           d = makeDecision(State, jobs, clock, FALSE), ~d.fails,
           deleted \subseteq Doomed(d), MayCall(d, deleted, failing), order \in Orders(d, deleted)
    PROVE  CallHistory(d, order, failing) \in Histories
<1> DEFINE g == Told(history, "JobStopped", order)
<1>1. d.unsuspend \in Names \cup {Nil}
  BY DecidedType
<1>2. g \in Histories
  BY StopsAreTold
<1>3. failing = "none" /\ d.create # Nil => d.create.name \in Names
  BY DEF MayCall, NameIsFree
<1> HIDE DEF g
<1>4. ASSUME NEW n \in Names, NEW type \in {"JobStarted", "JobUnsuspended"}
      PROVE  Told(g, type, <<n>>) \in Histories
  <2>1. newAction(type, n) \in Action
    BY NewActionType
  <2>2. addActionHistoryEntry(g, newAction(type, n)) \in Histories
    BY <1>2, <2>1, EntryIsKept
  <2>3. Len(<<n>>) = 1 /\ <<n>>[1] = n
    OBVIOUS
  <2> QED  BY <2>2, <2>3, ToldOnce
<1>5. CallHistory(d, order, failing)
        = IF failing # "none" THEN g
          ELSE IF d.create # Nil THEN Told(g, "JobStarted", <<d.create.name>>)
          ELSE IF d.unsuspend # Nil THEN Told(g, "JobUnsuspended", <<d.unsuspend>>)
          ELSE g
  BY DEF CallHistory, g
<1> QED  BY <1>1, <1>2, <1>3, <1>4, <1>5

-----------------------------------------------------------------------------
(* The conditions and what is beside them.                                 *)

Statuses == {"True", "False", "Unknown", "None"}
Settable(f) == DOMAIN f \subseteq Types /\ \A t \in DOMAIN f : f[t] \in Statuses

\* Two sets of conditions, one over the other.
LEMMA OverIsSettable ==
    ASSUME NEW f, NEW g, Settable(f), Settable(g)
    PROVE  Settable(Over(f, g))
BY DEF Settable, Over

\* Every condition makeDecision sets has a status.
LEMMA DecisionIsSettable ==
    ASSUME NEW st, NEW V, NEW failures, NEW now, NEW buildFails
    PROVE  Settable(DecisionConditions(st, V, failures, now, buildFails))
<1> DEFINE j == setJobConditions(st, V, failures)
           a == setConditionsForAllJobs(V)
           s == setShouldBeRunningStatus(st)
           u == [Suspended |-> Flag(st.isSuspended)]
           o == [OutOfDate |-> Flag(OutOfDate(st, V))]
           l == setDeadlineCondition(st, V, now)
           r == IF RecreateFails(st, V, buildFails) THEN NoConditions ELSE Over(o, l)
           w == IF st.isSuspended THEN NoConditions ELSE Over(a, Over(j, r))
<1>1. DecisionConditions(st, V, failures, now, buildFails)
         = IF st.error THEN NoConditions ELSE Over(s, Over(u, w))
  BY DEF DecisionConditions
<1>2. \A b : Flag(b) \in Statuses
  BY DEF Flag, Statuses
<1>3. Settable(NoConditions)
  BY DEF Settable, NoConditions
<1>4. Settable(s) /\ Settable(u) /\ Settable(o) /\ Settable(l)
  <2>1. \A x \in Statuses : /\ Settable([ShouldBeRunning |-> x]) /\ Settable([Suspended |-> x])
                            /\ Settable([OutOfDate |-> x])
                            /\ Settable([StartingDeadlineExceeded |-> x])
    BY DEF Settable, Types
  <2>2. "Unknown" \in Statuses
    BY DEF Statuses
  <2> QED  BY <1>2, <2>1, <2>2 DEF setShouldBeRunningStatus, setDeadlineCondition
<1>5. Settable(a)
  <2>1. ListTypes \subseteq Types /\ "Unknown" \in Statuses
    BY DEF Types, Statuses
  <2> QED  BY <1>2, <2>1 DEF Settable, setConditionsForAllJobs
<1>6. Settable(j)
  <2>1. CASE JobToReport(st, V) = Nil
    <3>1. j = [t \in JobTypes |-> IF t = "JobExists" THEN "False" ELSE "Unknown"]
      BY <2>1 DEF setJobConditions
    <3>2. JobTypes \subseteq Types /\ {"False", "Unknown"} \subseteq Statuses
      BY DEF Types, Statuses
    <3> HIDE DEF j
    <3> QED  BY <3>1, <3>2 DEF Settable
  <2>2. CASE JobToReport(st, V) # Nil
    <3>1. \E c, f, p, q \in Statuses :
             j = [JobExists |-> "True", JobComplete |-> c, JobFailed |-> f,
                  JobSuspended |-> p, JobStoppedByUser |-> q]
      <4> DEFINE n == JobToReport(st, V)
                 relay(b) == IF b THEN "True" ELSE "Unknown"
      <4>1. \A b : relay(b) \in Statuses
        BY DEF Statuses
      <4>2. j = [JobExists |-> "True",
                 JobComplete |-> relay(V[n].completed /\ n \notin failures),
                 JobFailed |-> relay(n \in failures),
                 JobSuspended |-> Flag(V[n].suspended),
                 JobStoppedByUser |-> Flag(WasJobStoppedByTheUser(V[n]))]
        BY <2>2 DEF setJobConditions
      <4> HIDE DEF j, n, relay
      <4> QED  BY <1>2, <4>1, <4>2
    <3>2. PICK c \in Statuses, f \in Statuses, p \in Statuses, q \in Statuses :
             j = [JobExists |-> "True", JobComplete |-> c, JobFailed |-> f,
                  JobSuspended |-> p, JobStoppedByUser |-> q]
      BY <3>1
    <3>3. JobTypes \subseteq Types /\ "True" \in Statuses
      BY DEF Types, Statuses
    <3> HIDE DEF j
    <3>4. DOMAIN j = JobTypes /\ \A t \in DOMAIN j : j[t] \in {"True", c, f, p, q}
      BY <3>2 DEF JobTypes
    <3> QED  BY <3>2, <3>3, <3>4 DEF Settable
  <2> QED  BY <2>1, <2>2
<1> HIDE DEF j, a, s, u, o, l
<1>7. Settable(r)
  BY <1>3, <1>4, OverIsSettable
<1> HIDE DEF r
<1>8. Settable(w)
  BY <1>3, <1>5, <1>6, <1>7, OverIsSettable
<1> HIDE DEF w
<1> QED  BY <1>1, <1>3, <1>4, <1>8, OverIsSettable

\* To set conditions that have a status keeps theirs.
LEMMA SetKeepsStatuses ==
    ASSUME NEW c, c.status \in [Types -> Statuses], NEW f, Settable(f)
    PROVE  SetCondition(c, f).status \in [Types -> Statuses]
BY DEF SetCondition, Over, Settable

\* So do the overall conditions.
LEMMA OverallKeepsStatuses ==
    ASSUME NEW c, NEW error, c.status \in [Types -> Statuses]
    PROVE  calculateOverallConditions(c, error).status \in [Types -> Statuses]
<1> DEFINE n == [Error |-> Flag(error)]
           v == [t \in Verdicts |-> IF t = Verdict(c) THEN "True" ELSE "Unknown"]
<1>1. Settable(n) /\ Settable(v)
  BY DEF Settable, Types, Statuses, Flag
<1>2. calculateOverallConditions(c, error) = SetCondition(SetCondition(c, n), v)
  BY DEF calculateOverallConditions
<1> HIDE DEF n, v
<1> QED  BY <1>1, <1>2, SetKeepsStatuses

\* So do the conditions of the calls.
LEMMA CallsKeepStatuses ==
    ASSUME NEW c, NEW d, NEW deleted, NEW failing, c.status \in [Types -> Statuses]
    PROVE  CallConditions(c, d, deleted, failing).status \in [Types -> Statuses]
<1>1. \A x \in Statuses : /\ Settable([FailedToDeleteJob |-> x])
                          /\ Settable([FailedToCreateJob |-> x])
                          /\ Settable([FailedToUnsuspendJob |-> x])
  BY DEF Settable, Types, CallTypes
<1>2. \A b : Flag(b) \in Statuses
  BY DEF Flag, Statuses
<1>3. "True" \in Statuses /\ "False" \in Statuses
  BY DEF Statuses
<1> QED  BY <1>1, <1>2, <1>3, SetKeepsStatuses DEF CallConditions

Summaries == [active : SUBSET Names, isRunning : BOOLEAN \cup {Nil},
              lastScheduledStartTime : Int \cup {Nil}]

\* What makeDecision says beside the conditions.
LEMMA SummedType ==
    ASSUME ClusterOK, summary \in Summaries, NEW b
    PROVE  Summed(State, b) \in Summaries
<1>1. State.startOfCurrentRunPeriod \in Int \cup {Nil}
  <2>1. spec \in ControlledJobSpec /\ clock \in Int /\ State = buildState(spec, clock)
    BY SpecsAssumption, StateIsBuilt DEF ClusterOK
  <2>2. StateFor(spec.events, clock, spec.offset).startOfCurrentRunPeriod \in Int \cup {Nil}
    BY <2>1, StateForTypes DEF ControlledJobSpec
  <2> HIDE DEF StateFor
  <2> QED  BY <2>1, <2>2 DEF buildState
<1>2. ActiveJobs(State, jobs) \in SUBSET Names
  BY ClusterIsAList DEF ActiveJobs, PotentiallyRunning
<1>3. HasChosenJob(State, jobs, clock, b) \in BOOLEAN
  BY DEF HasChosenJob
<1> QED  BY <1>1, <1>2, <1>3 DEF Summed, DecisionSummary, Summaries

-----------------------------------------------------------------------------
(* The whole status.                                                       *)

Outcomes == {"world", "none", "decision", "delete", "create", "unsuspend"}
Costs == {0, 1}

\* What the deferred calls store.
LEMMA FinishTypes ==
    ASSUME TypeOK, NEW c, NEW s \in Summaries, NEW h \in Histories, NEW outcome \in Outcomes,
           NEW cost \in Costs, c.status \in [Types -> Statuses],
           Finish(c, s, h, outcome, cost)
    PROVE  /\ conditions' \in [Types -> Statuses]
           /\ summary' \in Summaries
           /\ history' \in Histories
           /\ changed' \in {Nil} \cup SUBSET {"conditions", "summary", "history"}
           /\ last' \in Outcomes
           /\ calm' \in BOOLEAN
           /\ faults' \in 0 .. MaxFaults
           /\ UNCHANGED <<spec, clock, failed, edits>>
<1> DEFINE final == calculateOverallConditions(c, outcome # "none")
<1>1. final.status \in [Types -> Statuses]
  BY OverallKeepsStatuses
<1>2. /\ last' = outcome
      /\ calm' = (jobs' = jobs)
      /\ UNCHANGED <<spec, clock, failed, edits>>
      /\ \/ /\ conditions' = final.status
            /\ summary' = s
            /\ history' = h
            /\ changed' = (IF final.moved # {} THEN {"conditions"} ELSE {})
                          \cup (IF s # summary THEN {"summary"} ELSE {})
                          \cup (IF h # history THEN {"history"} ELSE {})
            /\ faults' = faults + cost
         \/ /\ UNCHANGED status
            /\ changed' = Nil
            /\ faults' = faults + cost + 1
      /\ faults' <= MaxFaults
  BY DEF Finish
<1> HIDE DEF final
<1>3. /\ conditions \in [Types -> Statuses] /\ summary \in Summaries
      /\ history \in Histories /\ faults \in 0 .. MaxFaults
  BY DEF TypeOK, Statuses, Summaries, Histories
<1>4. faults' \in 0 .. MaxFaults
  BY <1>2, <1>3, BoundsAssumption DEF Costs
<1>5. changed' \in {Nil} \cup SUBSET {"conditions", "summary", "history"}
  <2>1. \A x, y, z : (IF x THEN {"conditions"} ELSE {}) \cup (IF y THEN {"summary"} ELSE {})
                       \cup (IF z THEN {"history"} ELSE {}) \subseteq {"conditions", "summary", "history"}
    OBVIOUS
  <2> QED  BY <1>2, <2>1
<1>6. conditions' \in [Types -> Statuses] /\ summary' \in Summaries /\ history' \in Histories
  BY <1>1, <1>2, <1>3 DEF status
<1> QED  BY <1>2, <1>4, <1>5, <1>6

\* The cluster's part of the types, and the rest.
TypeInv == ClusterOK /\ TypeOK

LEMMA TypeInit == Init => TypeInv
<1> SUFFICES ASSUME Init PROVE TypeInv
  OBVIOUS
<1>1. /\ jobs \in [Names -> Job \cup {Nil}] /\ failed = {} /\ spec \in Specs
      /\ clock \in FirstTime .. MaxTime
  BY TimeAssumption DEF Init
<1>2. /\ conditions \in [Types -> {"True", "False", "Unknown", "None"}]
      /\ summary \in [active : SUBSET Names, isRunning : BOOLEAN \cup {Nil},
                      lastScheduledStartTime : Int \cup {Nil}]
  BY DEF Init
<1>3. history \in Seq(Action) /\ Len(history) <= HistoryEntriesToKeep
  BY HistoryAssumption DEF Init
<1>4. /\ changed \in {Nil} \cup SUBSET {"conditions", "summary", "history"}
      /\ last \in {"world", "none", "decision", "delete", "create", "unsuspend"} /\ calm \in BOOLEAN
  BY DEF Init
<1>5. edits \in 0 .. MaxEdits /\ faults \in 0 .. MaxFaults
  BY BoundsAssumption DEF Init
<1> QED  BY <1>1, <1>2, <1>3, <1>4, <1>5, ClusterInit DEF TypeInv, TypeOK

LEMMA TypeStep == TypeInv /\ [Next]_vars => TypeInv'
<1> SUFFICES ASSUME TypeInv, [Next]_vars PROVE TypeInv'
  OBVIOUS
<1>1. ClusterOK'
  BY ClusterStep DEF TypeInv
<1>2. /\ jobs' \in [Names -> Job \cup {Nil}] /\ spec' \in Specs
      /\ (failed \subseteq {n \in Names : Exists(n) /\ jobs[n].completed})'
  BY <1>1 DEF ClusterOK, ReadableJob
<1>3. ASSUME /\ conditions' \in [Types -> Statuses] /\ summary' \in Summaries
             /\ history' \in Histories
             /\ changed' \in {Nil} \cup SUBSET {"conditions", "summary", "history"}
             /\ last' \in Outcomes /\ calm' \in BOOLEAN /\ faults' \in 0 .. MaxFaults,
             clock' \in FirstTime .. MaxTime, edits' \in 0 .. MaxEdits
      PROVE  TypeInv'
  BY <1>1, <1>2, <1>3 DEF TypeInv, TypeOK, Statuses, Summaries, Histories, Outcomes
<1>4. /\ clock \in FirstTime .. MaxTime /\ edits \in 0 .. MaxEdits
      /\ history \in Histories /\ summary \in Summaries
      /\ conditions \in [Types -> Statuses]
      /\ changed \in {Nil} \cup SUBSET {"conditions", "summary", "history"}
      /\ last \in Outcomes /\ calm \in BOOLEAN /\ faults \in 0 .. MaxFaults
  BY DEF TypeInv, TypeOK, Statuses, Summaries, Histories, Outcomes
<1>5. ASSUME NEW b PROVE Decided(State, b).status \in [Types -> Statuses]
  <2>1. Before.status \in [Types -> Statuses]
    BY <1>4 DEF Before
  <2> QED  BY <2>1, DecisionIsSettable, SetKeepsStatuses DEF Decided
<1>6. \A b : Summed(State, b) \in Summaries
  BY <1>4, SummedType DEF TypeInv
<1>7. ASSUME NEW c, NEW s \in Summaries, NEW h \in Histories, NEW outcome \in Outcomes,
              NEW cost \in Costs, c.status \in [Types -> Statuses],
              Finish(c, s, h, outcome, cost)
       PROVE  TypeInv'
  <2>1. TypeOK
    BY DEF TypeInv
  <2>2. /\ conditions' \in [Types -> Statuses] /\ summary' \in Summaries
        /\ history' \in Histories
        /\ changed' \in {Nil} \cup SUBSET {"conditions", "summary", "history"}
        /\ last' \in Outcomes /\ calm' \in BOOLEAN /\ faults' \in 0 .. MaxFaults
        /\ UNCHANGED <<spec, clock, failed, edits>>
    BY <1>7, <2>1, FinishTypes
  <2> QED  BY <1>3, <1>4, <2>2
<1>8. CASE Reconcile
  <2> DEFINE d == makeDecision(State, jobs, clock, FALSE)
  <2>1. PICK deleted, failing, order :
           /\ ~d.fails
           /\ deleted \subseteq Doomed(d)
           /\ failing \in {"none", "delete", "create", "unsuspend"}
           /\ MayCall(d, deleted, failing)
           /\ order \in Orders(d, deleted)
           /\ Finish(CallConditions(Decided(State, FALSE), d, deleted, failing),
                     Summed(State, FALSE), CallHistory(d, order, failing), failing,
                     IF IsFault(d, failing) THEN 1 ELSE 0)
    BY <1>8, ReconcileForm
  <2> DEFINE c == CallConditions(Decided(State, FALSE), d, deleted, failing)
             h == CallHistory(d, order, failing)
             cost == IF IsFault(d, failing) THEN 1 ELSE 0
  <2>2. c.status \in [Types -> Statuses]
    BY <1>5, CallsKeepStatuses
  <2>3. h \in Histories
    BY <1>4, <2>1, CallHistoryType DEF TypeInv
  <2>4. Finish(c, Summed(State, FALSE), h, failing, cost)
    BY <2>1
  <2>5. cost \in Costs /\ failing \in Outcomes
    BY <2>1 DEF Outcomes, Costs
  <2> HIDE DEF c, h, cost
  <2>6. Summed(State, FALSE) \in Summaries
    BY <1>6
  <2> QED  BY <1>7, <2>2, <2>3, <2>4, <2>5, <2>6
<1>9. CASE ReconcileInVain
  <2>1. PICK b \in BOOLEAN :
           Finish(Decided(State, b), Summed(State, b), history, "decision", IF b THEN 1 ELSE 0)
    BY <1>9 DEF ReconcileInVain
  <2>2. (IF b THEN 1 ELSE 0) \in Costs /\ "decision" \in Outcomes
    BY DEF Outcomes, Costs
  <2> QED  BY <1>4, <1>5, <1>6, <1>7, <2>1, <2>2
<1>10. CASE UserEditsSpec \/ UserCreatesJob \/ UserStopsJob \/ UserDeletesJob
  <2>1. edits' = edits + 1 /\ edits < MaxEdits /\ UNCHANGED clock /\ Elsewhere
    BY <1>10 DEF UserEditsSpec, UserCreatesJob, UserStopsJob, UserDeletesJob, UserStep
  <2>2. edits' \in 0 .. MaxEdits
    BY <1>4, <2>1, BoundsAssumption
  <2> QED  BY <1>3, <1>4, <2>1, <2>2 DEF Elsewhere, status, Outcomes
<1>11. CASE \E n \in Names : FinishJob(n) \/ RemoveJob(n)
  BY <1>3, <1>4, <1>11 DEF FinishJob, RemoveJob, Elsewhere, status, Outcomes
<1>12. CASE Tick
  <2>1. clock' \in FirstTime .. MaxTime
    BY <1>4, <1>12, TimeAssumption DEF Tick
  <2> QED  BY <1>3, <1>4, <1>12, <2>1 DEF Tick, Elsewhere, status, Outcomes
<1>13. CASE UNCHANGED vars
  BY <1>3, <1>4, <1>13 DEF vars
<1> QED  BY <1>8, <1>9, <1>10, <1>11, <1>12, <1>13 DEF Next

(***************************************************************************)
(* The status keeps its types, and the history its limit, for every        *)
(* schedule, decision and failing call (updateStatus,                      *)
(* addActionHistoryEntryImpl).                                             *)
(***************************************************************************)
THEOREM TypeCorrect == Spec => []TypeOK
<1>1. TypeInv => TypeOK
  BY DEF TypeInv
<1> QED
  BY <1>1, TypeInit, TypeStep, PTL DEF Spec

-----------------------------------------------------------------------------
(* The newest entry.                                                       *)

\* What a start is told as: type and name of the Job, and the time.
StartOf(n) == newAction(IF jobs[n] = Nil THEN "JobStarted" ELSE "JobUnsuspended", n)

\* What the calls start is what they tell last, or repeats what was told before.
LEMMA StartIsNewest ==
    ASSUME TypeInv, NEW d, NEW deleted, NEW failing, NEW order, NEW n \in Names,
           d = makeDecision(State, jobs, clock, FALSE), ~d.fails,
           deleted \subseteq Doomed(d), MayCall(d, deleted, failing), order \in Orders(d, deleted),
           CalledJobs(d, deleted, failing)[n] # Nil,
           ~CalledJobs(d, deleted, failing)[n].suspended,
           jobs[n] = Nil \/ jobs[n].suspended
    PROVE  LET h == CallHistory(d, order, failing)
           IN  \/ h # <<>> /\ Head(h) = StartOf(n)
               \/ Repeats(history, StartOf(n)) /\ h = history
<1> DEFINE g == Told(history, "JobStopped", order)
           new == CalledJobs(d, deleted, failing)[n]
           h == CallHistory(d, order, failing)
<1>1. h = IF failing # "none" THEN g
           ELSE IF d.create # Nil THEN Told(g, "JobStarted", <<d.create.name>>)
           ELSE IF d.unsuspend # Nil THEN Told(g, "JobUnsuspended", <<d.unsuspend>>)
           ELSE g
  <2> HIDE DEF g
  <2> QED  BY DEF CallHistory, g
<1>2. failing = "none" /\ d.create # Nil => NameIsFree(d.create.name)
  BY DEF MayCall
<1>3. ClusterOK /\ history \in Histories
  BY DEF TypeInv, TypeOK, Histories
<1>4. /\ g \in Histories
      /\ \/ g = history
         \/ g # <<>> /\ Head(g).type = "JobStopped"
  BY <1>3, StopsAreTold
<1>5. /\ d.create \in {Nil, JobToCreate(State, jobs)}
      /\ d.expired \subseteq AllJobs(jobs) /\ d.surplus \subseteq AllJobs(jobs)
  BY DecidedForm
<1>6. Nil \notin Names /\ \A m \in Names : Exists(m) => jobs[m] \in ReadableJob
  BY <1>3, NamesAssumption DEF ClusterOK, Exists
<1>7. n \notin deleted
  <2> SUFFICES ASSUME n \in deleted PROVE FALSE
    OBVIOUS
  <2>1. Exists(n) /\ jobs[n] \in ReadableJob /\ jobs[n].suspended
    BY <1>3, <1>5, <1>6, ClusterIsAList DEF Doomed, Exists
  <2>2. new = [jobs[n] EXCEPT !.deleting = TRUE]
    BY DEF CalledJobs
  <2>3. new.suspended = jobs[n].suspended
    BY <2>1, <2>2 DEF ReadableJob, Job
  <2> QED  BY <2>1, <2>3
<1>8. /\ failing = "none"
      /\ (d.create # Nil /\ n = d.create.name) \/ n = d.unsuspend
  BY <1>7 DEF CalledJobs
<1>9. ASSUME NEW type \in {"JobStarted", "JobUnsuspended"}, h = Told(g, type, <<n>>),
             StartOf(n) = newAction(type, n)
      PROVE  \/ h # <<>> /\ Head(h) = StartOf(n)
             \/ Repeats(history, StartOf(n)) /\ h = history
  <2> DEFINE start == newAction(type, n)
  <2>1. start \in Action /\ start.type = type
    BY <1>3, NewActionType DEF newAction
  <2>2. h = addActionHistoryEntry(g, start)
    <3>1. Len(<<n>>) = 1 /\ <<n>>[1] = n
      OBVIOUS
    <3> HIDE DEF g, h
    <3> QED  BY <1>9, <3>1, ToldOnce
  <2> HIDE DEF g, h, start
  <2>3. /\ h # <<>>
        /\ Head(h) = start \/ (Repeats(g, start) /\ h = g)
    BY <1>4, <2>1, <2>2, EntryIsKept
  <2>4. ASSUME Repeats(g, start) PROVE g = history
    <3>1. g # <<>> /\ Head(g) \in Action /\ isSameAction(Head(g), start)
      BY <1>4, <2>4 DEF Repeats, Histories
    <3>2. Head(g).type = type
      BY <2>1, <3>1, SameMeans
    <3> QED  BY <1>4, <1>9, <3>2
  <2> QED  BY <1>9, <2>3, <2>4 DEF start
<1>10. CASE d.create # Nil /\ n = d.create.name
  <2>1. jobs[n] = Nil
    <3>1. NameIsFree(d.create.name)
      BY <1>8, <1>10, <1>2
    <3> QED  BY <1>10, <3>1 DEF NameIsFree, Exists
  <2>2. h = Told(g, "JobStarted", <<n>>)
    <3> HIDE DEF g, h
    <3> QED  BY <1>8, <1>10, <1>1
  <2>3. StartOf(n) = newAction("JobStarted", n)
    BY <2>1 DEF StartOf
  <2> HIDE DEF g
  <2> QED  BY <1>9, <2>2, <2>3
<1>11. CASE n = d.unsuspend
  <2>1. n = JobToUnsuspend(State, jobs) /\ n # Nil
    BY <1>6, <1>11 DEF makeDecision, NoWork
  <2>2. jobs[n] # Nil
    BY <1>3, <2>1, ClusterIsAList, ChosenJobExists
  <2>3. ~MustCreate(State, jobs)
    BY <2>1 DEF JobToUnsuspend
  <2>4. d.create = Nil
    BY <1>5, <2>3 DEF JobToCreate, MustCreate
  <2>5. h = Told(g, "JobUnsuspended", <<n>>)
    <3> HIDE DEF g, h
    <3> QED  BY <1>8, <1>11, <1>1, <2>1, <2>4
  <2>6. StartOf(n) = newAction("JobUnsuspended", n)
    BY <2>2 DEF StartOf
  <2> HIDE DEF g
  <2> QED  BY <1>9, <2>5, <2>6
<1> QED  BY <1>8, <1>10, <1>11

(***************************************************************************)
(* Whatever the history held, however many Jobs were stopped before it and *)
(* whatever its limit: the entry of a start or an unsuspend, with its own  *)
(* time, is the first of the history that is stored; only when the newest  *)
(* entry of before was of the same kind and Job is the history as it was   *)
(* (Reconcile, addActionHistoryEntryImpl).                                 *)
(***************************************************************************)
THEOREM StartsTold == Spec => StartsAreTold
<1>1. ASSUME TypeInv, [Next]_vars, NEW n \in Names,
             jobs'[n] # Nil, ~jobs'[n].suspended, jobs[n] = Nil \/ jobs[n].suspended,
             changed' # Nil, Reconcile
      PROVE  \E start \in {StartOf(n)} :
                \/ history' # <<>> /\ Head(history') = start
                \/ Repeats(history, start) /\ history' = history
  <2> DEFINE d == makeDecision(State, jobs, clock, FALSE)
  <2>1. PICK deleted, failing, order :
           /\ ~d.fails
           /\ deleted \subseteq Doomed(d)
           /\ MayCall(d, deleted, failing)
           /\ jobs' = CalledJobs(d, deleted, failing)
           /\ order \in Orders(d, deleted)
           /\ Finish(CallConditions(Decided(State, FALSE), d, deleted, failing),
                     Summed(State, FALSE), CallHistory(d, order, failing), failing,
                     IF IsFault(d, failing) THEN 1 ELSE 0)
    BY <1>1, ReconcileForm
  <2>2. history' = CallHistory(d, order, failing)
    BY <1>1, <2>1 DEF Finish
  <2> QED  BY <1>1, <2>1, <2>2, StartIsNewest
<1>2. TypeInv /\ [Next]_vars =>
        [ \A n \in Names :
            /\ jobs'[n] # Nil /\ ~jobs'[n].suspended
            /\ jobs[n] = Nil \/ jobs[n].suspended
            /\ changed' # Nil
            /\ Reconcile
            => \E start \in {newAction(IF jobs[n] = Nil THEN "JobStarted" ELSE "JobUnsuspended", n)} :
                  \/ history' # <<>> /\ Head(history') = start
                  \/ Repeats(history, start) /\ history' = history ]_vars
  BY <1>1 DEF StartOf
<1> QED
  BY <1>2, TypeInit, TypeStep, PTL DEF Spec, StartsAreTold

-----------------------------------------------------------------------------
(* The status settles, its history included.                               *)

\* What is deleted again is in the history already.
HistoryIsStored ==
    /\ ~State.isSuspended => Doomed(Decides(FALSE)) = {}
    /\ \A n : Doomed(Decides(FALSE)) = {n} => Repeats(history, newAction("JobStopped", n))

QuietHistory == calm /\ Stored /\ last = "none" => HistoryIsStored

\* What a Reconcile that starts none makes of the history.
LEMMA OnlyStopsAreTold ==
    ASSUME TypeInv, Reconcile, last' = "none", changed' # Nil,
           Decides(FALSE).create = Nil, Decides(FALSE).unsuspend = Nil
    PROVE  /\ Doomed(Decides(FALSE)) = {} => history' = history
           /\ \A n : Doomed(Decides(FALSE)) = {n} =>
                 /\ n \in Names
                 /\ history' = addActionHistoryEntry(history, newAction("JobStopped", n))
<1> DEFINE d == Decides(FALSE)
           c == Decided(State, FALSE)
<1>1. PICK deleted, failing, order :
         /\ ~d.fails
         /\ deleted \subseteq Doomed(d)
         /\ MayCall(d, deleted, failing)
         /\ order \in Orders(d, deleted)
         /\ Finish(CallConditions(c, d, deleted, failing), Summed(State, FALSE),
                   CallHistory(d, order, failing), failing,
                   IF IsFault(d, failing) THEN 1 ELSE 0)
  BY ReconcileForm DEF Decides
<1> HIDE DEF c
<1>2. failing = "none" /\ history' = CallHistory(d, order, failing)
  BY <1>1 DEF Finish
<1>3. deleted = Doomed(d)
  BY <1>1, <1>2 DEF MayCall
<1>4. history' = Told(history, "JobStopped", order)
  BY <1>2 DEF CallHistory
<1>5. /\ d.expired \subseteq AllJobs(jobs) /\ d.surplus \subseteq AllJobs(jobs)
      /\ ClusterOK /\ history \in Histories
  BY <1>1, DecidedForm DEF Decides, TypeInv, TypeOK, Histories
<1>6. deleted \subseteq Names
  BY <1>3, <1>5, ClusterIsAList DEF Doomed
<1>7. order \in [1 .. Cardinality(deleted) -> deleted]
  BY <1>1 DEF Orders, Bijection, Injection
<1> HIDE DEF d
<1>8. CASE deleted = {}
  <2>1. Cardinality(deleted) = 0
    BY <1>8, FS_EmptySet
  <2>2. Len(order) = 0
    BY <1>7, <2>1
  <2>3. \A i \in 1 .. Len(order) : newAction("JobStopped", order[i]) \in Action
    BY <2>2
  <2>4. Told(history, "JobStopped", order) = history
    BY <1>5, <2>2, <2>3, ToldIsAHistory
  <2> QED  BY <1>3, <1>4, <1>8, <2>4 DEF d
<1>9. ASSUME NEW n, deleted = {n}
      PROVE  /\ n \in Names
             /\ history' = addActionHistoryEntry(history, newAction("JobStopped", n))
  <2>1. Cardinality(deleted) = 1
    BY <1>9, FS_Singleton
  <2>2. Len(order) = 1 /\ order[1] = n
    BY <1>7, <1>9, <2>1
  <2> QED  BY <1>4, <1>6, <1>9, <2>2, ToldOnce
<1> QED  BY <1>3, <1>8, <1>9 DEF d

\* A Reconcile that leaves the Jobs alone stores the history it would store again.
LEMMA HistoryIsStoredAfter ==
    ASSUME TypeInv, Reconcile, calm', changed' # Nil, last' = "none"
    PROVE  HistoryIsStored'
<1>1. ClusterOK /\ history \in Histories
  BY DEF TypeInv, TypeOK, Histories
<1>2. /\ Decides(FALSE).create = Nil /\ Decides(FALSE).unsuspend = Nil
      /\ UNCHANGED <<jobs, spec, clock>>
  <2>1. UNCHANGED <<spec, clock>>
    BY ReconcileForm, FinishForm
  <2> QED  BY <1>1, <2>1, QuietDecision
<1>3. State' = State /\ Doomed(Decides(FALSE))' = Doomed(Decides(FALSE))
  BY <1>2 DEF State, Decides, Doomed
<1>4. ASSUME ~State.isSuspended PROVE Doomed(Decides(FALSE)) = {}
  <2> DEFINE d == makeDecision(State, jobs, clock, FALSE)
  <2>1. PICK deleted, failing, order :
           /\ ~d.fails
           /\ deleted \subseteq Doomed(d)
           /\ MayCall(d, deleted, failing)
           /\ jobs' = CalledJobs(d, deleted, failing)
           /\ Finish(CallConditions(Decided(State, FALSE), d, deleted, failing),
                     Summed(State, FALSE), CallHistory(d, order, failing), failing,
                     IF IsFault(d, failing) THEN 1 ELSE 0)
    BY ReconcileForm
  <2>2. failing = "none"
    BY <2>1 DEF Finish
  <2>3. deleted = {}
    BY <1>1, <1>2, <1>4, <2>1, <2>2, NothingLeftToDo
  <2>4. deleted = Doomed(d)
    BY <2>1, <2>2 DEF MayCall
  <2> QED  BY <2>3, <2>4 DEF Decides
<1>5. ASSUME NEW n, Doomed(Decides(FALSE)) = {n}
      PROVE  Repeats(history', newAction("JobStopped", n))
  <2>1. n \in Names /\ history' = addActionHistoryEntry(history, newAction("JobStopped", n))
    BY <1>2, <1>5, OnlyStopsAreTold
  <2>2. newAction("JobStopped", n) \in Action
    BY <1>1, <2>1, NewActionType
  <2> QED  BY <1>1, <2>1, <2>2, ToldAgain
<1>6. ASSUME NEW n, Doomed(Decides(FALSE))' = {n}
      PROVE  Repeats(history, newAction("JobStopped", n))'
  <2>1. Repeats(history', newAction("JobStopped", n))
    BY <1>3, <1>5, <1>6
  <2>2. newAction("JobStopped", n)' = newAction("JobStopped", n)
    BY <1>2 DEF newAction
  <2> QED  BY <2>1, <2>2 DEF Repeats, isSameAction
<1>7. (~State.isSuspended)' => Doomed(Decides(FALSE))' = {}
  BY <1>3, <1>4
<1> QED  BY <1>6, <1>7 DEF HistoryIsStored

LEMMA QuietHistoryStep == TypeInv /\ QuietHistory /\ [Next]_vars => QuietHistory'
<1> SUFFICES ASSUME TypeInv, QuietHistory, [Next]_vars PROVE QuietHistory'
  OBVIOUS
<1>1. CASE Reconcile
  BY <1>1, HistoryIsStoredAfter DEF QuietHistory, Stored
<1>2. CASE ReconcileInVain
  BY <1>2, LastTells DEF QuietHistory
<1>3. CASE calm' = FALSE
  BY <1>3 DEF QuietHistory
<1>4. CASE UNCHANGED vars
  <2>1. UNCHANGED <<jobs, spec, clock, history, changed, last, calm>> /\ State' = State
    BY <1>4 DEF vars, State
  <2>2. /\ Doomed(Decides(FALSE))' = Doomed(Decides(FALSE))
        /\ \A n : newAction("JobStopped", n)' = newAction("JobStopped", n)
    BY <2>1 DEF Decides, Doomed, newAction
  <2>3. HistoryIsStored => HistoryIsStored'
    BY <2>1, <2>2 DEF HistoryIsStored, Repeats, isSameAction
  <2> QED  BY <2>1, <2>3 DEF QuietHistory, Stored
<1> QED  BY <1>1, <1>2, <1>3, <1>4
         DEF Next, UserEditsSpec, UserCreatesJob, UserStopsJob, UserDeletesJob, UserStep,
             FinishJob, RemoveJob, Tick, Elsewhere

\* Only several Jobs that are deleted again under suspension add entries again.
LEMMA HistorySettles ==
    ASSUME TypeInv, SettledInv, QuietHistory, calm, Stored, last' = last,
           last \in {"none", "decision"}, changed' # Nil, "history" \in changed',
           Reconcile \/ ReconcileInVain
    PROVE  LeavesTogether
<1>1. ASSUME ReconcileInVain PROVE FALSE
  BY <1>1, FinishChanges DEF ReconcileInVain
<1>2. Reconcile /\ last = "none" /\ last' = "none"
  BY <1>1, LastTells
<1>3. HistoryIsStored /\ Decides(FALSE).create = Nil /\ Decides(FALSE).unsuspend = Nil
  BY <1>2 DEF QuietHistory, SettledInv, QuietIsStored
<1>4. history' # history
  BY <1>2, ReconcileForm, FinishChanges, FinishForm
<1>5. Doomed(Decides(FALSE)) # {}
  BY <1>2, <1>3, <1>4, OnlyStopsAreTold
<1>6. State.isSuspended
  BY <1>3, <1>5 DEF HistoryIsStored
<1>7. ClusterOK /\ history \in Histories
  BY DEF TypeInv, TypeOK, Histories
<1>8. spec.suspend
  BY <1>6, <1>7, StateIsBuilt DEF buildState
<1>9. Doomed(Decides(FALSE)) \subseteq {n \in Names : Exists(n)}
  <2>1. ~Decides(FALSE).fails
    BY <1>2, <1>3, DoneReconcile
  <2>2. /\ Decides(FALSE).expired \subseteq AllJobs(jobs)
        /\ Decides(FALSE).surplus \subseteq AllJobs(jobs)
    BY <2>1, DecidedForm DEF Decides
  <2> QED  BY <1>7, <2>2, ClusterIsAList DEF Doomed
<1>10. ASSUME NEW n, Doomed(Decides(FALSE)) = {n} PROVE FALSE
  <2>1. /\ n \in Names
        /\ history' = addActionHistoryEntry(history, newAction("JobStopped", n))
    BY <1>2, <1>3, <1>10, OnlyStopsAreTold
  <2>2. Repeats(history, newAction("JobStopped", n))
    BY <1>3, <1>10 DEF HistoryIsStored
  <2> QED  BY <1>4, <2>1, <2>2 DEF addActionHistoryEntry
<1>11. \E m, n \in Doomed(Decides(FALSE)) : m # n
  <2>1. PICK m : m \in Doomed(Decides(FALSE))
    BY <1>5
  <2>2. Doomed(Decides(FALSE)) # {m}
    BY <1>10
  <2> QED  BY <2>1, <2>2
<1> QED  BY <1>8, <1>9, <1>11 DEF LeavesTogether

(***************************************************************************)
(* A second look at what has not changed writes nothing new, for every     *)
(* decision and its failures: no condition, no transition time, no field   *)
(* beside them and no entry of the history, but for the entries of several *)
(* Jobs that are deleted again under suspension (SetCondition, the         *)
(* verdicts, addActionHistoryEntryImpl; reconcile.go:191-193).             *)
(***************************************************************************)
THEOREM SettlesHolds == Spec => StatusSettles
<1> DEFINE SetInv == TypeInv /\ StatusForm /\ SettledInv /\ QuietHistory
<1>1. Init => SetInv
  BY TypeInit, SettledInit DEF QuietHistory, Init
<1>2. SetInv /\ [Next]_vars => SetInv'
  BY TypeStep, StatusFormStep, SettledStep, QuietHistoryStep DEF TypeInv
<1>3. ASSUME SetInv, calm, Stored, last' = last, last \in {"none", "decision"},
             changed' # Nil, Reconcile \/ ReconcileInVain
      PROVE  changed' = {} \/ (changed' = {"history"} /\ LeavesTogether)
  <2>1. changed' \cap {"conditions", "summary"} = {}
    BY <1>3, SettledTold
  <2>2. changed' \subseteq {"conditions", "summary", "history"}
    BY <1>3, ReconcileForm, FinishChanges DEF ReconcileInVain
  <2>3. "history" \in changed' => LeavesTogether
    BY <1>3, HistorySettles
  <2> QED  BY <2>1, <2>2, <2>3
<1>4. SetInv /\ [Next]_vars =>
        [ /\ calm /\ Stored /\ last' = last /\ last \in {"none", "decision"} /\ changed' # Nil
          /\ Reconcile \/ ReconcileInVain
          => changed' = {} \/ (changed' = {"history"} /\ LeavesTogether) ]_vars
  BY <1>3
<1> HIDE DEF SetInv
<1> QED
  BY <1>1, <1>2, <1>4, PTL DEF Spec, StatusSettles
=============================================================================
