-------------------------- MODULE StatusConditions --------------------------
(***************************************************************************)
(* What a ControlledJob's status tells the user: the conditions            *)
(* makeDecision, Reconcile and calculateOverallConditions set, and the     *)
(* history of actions that pkg/events keeps.                               *)
(*                                                                         *)
(* The status is changed in memory while Reconcile runs and stored once at *)
(* its end, so Reconcile is one step here, with every outcome its calls    *)
(* may have; the cache is the cluster.  Operator tells the same story call *)
(* by call, without the status.  JobRunning, which proxies the count of    *)
(* ready pods, is left out, and so are reasons and messages; status.active *)
(* is the set of its Jobs.                                                 *)
(***************************************************************************)
EXTENDS Decision, Functions

CONSTANTS
    Names,                  \* the names Jobs may have (bound)
    Specs,                  \* the ControlledJob specs a user may apply
    UserJobs,               \* the Jobs a user may create: name and job
    HistoryEntriesToKeep,   \* 16 in the code
    FirstTime, MaxTime,     \* bounds on the clock
    MaxEdits, MaxFaults     \* bounds on users' actions and failing calls

ASSUME NamesAssumption == IsFiniteSet(Names) /\ Names \subseteq Int \X Nat /\ Nil \notin Names
ASSUME SpecsAssumption == Specs \subseteq ControlledJobSpec
\* Users leave the run id to generate-job, which writes one that can be read.
ASSUME UserJobsAssumption ==
    UserJobs \subseteq [name : Names, job : {job \in Job : job.runId # Nil}]
ASSUME TimeAssumption == FirstTime \in Int /\ MaxTime \in Int /\ FirstTime <= MaxTime
ASSUME BoundsAssumption == MaxEdits \in Nat /\ MaxFaults \in Nat
ASSUME HistoryAssumption == HistoryEntriesToKeep \in Nat \ {0}

VARIABLES
    jobs, failed,   \* the Jobs, and which of the completed ones have failed
    spec, clock,
    conditions,     \* the stored conditions: type -> status
    summary,        \* the stored active, isRunning and lastScheduledStartTime
    history,        \* the stored action history, newest first; its head is
                    \* status.mostRecentAction
    changed,        \* the parts of the status the last step changed, which
                    \* come back as an event that re-queues the object; Nil
                    \* when its update has failed
    last,           \* how the last step ended, if it was a Reconcile
    calm,           \* it was one, and left the Jobs as it had found them
    edits, faults

world == <<jobs, failed, spec, clock>>
status == <<conditions, summary, history>>
vars == <<jobs, failed, spec, clock, conditions, summary, history, changed, last, calm, edits, faults>>

Verdicts == {"RunningExpectedly", "RunningUnexpectedly",
             "NotRunningExpectedly", "NotRunningUnexpectedly"}
ListTypes == {"JobManuallyScheduled", "JobBeingDeleted"}
JobTypes == {"JobExists", "JobComplete", "JobFailed", "JobSuspended", "JobStoppedByUser"}
CallTypes == {"FailedToDeleteJob", "FailedToCreateJob", "FailedToUnsuspendJob"}
Types == Verdicts \cup ListTypes \cup JobTypes \cup CallTypes \cup
         {"ShouldBeRunning", "Suspended", "OutOfDate", "StartingDeadlineExceeded", "Error"}

\* An entry of the history; its message follows from type and job.
Action == [type : {"JobStarted", "JobStopped", "JobUnsuspended", "Failed"},
           job : Names \cup {Nil},
           at : FirstTime .. MaxTime]

-----------------------------------------------------------------------------
(***************************************************************************)
(* Some conditions are a record, or another function from types to         *)
(* statuses: those of f, and beside them those of g that f does not name   *)
(* (@@ of the module TLC, which the provers do not know).                  *)
(***************************************************************************)
Over(f, g) == [t \in DOMAIN f \cup DOMAIN g |-> IF t \in DOMAIN f THEN f[t] ELSE g[t]]

(***************************************************************************)
(* SetCondition, for each type in the domain of f.  c.status are the       *)
(* statuses, c.moved the types whose LastTransitionTime has been set:      *)
(* those stay moved when the status returns to what it was.                *)
(***************************************************************************)
SetCondition(c, f) ==
    [status |-> Over(f, c.status),
     moved |-> c.moved \cup {t \in DOMAIN f : f[t] # c.status[t]}]

Flag(b) == IF b THEN "True" ELSE "False"
IsTrue(c, t) == c.status[t] = "True"

setShouldBeRunningStatus(st) ==
    [ShouldBeRunning |-> IF st.startOfCurrentRunPeriod = Nil THEN "Unknown"
                         ELSE Flag(st.shouldBeRunning)]

setConditionsForAllJobs(V) ==
    [t \in ListTypes |->
        IF AllJobs(V) = {} THEN "Unknown"
        ELSE IF t = "JobManuallyScheduled" THEN Flag(\E n \in AllJobs(V) : V[n].manual)
        ELSE Flag(\E n \in AllJobs(V) : V[n].deleting)]

\* jobToRecordMetricsAgainst: the best of all Jobs whose run id can be read.
JobToReport(st, V) ==
    LET readable == {n \in AllJobs(V) : V[n].runId # Nil}
    IN  IF readable = {} THEN Nil
        ELSE CHOOSE n \in readable :
                 \A m \in readable \ {n} : isBetterCandidateJob(st, V, n, m)

setJobConditions(st, V, failures) ==
    LET n == JobToReport(st, V)
        relay(b) == IF b THEN "True" ELSE "Unknown"
    IN  IF n = Nil
        THEN [t \in JobTypes |-> IF t = "JobExists" THEN "False" ELSE "Unknown"]
        ELSE [JobExists |-> "True",
              JobComplete |-> relay(V[n].completed /\ n \notin failures),
              JobFailed |-> relay(n \in failures),
              JobSuspended |-> Flag(V[n].suspended),
              JobStoppedByUser |-> Flag(WasJobStoppedByTheUser(V[n]))]

\* makeDecision fails while it builds the replacement of an out of date Job.
RecreateFails(st, V, buildFails) ==
    MustRecreate(st, V) /\ (V[ExistingChoice(st, V)].start = Nil \/ buildFails)

OutOfDate(st, V) ==
    LET chosen == ExistingChoice(st, V)
    IN  chosen # Nil /\ isOutOfDate(st, V[chosen]) /\ ~MustRecreate(st, V)

setDeadlineCondition(st, V, now) ==
    [StartingDeadlineExceeded |->
        IF MustStart(st, V) THEN Flag(startingDeadlineSecondsExceeded(st, now)) ELSE "Unknown"]

NoConditions == [t \in {} |-> "Unknown"]

(***************************************************************************)
(* The conditions makeDecision sets before it returns: none after an error *)
(* of buildState, two for a suspended ControlledJob.                       *)
(***************************************************************************)
DecisionConditions(st, V, failures, now, buildFails) ==
    LET ofDecision == IF RecreateFails(st, V, buildFails) THEN NoConditions
                      ELSE Over([OutOfDate |-> Flag(OutOfDate(st, V))],
                                setDeadlineCondition(st, V, now))
        ofJobs == Over(setConditionsForAllJobs(V),
                       Over(setJobConditions(st, V, failures), ofDecision))
    IN  IF st.error THEN NoConditions
        ELSE Over(setShouldBeRunningStatus(st),
                  Over([Suspended |-> Flag(st.isSuspended)],
                       IF st.isSuspended THEN NoConditions ELSE ofJobs))

\* Mutant of ActiveJobs: the loop has passed over the expired Jobs before.
UnexpiredActiveJobs(st, V) == PotentiallyRunning(V) \ ExpiredJobs(st, V)

ActiveJobs(st, V) == PotentiallyRunning(V)

\* The Job that is chosen when makeDecision returns, with an error or without.
HasChosenJob(st, V, now, buildFails) ==
    \/ ExistingChoice(st, V) # Nil
    \/ MustStart(st, V) /\ ~DecisionFails(st, V, now, buildFails)

(***************************************************************************)
(* The other fields of the status that makeDecision sets.  For a suspended *)
(* ControlledJob it returns before it comes to active and isRunning, and   *)
(* before isRunning is deferred.                                           *)
(***************************************************************************)
DecisionSummary(st, V, now, buildFails) ==
    IF st.error THEN summary
    ELSE IF st.isSuspended
    THEN [summary EXCEPT !.lastScheduledStartTime = st.startOfCurrentRunPeriod]
    ELSE [lastScheduledStartTime |-> st.startOfCurrentRunPeriod,
          active |-> ActiveJobs(st, V),
          isRunning |-> HasChosenJob(st, V, now, buildFails)]

ExpectedToRun(c) == IsTrue(c, "ShouldBeRunning") \/ IsTrue(c, "JobManuallyScheduled")

VerdictOf(up, expected) ==
    IF up THEN IF expected THEN "RunningExpectedly" ELSE "RunningUnexpectedly"
    ELSE IF expected THEN "NotRunningUnexpectedly" ELSE "NotRunningExpectedly"

\* Mutant of Verdict: a failed Job counts as a running one.
VerdictIgnoringFailure(c) == VerdictOf(IsTrue(c, "JobExists"), ExpectedToRun(c))

\* One verdict is True, the others are Unknown.
Verdict(c) == VerdictOf(IsTrue(c, "JobExists") /\ ~IsTrue(c, "JobFailed"), ExpectedToRun(c))

\* Mutant of calculateOverallConditions: all four are reset first.
ResetAllConditions(c, error) ==
    SetCondition(SetCondition(SetCondition(c, [Error |-> Flag(error)]),
                              [t \in Verdicts |-> "Unknown"]),
                 [t \in {Verdict(c)} |-> "True"])

calculateOverallConditions(c, error) ==
    SetCondition(SetCondition(c, [Error |-> Flag(error)]),
                 [t \in Verdicts |-> IF t = Verdict(c) THEN "True" ELSE "Unknown"])

-----------------------------------------------------------------------------
\* newActionForJob
newAction(type, n) == [type |-> type, job |-> n, at |-> clock]

\* The two differ in their times at most.
isSameAction(existing, proposed) == [existing EXCEPT !.at = proposed.at] = proposed

Repeats(h, action) == h # <<>> /\ isSameAction(Head(h), action)

\* Mutants of addActionHistoryEntry: no limit; the newest entry last; repeats are told.
AddWithoutLimit(h, action) == IF Repeats(h, action) THEN h ELSE <<action>> \o h

AddAtTheEnd(h, action) ==
    IF Repeats(h, action) THEN h
    ELSE SubSeq(Append(h, action), 1, Min({Len(h) + 1, HistoryEntriesToKeep}))

AddRepeats(h, action) == SubSeq(<<action>> \o h, 1, Min({Len(h) + 1, HistoryEntriesToKeep}))

(***************************************************************************)
(* RecordEvent: an action that repeats the most recent one is left out,    *)
(* and the entry that is there keeps its time.                             *)
(***************************************************************************)
addActionHistoryEntry(h, action) ==
    IF Repeats(h, action) THEN h
    ELSE SubSeq(<<action>> \o h, 1, Min({Len(h) + 1, HistoryEntriesToKeep}))

\* The history h once an action on each of the named Jobs has been recorded.
Told(h, type, names) ==
    LET told[i \in 0 .. Len(names)] ==
            IF i = 0 THEN h ELSE addActionHistoryEntry(told[i - 1], newAction(type, names[i]))
    IN  told[Len(names)]
-----------------------------------------------------------------------------
(* Reconcile.                                                              *)

Exists(n) == jobs[n] # Nil
NameIsFree(n) == n \in Names /\ ~Exists(n)
Doomed(d) == d.expired \cup d.surplus

(***************************************************************************)
(* The calls of a decision d, up to the first that fails: the Jobs in      *)
(* `deleted' are deleted, the expired ones first; `failing' is the call    *)
(* that fails, if any.                                                     *)
(***************************************************************************)
MayCall(d, deleted, failing) ==
    /\ deleted \cap d.surplus # {} => d.expired \subseteq deleted
    /\ failing = "delete" <=> deleted # Doomed(d)
    /\ failing = "create" => d.create # Nil
    /\ failing = "unsuspend" => d.unsuspend # Nil
    /\ failing = "none" /\ d.create # Nil => NameIsFree(d.create.name)

\* A create is refused when the name is taken; other failures are faults.
IsFault(d, failing) ==
    failing # "none" /\ (failing = "create" => NameIsFree(d.create.name))

(***************************************************************************)
(* The conditions set by the calls.  A successful unsuspend sets its       *)
(* condition to True as a failing one does.                                *)
(***************************************************************************)
CallConditions(c, d, deleted, failing) ==
    LET afterDeletes == IF deleted = {} THEN c
                        ELSE SetCondition(c, [FailedToDeleteJob |-> "False"])
    IN  IF failing = "delete"
        THEN SetCondition(afterDeletes, [FailedToDeleteJob |-> "True"])
        ELSE IF d.create # Nil
        THEN SetCondition(afterDeletes, [FailedToCreateJob |-> Flag(failing = "create")])
        ELSE IF d.unsuspend # Nil
        THEN SetCondition(afterDeletes, [FailedToUnsuspendJob |-> "True"])
        ELSE afterDeletes

\* The order of the deletes, within the two groups, is the cache's.
Orders(d, deleted) ==
    {s \in Bijection(1 .. Cardinality(deleted), deleted) :
        \A i, j \in DOMAIN s : s[i] \in d.surplus /\ s[j] \in d.expired => j < i}

CallHistory(d, order, failing) ==
    LET afterDeletes == Told(history, "JobStopped", order)
    IN  IF failing # "none" THEN afterDeletes
        ELSE IF d.create # Nil THEN Told(afterDeletes, "JobStarted", <<d.create.name>>)
        ELSE IF d.unsuspend # Nil THEN Told(afterDeletes, "JobUnsuspended", <<d.unsuspend>>)
        ELSE afterDeletes

CalledJobs(d, deleted, failing) ==
    [n \in Names |->
        IF n \in deleted THEN [jobs[n] EXCEPT !.deleting = TRUE]
        ELSE IF failing # "none" THEN jobs[n]
        ELSE IF d.create # Nil /\ n = d.create.name THEN d.create.job
        ELSE IF n = d.unsuspend THEN [jobs[n] EXCEPT !.suspended = FALSE]
        ELSE jobs[n]]

(***************************************************************************)
(* The deferred calls, last in first out: the overall conditions, then     *)
(* UpdateStatus, whose failure is logged and forgotten, then               *)
(* recordFailedReconcile, whose entry in the history comes too late to be  *)
(* stored.  cost counts the faults of the calls before.                    *)
(***************************************************************************)
Finish(c, s, h, outcome, cost) ==
    \E final \in {calculateOverallConditions(c, outcome # "none")} :
        /\ last' = outcome
        /\ calm' = (jobs' = jobs)
        /\ UNCHANGED <<spec, clock, failed, edits>>
        /\ \/ /\ conditions' = final.status
              /\ summary' = s
              /\ history' = h
              /\ changed' = (IF final.moved # {} THEN {"conditions"} ELSE {})
                            \cup (IF s # summary THEN {"summary"} ELSE {})
                            \cup (IF h # history THEN {"history"} ELSE {})
              /\ faults' = faults + cost
           \/ /\ UNCHANGED status
              /\ changed' = Nil
              /\ faults' = faults + cost + 1
        /\ faults' <= MaxFaults

\* buildState, tabulated.
StateAt == [s \in Specs |-> [t \in FirstTime .. MaxTime |-> buildState(s, t)]]

State == StateAt[spec][clock]
Before == [status |-> conditions, moved |-> {}]

\* A failure to read the ControlledJob or its Jobs changes nothing.
Decided(st, buildFails) ==
    SetCondition(Before, DecisionConditions(st, jobs, failed, clock, buildFails))
Summed(st, buildFails) == DecisionSummary(st, jobs, clock, buildFails)

ReconcileInVain ==
    \E st \in {State}, buildFails \in (IF spec.mutate THEN BOOLEAN ELSE {FALSE}) :
       /\ makeDecision(st, jobs, clock, buildFails).fails
       /\ jobs' = jobs
       /\ Finish(Decided(st, buildFails), Summed(st, buildFails), history,
                 "decision", IF buildFails THEN 1 ELSE 0)

Reconcile ==
    \E st \in {State} :
    \E d \in {makeDecision(st, jobs, clock, FALSE)},
       c \in {Decided(st, FALSE)}, s \in {Summed(st, FALSE)} :
       /\ ~d.fails
       /\ \E deleted \in SUBSET Doomed(d), failing \in {"none", "delete", "create", "unsuspend"} :
             /\ MayCall(d, deleted, failing)
             /\ jobs' = CalledJobs(d, deleted, failing)
             /\ \E order \in Orders(d, deleted) :
                   Finish(CallConditions(c, d, deleted, failing), s,
                          CallHistory(d, order, failing), failing,
                          IF IsFault(d, failing) THEN 1 ELSE 0)

-----------------------------------------------------------------------------
(* The world.                                                              *)

Elsewhere ==
    /\ last' = "world" /\ calm' = FALSE /\ changed' = {}
    /\ UNCHANGED <<status, faults>>

UserStep == edits < MaxEdits /\ edits' = edits + 1 /\ UNCHANGED clock /\ Elsewhere

UserEditsSpec == UserStep /\ spec' \in Specs \ {spec} /\ UNCHANGED <<jobs, failed>>

UserCreatesJob ==
    /\ UserStep
    /\ \E u \in UserJobs : ~Exists(u.name) /\ jobs' = [jobs EXCEPT ![u.name] = u.job]
    /\ UNCHANGED <<spec, failed>>

UserStopsJob ==
    /\ UserStep
    /\ \E n \in Names : /\ Exists(n)
                        /\ jobs' = [jobs EXCEPT ![n].suspended = TRUE, ![n].userStop = TRUE]
    /\ UNCHANGED <<spec, failed>>

UserDeletesJob ==
    /\ UserStep
    /\ \E n \in Names : /\ Exists(n)
                        /\ ~jobs[n].deleting
                        /\ jobs' = [jobs EXCEPT ![n].deleting = TRUE]
    /\ UNCHANGED <<spec, failed>>

\* A Job ends with a Complete or a Failed condition.
FinishJob(n) ==
    /\ Exists(n)
    /\ ~jobs[n].suspended /\ ~jobs[n].deleting /\ ~jobs[n].completed
    /\ jobs' = [jobs EXCEPT ![n].completed = TRUE]
    /\ failed' \in {failed, failed \cup {n}}
    /\ UNCHANGED <<spec, clock, edits>>
    /\ Elsewhere

RemoveJob(n) ==
    /\ Exists(n)
    /\ jobs[n].deleting
    /\ jobs' = [jobs EXCEPT ![n] = Nil]
    /\ failed' = failed \ {n}
    /\ UNCHANGED <<spec, clock, edits>>
    /\ Elsewhere

Tick ==
    /\ clock < MaxTime
    /\ clock' = clock + 1
    /\ UNCHANGED <<jobs, failed, spec, edits>>
    /\ Elsewhere

Init ==
    /\ jobs = [n \in Names |-> Nil]
    /\ failed = {}
    /\ spec \in Specs
    /\ clock = FirstTime
    /\ conditions = [t \in Types |-> "None"]
    /\ summary = [active |-> {}, isRunning |-> Nil, lastScheduledStartTime |-> Nil]
    /\ history = <<>>
    /\ changed = {}
    /\ last = "world"
    /\ calm = FALSE
    /\ edits = 0
    /\ faults = 0

Next == \/ Reconcile \/ ReconcileInVain
        \/ UserEditsSpec \/ UserCreatesJob \/ UserStopsJob \/ UserDeletesJob
        \/ (\E n \in Names : FinishJob(n) \/ RemoveJob(n))
        \/ Tick

Spec == Init /\ [][Next]_vars
=============================================================================
