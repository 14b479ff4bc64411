------------------------------ MODULE Decision ------------------------------
(***************************************************************************)
(* pkg/reconciliation/decision.go: given the ControlledJob, the list of    *)
(* its Jobs as the cache has it and the time, which Jobs to delete, to     *)
(* create and to unsuspend, and when to look again.                        *)
(*                                                                         *)
(* V is the list: a function from names to Jobs, Nil where there is none.  *)
(* st is the state buildState computes.                                    *)
(***************************************************************************)
EXTENDS Schedule, JobMetadata, FiniteSets

CONSTANT EnableAutoRecreate   \* the operator's flag of that name

ASSUME FlagAssumption == EnableAutoRecreate \in BOOLEAN

(***************************************************************************)
(* The part of a ControlledJob the operator reads.  hash is the hash of    *)
(* the job template, recreate says that the spec change policy is          *)
(* Recreate, deadline is startingDeadlineSeconds, mutate says that the     *)
(* Jobs built from it go through the mutating webhook.                     *)
(***************************************************************************)
ControlledJobSpec ==
    [suspend : BOOLEAN, hash : Hashes, recreate : BOOLEAN,
     deadline : Int \cup {Nil}, mutate : BOOLEAN,
     timezoneValid : BOOLEAN, offset : Int, events : Seq(EventSpec)]

buildState(spec, now) ==
    LET s == StateFor(spec.events, now, spec.offset)
    IN  [error |-> ScheduleError(spec.timezoneValid, spec.events, now, spec.offset),
         isSuspended |-> spec.suspend,
         shouldBeRunning |-> s.startOfCurrentRunPeriod # Nil /\ s.shouldBeRunning,
         startOfCurrentRunPeriod |-> s.startOfCurrentRunPeriod,
         lastStopTime |-> s.lastStopTime,
         nextEventTime |-> s.nextEventTime,
         desiredHash |-> spec.hash,
         restartOnSpecChange |-> EnableAutoRecreate /\ spec.recreate,
         deadline |-> spec.deadline]

-----------------------------------------------------------------------------
AllJobs(V) == {n \in DOMAIN V : V[n] # Nil}

\* Mutant of PotentiallyRunning: a Job being deleted is taken for gone.
PotentiallyRunningNotDeleting(V) ==
    {n \in AllJobs(V) : IsJobPotentiallyRunning(V[n]) /\ ~V[n].deleting}

PotentiallyRunning(V) == {n \in AllJobs(V) : IsJobPotentiallyRunning(V[n])}

\* The next run id: one more than the largest that can be read, 0 if none.
NextRunId(V) == Max({-1} \cup {V[n].runId : n \in {m \in AllJobs(V) : V[m].runId # Nil}}) + 1

\* Mutant of IsExpired: manually scheduled Jobs never expire.
IsExpiredUnlessManual(st, job) ==
    /\ st.lastStopTime # Nil
    /\ ~job.manual
    /\ job.start = Nil \/ job.start < st.lastStopTime

(***************************************************************************)
(* A Job is expired when its run period ended: it was scheduled before     *)
(* the most recent stop.  Without a readable scheduled time it counts as   *)
(* expired, unless there never was a stop.                                 *)
(***************************************************************************)
IsExpired(st, job) ==
    /\ st.lastStopTime # Nil
    /\ job.start = Nil \/ job.start < st.lastStopTime

ExpiredJobs(st, V) == {n \in AllJobs(V) : IsExpired(st, V[n])}
\* Mutant of NonExpiredJobs: Jobs that have completed are left out.
NonExpiredLiveJobs(st, V) ==
    {n \in AllJobs(V) : ~IsExpired(st, V[n]) /\ ~IsJobCompleted(V[n])}

NonExpiredJobs(st, V) == {n \in AllJobs(V) : ~IsExpired(st, V[n])}

isOutOfDate(st, job) == job.hash # Nil /\ job.hash # st.desiredHash

\* Mutant of isBetterCandidateJob: the smaller name wins.
isSmallerCandidateJob(st, V, m, n) ==
    LET current(k) == V[k].hash = st.desiredHash
    IN  IF V[m].deleting # V[n].deleting THEN ~V[m].deleting
        ELSE IF current(m) # current(n) THEN current(m)
        ELSE NameGreater(n, m)

isBetterCandidateJob(st, V, m, n) ==
    LET current(k) == V[k].hash = st.desiredHash
    IN  IF V[m].deleting # V[n].deleting THEN ~V[m].deleting
        ELSE IF current(m) # current(n) THEN current(m)
        ELSE NameGreater(m, n)

(***************************************************************************)
(* The one existing Job that may stay.  Outside the schedule only a        *)
(* manually scheduled Job may.                                             *)
(***************************************************************************)
BestCandidate(st, V) ==
    LET candidates == NonExpiredJobs(st, V)
    IN  IF candidates = {} THEN Nil
        ELSE CHOOSE n \in candidates :
                 \A m \in candidates \ {n} : isBetterCandidateJob(st, V, n, m)

ExistingChoice(st, V) ==
    LET best == BestCandidate(st, V)
    IN  IF best # Nil /\ ~st.shouldBeRunning /\ ~V[best].manual THEN Nil ELSE best

MustRecreate(st, V) ==
    LET chosen == ExistingChoice(st, V)
    IN  /\ chosen # Nil
        /\ isOutOfDate(st, V[chosen])
        /\ IsJobPotentiallyRunning(V[chosen])
        /\ ~WasJobStoppedByTheUser(V[chosen])
        /\ ~V[chosen].deleting
        /\ st.restartOnSpecChange

MustStart(st, V) == st.shouldBeRunning /\ ExistingChoice(st, V) = Nil

startingDeadlineSecondsExceeded(st, now) ==
    /\ st.deadline # Nil
    /\ st.deadline >= 1
    /\ st.startOfCurrentRunPeriod # Nil
    /\ now > st.startOfCurrentRunPeriod + st.deadline

(***************************************************************************)
(* makeDecision returns an error and drops everything it has decided when  *)
(* the replacement of an out of date Job cannot be built, when it is too   *)
(* late to start, and when the new Job cannot be built.  buildFails is the *)
(* outcome of the mutating webhook.                                        *)
(***************************************************************************)
DecisionFails(st, V, now, buildFails) ==
    \/ /\ MustRecreate(st, V)
       /\ V[ExistingChoice(st, V)].start = Nil \/ buildFails
    \/ /\ MustStart(st, V)
       /\ startingDeadlineSecondsExceeded(st, now) \/ buildFails

MustCreate(st, V) == MustRecreate(st, V) \/ MustStart(st, V)

\* Mutant of NumberOfPotentiallyRunningJobs: the Job to create is not counted.
NumberOfListedJobs(st, V) == Cardinality(PotentiallyRunning(V))

NumberOfPotentiallyRunningJobs(st, V) ==
    Cardinality(PotentiallyRunning(V)) + (IF MustCreate(st, V) THEN 1 ELSE 0)

NewJob == [name : Int \X Nat, job : Job]

ASSUME NilIsNoNewJob == Nil \notin NewJob

(***************************************************************************)
(* The Job to create.  It is created suspended, unless it is the only one  *)
(* that may run: then the suspend flag is cleared before it is created.    *)
(***************************************************************************)
JobToCreate(st, V) ==
    LET suspended == NumberOfPotentiallyRunningJobs(st, V) # 1
        old == ExistingChoice(st, V)
    IN  IF MustRecreate(st, V)
        THEN [name |-> JobName(V[old].start, NextRunId(V)),
              job  |-> RecreateJobWithNewSpec(V[old], st.desiredHash, NextRunId(V), suspended)]
        ELSE IF MustStart(st, V)
        THEN [name |-> JobName(st.startOfCurrentRunPeriod, 0),
              job  |-> BuildForControlledJob(st.desiredHash, st.startOfCurrentRunPeriod, 0,
                                             FALSE, suspended)]
        ELSE Nil

\* Mutant of ExpiredToDelete: Jobs that have completed are kept.
ExpiredLiveToDelete(st, V) ==
    {n \in ExpiredJobs(st, V) : ~V[n].deleting /\ ~IsJobCompleted(V[n])}

ExpiredToDelete(st, V) == {n \in ExpiredJobs(st, V) : ~V[n].deleting}

\* Mutant of SurplusToDelete: suspended Jobs do no harm and are kept.
SurplusRunningToDelete(st, V) ==
    LET kept == IF MustCreate(st, V) THEN Nil ELSE ExistingChoice(st, V)
    IN  {n \in NonExpiredJobs(st, V) :
            ~V[n].deleting /\ n # kept /\ ~IsJobCompleted(V[n]) /\ ~V[n].suspended}

\* Everything but the chosen Job is deleted or has completed.
SurplusToDelete(st, V) ==
    LET kept == IF MustCreate(st, V) THEN Nil ELSE ExistingChoice(st, V)
    IN  {n \in NonExpiredJobs(st, V) :
            ~V[n].deleting /\ n # kept /\ ~IsJobCompleted(V[n])}

\* Mutant of JobToUnsuspend: the user's stop is not respected.
JobToUnsuspendAlthoughStopped(st, V) ==
    LET chosen == ExistingChoice(st, V)
    IN  IF /\ ~MustCreate(st, V)
           /\ NumberOfPotentiallyRunningJobs(st, V) = 1
           /\ chosen # Nil
           /\ V[chosen].suspended
           /\ ~V[chosen].deleting
        THEN chosen ELSE Nil

(***************************************************************************)
(* An existing chosen Job is unsuspended when exactly one Job of the list  *)
(* may be running.                                                         *)
(***************************************************************************)
JobToUnsuspend(st, V) ==
    LET chosen == ExistingChoice(st, V)
    IN  IF /\ ~MustCreate(st, V)
           /\ NumberOfPotentiallyRunningJobs(st, V) = 1
           /\ chosen # Nil
           /\ V[chosen].suspended
           /\ ~V[chosen].deleting
           /\ ~WasJobStoppedByTheUser(V[chosen])
        THEN chosen ELSE Nil

-----------------------------------------------------------------------------
NoWork == [expired |-> {}, surplus |-> {}, create |-> Nil, unsuspend |-> Nil,
           requeueAt |-> Nil, fails |-> FALSE]

(***************************************************************************)
(* makeDecision, after buildState.  A suspended ControlledJob loses all    *)
(* its Jobs, those already being deleted included, and asks for no         *)
(* wake-up.                                                                *)
(***************************************************************************)
makeDecision(st, V, now, buildFails) ==
    IF st.error \/ (~st.isSuspended /\ DecisionFails(st, V, now, buildFails))
    THEN [NoWork EXCEPT !.fails = TRUE]
    ELSE IF st.isSuspended
    THEN [NoWork EXCEPT !.surplus = AllJobs(V)]
    ELSE [expired |-> ExpiredToDelete(st, V),
          surplus |-> SurplusToDelete(st, V),
          create |-> JobToCreate(st, V),
          unsuspend |-> JobToUnsuspend(st, V),
          requeueAt |-> st.nextEventTime,
          fails |-> FALSE]
=============================================================================
