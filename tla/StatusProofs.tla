---------------------------- MODULE StatusProofs ----------------------------
(***************************************************************************)
(* What the status says is so, for all names, specs, Jobs and bounds: the  *)
(* alarm and the Jobs that are told to be active; and it settles.          *)
(***************************************************************************)
EXTENDS StatusProperties, DecisionProofs

(***************************************************************************)
(* The types of what the conditions are computed from: every Job has a run *)
(* id that can be read, and only a completed one has failed.               *)
(***************************************************************************)
ReadableJob == {job \in Job : job.runId # Nil}

ClusterOK ==
    /\ jobs \in [Names -> ReadableJob \cup {Nil}]
    /\ failed \subseteq {n \in Names : Exists(n) /\ jobs[n].completed}
    /\ spec \in Specs
    /\ clock \in FirstTime .. MaxTime

\* The state Reconcile builds is that of the spec and the clock.
LEMMA StateIsBuilt == ClusterOK => State = buildState(spec, clock) /\ clock \in Int
BY TimeAssumption DEF ClusterOK, State, StateAt

\* The Jobs are a list makeDecision may be given.
LEMMA ClusterIsAList ==
    ASSUME ClusterOK
    PROVE  /\ jobs \in Lists(Names)
           /\ IsFiniteSet(Names) /\ OrdersNames(Names)
           /\ AllJobs(jobs) = {n \in Names : Exists(n)}
<1>1. jobs \in Lists(Names)
  BY DEF ClusterOK, Lists, ReadableJob
<1>2. IsFiniteSet(Names) /\ OrdersNames(Names)
  BY NamesAssumption, NamesAreOrdered
<1>3. AllJobs(jobs) = {n \in Names : Exists(n)}
  BY DEF AllJobs, Exists, ClusterOK
<1> QED  BY <1>1, <1>2, <1>3

\* What Reconcile decides has the types it should.
LEMMA DecidedType ==
    ASSUME ClusterOK, NEW buildFails \in BOOLEAN
    PROVE  LET d == makeDecision(State, jobs, clock, buildFails)
           IN  /\ d.expired \subseteq Names /\ d.surplus \subseteq Names
               /\ d.create \in [name : Int \X Nat, job : Job] \cup {Nil}
               /\ d.unsuspend \in Names \cup {Nil}
               /\ d.fails \in BOOLEAN
<1> DEFINE d == makeDecision(State, jobs, clock, buildFails)
<1>1. d \in [expired : SUBSET Names, surplus : SUBSET Names,
             create : [name : Int \X Nat, job : Job] \cup {Nil},
             unsuspend : Names \cup {Nil}, requeueAt : Int \cup {Nil}, fails : BOOLEAN]
  BY ClusterIsAList, NamesAssumption, SpecsAssumption, StateIsBuilt, makeDecisionType DEF ClusterOK
<1> HIDE DEF d
<1>2. d.create \in [name : Int \X Nat, job : Job] \cup {Nil}
  BY <1>1
<1>3. /\ d.expired \subseteq Names /\ d.surplus \subseteq Names
      /\ d.unsuspend \in Names \cup {Nil} /\ d.fails \in BOOLEAN
  BY <1>1
<1> QED  BY <1>2, <1>3 DEF d

\* A Job is created with a run id.
LEMMA CreatedIsReadable ==
    ASSUME NEW N, IsFiniteSet(N), NEW V \in Lists(N), NEW st, JobToCreate(st, V) # Nil
    PROVE  JobToCreate(st, V).job.runId # Nil /\ ~JobToCreate(st, V).job.completed
<1>1. NextRunId(V) \in Nat /\ Nil \notin Int
  BY NextRunIdIsNew, NilAssumption
<1> HIDE DEF NextRunId
<1> QED  BY <1>1 DEF JobToCreate, RecreateJobWithNewSpec, BuildForControlledJob, buildJob

\* What a decision that does not fail holds.
LEMMA DecidedForm ==
    ASSUME NEW st, NEW V, NEW now, NEW buildFails,
           ~makeDecision(st, V, now, buildFails).fails
    PROVE  LET d == makeDecision(st, V, now, buildFails)
           IN  /\ ~st.error
               /\ d.create \in {Nil, JobToCreate(st, V)}
               /\ d.expired \subseteq AllJobs(V) /\ d.surplus \subseteq AllJobs(V)
               /\ ~st.isSuspended =>
                     /\ d.expired = ExpiredToDelete(st, V)
                     /\ d.surplus = SurplusToDelete(st, V)
                     /\ d.create = JobToCreate(st, V)
                     /\ d.unsuspend = JobToUnsuspend(st, V)
                     /\ ~DecisionFails(st, V, now, buildFails)
BY DEF makeDecision, NoWork, ExpiredToDelete, SurplusToDelete, ExpiredJobs, NonExpiredJobs

-----------------------------------------------------------------------------
(* The cluster's types are kept.                                           *)

\* A Job with other flags is a Job.
LEMMA FlagsKeepJobs ==
    ASSUME NEW job \in ReadableJob
    PROVE  /\ [job EXCEPT !.suspended = TRUE, !.userStop = TRUE] \in ReadableJob
           /\ [job EXCEPT !.suspended = FALSE] \in ReadableJob
           /\ [job EXCEPT !.deleting = TRUE] \in ReadableJob
           /\ [job EXCEPT !.completed = TRUE] \in ReadableJob
BY DEF ReadableJob, Job

\* What the calls of a decision leave behind.
LEMMA CalledJobsType ==
    ASSUME ClusterOK, NEW d, NEW deleted, NEW failing,
           d = makeDecision(State, jobs, clock, FALSE), ~d.fails,
           deleted \subseteq Doomed(d), MayCall(d, deleted, failing)
    PROVE  /\ CalledJobs(d, deleted, failing) \in [Names -> ReadableJob \cup {Nil}]
           /\ \A n \in failed : /\ CalledJobs(d, deleted, failing)[n] # Nil
                                /\ CalledJobs(d, deleted, failing)[n].completed
<1> DEFINE new == CalledJobs(d, deleted, failing)
<1>1. /\ d.create \in {Nil, JobToCreate(State, jobs)}
      /\ d.expired \subseteq AllJobs(jobs) /\ d.surplus \subseteq AllJobs(jobs)
  BY DecidedForm
<1>2. deleted \subseteq {n \in Names : Exists(n)}
  BY <1>1, ClusterIsAList DEF Doomed
<1>3. /\ d.create \in [name : Int \X Nat, job : Job] \cup {Nil}
      /\ d.unsuspend \in Names \cup {Nil}
  BY DecidedType
<1>4. d.create # Nil => d.create.job \in ReadableJob
  BY <1>1, <1>3, ClusterIsAList, CreatedIsReadable DEF ReadableJob
<1>5. d.unsuspend # Nil => Exists(d.unsuspend)
  <2> SUFFICES ASSUME d.unsuspend # Nil PROVE Exists(d.unsuspend)
    OBVIOUS
  <2>1. JobToUnsuspend(State, jobs) # Nil /\ d.unsuspend = JobToUnsuspend(State, jobs)
    BY DEF makeDecision, NoWork
  <2> QED  BY <2>1, ClusterIsAList, ChosenJobExists DEF Exists
<1>6. failing = "none" /\ d.create # Nil => d.create.name \in Names /\ ~Exists(d.create.name)
  BY DEF MayCall, NameIsFree
<1>7. \A n \in Names : Exists(n) => jobs[n] \in ReadableJob
  BY DEF ClusterOK, Exists
<1>8. Nil \notin ReadableJob
  BY NilIsNoJob DEF ReadableJob
<1>9. ASSUME NEW n \in Names
      PROVE  /\ new[n] \in ReadableJob \cup {Nil}
             /\ n \in failed => new[n] \in ReadableJob /\ new[n].completed
  <2>1. CASE n \in deleted
    <3>1. new[n] = [jobs[n] EXCEPT !.deleting = TRUE]
      BY <2>1 DEF CalledJobs
    <3>2. jobs[n] \in ReadableJob /\ (n \in failed => jobs[n].completed)
      BY <1>2, <1>7, <2>1 DEF ClusterOK
    <3>3. [jobs[n] EXCEPT !.deleting = TRUE].completed = jobs[n].completed
      BY <3>2 DEF ReadableJob, Job
    <3> QED  BY <3>1, <3>2, <3>3, FlagsKeepJobs
  <2>2. CASE new[n] = jobs[n]
    BY <1>7, <2>2 DEF ClusterOK
  <2>3. CASE failing = "none" /\ d.create # Nil /\ n = d.create.name /\ n \notin deleted
    BY <1>4, <1>6, <2>3 DEF CalledJobs, ClusterOK
  <2>4. CASE failing = "none" /\ n = d.unsuspend /\ n \notin deleted
    <3>1. n # Nil
      BY NamesAssumption
    <3>2. jobs[n] \in ReadableJob /\ (n \in failed => jobs[n].completed)
      BY <1>5, <1>7, <2>4, <3>1 DEF ClusterOK
    <3>3. [jobs[n] EXCEPT !.suspended = FALSE].completed = jobs[n].completed
      BY <3>2 DEF ReadableJob, Job
    <3>4. \/ new[n] = [jobs[n] EXCEPT !.suspended = FALSE]
          \/ d.create # Nil /\ n = d.create.name
      BY <2>4 DEF CalledJobs
    <3> QED  BY <2>3, <2>4, <3>2, <3>3, <3>4, FlagsKeepJobs
  <2> QED  BY <2>1, <2>2, <2>3, <2>4 DEF CalledJobs
<1>10. DOMAIN new = Names /\ new = [n \in Names |-> new[n]]
  BY DEF CalledJobs
<1>11. failed \subseteq Names
  BY DEF ClusterOK
<1> HIDE DEF new
<1> QED  BY <1>8, <1>9, <1>10, <1>11 DEF new

\* The clock and the spec a user applies have their types.
LEMMA ClusterInit == Init => ClusterOK
BY NamesAssumption, TimeAssumption DEF Init, ClusterOK

\* The change of one Job keeps the types.
LEMMA OneJobChanges ==
    ASSUME ClusterOK, NEW n \in Names, NEW job \in ReadableJob,
           jobs' = [jobs EXCEPT ![n] = job],
           failed' \in {failed, failed \cup {n}},
           n \in failed' => job.completed,
           spec' \in Specs, clock' \in FirstTime .. MaxTime
    PROVE  ClusterOK'
<1>1. jobs' \in [Names -> ReadableJob \cup {Nil}] /\ jobs'[n] = job
  BY DEF ClusterOK
<1>2. \A k \in Names : k # n => jobs'[k] = jobs[k]
  BY DEF ClusterOK
<1>3. Nil \notin ReadableJob
  BY NilIsNoJob DEF ReadableJob
<1>4. ASSUME NEW k \in failed' PROVE k \in Names /\ jobs'[k] # Nil /\ jobs'[k].completed
  <2>1. CASE k = n
    BY <1>1, <1>3, <1>4, <2>1
  <2>2. CASE k # n
    BY <1>2, <1>4, <2>2 DEF ClusterOK, Exists
  <2> QED  BY <2>1, <2>2
<1> QED  BY <1>1, <1>4 DEF ClusterOK, Exists

\* What the deferred calls leave alone, and what they store.
LEMMA FinishForm ==
    ASSUME NEW c, NEW s, NEW h, NEW outcome, NEW cost, Finish(c, s, h, outcome, cost)
    PROVE  /\ UNCHANGED <<spec, clock, failed>>
           /\ last' = outcome
           /\ calm' = (jobs' = jobs)
           /\ changed' # Nil =>
                 /\ conditions' = calculateOverallConditions(c, outcome # "none").status
                 /\ summary' = s
                 /\ history' = h
BY DEF Finish

\* What the deferred calls may change, and what they say of it.
LEMMA FinishChanges ==
    ASSUME NEW c, NEW s, NEW h, NEW outcome, NEW cost, Finish(c, s, h, outcome, cost)
    PROVE  /\ conditions' \in {conditions,
                              calculateOverallConditions(c, outcome # "none").status}
           /\ summary' \in {summary, s}
           /\ changed' # Nil /\ changed' \cap {"conditions", "summary"} # {} =>
                 \/ calculateOverallConditions(c, outcome # "none").moved # {}
                 \/ s # summary
           /\ changed' # Nil =>
                 /\ changed' \subseteq {"conditions", "summary", "history"}
                 /\ "history" \in changed' => h # history
BY DEF Finish, status

\* A Reconcile whose decision does not fail.
LEMMA ReconcileForm ==
    ASSUME Reconcile
    PROVE  \E deleted, failing, order :
              LET d == makeDecision(State, jobs, clock, FALSE)
                  c == Decided(State, FALSE)
              IN  /\ ~d.fails
                  /\ deleted \subseteq Doomed(d)
                  /\ failing \in {"none", "delete", "create", "unsuspend"}
                  /\ MayCall(d, deleted, failing)
                  /\ jobs' = CalledJobs(d, deleted, failing)
                  /\ order \in Orders(d, deleted)
                  /\ Finish(CallConditions(c, d, deleted, failing), Summed(State, FALSE),
                            CallHistory(d, order, failing), failing,
                            IF IsFault(d, failing) THEN 1 ELSE 0)
<1> DEFINE Calls(d, c, s) ==
        /\ ~d.fails
        /\ \E deleted \in SUBSET Doomed(d), failing \in {"none", "delete", "create", "unsuspend"} :
              /\ MayCall(d, deleted, failing)
              /\ jobs' = CalledJobs(d, deleted, failing)
              /\ \E order \in Orders(d, deleted) :
                    Finish(CallConditions(c, d, deleted, failing), s,
                           CallHistory(d, order, failing), failing,
                           IF IsFault(d, failing) THEN 1 ELSE 0)
<1>1. \E st \in {State} :
      \E d \in {makeDecision(st, jobs, clock, FALSE)}, c \in {Decided(st, FALSE)},
         s \in {Summed(st, FALSE)} : Calls(d, c, s)
  BY DEF Reconcile
<1> HIDE DEF Calls
<1>2. \E d \in {makeDecision(State, jobs, clock, FALSE)}, c \in {Decided(State, FALSE)},
         s \in {Summed(State, FALSE)} : Calls(d, c, s)
  BY <1>1
<1> DEFINE d == makeDecision(State, jobs, clock, FALSE)
           c == Decided(State, FALSE)
           s == Summed(State, FALSE)
<1>3. Calls(d, c, s)
  BY <1>2
<1> HIDE DEF d, c, s
<1>4. PICK deleted \in SUBSET Doomed(d), failing \in {"none", "delete", "create", "unsuspend"} :
         /\ ~d.fails
         /\ MayCall(d, deleted, failing)
         /\ jobs' = CalledJobs(d, deleted, failing)
         /\ \E order \in Orders(d, deleted) :
               Finish(CallConditions(c, d, deleted, failing), s,
                      CallHistory(d, order, failing), failing,
                      IF IsFault(d, failing) THEN 1 ELSE 0)
  BY <1>3 DEF Calls
<1>5. PICK order \in Orders(d, deleted) :
         Finish(CallConditions(c, d, deleted, failing), s,
                CallHistory(d, order, failing), failing,
                IF IsFault(d, failing) THEN 1 ELSE 0)
  BY <1>4
<1> QED  BY <1>4, <1>5 DEF d, c, s

\* No step loses the cluster's types.
LEMMA ClusterStep == ClusterOK /\ [Next]_vars => ClusterOK'
<1> SUFFICES ASSUME ClusterOK, [Next]_vars PROVE ClusterOK'
  OBVIOUS
<1>0. /\ \A n \in Names : Exists(n) => jobs[n] \in ReadableJob
      /\ Nil \notin ReadableJob
  BY NilIsNoJob DEF ClusterOK, Exists, ReadableJob
<1>1. ASSUME jobs' \in [Names -> ReadableJob \cup {Nil}],
             \A n \in failed : jobs'[n] # Nil /\ jobs'[n].completed,
             UNCHANGED <<spec, clock, failed>>
      PROVE  ClusterOK'
  BY <1>1 DEF ClusterOK, Exists
<1>2. CASE Reconcile
  <2>1. PICK d, deleted, failing :
           /\ d = makeDecision(State, jobs, clock, FALSE) /\ ~d.fails
           /\ deleted \subseteq Doomed(d)
           /\ MayCall(d, deleted, failing)
           /\ jobs' = CalledJobs(d, deleted, failing)
           /\ UNCHANGED <<spec, clock, failed>>
    BY <1>2, ReconcileForm, FinishForm
  <2>2. /\ CalledJobs(d, deleted, failing) \in [Names -> ReadableJob \cup {Nil}]
        /\ \A n \in failed : /\ CalledJobs(d, deleted, failing)[n] # Nil
                             /\ CalledJobs(d, deleted, failing)[n].completed
    BY <2>1, CalledJobsType, ZenonT(40)
  <2>3. /\ jobs' \in [Names -> ReadableJob \cup {Nil}]
        /\ \A n \in failed : jobs'[n] # Nil /\ jobs'[n].completed
    BY <2>1, <2>2
  <2> QED  BY <1>1, <2>1, <2>3
<1>3. CASE ReconcileInVain
  <2>1. UNCHANGED <<jobs, spec, clock, failed>>
    BY <1>3, FinishForm DEF ReconcileInVain
  <2> QED  BY <2>1 DEF ClusterOK, Exists
<1>4. CASE UserEditsSpec
  BY <1>4 DEF UserEditsSpec, UserStep, ClusterOK, Exists
<1>5. CASE UserCreatesJob
  <2>1. PICK u \in UserJobs : ~Exists(u.name) /\ jobs' = [jobs EXCEPT ![u.name] = u.job]
    BY <1>5 DEF UserCreatesJob
  <2>2. u.name \in Names /\ u.job \in ReadableJob
    BY UserJobsAssumption DEF ReadableJob
  <2>3. u.name \notin failed
    BY <2>1 DEF ClusterOK
  <2>4. UNCHANGED <<spec, failed, clock>>
    BY <1>5 DEF UserCreatesJob, UserStep
  <2> QED  BY <2>1, <2>2, <2>3, <2>4, OneJobChanges DEF ClusterOK
<1>6. CASE UserStopsJob
  <2>1. PICK n \in Names : /\ Exists(n)
                           /\ jobs' = [jobs EXCEPT ![n].suspended = TRUE, ![n].userStop = TRUE]
    BY <1>6 DEF UserStopsJob
  <2>2. jobs' = [jobs EXCEPT ![n] = [jobs[n] EXCEPT !.suspended = TRUE, !.userStop = TRUE]]
    BY <1>0, <2>1 DEF ClusterOK
  <2>3. [jobs[n] EXCEPT !.suspended = TRUE, !.userStop = TRUE].completed = jobs[n].completed
    BY <1>0, <2>1 DEF ReadableJob, Job
  <2>4. UNCHANGED <<spec, failed, clock>>
    BY <1>6 DEF UserStopsJob, UserStep
  <2>5. [jobs[n] EXCEPT !.suspended = TRUE, !.userStop = TRUE] \in ReadableJob
    BY <1>0, <2>1, FlagsKeepJobs
  <2> QED  BY <2>2, <2>3, <2>4, <2>5, OneJobChanges DEF ClusterOK
<1>7. CASE UserDeletesJob
  <2>1. PICK n \in Names : Exists(n) /\ jobs' = [jobs EXCEPT ![n].deleting = TRUE]
    BY <1>7 DEF UserDeletesJob
  <2>2. jobs' = [jobs EXCEPT ![n] = [jobs[n] EXCEPT !.deleting = TRUE]]
    BY <1>0, <2>1 DEF ClusterOK
  <2>3. [jobs[n] EXCEPT !.deleting = TRUE].completed = jobs[n].completed
    BY <1>0, <2>1 DEF ReadableJob, Job
  <2>4. UNCHANGED <<spec, failed, clock>>
    BY <1>7 DEF UserDeletesJob, UserStep
  <2>5. [jobs[n] EXCEPT !.deleting = TRUE] \in ReadableJob
    BY <1>0, <2>1, FlagsKeepJobs
  <2> QED  BY <2>2, <2>3, <2>4, <2>5, OneJobChanges DEF ClusterOK
<1>8. ASSUME NEW n \in Names, FinishJob(n) PROVE ClusterOK'
  <2>1. jobs' = [jobs EXCEPT ![n] = [jobs[n] EXCEPT !.completed = TRUE]] /\ Exists(n)
    BY <1>0, <1>8 DEF FinishJob, ClusterOK
  <2>2. [jobs[n] EXCEPT !.completed = TRUE].completed
    BY <1>0, <2>1 DEF ReadableJob, Job
  <2>3. failed' \in {failed, failed \cup {n}} /\ UNCHANGED <<spec, clock>>
    BY <1>8 DEF FinishJob
  <2>4. [jobs[n] EXCEPT !.completed = TRUE] \in ReadableJob
    BY <1>0, <2>1, FlagsKeepJobs
  <2> QED  BY <2>1, <2>2, <2>3, <2>4, OneJobChanges DEF ClusterOK
<1>9. ASSUME NEW n \in Names, RemoveJob(n) PROVE ClusterOK'
  BY <1>1, <1>9 DEF RemoveJob, ClusterOK, Exists
<1>10. CASE Tick
  <2>1. clock' \in FirstTime .. MaxTime
    BY <1>10, TimeAssumption DEF Tick, ClusterOK
  <2> QED  BY <1>10, <2>1 DEF Tick, ClusterOK, Exists
<1>11. CASE UNCHANGED vars
  BY <1>11 DEF vars, ClusterOK, Exists
<1> QED  BY <1>2, <1>3, <1>4, <1>5, <1>6, <1>7, <1>8, <1>9, <1>10, <1>11 DEF Next

-----------------------------------------------------------------------------
(* The decision of a Reconcile that leaves the Jobs as they are.           *)

\* It had nothing to delete, to create or to unsuspend.
LEMMA NothingLeftToDo ==
    ASSUME ClusterOK, NEW d, NEW deleted,
           d = makeDecision(State, jobs, clock, FALSE), ~d.fails, ~State.isSuspended,
           deleted \subseteq Doomed(d), MayCall(d, deleted, "none"),
           CalledJobs(d, deleted, "none") = jobs
    PROVE  /\ deleted = {} /\ d.create = Nil /\ d.unsuspend = Nil
           /\ ExpiredToDelete(State, jobs) = {} /\ SurplusToDelete(State, jobs) = {}
           /\ ~MustCreate(State, jobs)
<1> DEFINE called == CalledJobs(d, deleted, "none")
<1>1. /\ d.expired = ExpiredToDelete(State, jobs) /\ d.surplus = SurplusToDelete(State, jobs)
      /\ d.create = JobToCreate(State, jobs) /\ d.unsuspend = JobToUnsuspend(State, jobs)
  BY DecidedForm, ZenonT(40)
<1>2. d.create \in [name : Int \X Nat, job : Job] \cup {Nil} /\ d.unsuspend \in Names \cup {Nil}
  BY DecidedType
<1>3. \A n \in Doomed(d) : n \in Names /\ jobs[n] \in ReadableJob /\ ~jobs[n].deleting
  BY <1>1, ClusterIsAList
  DEF Doomed, ExpiredToDelete, SurplusToDelete, ExpiredJobs, NonExpiredJobs, AllJobs, ClusterOK
<1>4. deleted = {}
  <2> SUFFICES ASSUME NEW n \in deleted PROVE FALSE
    OBVIOUS
  <2>1. n \in Names /\ jobs[n] \in ReadableJob /\ ~jobs[n].deleting
    BY <1>3
  <2>2. called[n] = [jobs[n] EXCEPT !.deleting = TRUE]
    BY <2>1 DEF CalledJobs
  <2>3. called[n].deleting
    BY <2>1, <2>2 DEF ReadableJob, Job
  <2> QED  BY <2>1, <2>3
<1>5. Doomed(d) = {}
  BY <1>4 DEF MayCall
<1>6. d.create = Nil
  <2> SUFFICES ASSUME d.create # Nil PROVE FALSE
    OBVIOUS
  <2>1. d.create.name \in Names /\ jobs[d.create.name] = Nil
    BY DEF MayCall, NameIsFree, Exists
  <2>2. called[d.create.name] = d.create.job
    BY <1>4, <2>1 DEF CalledJobs
  <2> QED  BY <1>2, <2>1, <2>2, NilIsNoJob
<1>7. d.unsuspend = Nil
  <2> SUFFICES ASSUME d.unsuspend # Nil PROVE FALSE
    OBVIOUS
  <2> DEFINE n == d.unsuspend
  <2>1. n \in Names /\ jobs[n] # Nil /\ jobs[n].suspended
    BY <1>1, <1>2, ClusterIsAList, ChosenJobExists DEF JobToUnsuspend
  <2>2. called[n] = [jobs[n] EXCEPT !.suspended = FALSE]
    BY <1>4, <1>6, <2>1 DEF CalledJobs
  <2>3. ~called[n].suspended
    BY <2>1, <2>2, ZenonT(40) DEF ClusterOK, ReadableJob, Job
  <2> QED  BY <2>1, <2>3
<1>8. ~MustCreate(State, jobs)
  <2> SUFFICES ASSUME MustCreate(State, jobs) PROVE FALSE
    OBVIOUS
  <2>1. State.desiredHash \in Hashes
        /\ (State.shouldBeRunning => State.startOfCurrentRunPeriod \in Int)
    BY SpecsAssumption, StateIsBuilt, buildStateType DEF ClusterOK
  <2>2. ExistingChoice(State, jobs) \in AllJobs(jobs) \cup {Nil}
    BY ClusterIsAList, BestCandidateExists
  <2>3. ~DecisionFails(State, jobs, clock, FALSE)
    BY DecidedForm
  <2>4. JobToCreate(State, jobs) \in [name : Int \X Nat, job : Job]
    BY <2>1, <2>2, <2>3, ClusterIsAList, JobToCreateType
  <2> QED  BY <1>1, <1>6, <2>4, NilIsNoNewJob DEF NewJob
<1> QED  BY <1>1, <1>4, <1>5, <1>6, <1>7, <1>8 DEF Doomed

\* Names differ in their order.
LEMMA BetterIsAsymmetric ==
    ASSUME ClusterOK, NEW st, NEW m \in AllJobs(jobs), NEW n \in AllJobs(jobs), m # n,
           isBetterCandidateJob(st, jobs, m, n)
    PROVE  ~isBetterCandidateJob(st, jobs, n, m)
<1>1. m \in Names /\ n \in Names /\ jobs[m].deleting \in BOOLEAN /\ jobs[n].deleting \in BOOLEAN
  BY ClusterIsAList DEF AllJobs, ClusterOK, ReadableJob, Job
<1> QED  BY <1>1, NamesAssumption, NamesAreOrdered DEF isBetterCandidateJob, OrdersNames

\* One of the Jobs, if there is any, is reported: the best of all.
LEMMA ReportedIsBest ==
    ASSUME ClusterOK, NEW st, AllJobs(jobs) # {}
    PROVE  /\ JobToReport(st, jobs) \in AllJobs(jobs)
           /\ \A m \in AllJobs(jobs) \ {JobToReport(st, jobs)} :
                 isBetterCandidateJob(st, jobs, JobToReport(st, jobs), m)
<1> DEFINE readable == {n \in AllJobs(jobs) : jobs[n].runId # Nil}
<1>1. readable = AllJobs(jobs)
  BY ClusterIsAList DEF AllJobs, ClusterOK, ReadableJob
<1>2. \E n \in readable : \A m \in readable \ {n} : isBetterCandidateJob(st, jobs, n, m)
  BY <1>1, ClusterIsAList, BestJobExists
<1>3. readable # {}
  BY <1>1
<1>4. JobToReport(st, jobs)
         = CHOOSE n \in readable : \A m \in readable \ {n} : isBetterCandidateJob(st, jobs, n, m)
  BY <1>3 DEF JobToReport
<1> HIDE DEF readable
<1> QED  BY <1>1, <1>2, <1>4

(***************************************************************************)
(* The Job that is reported is the one that is chosen, unless an expired   *)
(* Job that nobody has deleted comes between.                              *)
(***************************************************************************)
LEMMA ReportedIsChosen ==
    ASSUME ClusterOK, NEW st, NEW b, b = ExistingChoice(st, jobs), b # Nil,
           ~jobs[b].deleting,
           \A n \in ExpiredJobs(st, jobs) : jobs[n].deleting
    PROVE  JobToReport(st, jobs) = b
<1> DEFINE r == JobToReport(st, jobs)
<1>1. /\ b = BestCandidate(st, jobs) /\ b \in NonExpiredJobs(st, jobs)
      /\ \A m \in NonExpiredJobs(st, jobs) \ {b} : isBetterCandidateJob(st, jobs, b, m)
  BY ClusterIsAList, BestCandidateIsBest DEF ExistingChoice, BestCandidate
<1>2. b \in AllJobs(jobs)
  BY <1>1 DEF NonExpiredJobs
<1>3. r \in AllJobs(jobs) /\ (r # b => isBetterCandidateJob(st, jobs, r, b))
  BY <1>2, ReportedIsBest
<1> SUFFICES ASSUME r # b PROVE FALSE
  OBVIOUS
<1>4. ~isBetterCandidateJob(st, jobs, b, r)
  BY <1>2, <1>3, BetterIsAsymmetric
<1>5. r \in ExpiredJobs(st, jobs)
  BY <1>1, <1>3, <1>4 DEF NonExpiredJobs, ExpiredJobs
<1>6. jobs[r].deleting
  BY <1>5
<1>7. isBetterCandidateJob(st, jobs, b, r)
  BY <1>6 DEF isBetterCandidateJob
<1> QED  BY <1>4, <1>7

-----------------------------------------------------------------------------
(* The conditions of such a Reconcile.                                     *)

\* What the first function says counts.
LEMMA FirstCounts ==
    ASSUME NEW f, NEW g, NEW x
    PROVE  /\ DOMAIN Over(f, g) = DOMAIN f \cup DOMAIN g
           /\ x \in DOMAIN f => Over(f, g)[x] = f[x]
           /\ x \in DOMAIN g /\ x \notin DOMAIN f => Over(f, g)[x] = g[x]
BY DEF Over

\* The conditions of the Jobs that the alarm depends on.
LEMMA JobConditions ==
    ASSUME ClusterOK, NEW st
    PROVE  LET f == setJobConditions(st, jobs, failed)
           IN  /\ DOMAIN f = JobTypes
               /\ AllJobs(jobs) = {} => f["JobExists"] = "False"
               /\ AllJobs(jobs) # {} =>
                     /\ f["JobExists"] = "True"
                     /\ f["JobFailed"] = "True" <=> JobToReport(st, jobs) \in failed
<1> DEFINE n == JobToReport(st, jobs)
           f == setJobConditions(st, jobs, failed)
<1>1. CASE AllJobs(jobs) = {}
  <2>1. n = Nil
    BY <1>1 DEF JobToReport
  <2>2. f = [t \in JobTypes |-> IF t = "JobExists" THEN "False" ELSE "Unknown"]
    BY <2>1 DEF setJobConditions
  <2> QED  BY <1>1, <2>2 DEF JobTypes
<1>2. CASE AllJobs(jobs) # {}
  <2>1. n # Nil
    BY <1>2, ReportedIsBest, ClusterIsAList, NamesAssumption
  <2> HIDE DEF n
  <2>2. \E complete, suspended, stopped :
           f = [JobExists |-> "True", JobComplete |-> complete,
                JobFailed |-> IF n \in failed THEN "True" ELSE "Unknown",
                JobSuspended |-> suspended, JobStoppedByUser |-> stopped]
    BY <2>1 DEF setJobConditions, n
  <2> HIDE DEF f
  <2>3. DOMAIN f = JobTypes
    BY <2>2 DEF JobTypes
  <2>4. f["JobExists"] = "True" /\ (f["JobFailed"] = "True" <=> n \in failed)
    BY <2>2
  <2> QED  BY <1>2, <2>3, <2>4 DEF n, f
<1> QED  BY <1>1, <1>2

\* The conditions makeDecision leaves, whether it fails or not.
LEMMA DecidedConditions ==
    ASSUME ClusterOK, NEW buildFails, ~State.error, ~State.isSuspended, State.shouldBeRunning
    PROVE  LET c == Decided(State, buildFails).status
           IN  /\ {"ShouldBeRunning", "JobExists", "JobFailed"} \subseteq DOMAIN c
               /\ c["ShouldBeRunning"] = "True"
               /\ AllJobs(jobs) = {} => c["JobExists"] = "False"
               /\ AllJobs(jobs) # {} =>
                     /\ c["JobExists"] = "True"
                     /\ c["JobFailed"] = "True" <=> JobToReport(State, jobs) \in failed
<1> DEFINE j == setJobConditions(State, jobs, failed)
           a == setConditionsForAllJobs(jobs)
           s == setShouldBeRunningStatus(State)
           u == [Suspended |-> Flag(State.isSuspended)]
           r == IF RecreateFails(State, jobs, buildFails) THEN NoConditions
                ELSE Over([OutOfDate |-> Flag(OutOfDate(State, jobs))],
                          setDeadlineCondition(State, jobs, clock))
           jr == Over(j, r)
           ajr == Over(a, jr)
           uajr == Over(u, ajr)
           f == Over(s, uajr)
<1>1. Decided(State, buildFails).status = Over(f, conditions)
  BY DEF Decided, SetCondition, Before, DecisionConditions
<1>2. /\ DOMAIN s = {"ShouldBeRunning"} /\ s["ShouldBeRunning"] = "True"
      /\ DOMAIN u = {"Suspended"}
  <2>1. State.startOfCurrentRunPeriod # Nil
    <3>1. buildState(spec, clock).shouldBeRunning
             => buildState(spec, clock).startOfCurrentRunPeriod # Nil
      BY DEF buildState
    <3> QED  BY <3>1, StateIsBuilt
  <2> QED  BY <2>1 DEF setShouldBeRunningStatus, Flag
<1>3. DOMAIN a = ListTypes /\ DOMAIN j = JobTypes
  BY JobConditions DEF setConditionsForAllJobs
<1> HIDE DEF j, a, s, u, r
<1>4. /\ "ShouldBeRunning" \in DOMAIN Over(f, conditions)
      /\ Over(f, conditions)["ShouldBeRunning"] = "True"
  BY <1>2 DEF Over
<1>5. ASSUME NEW t \in {"JobExists", "JobFailed"}
      PROVE  t \in DOMAIN Over(f, conditions) /\ Over(f, conditions)[t] = j[t]
  <2>1. t \in JobTypes /\ t \notin ListTypes /\ t \notin {"ShouldBeRunning", "Suspended"}
    BY <1>5 DEF JobTypes, ListTypes
  <2>2. t \in DOMAIN jr /\ jr[t] = j[t]
    BY <1>3, <2>1 DEF Over
  <2> HIDE DEF jr
  <2>3. t \in DOMAIN ajr /\ ajr[t] = j[t]
    BY <1>3, <2>1, <2>2 DEF Over
  <2> HIDE DEF ajr
  <2>4. t \in DOMAIN uajr /\ uajr[t] = j[t]
    BY <1>2, <2>1, <2>3 DEF Over
  <2> HIDE DEF uajr
  <2>5. t \in DOMAIN f /\ f[t] = j[t]
    BY <1>2, <2>1, <2>4 DEF Over
  <2> HIDE DEF f
  <2> QED  BY <2>5 DEF Over
<1> HIDE DEF f
<1> QED  BY <1>1, <1>4, <1>5, JobConditions DEF j

\* The alarm, from the conditions.
LEMMA AlarmFromConditions ==
    ASSUME NEW c, NEW error, IsTrue(c, "ShouldBeRunning")
    PROVE  calculateOverallConditions(c, error).status["NotRunningUnexpectedly"] = "True"
              <=> ~(IsTrue(c, "JobExists") /\ ~IsTrue(c, "JobFailed"))
<1> DEFINE e == SetCondition(c, [Error |-> Flag(error)])
           v == [t \in Verdicts |-> IF t = Verdict(c) THEN "True" ELSE "Unknown"]
<1>1. calculateOverallConditions(c, error) = SetCondition(e, v)
  BY DEF calculateOverallConditions
<1>2. /\ "NotRunningUnexpectedly" \in DOMAIN v
      /\ v["NotRunningUnexpectedly"] = "True" <=> Verdict(c) = "NotRunningUnexpectedly"
  BY DEF Verdicts
<1>3. Verdict(c) = "NotRunningUnexpectedly"
         <=> ~(IsTrue(c, "JobExists") /\ ~IsTrue(c, "JobFailed"))
  BY DEF Verdict, VerdictOf, ExpectedToRun
<1> HIDE DEF e, v
<1>4. SetCondition(e, v).status = Over(v, e.status)
  BY DEF SetCondition
<1> QED  BY <1>1, <1>2, <1>3, <1>4 DEF Over

-----------------------------------------------------------------------------
(* The properties.                                                         *)

\* A Reconcile leaves the spec and the clock alone.
LEMMA ReconcileKeeps ==
    ASSUME Reconcile
    PROVE  UNCHANGED <<spec, clock, failed>> /\ last' \in {"none", "delete", "create", "unsuspend"}
<1> DEFINE c == Decided(State, FALSE)
<1>1. PICK d, deleted, failing, order :
         /\ d = makeDecision(State, jobs, clock, FALSE) /\ ~d.fails
         /\ deleted \subseteq Doomed(d)
         /\ failing \in {"none", "delete", "create", "unsuspend"}
         /\ MayCall(d, deleted, failing)
         /\ jobs' = CalledJobs(d, deleted, failing)
         /\ Finish(CallConditions(c, d, deleted, failing), Summed(State, FALSE),
                   CallHistory(d, order, failing), failing,
                   IF IsFault(d, failing) THEN 1 ELSE 0)
  BY ReconcileForm
<1> QED  BY <1>1, FinishForm

\* A Reconcile that stores that nothing was left to do.
LEMMA QuietReconcile ==
    ASSUME ClusterOK, Reconcile, calm', changed' # Nil, last' = "none", ~State.isSuspended
    PROVE  /\ ~State.error
           /\ UNCHANGED <<jobs, failed, spec, clock>>
           /\ conditions' = calculateOverallConditions(Decided(State, FALSE), FALSE).status
           /\ summary' = Summed(State, FALSE)
           /\ ExpiredToDelete(State, jobs) = {} /\ SurplusToDelete(State, jobs) = {}
           /\ ~MustCreate(State, jobs)
<1> DEFINE c == Decided(State, FALSE)
<1>1. PICK d, deleted, failing, order :
         /\ d = makeDecision(State, jobs, clock, FALSE) /\ ~d.fails
         /\ deleted \subseteq Doomed(d)
         /\ MayCall(d, deleted, failing)
         /\ jobs' = CalledJobs(d, deleted, failing)
         /\ Finish(CallConditions(c, d, deleted, failing), Summed(State, FALSE),
                   CallHistory(d, order, failing), failing,
                   IF IsFault(d, failing) THEN 1 ELSE 0)
  BY ReconcileForm
<1> DEFINE s == Summed(State, FALSE)
           h == CallHistory(d, order, failing)
           cost == IF IsFault(d, failing) THEN 1 ELSE 0
<1>0. Finish(CallConditions(c, d, deleted, failing), s, h, failing, cost)
  BY <1>1
<1> HIDE DEF c, s, h, cost
<1>2. /\ UNCHANGED <<jobs, spec, clock, failed>>
      /\ failing = "none"
      /\ conditions' = calculateOverallConditions(CallConditions(c, d, deleted, failing),
                                                  failing # "none").status
      /\ summary' = s
  BY <1>0, FinishForm, ZenonT(40)
<1>3. /\ MayCall(d, deleted, "none") /\ CalledJobs(d, deleted, "none") = jobs
  BY <1>1, <1>2
<1>4. /\ deleted = {} /\ d.create = Nil /\ d.unsuspend = Nil
      /\ ExpiredToDelete(State, jobs) = {} /\ SurplusToDelete(State, jobs) = {}
      /\ ~MustCreate(State, jobs)
  BY <1>1, <1>3, NothingLeftToDo
<1>5. CallConditions(c, d, deleted, failing) = c
  BY <1>2, <1>4 DEF CallConditions
<1>6. ~State.error
  BY <1>1, DecidedForm
<1> QED  BY <1>2, <1>4, <1>5, <1>6 DEF c, s

\* A Reconcile whose decision fails, and that stores it.
LEMMA VainReconcile ==
    ASSUME ReconcileInVain, changed' # Nil
    PROVE  \E buildFails :
              /\ makeDecision(State, jobs, clock, buildFails).fails
              /\ UNCHANGED <<jobs, failed, spec, clock>>
              /\ last' = "decision"
              /\ conditions' = calculateOverallConditions(Decided(State, buildFails), TRUE).status
<1>1. PICK buildFails \in BOOLEAN :
         /\ makeDecision(State, jobs, clock, buildFails).fails
         /\ jobs' = jobs
         /\ Finish(Decided(State, buildFails), Summed(State, buildFails), history,
                   "decision", IF buildFails THEN 1 ELSE 0)
  BY DEF ReconcileInVain
<1>2. /\ UNCHANGED <<spec, clock, failed>>
      /\ last' = "decision"
      /\ conditions' = calculateOverallConditions(Decided(State, buildFails),
                                                  "decision" # "none").status
  BY <1>1, FinishForm
<1> QED  BY <1>1, <1>2

\* Inside the schedule the alarm is on when no Job is reported, or one that has failed.
LEMMA AlarmForm ==
    ASSUME ClusterOK, NEW buildFails, NEW error,
           ~State.error, ~State.isSuspended, State.shouldBeRunning
    PROVE  calculateOverallConditions(Decided(State, buildFails), error)
              .status["NotRunningUnexpectedly"] = "True"
           <=> AllJobs(jobs) = {} \/ JobToReport(State, jobs) \in failed
<1> DEFINE c == Decided(State, buildFails)
<1>1. /\ c.status["ShouldBeRunning"] = "True"
      /\ AllJobs(jobs) = {} => c.status["JobExists"] = "False"
      /\ AllJobs(jobs) # {} =>
            /\ c.status["JobExists"] = "True"
            /\ c.status["JobFailed"] = "True" <=> JobToReport(State, jobs) \in failed
  BY DecidedConditions
<1> HIDE DEF c
<1>2. calculateOverallConditions(c, error).status["NotRunningUnexpectedly"] = "True"
         <=> ~(IsTrue(c, "JobExists") /\ ~IsTrue(c, "JobFailed"))
  BY <1>1, AlarmFromConditions DEF IsTrue
<1> QED  BY <1>1, <1>2 DEF c, IsTrue

(***************************************************************************)
(* What the alarm is to say, of a cluster and a decision that found        *)
(* nothing to do, or failed.                                               *)
(***************************************************************************)
LEMMA AlarmTellsTheTruth ==
    ASSUME ClusterOK, ~State.isSuspended, ~State.error,
           \/ /\ ExpiredToDelete(State, jobs) = {} /\ SurplusToDelete(State, jobs) = {}
              /\ ~MustCreate(State, jobs)
           \/ \E buildFails : DecisionFails(State, jobs, clock, buildFails)
    PROVE  /\ /\ AllJobs(jobs) = {} \/ JobToReport(State, jobs) \in failed
              /\ \A n \in ExpiredJobs(State, jobs) : jobs[n].deleting
              => \A n \in Names : Exists(n) => jobs[n].completed \/ jobs[n].deleting
           /\ (\A n \in Names : Exists(n) => n \in failed)
              => AllJobs(jobs) = {} \/ JobToReport(State, jobs) \in failed
<1> DEFINE chosen == ExistingChoice(State, jobs)
<1>1. AllJobs(jobs) = {n \in Names : Exists(n)}
  BY ClusterIsAList
<1>2. (\A n \in Names : Exists(n) => n \in failed)
         => AllJobs(jobs) = {} \/ JobToReport(State, jobs) \in failed
  BY <1>1, ReportedIsBest
<1>3. ASSUME AllJobs(jobs) = {} \/ JobToReport(State, jobs) \in failed,
             \A n \in ExpiredJobs(State, jobs) : jobs[n].deleting,
             NEW n \in Names, Exists(n), ~jobs[n].completed, ~jobs[n].deleting
      PROVE  FALSE
  <2>1. n \in AllJobs(jobs) /\ n \in NonExpiredJobs(State, jobs) /\ JobToReport(State, jobs) \in failed
    BY <1>1, <1>3 DEF NonExpiredJobs, ExpiredJobs
  <2>2. ASSUME chosen # Nil, ~jobs[chosen].deleting, ~jobs[chosen].completed PROVE FALSE
    <3>1. JobToReport(State, jobs) = chosen
      BY <1>3, <2>2, ReportedIsChosen
    <3> QED  BY <2>1, <2>2, <3>1 DEF ClusterOK
  <2>3. CASE /\ ExpiredToDelete(State, jobs) = {} /\ SurplusToDelete(State, jobs) = {}
             /\ ~MustCreate(State, jobs)
    <3>1. n = chosen
      BY <1>3, <2>1, <2>3, StayingJobIsChosen
    <3> QED  BY <1>3, <2>2, <3>1, NamesAssumption
  <2>4. CASE MustRecreate(State, jobs)
    BY <2>2, <2>4 DEF MustRecreate, IsJobPotentiallyRunning, IsJobCompleted
  <2>5. CASE MustStart(State, jobs)
    <3>1. State.shouldBeRunning /\ chosen = Nil
      BY <2>5 DEF MustStart
    <3>2. BestCandidate(State, jobs) \in NonExpiredJobs(State, jobs)
      BY <2>1, ClusterIsAList, BestCandidateIsBest
    <3>3. BestCandidate(State, jobs) # Nil
      BY <3>2, <1>1, NamesAssumption DEF NonExpiredJobs
    <3> QED  BY <3>1, <3>3 DEF ExistingChoice
  <2> QED  BY <2>3, <2>4, <2>5 DEF DecisionFails
<1> QED  BY <1>2, <1>3

\* No step makes the alarm wrong.
LEMMA AlarmStep == ClusterOK /\ AlarmIsRight /\ [Next]_vars => AlarmIsRight'
<1> SUFFICES ASSUME ClusterOK, AlarmIsRight, [Next]_vars,
                    calm', changed' # Nil, last' \in {"none", "decision"},
                    InSchedule', ~spec'.suspend
             PROVE  /\ (AlarmIsOn /\ NoLeftovers)'
                       => \A n \in Names : Exists(n)' => (jobs[n].completed \/ jobs[n].deleting)'
                    /\ (\A n \in Names : Exists(n)' => n \in failed') => AlarmIsOn'
  BY DEF AlarmIsRight, Stored
<1>1. ASSUME UNCHANGED <<jobs, failed, spec, clock>>, NEW buildFails, NEW error,
             conditions' = calculateOverallConditions(Decided(State, buildFails), error).status,
             \/ /\ ExpiredToDelete(State, jobs) = {} /\ SurplusToDelete(State, jobs) = {}
                /\ ~MustCreate(State, jobs)
             \/ \E b : DecisionFails(State, jobs, clock, b)
      PROVE  /\ (AlarmIsOn /\ NoLeftovers)'
                => \A n \in Names : Exists(n)' => (jobs[n].completed \/ jobs[n].deleting)'
             /\ (\A n \in Names : Exists(n)' => n \in failed') => AlarmIsOn'
  <2>1. State' = State
    BY <1>1 DEF State
  <2>2. ~State.error /\ State.shouldBeRunning /\ ~State.isSuspended
    BY <1>1, <2>1, StateIsBuilt DEF InSchedule, buildState
  <2>3. AlarmIsOn' <=> AllJobs(jobs) = {} \/ JobToReport(State, jobs) \in failed
    BY <1>1, <2>2, AlarmForm DEF AlarmIsOn
  <2>4. NoLeftovers' <=> \A n \in ExpiredJobs(State, jobs) : jobs[n].deleting
    BY <1>1, <2>1 DEF NoLeftovers
  <2>5. \A n : (Exists(n)' <=> Exists(n)) /\ jobs'[n] = jobs[n]
    BY <1>1 DEF Exists
  <2> QED  BY <1>1, <2>2, <2>3, <2>4, <2>5, AlarmTellsTheTruth
<1>2. CASE Reconcile
  <2>1. last' = "none"
    BY <1>2, ReconcileKeeps
  <2>2. ~State.isSuspended
    BY <1>2, ReconcileKeeps, StateIsBuilt DEF buildState
  <2> QED  BY <1>1, <1>2, <2>1, <2>2, QuietReconcile
<1>3. CASE ReconcileInVain
  <2>1. PICK b : /\ makeDecision(State, jobs, clock, b).fails
                 /\ UNCHANGED <<jobs, failed, spec, clock>>
                 /\ conditions' = calculateOverallConditions(Decided(State, b), TRUE).status
    BY <1>3, VainReconcile
  <2>2. ~State.error
    BY <2>1 DEF InSchedule, State
  <2>3. DecisionFails(State, jobs, clock, b)
    BY <2>1, <2>2 DEF makeDecision, NoWork
  <2> QED  BY <1>1, <2>1, <2>3
<1>4. CASE UNCHANGED vars
  <2>1. UNCHANGED <<jobs, failed, spec, clock, conditions, changed, last, calm>>
    BY <1>4 DEF vars
  <2> QED  BY <2>1 DEF AlarmIsRight, Stored, InSchedule, State, AlarmIsOn, NoLeftovers, Exists
<1>5. CASE Next /\ ~Reconcile /\ ~ReconcileInVain
  BY <1>5 DEF Next, UserEditsSpec, UserCreatesJob, UserStopsJob, UserDeletesJob, UserStep,
              FinishJob, RemoveJob, Tick, Elsewhere
<1> QED  BY <1>2, <1>3, <1>4, <1>5

(***************************************************************************)
(* The alarm says what is so, for all specs, Jobs and failures             *)
(* (setJobConditions, calculateOverallConditions).                         *)
(***************************************************************************)
THEOREM AlarmHolds == Spec => []AlarmIsRight
<1>1. Init => AlarmIsRight
  BY DEF Init, AlarmIsRight
<1> QED  BY <1>1, ClusterInit, ClusterStep, AlarmStep, PTL DEF Spec

\* No step makes active or isRunning wrong.
LEMMA RunningStep == ClusterOK /\ RunningIsTold /\ [Next]_vars => RunningIsTold'
<1> SUFFICES ASSUME ClusterOK, RunningIsTold, [Next]_vars,
                    calm', changed' # Nil, last' = "none", ~spec'.suspend
             PROVE  /\ summary'.active = {n \in Names : Exists(n)' /\ ~jobs'[n].completed}
                    /\ (\E n \in summary'.active : ~jobs'[n].deleting)
                       => summary'.isRunning = TRUE
  BY DEF RunningIsTold, Stored
<1>1. CASE Reconcile
  <2>1. ~State.isSuspended
    BY <1>1, ReconcileKeeps, StateIsBuilt DEF buildState
  <2>2. /\ ~State.error
        /\ jobs' = jobs
        /\ summary' = Summed(State, FALSE)
        /\ ExpiredToDelete(State, jobs) = {} /\ SurplusToDelete(State, jobs) = {}
        /\ ~MustCreate(State, jobs)
    BY <1>1, <2>1, QuietReconcile
  <2>3. /\ summary'.active = PotentiallyRunning(jobs)
        /\ summary'.isRunning = HasChosenJob(State, jobs, clock, FALSE)
    BY <2>1, <2>2 DEF Summed, DecisionSummary, ActiveJobs
  <2>4. PotentiallyRunning(jobs) = {n \in Names : Exists(n)' /\ ~jobs'[n].completed}
    BY <2>2, ClusterIsAList DEF PotentiallyRunning, IsJobPotentiallyRunning, IsJobCompleted, Exists
  <2>5. ASSUME NEW n \in summary'.active, ~jobs'[n].deleting
        PROVE  HasChosenJob(State, jobs, clock, FALSE) = TRUE
    <3>1. n \in AllJobs(jobs) /\ ~jobs[n].completed /\ ~jobs[n].deleting /\ n \in Names
      BY <2>2, <2>3, <2>4, <2>5 DEF AllJobs, ClusterOK, Exists
    <3>2. ExistingChoice(State, jobs) # Nil
      BY <2>2, <3>1, StayingJobIsChosen, NamesAssumption
    <3> QED  BY <3>2 DEF HasChosenJob
  <2> QED  BY <2>3, <2>4, <2>5
<1>2. CASE ReconcileInVain
  BY <1>2, VainReconcile
<1>3. CASE UNCHANGED vars
  <2>1. UNCHANGED <<jobs, spec, summary, changed, last, calm>>
    BY <1>3 DEF vars
  <2> QED  BY <2>1 DEF RunningIsTold, Stored, Exists
<1>4. CASE Next /\ ~Reconcile /\ ~ReconcileInVain
  BY <1>4 DEF Next, UserEditsSpec, UserCreatesJob, UserStopsJob, UserDeletesJob, UserStep,
              FinishJob, RemoveJob, Tick, Elsewhere
<1> QED  BY <1>1, <1>2, <1>3, <1>4

(***************************************************************************)
(* status.active and isRunning say what is so (makeDecision).              *)
(***************************************************************************)
THEOREM RunningHolds == Spec => []RunningIsTold
<1>1. Init => RunningIsTold
  BY DEF Init, RunningIsTold
<1> QED  BY <1>1, ClusterInit, ClusterStep, RunningStep, PTL DEF Spec

-----------------------------------------------------------------------------
(***************************************************************************)
(* The status settles.  To set the same conditions twice moves none the    *)
(* second time, as the decision, the calls, the error and the verdict each *)
(* have conditions of their own; and the verdict depends on none that is   *)
(* set after it.                                                           *)
(***************************************************************************)
DecisionTypes == ListTypes \cup JobTypes \cup
                 {"ShouldBeRunning", "Suspended", "OutOfDate", "StartingDeadlineExceeded"}

Final(old, f, g, error) ==
    calculateOverallConditions(
        SetCondition(SetCondition([status |-> old, moved |-> {}], f), g), error)

\* The form of the final conditions.
LEMMA FinalForm ==
    ASSUME NEW old, NEW f, NEW g, NEW error, DOMAIN old = Types,
           DOMAIN f \subseteq DecisionTypes, DOMAIN g \subseteq CallTypes,
           NEW c, c = SetCondition(SetCondition([status |-> old, moved |-> {}], f), g),
           NEW final, final = Final(old, f, g, error).status
    PROVE  /\ DOMAIN final = Types
           /\ \A t \in DOMAIN f : final[t] = f[t]
           /\ \A t \in DOMAIN g : final[t] = g[t]
           /\ final["Error"] = Flag(error)
           /\ \A t \in Verdicts : final[t] = IF t = Verdict(c) THEN "True" ELSE "Unknown"
           /\ \A t \in Types \ (DOMAIN f \cup DOMAIN g \cup Verdicts \cup {"Error"}) :
                 final[t] = old[t]
           /\ \A t \in DOMAIN f : c.status[t] = f[t]
           /\ \A t \in Types \ (DOMAIN f \cup DOMAIN g) : c.status[t] = old[t]
<1> DEFINE a == SetCondition([status |-> old, moved |-> {}], f)
           n == [Error |-> Flag(error)]
           e == SetCondition(c, n)
           v == [t \in Verdicts |-> IF t = Verdict(c) THEN "True" ELSE "Unknown"]
           new == SetCondition(e, v)
<1>0. c = SetCondition(a, g)
  OBVIOUS
<1>1. Final(old, f, g, error) = new
  BY <1>0 DEF Final, calculateOverallConditions
<1>2. DOMAIN n = {"Error"} /\ n["Error"] = Flag(error) /\ DOMAIN v = Verdicts
  OBVIOUS
<1>3. \A t \in Verdicts : v[t] = IF t = Verdict(c) THEN "True" ELSE "Unknown"
  OBVIOUS
<1>4. a.status = Over(f, old)
  BY DEF SetCondition
<1> HIDE DEF a
<1>5. c.status = Over(g, a.status)
  BY <1>0 DEF SetCondition
<1> HIDE DEF n
<1>6. e.status = Over(n, c.status)
  BY DEF SetCondition
<1> HIDE DEF e, v
<1>7. new.status = Over(v, e.status)
  BY DEF SetCondition
<1> HIDE DEF new
<1>8. /\ DOMAIN a.status = Types
      /\ \A t \in Types : a.status[t] = IF t \in DOMAIN f THEN f[t] ELSE old[t]
  BY <1>4 DEF Over, DecisionTypes, Types
<1>9. /\ DOMAIN c.status = Types
      /\ \A t \in Types : c.status[t] = IF t \in DOMAIN g THEN g[t] ELSE a.status[t]
  BY <1>5, <1>8 DEF Over, Types
<1>10. /\ DOMAIN e.status = Types
       /\ e.status["Error"] = Flag(error)
       /\ \A t \in Types \ {"Error"} : e.status[t] = c.status[t]
  BY <1>2, <1>6, <1>9 DEF Over, Types
<1>11. /\ DOMAIN new.status = Types
       /\ \A t \in Types : new.status[t] = IF t \in Verdicts THEN v[t] ELSE e.status[t]
  BY <1>2, <1>7, <1>10 DEF Over, Types
<1>12. /\ DecisionTypes \subseteq Types /\ CallTypes \subseteq Types /\ Verdicts \subseteq Types
       /\ "Error" \in Types
       /\ DecisionTypes \cap CallTypes = {} /\ DecisionTypes \cap Verdicts = {}
       /\ CallTypes \cap Verdicts = {}
       /\ "Error" \notin DecisionTypes \cup CallTypes \cup Verdicts
  BY DEF DecisionTypes, CallTypes, Verdicts, Types, ListTypes, JobTypes
<1>13. \A t \in DOMAIN f : t \in Types /\ t \notin DOMAIN g /\ t \notin Verdicts /\ t # "Error"
  BY <1>12
<1>14. \A t \in DOMAIN g : t \in Types /\ t \notin DOMAIN f /\ t \notin Verdicts /\ t # "Error"
  BY <1>12
<1> HIDE DEF new
<1>15. \A t \in DOMAIN f : new.status[t] = f[t] /\ c.status[t] = f[t]
  BY <1>8, <1>9, <1>10, <1>11, <1>13
<1>16. \A t \in DOMAIN g : new.status[t] = g[t]
  BY <1>9, <1>10, <1>11, <1>14
<1>17. new.status["Error"] = Flag(error)
  BY <1>10, <1>11, <1>12
<1>18. \A t \in Verdicts : new.status[t] = IF t = Verdict(c) THEN "True" ELSE "Unknown"
  BY <1>3, <1>11, <1>12
<1>19. \A t \in Types \ (DOMAIN f \cup DOMAIN g) : c.status[t] = old[t]
  BY <1>8, <1>9
<1>20. \A t \in Types \ (DOMAIN f \cup DOMAIN g \cup Verdicts \cup {"Error"}) : new.status[t] = old[t]
  BY <1>10, <1>11, <1>19
<1> QED  BY <1>1, <1>11, <1>15, <1>16, <1>17, <1>18, <1>19, <1>20

\* Set once more, nothing moves.
LEMMA FinalIsStable ==
    ASSUME NEW old, NEW f, NEW g, NEW error, DOMAIN old = Types,
           DOMAIN f \subseteq DecisionTypes, DOMAIN g \subseteq CallTypes,
           NEW new, new = Final(old, f, g, error).status
    PROVE  Final(new, f, g, error).moved = {}
<1>0. PICK c : c = SetCondition(SetCondition([status |-> old, moved |-> {}], f), g)
  OBVIOUS
<1> DEFINE a1 == SetCondition([status |-> new, moved |-> {}], f)
           c1 == SetCondition(a1, g)
           n == [Error |-> Flag(error)]
           e1 == SetCondition(c1, n)
           v1 == [t \in Verdicts |-> IF t = Verdict(c1) THEN "True" ELSE "Unknown"]
<1>1. /\ DOMAIN new = Types
      /\ \A t \in DOMAIN f : new[t] = f[t]
      /\ \A t \in DOMAIN g : new[t] = g[t]
      /\ new["Error"] = Flag(error)
      /\ \A t \in Verdicts : new[t] = IF t = Verdict(c) THEN "True" ELSE "Unknown"
      /\ \A t \in Types \ (DOMAIN f \cup DOMAIN g \cup Verdicts \cup {"Error"}) : new[t] = old[t]
      /\ \A t \in DOMAIN f : c.status[t] = f[t]
      /\ \A t \in Types \ (DOMAIN f \cup DOMAIN g) : c.status[t] = old[t]
  BY <1>0, FinalForm
<1>2. /\ DOMAIN n = {"Error"} /\ n["Error"] = Flag(error)
      /\ DOMAIN v1 = Verdicts
      /\ \A t \in Verdicts : v1[t] = IF t = Verdict(c1) THEN "True" ELSE "Unknown"
  OBVIOUS
<1>3. a1.status = Over(f, new) /\ a1.moved = {t \in DOMAIN f : f[t] # new[t]}
  BY DEF SetCondition
<1> HIDE DEF a1
<1>4. c1.status = Over(g, a1.status) /\ c1.moved = a1.moved \cup {t \in DOMAIN g : g[t] # a1.status[t]}
  BY DEF SetCondition
<1> HIDE DEF c1, n
<1>5. e1.status = Over(n, c1.status) /\ e1.moved = c1.moved \cup {t \in DOMAIN n : n[t] # c1.status[t]}
  BY DEF SetCondition
<1>6. Final(new, f, g, error) = SetCondition(e1, v1)
  BY DEF Final, calculateOverallConditions, e1, c1, a1, n
<1> HIDE DEF e1, v1
<1>7. SetCondition(e1, v1).moved = e1.moved \cup {t \in DOMAIN v1 : v1[t] # e1.status[t]}
  BY DEF SetCondition
<1>8. /\ DecisionTypes \subseteq Types /\ CallTypes \subseteq Types /\ Verdicts \subseteq Types
      /\ "Error" \in Types
      /\ DecisionTypes \cap CallTypes = {} /\ DecisionTypes \cap Verdicts = {}
      /\ CallTypes \cap Verdicts = {}
      /\ "Error" \notin DecisionTypes \cup CallTypes \cup Verdicts
  BY DEF DecisionTypes, CallTypes, Verdicts, Types, ListTypes, JobTypes
<1>9. \A t \in Types : a1.status[t] = new[t]
  BY <1>1, <1>3, <1>8 DEF Over
<1>10. DOMAIN a1.status = Types
  BY <1>1, <1>3, <1>8 DEF Over
<1>11. DOMAIN c1.status = Types /\ \A t \in Types : c1.status[t] = new[t]
  BY <1>1, <1>4, <1>8, <1>9, <1>10 DEF Over
<1>12. DOMAIN e1.status = Types /\ \A t \in Types : e1.status[t] = new[t]
  BY <1>1, <1>2, <1>5, <1>8, <1>11 DEF Over
<1>13. Verdict(c1) = Verdict(c)
  <2> DEFINE asked == {"JobExists", "JobFailed", "ShouldBeRunning", "JobManuallyScheduled"}
  <2>1. asked \subseteq Types /\ asked \cap (CallTypes \cup Verdicts \cup {"Error"}) = {}
    BY DEF CallTypes, Verdicts, Types, ListTypes, JobTypes
  <2>2. \A t \in asked : c1.status[t] = c.status[t]
    <3> SUFFICES ASSUME NEW t \in asked PROVE c1.status[t] = c.status[t]
      OBVIOUS
    <3>1. t \in Types /\ t \notin DOMAIN g /\ t \notin Verdicts /\ t # "Error"
      BY <2>1
    <3> HIDE DEF asked
    <3>2. CASE t \in DOMAIN f
      BY <1>1, <1>11, <3>1, <3>2
    <3>3. CASE t \notin DOMAIN f
      BY <1>1, <1>11, <3>1, <3>3
    <3> QED  BY <3>2, <3>3
  <2> QED  BY <2>2 DEF Verdict, VerdictOf, ExpectedToRun, IsTrue
<1>14. a1.moved = {}
  BY <1>1, <1>3
<1>15. c1.moved = {}
  BY <1>1, <1>4, <1>8, <1>9, <1>14
<1>16. e1.moved = {}
  BY <1>1, <1>2, <1>5, <1>8, <1>11, <1>15
<1>17. {t \in DOMAIN v1 : v1[t] # e1.status[t]} = {}
  BY <1>1, <1>2, <1>8, <1>12, <1>13
<1> QED  BY <1>6, <1>7, <1>16, <1>17

-----------------------------------------------------------------------------
(***************************************************************************)
(* What a Reconcile that changed nothing has stored is what the next one   *)
(* would store.                                                            *)
(***************************************************************************)
CallSet(d) == IF Doomed(d) = {} THEN NoConditions ELSE [FailedToDeleteJob |-> "False"]

OfDecision(buildFails) == DecisionConditions(State, jobs, failed, clock, buildFails)
Decides(buildFails) == makeDecision(State, jobs, clock, buildFails)

\* The types of the conditions and of what is beside them.
StatusForm ==
    /\ DOMAIN conditions = Types
    /\ \E a, r, t : summary = [active |-> a, isRunning |-> r, lastScheduledStartTime |-> t]

QuietIsStored ==
    /\ Decides(FALSE).create = Nil /\ Decides(FALSE).unsuspend = Nil
    /\ Final(conditions, OfDecision(FALSE), CallSet(Decides(FALSE)), FALSE).moved = {}
    /\ Summed(State, FALSE) = summary

FailureIsStored ==
    \A buildFails : Decides(buildFails).fails =>
        /\ Final(conditions, OfDecision(buildFails), NoConditions, TRUE).moved = {}
        /\ Summed(State, buildFails) = summary

SettledInv ==
    /\ calm /\ Stored /\ last = "none" => QuietIsStored
    /\ calm /\ Stored /\ last = "decision" => FailureIsStored

\* The conditions of a decision are makeDecision's own.
LEMMA DecisionTypesForm ==
    ASSUME NEW st, NEW V, NEW failures, NEW now, NEW buildFails
    PROVE  DOMAIN DecisionConditions(st, V, failures, now, buildFails) \subseteq DecisionTypes
<1> DEFINE j == setJobConditions(st, V, failures)
           a == setConditionsForAllJobs(V)
           s == setShouldBeRunningStatus(st)
           u == [Suspended |-> Flag(st.isSuspended)]
           o == [OutOfDate |-> Flag(OutOfDate(st, V))]
           l == setDeadlineCondition(st, V, now)
           r == IF RecreateFails(st, V, buildFails) THEN NoConditions ELSE Over(o, l)
           w == IF st.isSuspended THEN NoConditions ELSE Over(a, Over(j, r))
<1>1. DecisionConditions(st, V, failures, now, buildFails)
         = IF st.error THEN NoConditions ELSE Over(s, Over(u, w))
  BY DEF DecisionConditions
<1>2. DOMAIN NoConditions = {}
  BY DEF NoConditions
<1>3. DOMAIN s = {"ShouldBeRunning"} /\ DOMAIN u = {"Suspended"} /\ DOMAIN o = {"OutOfDate"}
      /\ DOMAIN l = {"StartingDeadlineExceeded"} /\ DOMAIN a = ListTypes
  BY DEF setShouldBeRunningStatus, setDeadlineCondition, setConditionsForAllJobs
<1>4. DOMAIN j = JobTypes
  <2>1. CASE JobToReport(st, V) = Nil
    BY <2>1 DEF setJobConditions
  <2>2. CASE JobToReport(st, V) # Nil
    <3>1. \E c, f, p, q : j = [JobExists |-> "True", JobComplete |-> c, JobFailed |-> f,
                               JobSuspended |-> p, JobStoppedByUser |-> q]
      BY <2>2 DEF setJobConditions
    <3> HIDE DEF j
    <3> QED  BY <3>1 DEF JobTypes
  <2> QED  BY <2>1, <2>2
<1> HIDE DEF j, a, s, u, o, l
<1>5. DOMAIN r \subseteq DecisionTypes
  BY <1>2, <1>3 DEF Over, DecisionTypes
<1> HIDE DEF r
<1>6. DOMAIN w \subseteq DecisionTypes
  BY <1>2, <1>3, <1>4, <1>5 DEF Over, DecisionTypes
<1> HIDE DEF w
<1> QED  BY <1>1, <1>2, <1>3, <1>6 DEF Over, DecisionTypes

\* To set no condition changes nothing.
LEMMA NothingSet ==
    ASSUME NEW old, NEW f, NEW c, c = SetCondition([status |-> old, moved |-> {}], f)
    PROVE  SetCondition(c, NoConditions) = c
<1>1. c = [status |-> Over(f, old), moved |-> {t \in DOMAIN f : f[t] # old[t]}]
  BY DEF SetCondition
<1>2. DOMAIN NoConditions = {}
  BY DEF NoConditions
<1>3. Over(NoConditions, Over(f, old)) = Over(f, old)
  BY <1>2 DEF Over
<1>4. c.status = Over(f, old) /\ c.moved = {t \in DOMAIN f : f[t] # old[t]}
  BY <1>1
<1>5. SetCondition(c, NoConditions) = [status |-> c.status, moved |-> c.moved]
  BY <1>2, <1>3, <1>4 DEF SetCondition
<1> QED  BY <1>1, <1>4, <1>5

\* What is stored after a decision and its calls, or after a failed decision.
LEMMA StoredForm ==
    ASSUME NEW buildFails, NEW error
    PROVE  /\ calculateOverallConditions(Decided(State, buildFails), error)
                = Final(conditions, OfDecision(buildFails), NoConditions, error)
           /\ \A d, deleted :
                 d.create = Nil /\ d.unsuspend = Nil /\ deleted = Doomed(d) =>
                    calculateOverallConditions(
                       CallConditions(Decided(State, buildFails), d, deleted, "none"), error)
                    = Final(conditions, OfDecision(buildFails), CallSet(d), error)
<1> DEFINE c == Decided(State, buildFails)
<1>1. c = SetCondition([status |-> conditions, moved |-> {}], OfDecision(buildFails))
  BY DEF Decided, Before, OfDecision
<1>2. SetCondition(c, NoConditions) = c
  BY <1>1, NothingSet
<1> HIDE DEF c
<1>3. calculateOverallConditions(c, error)
         = Final(conditions, OfDecision(buildFails), NoConditions, error)
  BY <1>1, <1>2 DEF Final
<1>4. ASSUME NEW d, NEW deleted, d.create = Nil, d.unsuspend = Nil, deleted = Doomed(d)
      PROVE  CallConditions(c, d, deleted, "none") = SetCondition(c, CallSet(d))
  BY <1>2, <1>4 DEF CallConditions, CallSet
<1>5. ASSUME NEW d, NEW deleted, d.create = Nil, d.unsuspend = Nil, deleted = Doomed(d)
      PROVE  calculateOverallConditions(CallConditions(c, d, deleted, "none"), error)
                = Final(conditions, OfDecision(buildFails), CallSet(d), error)
  BY <1>1, <1>4, <1>5 DEF Final
<1> QED  BY <1>3, <1>5 DEF c

\* A Reconcile that makes all its calls, and has none to make but deletes.
LEMMA DoneReconcile ==
    ASSUME Reconcile, last' = "none", changed' # Nil,
           Decides(FALSE).create = Nil, Decides(FALSE).unsuspend = Nil,
           NEW final,
           final = Final(conditions, OfDecision(FALSE), CallSet(Decides(FALSE)), FALSE)
    PROVE  /\ ~Decides(FALSE).fails
           /\ UNCHANGED <<spec, clock, failed>>
           /\ conditions' = final.status
           /\ summary' = Summed(State, FALSE)
           /\ changed' \cap {"conditions", "summary"} # {} =>
                 final.moved # {} \/ Summed(State, FALSE) # summary
<1> DEFINE c == Decided(State, FALSE)
<1>1. PICK d, deleted, failing, order :
         /\ d = makeDecision(State, jobs, clock, FALSE) /\ ~d.fails
         /\ deleted \subseteq Doomed(d)
         /\ MayCall(d, deleted, failing)
         /\ Finish(CallConditions(c, d, deleted, failing), Summed(State, FALSE),
                   CallHistory(d, order, failing), failing,
                   IF IsFault(d, failing) THEN 1 ELSE 0)
  BY ReconcileForm
<1> DEFINE called == CallConditions(c, d, deleted, failing)
           s == Summed(State, FALSE)
           h == CallHistory(d, order, failing)
           cost == IF IsFault(d, failing) THEN 1 ELSE 0
<1>2. Finish(called, s, h, failing, cost)
  BY <1>1
<1> HIDE DEF c, called, s, h, cost
<1>3. /\ failing = "none" /\ UNCHANGED <<spec, clock, failed>> /\ summary' = s
      /\ conditions' = calculateOverallConditions(called, failing # "none").status
  BY <1>2, FinishForm
<1>4. changed' \cap {"conditions", "summary"} # {} =>
         calculateOverallConditions(called, failing # "none").moved # {} \/ s # summary
  BY <1>2, FinishChanges
<1>5. deleted = Doomed(d)
  BY <1>1, <1>3 DEF MayCall
<1>6. d = Decides(FALSE)
  BY <1>1 DEF Decides
<1>7. calculateOverallConditions(CallConditions(c, d, deleted, "none"), FALSE) = final
  BY <1>5, <1>6, StoredForm DEF c
<1>8. calculateOverallConditions(called, failing # "none") = final
  BY <1>3, <1>7 DEF called
<1> QED  BY <1>1, <1>3, <1>4, <1>6, <1>8 DEF s

\* A Reconcile whose decision fails.
LEMMA FailedReconcile ==
    ASSUME ReconcileInVain, changed' # Nil
    PROVE  \E buildFails :
              LET final == Final(conditions, OfDecision(buildFails), NoConditions, TRUE)
              IN  /\ Decides(buildFails).fails
                  /\ UNCHANGED <<jobs, spec, clock, failed>>
                  /\ conditions' = final.status
                  /\ summary' = Summed(State, buildFails)
                  /\ changed' \cap {"conditions", "summary"} # {} =>
                        final.moved # {} \/ Summed(State, buildFails) # summary
<1>1. PICK b \in BOOLEAN :
         /\ makeDecision(State, jobs, clock, b).fails
         /\ jobs' = jobs
         /\ Finish(Decided(State, b), Summed(State, b), history, "decision", IF b THEN 1 ELSE 0)
  BY DEF ReconcileInVain
<1>2. /\ UNCHANGED <<spec, clock, failed>>
      /\ conditions' = calculateOverallConditions(Decided(State, b), "decision" # "none").status
      /\ summary' = Summed(State, b)
  BY <1>1, FinishForm
<1>5. changed' \cap {"conditions", "summary"} # {} =>
         \/ calculateOverallConditions(Decided(State, b), "decision" # "none").moved # {}
         \/ Summed(State, b) # summary
  BY <1>1, FinishChanges
<1>3. ("decision" # "none") = TRUE
  OBVIOUS
<1>4. calculateOverallConditions(Decided(State, b), TRUE)
         = Final(conditions, OfDecision(b), NoConditions, TRUE)
  BY StoredForm
<1> QED  BY <1>1, <1>2, <1>3, <1>4, <1>5 DEF Decides

\* A Reconcile that leaves the Jobs as they are creates and unsuspends none.
LEMMA QuietDecision ==
    ASSUME ClusterOK, Reconcile, calm', changed' # Nil, last' = "none"
    PROVE  /\ Decides(FALSE).create = Nil /\ Decides(FALSE).unsuspend = Nil
           /\ jobs' = jobs
<1> DEFINE c == Decided(State, FALSE)
<1>1. PICK d, deleted, failing, order :
         /\ d = makeDecision(State, jobs, clock, FALSE) /\ ~d.fails
         /\ deleted \subseteq Doomed(d)
         /\ MayCall(d, deleted, failing)
         /\ jobs' = CalledJobs(d, deleted, failing)
         /\ Finish(CallConditions(c, d, deleted, failing), Summed(State, FALSE),
                   CallHistory(d, order, failing), failing,
                   IF IsFault(d, failing) THEN 1 ELSE 0)
  BY ReconcileForm
<1> DEFINE s == Summed(State, FALSE)
           h == CallHistory(d, order, failing)
           cost == IF IsFault(d, failing) THEN 1 ELSE 0
<1>0. Finish(CallConditions(c, d, deleted, failing), s, h, failing, cost)
  BY <1>1
<1> HIDE DEF c, s, h, cost
<1>2. /\ UNCHANGED <<jobs, spec, clock, failed>>
      /\ failing = "none"
      /\ conditions' = calculateOverallConditions(CallConditions(c, d, deleted, failing),
                                                  failing # "none").status
      /\ summary' = s
  BY <1>0, FinishForm, ZenonT(40)
<1>3. MayCall(d, deleted, "none") /\ CalledJobs(d, deleted, "none") = jobs
  BY <1>1, <1>2
<1>4. CASE State.isSuspended
  <2>1. d.create = Nil /\ d.unsuspend = Nil
    BY <1>1, <1>4 DEF makeDecision, NoWork
  <2> QED  BY <1>1, <1>2, <2>1 DEF Decides
<1>5. CASE ~State.isSuspended
  <2>1. d.create = Nil /\ d.unsuspend = Nil
    BY <1>1, <1>3, <1>5, NothingLeftToDo
  <2> QED  BY <1>1, <1>2, <2>1 DEF Decides
<1> QED  BY <1>4, <1>5

\* Why the decision failed does not show in the status.
LEMMA FailuresAreAlike ==
    ASSUME NEW a, NEW b, Decides(a).fails, Decides(b).fails
    PROVE  OfDecision(a) = OfDecision(b) /\ Summed(State, a) = Summed(State, b)
<1>1. CASE State.error
  BY <1>1 DEF OfDecision, DecisionConditions, Summed, DecisionSummary
<1>2. CASE ~State.error
  <2>1. ~State.isSuspended /\ DecisionFails(State, jobs, clock, a)
        /\ DecisionFails(State, jobs, clock, b)
    BY <1>2 DEF Decides, makeDecision, NoWork
  <2>2. RecreateFails(State, jobs, a) <=> RecreateFails(State, jobs, b)
    BY <2>1 DEF RecreateFails, DecisionFails, MustStart, MustRecreate
  <2>3. HasChosenJob(State, jobs, clock, a) = HasChosenJob(State, jobs, clock, b)
    BY <2>1 DEF HasChosenJob
  <2> QED  BY <2>2, <2>3 DEF OfDecision, DecisionConditions, Summed, DecisionSummary
<1> QED  BY <1>1, <1>2

\* The conditions the calls set are their own.
LEMMA CallSetForm == \A d : DOMAIN CallSet(d) \subseteq CallTypes
BY DEF CallSet, CallTypes, NoConditions

\* To set conditions keeps their types.
LEMMA SetKeepsTypes ==
    ASSUME NEW c, NEW f, DOMAIN c.status = Types, DOMAIN f \subseteq Types
    PROVE  DOMAIN SetCondition(c, f).status = Types
BY DEF SetCondition, Over

\* So do the overall conditions.
LEMMA OverallKeepsTypes ==
    ASSUME NEW c, NEW error, DOMAIN c.status = Types
    PROVE  DOMAIN calculateOverallConditions(c, error).status = Types
<1> DEFINE n == [Error |-> Flag(error)]
           v == [t \in Verdicts |-> IF t = Verdict(c) THEN "True" ELSE "Unknown"]
<1>1. DOMAIN n \subseteq Types /\ DOMAIN v \subseteq Types
  BY DEF Types
<1>2. calculateOverallConditions(c, error) = SetCondition(SetCondition(c, n), v)
  BY DEF calculateOverallConditions
<1> HIDE DEF n, v
<1> QED  BY <1>1, <1>2, SetKeepsTypes

\* So do the conditions of the calls.
LEMMA CallsKeepTypes ==
    ASSUME NEW c, NEW d, NEW deleted, NEW failing, DOMAIN c.status = Types
    PROVE  DOMAIN CallConditions(c, d, deleted, failing).status = Types
<1>1. \A x : /\ DOMAIN [FailedToDeleteJob |-> x] \subseteq Types
             /\ DOMAIN [FailedToCreateJob |-> x] \subseteq Types
             /\ DOMAIN [FailedToUnsuspendJob |-> x] \subseteq Types
  BY DEF Types, CallTypes
<1> QED  BY <1>1, SetKeepsTypes DEF CallConditions

\* What is beside the conditions keeps its fields.
LEMMA SummaryForm ==
    ASSUME StatusForm, NEW buildFails
    PROVE  \E a, r, t : Summed(State, buildFails)
                        = [active |-> a, isRunning |-> r, lastScheduledStartTime |-> t]
BY DEF StatusForm, Summed, DecisionSummary

\* No step loses the types of the status.
LEMMA StatusFormStep == StatusForm /\ [Next]_vars => StatusForm'
<1> SUFFICES ASSUME StatusForm, [Next]_vars PROVE StatusForm'
  OBVIOUS
<1>1. ASSUME NEW b PROVE DOMAIN Decided(State, b).status = Types
  <2>1. DOMAIN DecisionConditions(State, jobs, failed, clock, b) \subseteq Types
    BY DecisionTypesForm DEF DecisionTypes, Types
  <2>2. DOMAIN Before.status = Types
    BY DEF Before, StatusForm
  <2> QED  BY <2>1, <2>2, SetKeepsTypes DEF Decided
<1>2. ASSUME NEW c, NEW b, NEW h, NEW outcome, NEW cost, DOMAIN c.status = Types,
             Finish(c, Summed(State, b), h, outcome, cost)
      PROVE  StatusForm'
  <2>1. DOMAIN conditions' = Types
    BY <1>2, FinishChanges, OverallKeepsTypes DEF StatusForm
  <2>2. \E a, r, t : summary' = [active |-> a, isRunning |-> r, lastScheduledStartTime |-> t]
    <3>1. summary' \in {summary, Summed(State, b)}
      BY <1>2, FinishChanges
    <3>2. CASE summary' = summary
      BY <3>2 DEF StatusForm
    <3>3. CASE summary' = Summed(State, b)
      BY <3>3, SummaryForm
    <3> QED  BY <3>1, <3>2, <3>3
  <2> QED  BY <2>1, <2>2 DEF StatusForm
<1>3. CASE Reconcile
  <2>1. PICK d, deleted, failing, order :
           Finish(CallConditions(Decided(State, FALSE), d, deleted, failing), Summed(State, FALSE),
                  CallHistory(d, order, failing), failing,
                  IF IsFault(d, failing) THEN 1 ELSE 0)
    BY <1>3, ReconcileForm
  <2>2. DOMAIN CallConditions(Decided(State, FALSE), d, deleted, failing).status = Types
    BY <1>1, CallsKeepTypes
  <2> QED  BY <1>2, <2>1, <2>2
<1>4. CASE ReconcileInVain
  <2>1. PICK b \in BOOLEAN :
           Finish(Decided(State, b), Summed(State, b), history, "decision", IF b THEN 1 ELSE 0)
    BY <1>4 DEF ReconcileInVain
  <2> QED  BY <1>1, <1>2, <2>1
<1>5. CASE UNCHANGED status
  BY <1>5 DEF status, StatusForm
<1> QED  BY <1>3, <1>4, <1>5
         DEF Next, UserEditsSpec, UserCreatesJob, UserStopsJob, UserDeletesJob, UserStep,
             FinishJob, RemoveJob, Tick, Elsewhere, vars, status

\* The summary of the same decision is the same once it is stored.
LEMMA SummedAgain ==
    ASSUME StatusForm, NEW b, summary' = Summed(State, b), UNCHANGED <<jobs, spec, clock>>
    PROVE  Summed(State, b)' = summary'
<1>1. CASE State.error
  BY <1>1 DEF Summed, DecisionSummary, State
<1>2. CASE ~State.error /\ State.isSuspended
  <2>1. PICK a, r, t : summary = [active |-> a, isRunning |-> r, lastScheduledStartTime |-> t]
    BY DEF StatusForm
  <2>2. summary' = [active |-> a, isRunning |-> r,
                    lastScheduledStartTime |-> State.startOfCurrentRunPeriod]
    BY <1>2, <2>1 DEF Summed, DecisionSummary
  <2>3. Summed(State, b)'
           = [summary' EXCEPT !.lastScheduledStartTime = State.startOfCurrentRunPeriod]
    BY <1>2 DEF Summed, DecisionSummary, State
  <2> QED  BY <2>2, <2>3
<1>3. CASE ~State.error /\ ~State.isSuspended
  BY <1>3 DEF Summed, DecisionSummary, State
<1> QED  BY <1>1, <1>2, <1>3

\* What a Reconcile that left the Jobs alone stores is what it would store again.
LEMMA QuietIsStoredAfter ==
    ASSUME ClusterOK, StatusForm, Reconcile, calm', changed' # Nil, last' = "none"
    PROVE  QuietIsStored'
<1> DEFINE f == OfDecision(FALSE)
           g == CallSet(Decides(FALSE))
           final == Final(conditions, f, g, FALSE)
<1>1. Decides(FALSE).create = Nil /\ Decides(FALSE).unsuspend = Nil /\ jobs' = jobs
  BY QuietDecision
<1>2. /\ UNCHANGED <<spec, clock, failed>>
      /\ conditions' = final.status
      /\ summary' = Summed(State, FALSE)
  BY <1>1, DoneReconcile
<1>3. State' = State
  BY <1>2 DEF State
<1>4. Decides(FALSE)' = Decides(FALSE)
  BY <1>1, <1>2, <1>3 DEF Decides
<1>5. OfDecision(FALSE)' = OfDecision(FALSE)
  BY <1>1, <1>2, <1>3 DEF OfDecision
<1>6. DOMAIN f \subseteq DecisionTypes /\ DOMAIN g \subseteq CallTypes
  BY DecisionTypesForm, CallSetForm DEF OfDecision
<1> HIDE DEF f, g
<1>7. Final(conditions', f, g, FALSE).moved = {}
  BY <1>2, <1>6, FinalIsStable DEF StatusForm
<1>8. Final(conditions, OfDecision(FALSE), CallSet(Decides(FALSE)), FALSE)'
         = Final(conditions', f, g, FALSE)
  BY <1>4, <1>5 DEF f, g
<1>9. Summed(State, FALSE)' = summary'
  BY <1>1, <1>2, SummedAgain
<1> QED  BY <1>1, <1>4, <1>7, <1>8, <1>9 DEF QuietIsStored

\* So it is after a decision that failed.
LEMMA FailureIsStoredAfter ==
    ASSUME StatusForm, ReconcileInVain, changed' # Nil
    PROVE  FailureIsStored'
<1>1. PICK b :
         /\ Decides(b).fails
         /\ UNCHANGED <<jobs, spec, clock, failed>>
         /\ conditions' = Final(conditions, OfDecision(b), NoConditions, TRUE).status
         /\ summary' = Summed(State, b)
  BY FailedReconcile
<1>2. State' = State
  BY <1>1 DEF State
<1> SUFFICES ASSUME NEW a, Decides(a)'.fails
             PROVE  /\ Final(conditions, OfDecision(a), NoConditions, TRUE)'.moved = {}
                    /\ Summed(State, a)' = summary'
  BY DEF FailureIsStored
<1>3. Decides(a).fails
  BY <1>1, <1>2 DEF Decides
<1>4. OfDecision(a) = OfDecision(b) /\ Summed(State, a) = Summed(State, b)
  BY <1>1, <1>3, FailuresAreAlike
<1>5. OfDecision(a)' = OfDecision(a)
  BY <1>1, <1>2 DEF OfDecision
<1>6. DOMAIN OfDecision(b) \subseteq DecisionTypes /\ DOMAIN NoConditions \subseteq CallTypes
  BY DecisionTypesForm DEF OfDecision, NoConditions
<1>7. Final(conditions', OfDecision(b), NoConditions, TRUE).moved = {}
  BY <1>1, <1>6, FinalIsStable DEF StatusForm
<1>8. Final(conditions, OfDecision(a), NoConditions, TRUE)'
         = Final(conditions', OfDecision(b), NoConditions, TRUE)
  BY <1>4, <1>5 DEF NoConditions
<1>9. Summed(State, a)' = summary'
  BY <1>1, <1>4, SummedAgain
<1> QED  BY <1>7, <1>8, <1>9

\* How a Reconcile ends tells which of the two it was.
LEMMA LastTells ==
    /\ Reconcile => last' # "decision"
    /\ ReconcileInVain => last' = "decision"
<1>1. ASSUME Reconcile PROVE last' # "decision"
  <2> DEFINE c == Decided(State, FALSE)
  <2>1. PICK d, deleted, failing, order :
           /\ d = makeDecision(State, jobs, clock, FALSE) /\ ~d.fails
           /\ deleted \subseteq Doomed(d)
           /\ failing \in {"none", "delete", "create", "unsuspend"}
           /\ MayCall(d, deleted, failing)
           /\ Finish(CallConditions(c, d, deleted, failing), Summed(State, FALSE),
                     CallHistory(d, order, failing), failing,
                     IF IsFault(d, failing) THEN 1 ELSE 0)
    BY <1>1, ReconcileForm
  <2> HIDE DEF c
  <2>2. last' = failing
    BY <2>1, FinishForm
  <2> QED  BY <2>1, <2>2
<1>2. ASSUME ReconcileInVain PROVE last' = "decision"
  BY <1>2, FinishForm DEF ReconcileInVain
<1> QED  BY <1>1, <1>2

\* No step stores what the next Reconcile would store otherwise.
LEMMA SettledStep == ClusterOK /\ StatusForm /\ SettledInv /\ [Next]_vars => SettledInv'
<1> SUFFICES ASSUME ClusterOK, StatusForm, SettledInv, [Next]_vars PROVE SettledInv'
  OBVIOUS
<1>1. CASE Reconcile
  BY <1>1, QuietIsStoredAfter, LastTells DEF SettledInv, Stored
<1>2. CASE ReconcileInVain
  BY <1>2, FailureIsStoredAfter, LastTells DEF SettledInv, Stored
<1>3. CASE calm' = FALSE
  BY <1>3 DEF SettledInv
<1>4. CASE UNCHANGED vars
  <2>1. /\ UNCHANGED <<jobs, failed, spec, clock, conditions, summary, changed, last, calm>>
        /\ State' = State
    BY <1>4 DEF vars, State
  <2>2. \A b : /\ Decides(b)' = Decides(b) /\ OfDecision(b)' = OfDecision(b)
               /\ Summed(State, b)' = Summed(State, b)
    BY <2>1 DEF Decides, OfDecision, Summed, DecisionSummary
  <2>3. QuietIsStored => QuietIsStored'
    BY <2>1, <2>2 DEF QuietIsStored
  <2>4. FailureIsStored => FailureIsStored'
    BY <2>1, <2>2 DEF FailureIsStored
  <2> QED  BY <2>1, <2>3, <2>4 DEF SettledInv, Stored
<1> QED  BY <1>1, <1>2, <1>3, <1>4
         DEF Next, UserEditsSpec, UserCreatesJob, UserStopsJob, UserDeletesJob, UserStep,
             FinishJob, RemoveJob, Tick, Elsewhere

\* At the start nothing has been stored.
LEMMA SettledInit == Init => StatusForm /\ SettledInv
<1> SUFFICES ASSUME Init PROVE StatusForm /\ SettledInv
  OBVIOUS
<1>1. StatusForm
  BY DEF Init, StatusForm
<1>2. SettledInv
  BY DEF Init, SettledInv
<1> QED  BY <1>1, <1>2

\* A Reconcile that finds all as the last one left it moves no condition and
\* none of the fields beside them.
LEMMA SettledTold ==
    ASSUME SettledInv, calm, Stored, last' = last, last \in {"none", "decision"},
           changed' # Nil, Reconcile \/ ReconcileInVain
    PROVE  changed' \cap {"conditions", "summary"} = {}
<1>1. CASE Reconcile
  <2>1. last = "none" /\ last' = "none"
    BY <1>1, LastTells
  <2>2. QuietIsStored
    BY <2>1 DEF SettledInv
  <2>3. changed' \cap {"conditions", "summary"} # {} =>
           \/ Final(conditions, OfDecision(FALSE), CallSet(Decides(FALSE)), FALSE).moved # {}
           \/ Summed(State, FALSE) # summary
    BY <1>1, <2>1, <2>2, DoneReconcile DEF QuietIsStored
  <2> QED  BY <2>2, <2>3 DEF QuietIsStored
<1>2. CASE ReconcileInVain
  <2>1. last = "decision"
    BY <1>2, LastTells
  <2>2. FailureIsStored
    BY <2>1 DEF SettledInv
  <2>3. PICK b :
           /\ Decides(b).fails
           /\ changed' \cap {"conditions", "summary"} # {} =>
                 \/ Final(conditions, OfDecision(b), NoConditions, TRUE).moved # {}
                 \/ Summed(State, b) # summary
    BY <1>2, FailedReconcile
  <2> QED  BY <2>2, <2>3 DEF FailureIsStored
<1> QED  BY <1>1, <1>2

=============================================================================
