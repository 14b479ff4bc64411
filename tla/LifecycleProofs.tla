--------------------------- MODULE LifecycleProofs ---------------------------
(* The operator implements the abstract life of a run (RunLifecycle),      *)
(* starts a run once in its period, adopts the newest manual Job and does  *)
(* not fall asleep over work.                                              *)
EXTENDS OperatorProofs

\* No step touches two Jobs or their pods.
LEMMA OneJobAtATime ==
    ASSUME TypeOK, PodsHaveJobs, [Next]_vars
    PROVE  \/ UNCHANGED <<jobs, pods>>
           \/ \E n \in Names : \A m \in Names :
                 m # n => jobs'[m] = jobs[m] /\ (m \in pods' <=> m \in pods)
<1> USE DEF cluster, object, cache, queue, recon, bounds
<1> DEFINE OnlyOne(n) == \A m \in Names :
                            m # n => jobs'[m] = jobs[m] /\ (m \in pods' <=> m \in pods)
<1>1. ASSUME NEW n \in Names, NEW job, NEW own, Write(n, job, own),
             pods' = pods \/ pods' = pods \ {n}
      PROVE  OnlyOne(n)
  BY <1>1 DEF Write, TypeOK
<1>2. CASE User
  <2>1. CASE UserEditsSpec
    BY <2>1 DEF UserEditsSpec
  <2>2. CASE UserCreatesJob
    BY <1>1, <2>2, UserJobsAssumption DEF UserCreatesJob
  <2>3. CASE UserStopsJob \/ UserReleasesJob \/ UserDeletesJob
    BY <1>1, <2>3 DEF UserStopsJob, UserReleasesJob, UserDeletesJob
  <2> QED  BY <1>2, <2>1, <2>2, <2>3 DEF User
<1>3. CASE Kubernetes
  <2>1. PICK n \in Names :
           StartPods(n) \/ StopPods(n) \/ FinishJob(n) \/ RemoveJob(n) \/ ReapOrphan(n)
    BY <1>3 DEF Kubernetes
  <2>2. CASE StartPods(n) \/ StopPods(n) \/ ReapOrphan(n)
    BY <2>2 DEF StartPods, StopPods, ReapOrphan
  <2>3. CASE FinishJob(n) \/ RemoveJob(n)
    BY <1>1, <2>3 DEF FinishJob, RemoveJob
  <2> QED  BY <2>1, <2>2, <2>3
<1>4. CASE \E n \in Names : DeleteJob(n)
  BY <1>1, <1>4 DEF DeleteJob
<1>5. CASE CreateJob
  BY <1>1, <1>5 DEF CreateJob, NameIsFree
<1>6. CASE UnsuspendJob
  BY <1>1, <1>6 DEF UnsuspendJob, VersionIsCurrent, TypeOK
<1>7. CASE \/ Tick \/ Deliver \/ TimerFires \/ BackoffEnds \/ Resync \/ Start \/ Decide \/ MutatorFails
           \/ LoadFails \/ WriteRefused \/ WriteFails \/ WritesDone
           \/ UpdateStatus \/ StatusLost \/ Restart \/ UNCHANGED vars
  BY <1>7 DEF Tick, Deliver, TimerFires, BackoffEnds, Resync, Start, Decide, MutatorFails, Decision,
        LoadFails, WriteRefused, WriteFails, GiveUp, WritesDone, UpdateStatus, StatusLost,
        HandleResult, Restart, vars
<1> QED  BY <1>2, <1>3, <1>4, <1>5, <1>6, <1>7 DEF Next, Act

(***************************************************************************)
(* Only a Job with pods ends, and a Job that has ended stays so until it   *)
(* is removed.                                                             *)
(***************************************************************************)
LEMMA EndsStep ==
    ASSUME StopInv, PlanIsSafe, [Next]_vars, NEW k \in Names
    PROVE  /\ Ended(k) => jobs'[k] = Nil \/ Ended(k)'
           /\ Ended(k)' => Exists(k) /\ (Ended(k) \/ Hot(k))
<1> USE DEF StopInv, cluster, object, cache, queue, recon, bounds
<1> DEFINE Goal == /\ Ended(k) => jobs'[k] = Nil \/ Ended(k)'
                   /\ Ended(k)' => Exists(k) /\ (Ended(k) \/ Hot(k))
<1>1. ASSUME jobs'[k] = jobs[k] PROVE Goal
  BY <1>1 DEF Ended, Exists
<1>2. ASSUME NEW m \in Names, m # k, NEW job, NEW own, Write(m, job, own) PROVE Goal
  BY <1>1, <1>2 DEF Write, TypeOK
<1>3. ASSUME NEW job \in Job \cup {Nil}, NEW own, Write(k, job, own),
             job = Nil \/ (Exists(k) /\ job.completed = jobs[k].completed)
                       \/ (~Exists(k) /\ ~job.completed)
      PROVE  Goal
  BY <1>3 DEF Write, TypeOK, Ended, Exists
<1>4. Exists(k) => /\ [jobs[k] EXCEPT !.suspended = TRUE, !.userStop = TRUE] \in Job
                   /\ [jobs[k] EXCEPT !.userStop = FALSE] \in Job
                   /\ [jobs[k] EXCEPT !.deleting = TRUE] \in Job
                   /\ [jobs[k] EXCEPT !.suspended = FALSE] \in Job
                   /\ [jobs[k] EXCEPT !.completed = TRUE] \in Job
  BY ExistingJobs
<1>5. Exists(k) => jobs[k] \in Job
  BY ExistingJobs
<1>6. CASE UserEditsSpec
  BY <1>1, <1>6 DEF UserEditsSpec
<1>7. CASE UserCreatesJob
  <2>1. PICK u \in UserJobs : ~Exists(u.name) /\ Write(u.name, u.job, FALSE)
    BY <1>7 DEF UserCreatesJob
  <2>2. u.name \in Names /\ u.job \in Job /\ ~u.job.completed
    BY UserJobsAssumption, UserJobsAreSuspended
  <2> QED  BY <1>2, <1>3, <2>1, <2>2
<1>8. CASE UserStopsJob
  <2>1. PICK m \in Names :
           Exists(m) /\ Write(m, [jobs[m] EXCEPT !.suspended = TRUE, !.userStop = TRUE], FALSE)
    BY <1>8 DEF UserStopsJob
  <2>2. CASE m = k
    BY <1>3, <1>4, <1>5, <2>1, <2>2 DEF Job
  <2> QED  BY <1>2, <2>1, <2>2
<1>9. CASE UserReleasesJob
  <2>1. PICK m \in Names : Exists(m) /\ Write(m, [jobs[m] EXCEPT !.userStop = FALSE], FALSE)
    BY <1>9 DEF UserReleasesJob
  <2>2. CASE m = k
    BY <1>3, <1>4, <1>5, <2>1, <2>2 DEF Job
  <2> QED  BY <1>2, <2>1, <2>2
<1>10. CASE UserDeletesJob
  <2>1. PICK m \in Names : Exists(m) /\ (\/ Write(m, [jobs[m] EXCEPT !.deleting = TRUE], FALSE)
                                         \/ Write(m, Nil, FALSE))
    BY <1>10 DEF UserDeletesJob
  <2>2. CASE m = k
    BY <1>3, <1>4, <1>5, <2>1, <2>2 DEF Job
  <2> QED  BY <1>2, <2>1, <2>2
<1>11. CASE Kubernetes
  <2>1. PICK m \in Names :
           StartPods(m) \/ StopPods(m) \/ FinishJob(m) \/ RemoveJob(m) \/ ReapOrphan(m)
    BY <1>11 DEF Kubernetes
  <2>2. CASE StartPods(m) \/ StopPods(m) \/ ReapOrphan(m)
    BY <1>1, <2>2 DEF StartPods, StopPods, ReapOrphan
  <2>3. CASE FinishJob(m)
    <3>1. CASE m = k
      <4>1. Exists(k) /\ Hot(k) /\ jobs'[k] = [jobs[k] EXCEPT !.completed = TRUE]
        BY <2>3, <3>1 DEF FinishJob, Write, TypeOK, Hot
      <4>2. jobs'[k] \in Job /\ jobs'[k].completed
        BY <1>4, <1>5, <4>1 DEF Job
      <4> QED  BY <4>1, <4>2, NilIsNoJob DEF Ended, Exists
    <3> QED  BY <1>2, <2>3, <3>1 DEF FinishJob
  <2>4. CASE RemoveJob(m)
    BY <1>2, <1>3, <2>4 DEF RemoveJob
  <2> QED  BY <2>1, <2>2, <2>3, <2>4
<1>12. CASE \E m \in Names : DeleteJob(m)
  <2>1. PICK m \in Names : DeleteJob(m)
    BY <1>12
  <2>2. CASE m = k /\ Exists(k) /\ Write(k, [jobs[k] EXCEPT !.deleting = TRUE], TRUE)
    BY <1>3, <1>4, <1>5, <2>2 DEF Job
  <2>3. CASE UNCHANGED jobs
    BY <1>1, <2>3
  <2> QED  BY <1>2, <2>1, <2>2, <2>3 DEF DeleteJob, Deletable
<1>13. CASE CreateJob
  <2>1. PICK c \in Names, job \in Job :
           job = plan.create.job /\ plan.create # Nil /\ ~Exists(c) /\ Write(c, job, TRUE)
    BY <1>13 DEF CreateJob, NameIsFree, TypeOK, Plan, NewJob
  <2>2. ~job.completed
    BY <2>1 DEF PlanIsSafe
  <2> QED  BY <1>2, <1>3, <2>1, <2>2
<1>14. CASE UnsuspendJob
  <2>1. PICK h \in Names : Exists(h) /\ Write(h, [jobs[h] EXCEPT !.suspended = FALSE], TRUE)
    BY <1>14 DEF UnsuspendJob, VersionIsCurrent, TypeOK
  <2>2. CASE h = k
    BY <1>3, <1>4, <1>5, <2>1, <2>2 DEF Job
  <2> QED  BY <1>2, <2>1, <2>2
<1>15. CASE Tick \/ Deliver \/ TimerFires \/ BackoffEnds \/ Resync \/ Start \/ Decide \/ MutatorFails
            \/ LoadFails \/ WriteRefused \/ WriteFails \/ WritesDone
            \/ UpdateStatus \/ StatusLost \/ Restart \/ UNCHANGED vars
  BY <1>1, <1>15 DEF Tick, Deliver, TimerFires, BackoffEnds, Resync, Start, Decide, MutatorFails, Decision,
        LoadFails, WriteRefused, WriteFails, GiveUp, WritesDone, UpdateStatus, StatusLost,
        HandleResult, Restart, vars
<1> QED  BY <1>6, <1>7, <1>8, <1>9, <1>10, <1>11, <1>12, <1>13, <1>14, <1>15 DEF Next, User, Act

(***************************************************************************)
(* A Job is heated when no Job is hot, and only one that is new or waits.  *)
(***************************************************************************)
LEMMA HeatStep ==
    ASSUME StopInv, PlanIsSafe, [Next]_vars, NEW k \in Names, Hot(k)', ~Hot(k)
    PROVE  /\ \A m \in Names : ~Hot(m)
           /\ Exists(k) => ~jobs[k].completed /\ ~WasJobStoppedByTheUser(jobs[k])
<1> USE DEF StopInv
<1>1. CASE CreateJob
  <2>1. PICK c \in Names, job \in Job :
           /\ job = plan.create.job /\ plan.create # Nil
           /\ ~Exists(c)
           /\ jobs' = [jobs EXCEPT ![c] = job]
           /\ pods' = pods
    BY <1>1 DEF CreateJob, NameIsFree, Write, TypeOK, Plan, NewJob
  <2>2. k = c
    BY <2>1 DEF Hot, Exists, TypeOK
  <2>3. ~job.suspended
    BY <2>1, <2>2 DEF Hot, Exists, TypeOK, PodsHaveJobs, Alive
  <2> QED  BY <2>1, <2>2, <2>3 DEF PlanIsSafe
<1>2. CASE UnsuspendJob
  <2>1. PICK h \in Names :
           /\ h = plan.unsuspend /\ h \in fresh /\ Exists(h)
           /\ jobs' = [jobs EXCEPT ![h] = [jobs[h] EXCEPT !.suspended = FALSE]]
           /\ pods' = pods
    BY <1>2 DEF UnsuspendJob, VersionIsCurrent, Write, TypeOK
  <2>2. k = h
    BY <2>1 DEF Hot, Exists, TypeOK
  <2>3. ~jobs[h].completed
    <3>1. jobs[h] \in Job
      BY <2>1, ExistingJobs
    <3> QED  BY <2>1, <2>2, <3>1 DEF Hot, Exists, TypeOK, Job
  <2>4. \A m \in Names : Hot(m) => m = h
    BY <2>1, <2>3 DEF PlanIsSafe
  <2> QED  BY <2>1, <2>2, <2>3, <2>4 DEF UnsuspendIsDue
<1> QED  BY <1>1, <1>2, NobodyElseHeats

-----------------------------------------------------------------------------
phases == [n \in Names |-> Phase(n)]

\* The phases of a Job, by what the invariant makes of them.
LEMMA PhaseMeanings ==
    ASSUME PodsHaveJobs, NEW n \in Names
    PROVE  /\ Phase(n) \in {"none", "waiting", "stopped", "running", "ended"}
           /\ Phase(n) = "none" <=> ~Exists(n)
           /\ Phase(n) = "ended" <=> Ended(n)
           /\ Phase(n) = "running" <=> Hot(n)
           /\ Phase(n) = "stopped" => Exists(n) /\ WasJobStoppedByTheUser(jobs[n])
<1>1. Hot(n) => Exists(n) /\ ~jobs[n].completed
  BY HotIsAlive DEF Alive, Exists, IsJobPotentiallyRunning, IsJobCompleted
<1> QED  BY <1>1 DEF Phase, Ended

\* Every step moves one Job along its life, or none.
LEMMA LifeStep ==
    ASSUME ExclusiveInv, ExclusiveInv', [Next]_vars
    PROVE  [Life!Next]_phases
<1> USE DEF ExclusiveInv, StopInv
<1>1. CASE UNCHANGED <<jobs, pods>>
  <2>1. \A n \in Names : Phase(n)' = Phase(n)
    BY <1>1 DEF Phase, Exists, Hot
  <2> QED  BY <2>1 DEF phases
<1>2. CASE \E n \in Names : \A m \in Names :
              m # n => jobs'[m] = jobs[m] /\ (m \in pods' <=> m \in pods)
  <2>1. PICK n \in Names : \A m \in Names :
              m # n => jobs'[m] = jobs[m] /\ (m \in pods' <=> m \in pods)
    BY <1>2
  <2> DEFINE p == Phase(n)
             q == Phase(n)'
  <2>2. phases' = [phases EXCEPT ![n] = q]
    BY <2>1 DEF phases, Phase, Exists, Hot
  <2>3. phases[n] = p /\ \A m \in Names : phases[m] = Phase(m)
    BY DEF phases
  <2>4. \A m \in Names : phases[m] = "running" => Hot(m)
    BY <2>3, PhaseMeanings
  <2>5. /\ p \in {"none", "waiting", "stopped", "running", "ended"}
        /\ p = "none" <=> ~Exists(n)
        /\ p = "ended" <=> Ended(n)
        /\ p = "running" <=> Hot(n)
        /\ p = "stopped" => Exists(n) /\ WasJobStoppedByTheUser(jobs[n])
    BY PhaseMeanings
  <2>6. /\ q \in {"none", "waiting", "stopped", "running", "ended"}
        /\ q = "none" <=> ~Exists(n)'
        /\ q = "ended" <=> Ended(n)'
        /\ q = "running" <=> Hot(n)'
    BY <1>2 DEF Phase, Ended, Exists, Hot, PodsHaveJobs, Alive, IsJobPotentiallyRunning, IsJobCompleted
  <2>7. /\ Ended(n) => jobs'[n] = Nil \/ Ended(n)'
        /\ Ended(n)' => Exists(n) /\ (Ended(n) \/ Hot(n))
    BY EndsStep
  <2>8. Ended(n)' \/ (~Exists(n))' \/ ~Ended(n)
    BY <2>7 DEF Exists
  <2> HIDE DEF p, q
  <2>9. CASE q = "none"
    BY <2>2, <2>9 DEF Life!Next, Life!Vanish, Life!Becomes, phases
  <2>10. CASE q = "ended"
    <3>1. p \in {"ended", "running"}
      BY <2>5, <2>6, <2>7, <2>10
    <3>2. CASE p = "ended"
      BY <2>2, <2>3, <2>10, <3>2 DEF phases
    <3>3. CASE p = "running"
      BY <2>2, <2>3, <2>10, <3>3 DEF Life!Next, Life!End, Life!Becomes, phases
    <3> QED  BY <3>1, <3>2, <3>3
  <2>11. CASE q = "running"
    <3>1. CASE p = "running"
      BY <2>2, <2>3, <2>11, <3>1 DEF phases
    <3>2. CASE p # "running"
      <4>1. /\ \A m \in Names : ~Hot(m)
            /\ Exists(n) => ~jobs[n].completed /\ ~WasJobStoppedByTheUser(jobs[n])
        BY <2>5, <2>6, <2>11, <3>2, HeatStep
      <4>2. p \in {"none", "waiting"}
        BY <2>5, <3>2, <4>1 DEF Ended
      <4>3. \A m \in Names : phases[m] # "running"
        BY <2>4, <4>1
      <4> QED  BY <2>2, <2>3, <2>11, <4>2, <4>3 DEF Life!Next, Life!Run, Life!Becomes, phases
    <3> QED  BY <3>1, <3>2
  <2>12. CASE q \in {"waiting", "stopped"}
    <3>1. p \in {"none", "waiting", "stopped", "running"}
      BY <2>5, <2>6, <2>8, <2>12
    <3>2. CASE p = q
      BY <2>2, <2>3, <3>2 DEF phases
    <3>3. CASE p # q
      BY <2>2, <2>3, <2>12, <3>1, <3>3
         DEF Life!Next, Life!Arrive, Life!Rest, Life!Stop, Life!Release, Life!Becomes, phases
    <3> QED  BY <3>2, <3>3
  <2> QED  BY <2>6, <2>9, <2>10, <2>11, <2>12
<1> QED  BY <1>1, <1>2, OneJobAtATime

(***************************************************************************)
(* The operator implements RunLifecycle (RunsFollowLifecycle; README.md:   *)
(* 16, decision.go:306-316): for a cache that keeps up with the operator's *)
(* own writes, whatever Jobs, specs, users, failures and restarts there    *)
(* are, a run starts only when none is running, never from a user's stop,  *)
(* and a Job that has ended never runs again.                              *)
(***************************************************************************)
THEOREM OperatorImplementsLifecycle ==
    ASSUME CacheKeepsUp
    PROVE  Spec => RunsFollowLifecycle
<1>1. Init => Life!Init
  BY DEF Init, Life!Init, Phase, Exists
<1>2. ExclusiveInv /\ ExclusiveInv' /\ [Next]_vars => [Life!Next]_phases
  BY LifeStep
<1>3. phases = [n \in Names |-> Phase(n)]
  BY DEF phases
<1> QED  BY <1>1, <1>2, <1>3, ExclusiveInvHolds, PTL DEF Spec, Life!Spec, RunsFollowLifecycle, phases

-----------------------------------------------------------------------------
(* A run is not started a second time in its run period.                   *)

\* Initially no Job has run.
LEMMA OncePerPeriodInit == Init => OncePerPeriodInv
<1> SUFFICES ASSUME Init PROVE OncePerPeriodInv
  OBVIOUS
<1>1. ExclusiveInv
  BY ExclusiveInvInit
<1>2. \A n \in Names : ~HasRun(n)
  BY DEF Init, HasRun, Hot, Ended, Exists
<1>3. NamesTell
  BY DEF Init, NamesTell, Named, NoWork
<1> QED  BY <1>1, <1>2, <1>3 DEF OncePerPeriodInv, RunIsVisible, PlanRestartsNothing, Init, NoWork

\* A Job that changes keeps its start and its run id.
LEMMA NamedStays ==
    ASSUME TypeOK, NamesTell, NEW n \in Names, Exists(n), NEW b \in BOOLEAN
    PROVE  /\ Named(n, [jobs[n] EXCEPT !.suspended = b])
           /\ Named(n, [jobs[n] EXCEPT !.userStop = b])
           /\ Named(n, [jobs[n] EXCEPT !.suspended = TRUE, !.userStop = b])
           /\ Named(n, [jobs[n] EXCEPT !.deleting = b])
           /\ Named(n, [jobs[n] EXCEPT !.completed = b])
<1>1. jobs[n] \in Job /\ n = JobName(jobs[n].start, jobs[n].runId)
  BY ExistingJobs DEF NamesTell, Named, Exists
<1> QED  BY <1>1 DEF Named, Job

\* Whoever writes a Job gives it the start and the run id of its name.
LEMMA JobsStayNamed ==
    ASSUME TypeOK, NamesTell, [Next]_vars, NEW k \in Names
    PROVE  Named(k, jobs'[k])
<1> USE DEF cluster, object, cache, queue, recon, bounds
<1>1. ASSUME jobs'[k] = jobs[k] PROVE Named(k, jobs'[k])
  BY <1>1 DEF NamesTell
<1>2. ASSUME NEW m \in Names, NEW job, NEW own, Write(m, job, own), Named(m, job)
      PROVE  Named(k, jobs'[k])
  <2>1. CASE m = k
    BY <1>2, <2>1 DEF Write, TypeOK
  <2>2. CASE m # k
    BY <1>1, <1>2, <2>2 DEF Write, TypeOK
  <2> QED  BY <2>1, <2>2
<1>3. \A m \in Names : Named(m, Nil)
  BY DEF Named
<1>4. CASE UserEditsSpec
  BY <1>1, <1>4 DEF UserEditsSpec
<1>5. CASE UserCreatesJob
  <2>1. PICK u \in UserJobs : Write(u.name, u.job, FALSE)
    BY <1>5 DEF UserCreatesJob
  <2>2. u.name \in Names /\ Named(u.name, u.job)
    BY UserJobsAssumption, UserJobsAreNamed DEF Named
  <2> QED  BY <1>2, <2>1, <2>2
<1>6. CASE UserStopsJob
  BY <1>2, <1>6, NamedStays DEF UserStopsJob
<1>7. CASE UserReleasesJob
  BY <1>2, <1>7, NamedStays DEF UserReleasesJob
<1>8. CASE UserDeletesJob
  BY <1>2, <1>3, <1>8, NamedStays DEF UserDeletesJob
<1>9. CASE Kubernetes
  <2>1. PICK m \in Names :
           StartPods(m) \/ StopPods(m) \/ FinishJob(m) \/ RemoveJob(m) \/ ReapOrphan(m)
    BY <1>9 DEF Kubernetes
  <2>2. CASE StartPods(m) \/ StopPods(m) \/ ReapOrphan(m)
    BY <1>1, <2>2 DEF StartPods, StopPods, ReapOrphan
  <2>3. CASE FinishJob(m)
    BY <1>2, <2>3, NamedStays DEF FinishJob
  <2>4. CASE RemoveJob(m)
    BY <1>2, <1>3, <2>4 DEF RemoveJob
  <2> QED  BY <2>1, <2>2, <2>3, <2>4
<1>10. CASE \E m \in Names : DeleteJob(m)
  BY <1>1, <1>2, <1>10, NamedStays DEF DeleteJob, Deletable
<1>11. CASE CreateJob
  BY <1>2, <1>11 DEF CreateJob, NameIsFree, NamesTell
<1>12. CASE UnsuspendJob
  BY <1>2, <1>12, NamedStays DEF UnsuspendJob, VersionIsCurrent, TypeOK
<1>13. CASE Tick \/ Deliver \/ TimerFires \/ BackoffEnds \/ Resync \/ Start \/ Decide \/ MutatorFails
            \/ LoadFails \/ WriteRefused \/ WriteFails \/ WritesDone
            \/ UpdateStatus \/ StatusLost \/ Restart \/ UNCHANGED vars
  BY <1>1, <1>13 DEF Tick, Deliver, TimerFires, BackoffEnds, Resync, Start, Decide, MutatorFails, Decision,
        LoadFails, WriteRefused, WriteFails, GiveUp, WritesDone, UpdateStatus, StatusLost,
        HandleResult, Restart, vars
<1> QED  BY <1>4, <1>5, <1>6, <1>7, <1>8, <1>9, <1>10, <1>11, <1>12, <1>13 DEF Next, User, Act

\* Names go on telling, in the cluster, on the watch, in the cache and in
\* the plan.
LEMMA NamesTellStep ==
    ASSUME StopInv, NamesTell, [Next]_vars
    PROVE  NamesTell'
<1> USE DEF StopInv
<1>1. \A n \in Names : Named(n, jobs'[n])
  BY JobsStayNamed
<1>2. plan'.create # Nil => Named(plan'.create.name, plan'.create.job)
  <2>1. ASSUME NEW b \in BOOLEAN, Decision(b), plan'.create # Nil
        PROVE  Named(plan'.create.name, plan'.create.job)
    <3>1. PICK st : plan'.create = JobToCreate(st, view) /\ JobToCreate(st, view) # Nil
      BY <2>1, DecisionForm
    <3> QED  BY <3>1, CreatedJobIsNamed DEF Named
  <2>2. CASE PlanShrinking
    BY <2>2 DEF PlanShrinking, NamesTell
  <2> QED  BY <2>1, <2>2, PlanForms
<1>3. /\ \A n \in Names : Named(n, view'[n])
      /\ \A i \in DOMAIN backlog' : Named(backlog'[i].name, backlog'[i].job)
  <2>1. CASE StartStep
    BY <2>1 DEF StartStep, NamesTell
  <2>2. CASE SomeWrite
    <3>1. PICK n \in Names, job \in Job \cup {Nil}, own \in BOOLEAN : WriteStep(n, job, own)
      BY <2>2 DEF SomeWrite
    <3>2. Write(n, job, own) /\ view' = view /\ jobs'[n] = job
      BY <3>1 DEF WriteStep, Write, TypeOK
    <3>3. PICK L \in Nat :
          /\ DOMAIN backlog = 1 .. L
          /\ DOMAIN backlog' = 1 .. L + 1
          /\ \A i \in DOMAIN backlog : backlog'[i] = backlog[i]
          /\ backlog'[L + 1] = [name |-> n, job |-> job, own |-> own]
      BY <3>2, WriteEvents
    <3>4. Named(backlog'[L + 1].name, backlog'[L + 1].job)
      BY <1>1, <3>2, <3>3
    <3>5. \A i \in DOMAIN backlog' : i \in DOMAIN backlog \/ i = L + 1
      BY <3>3
    <3>6. ASSUME NEW i \in DOMAIN backlog' PROVE Named(backlog'[i].name, backlog'[i].job)
      BY <3>3, <3>4, <3>5 DEF NamesTell
    <3> QED  BY <3>2, <3>6 DEF NamesTell
  <2>3. CASE Deliver
    <3>1. PICK L \in Nat \ {0} :
          /\ DOMAIN backlog = 1 .. L
          /\ DOMAIN backlog' = 1 .. L - 1
          /\ \A i \in DOMAIN backlog' : backlog'[i] = backlog[i + 1]
          /\ backlog[1] \in WatchEvent
          /\ view' = [view EXCEPT ![backlog[1].name] = backlog[1].job]
      BY <2>3, DeliverEvents
    <3>2. 1 \in DOMAIN backlog /\ \A i \in DOMAIN backlog' : i + 1 \in DOMAIN backlog
      BY <3>1
    <3> QED  BY <3>1, <3>2 DEF NamesTell, TypeOK
  <2>4. CASE Restart
    BY <2>4 DEF Restart, cluster, NamesTell
  <2> QED  BY <2>1, <2>2, <2>3, <2>4, StepForms
<1> QED  BY <1>1, <1>2, <1>3 DEF NamesTell

\* A Job that has run is there, and nobody but the operator lets one go.
LEMMA HasRunStep ==
    ASSUME StopInv, PlanIsSafe, [Next]_vars, NEW k \in Names, HasRun(k)'
    PROVE  /\ jobs'[k] # Nil
           /\ ~CreateJob /\ ~UnsuspendJob => HasRun(k)
<1>1. jobs'[k] # Nil
  BY PodsStep DEF StopInv, HasRun, Hot, Ended, Exists, PodsHaveJobs, Alive
<1>2. ASSUME ~CreateJob, ~UnsuspendJob PROVE HasRun(k)
  BY <1>2, NobodyElseHeats, EndsStep DEF StopInv, HasRun
<1> QED  BY <1>1, <1>2

\* Every step leaves a Job that has run visible, or its existence on its way.
LEMMA RunIsVisibleStep ==
    ASSUME StopInv, PlanIsSafe, RunIsVisible, [Next]_vars
    PROVE  RunIsVisible'
<1> USE DEF StopInv
<1> DEFINE Seen(k) ==
              /\ view'[k] # Nil \/ \E i \in DOMAIN backlog' : OwnMention(k, i)'
              /\ \A i \in DOMAIN backlog' :
                    backlog'[i].name = k /\ backlog'[i].job = Nil
                    => \E j \in DOMAIN backlog' : j > i /\ OwnMention(k, j)'
<1> SUFFICES ASSUME NEW k \in Names, HasRun(k)' PROVE Seen(k)
  BY DEF RunIsVisible, OwnMention
<1>1. jobs'[k] # Nil /\ (~CreateJob /\ ~UnsuspendJob => HasRun(k))
  BY HasRunStep
<1>2. ASSUME NEW n \in Names, NEW job \in Job, Write(n, job, TRUE), view' = view,
             n = k \/ HasRun(k)
      PROVE  Seen(k)
  <2>1. PICK L \in Nat :
        /\ DOMAIN backlog = 1 .. L
        /\ DOMAIN backlog' = 1 .. L + 1
        /\ \A i \in DOMAIN backlog : backlog'[i] = backlog[i]
        /\ backlog'[L + 1] = [name |-> n, job |-> job, own |-> TRUE]
    BY <1>2, WriteEvents
  <2>2. \A i \in DOMAIN backlog : OwnMention(k, i) => i \in DOMAIN backlog' /\ OwnMention(k, i)'
    BY <2>1 DEF OwnMention
  <2>3. \A i \in DOMAIN backlog' : i \in DOMAIN backlog \/ (i = L + 1 /\ backlog'[i].job # Nil)
    BY <2>1, NilIsNoJob
  <2>4. CASE n = k
    <3>1. L + 1 \in DOMAIN backlog' /\ OwnMention(k, L + 1)'
      BY <2>1, <2>4, NilIsNoJob DEF OwnMention
    <3>2. backlog'[L + 1].job # Nil /\ \A i \in DOMAIN backlog' : i # L + 1 => L + 1 > i
      BY <2>1, NilIsNoJob
    <3>3. \A i \in DOMAIN backlog' : backlog'[i].job = Nil => L + 1 > i
      BY <3>2
    <3> QED  BY <3>1, <3>3
  <2>5. CASE HasRun(k)
    BY <1>2, <2>1, <2>2, <2>3, <2>5 DEF RunIsVisible
  <2> QED  BY <1>2, <2>4, <2>5
<1>3. CASE CreateJob
  <2> DEFINE n == plan.create.name
  <2>1. n \in Names /\ plan.create.job \in Job /\ Write(n, plan.create.job, TRUE) /\ view' = view
    BY <1>3 DEF CreateJob, NameIsFree, TypeOK, Plan, NewJob
  <2>2. k # n => jobs'[k] = jobs[k] /\ pods' = pods
    BY <1>3, <2>1 DEF CreateJob, Write, TypeOK
  <2>3. k = n \/ HasRun(k)
    BY <2>2 DEF HasRun, Hot, Ended, Exists
  <2> QED  BY <1>2, <2>1, <2>3
<1>4. CASE UnsuspendJob
  <2> DEFINE n == plan.unsuspend
  <2>1. n \in Names /\ Exists(n) /\ Write(n, [jobs[n] EXCEPT !.suspended = FALSE], TRUE) /\ view' = view
    BY <1>4 DEF UnsuspendJob, VersionIsCurrent, TypeOK
  <2>2. [jobs[n] EXCEPT !.suspended = FALSE] \in Job
    BY <2>1, ExistingJobs
  <2>3. k # n => jobs'[k] = jobs[k] /\ pods' = pods
    BY <1>4, <2>1 DEF UnsuspendJob, Write, TypeOK
  <2>4. k = n \/ HasRun(k)
    BY <2>3 DEF HasRun, Hot, Ended, Exists
  <2> QED  BY <1>2, <2>1, <2>2, <2>4
<1>5. CASE ~CreateJob /\ ~UnsuspendJob /\ SomeWrite
  <2>1. PICK n \in Names, job \in Job \cup {Nil}, own \in BOOLEAN : WriteStep(n, job, own)
    BY <1>5 DEF SomeWrite
  <2>2. Write(n, job, own) /\ view' = view /\ jobs'[n] = job
    BY <2>1 DEF WriteStep, Write, TypeOK
  <2>3. PICK L \in Nat :
        /\ DOMAIN backlog = 1 .. L
        /\ DOMAIN backlog' = 1 .. L + 1
        /\ \A i \in DOMAIN backlog : backlog'[i] = backlog[i]
        /\ backlog'[L + 1] = [name |-> n, job |-> job, own |-> own]
    BY <2>2, WriteEvents
  <2>4. \A i \in DOMAIN backlog : OwnMention(k, i) => i \in DOMAIN backlog' /\ OwnMention(k, i)'
    BY <2>3 DEF OwnMention
  <2>5. \A i \in DOMAIN backlog' :
           backlog'[i].name = k /\ backlog'[i].job = Nil => i \in DOMAIN backlog
    BY <1>1, <2>2, <2>3
  <2> QED  BY <1>1, <1>5, <2>2, <2>3, <2>4, <2>5 DEF RunIsVisible
<1>6. CASE ~CreateJob /\ ~UnsuspendJob /\ StartStep
  BY <1>1, <1>6 DEF StartStep, RunIsVisible, OwnMention
<1>7. CASE ~CreateJob /\ ~UnsuspendJob /\ Deliver
  <2>1. HasRun(k)
    BY <1>1, <1>7
  <2>2. PICK L \in Nat \ {0} :
        /\ DOMAIN backlog = 1 .. L
        /\ DOMAIN backlog' = 1 .. L - 1
        /\ \A i \in DOMAIN backlog' : backlog'[i] = backlog[i + 1]
        /\ backlog[1] \in WatchEvent
        /\ view' = [view EXCEPT ![backlog[1].name] = backlog[1].job]
    BY <1>7, DeliverEvents
  <2>3. \A j \in DOMAIN backlog :
           j > 1 /\ OwnMention(k, j) => j - 1 \in DOMAIN backlog' /\ OwnMention(k, j - 1)'
    BY <2>2 DEF OwnMention
  <2>4. \A j \in DOMAIN backlog : j = 1 \/ j > 1
    BY <2>2
  <2>5. view'[k] # Nil \/ \E i \in DOMAIN backlog' : OwnMention(k, i)'
    <3>1. CASE backlog[1].name = k
      <4>1. view'[k] = backlog[1].job /\ 1 \in DOMAIN backlog
        BY <2>2, <3>1 DEF TypeOK
      <4>2. CASE backlog[1].job = Nil
        <5>1. PICK j \in DOMAIN backlog : j > 1 /\ OwnMention(k, j)
          BY <2>1, <3>1, <4>1, <4>2 DEF RunIsVisible
        <5> QED  BY <2>3, <5>1
      <4> QED  BY <4>1, <4>2
    <3>2. CASE backlog[1].name # k
      <4>1. view'[k] = view[k]
        BY <2>2, <3>2 DEF TypeOK
      <4>2. \A i \in DOMAIN backlog : OwnMention(k, i) => i > 1
        BY <2>4, <3>2 DEF OwnMention
      <4> QED  BY <2>1, <2>3, <4>1, <4>2 DEF RunIsVisible
    <3> QED  BY <3>1, <3>2
  <2>6. ASSUME NEW i \in DOMAIN backlog', backlog'[i].name = k, backlog'[i].job = Nil
        PROVE  \E j \in DOMAIN backlog' : j > i /\ OwnMention(k, j)'
    <3>1. i + 1 \in DOMAIN backlog /\ backlog'[i] = backlog[i + 1]
      BY <2>2
    <3>2. PICK j \in DOMAIN backlog : j > i + 1 /\ OwnMention(k, j)
      BY <2>1, <2>6, <3>1 DEF RunIsVisible
    <3>3. j > 1 /\ j - 1 > i
      BY <2>2, <3>2
    <3> QED  BY <2>3, <3>2, <3>3
  <2> QED  BY <2>5, <2>6
<1>8. CASE Restart
  <2>1. DOMAIN backlog' = {} /\ view' = jobs /\ jobs' = jobs
    BY <1>8 DEF Restart, cluster
  <2> QED  BY <1>1, <2>1
<1>9. CASE CreateJob \/ UnsuspendJob
  BY <1>3, <1>4, <1>9
<1> HIDE DEF Seen
<1> QED  BY <1>5, <1>6, <1>7, <1>8, <1>9, StepForms

(***************************************************************************)
(* A decision that begins a period has seen every Job that has run.        *)
(***************************************************************************)
LEMMA DecisionRestartsNothing ==
    ASSUME CacheKeepsUp, StopInv, NamesTell, RunIsVisible, NEW b \in BOOLEAN, Decision(b)
    PROVE  PlanRestartsNothing'
<1> USE DEF StopInv
<1>1. \A i \in DOMAIN backlog : ~backlog[i].own
  BY DEF Decision, CanDecide, OwnWritePending
<1>2. ASSUME NEW n \in Names, HasRun(n)
      PROVE  /\ jobs[n] # Nil /\ n \in AllJobs(view)
             /\ view[n].start = jobs[n].start
  <2>1. jobs[n] # Nil
    BY <1>2 DEF HasRun, Hot, Ended, Exists, PodsHaveJobs, Alive
  <2>2. view[n] # Nil /\ DOMAIN view = Names
    BY <1>1, <1>2 DEF RunIsVisible, OwnMention, TypeOK
  <2>3. jobs[n].start = n[1] /\ view[n].start = n[1]
    BY <2>1, <2>2 DEF NamesTell, Named, JobName
  <2> QED  BY <2>1, <2>2, <2>3 DEF AllJobs
<1>3. UNCHANGED <<jobs, pods>>
  BY DecisionForm
<1> DEFINE st == buildState(spec, now)
<1> SUFFICES ASSUME plan'.create # Nil, plan'.create.job.runId = 0, NEW n \in Names, HasRun(n)
             PROVE  jobs[n].start < plan'.create.job.start
  BY <1>3 DEF PlanRestartsNothing, HasRun, Hot, Ended, Exists
<1>4. plan'.create = JobToCreate(st, view)
  BY DecisionType DEF makeDecision, NoWork
<1>5. view \in Lists(Names) /\ IsFiniteSet(Names) /\ OrdersNames(Names) /\ Nil \notin Names
  BY ViewIsAList, NamesAssumption
<1>6. \A m \in AllJobs(view) : view[m].start # Nil /\ view[m].runId # Nil
  <2>1. \A m \in AllJobs(view) : m \in Names /\ Named(m, view[m]) /\ view[m] # Nil
    BY DEF AllJobs, NamesTell, TypeOK
  <2>2. \A m \in Names : m[1] \in Int /\ m[2] \in Nat
    BY NamesAssumption
  <2> QED  BY <2>1, <2>2, NilAssumption DEF Named, JobName
<1>7. spec \in ControlledJobSpec /\ now \in Int
  BY SpecsAssumption DEF Decision, CanDecide, TypeOK
<1>8. \A m \in AllJobs(view) : view[m].start < plan'.create.job.start
  BY <1>4, <1>5, <1>6, <1>7, FirstRunBeginsPeriod
<1> QED  BY <1>2, <1>8

\* No Job is let go between a decision and the creation it asks for.
LEMMA PlanRestartsNothingStep ==
    ASSUME CacheKeepsUp, StopInv, PlanIsSafe, NamesTell, RunIsVisible, PlanRestartsNothing,
           [Next]_vars
    PROVE  PlanRestartsNothing'
<1> USE DEF StopInv
<1>1. CASE \E b \in BOOLEAN : Decision(b)
  BY <1>1, DecisionRestartsNothing
<1>2. CASE PlanShrinking /\ plan'.create # Nil
  <2>1. ~CreateJob /\ ~UnsuspendJob /\ plan'.create = plan.create /\ plan.create # Nil
    BY <1>2 DEF CreateJob, UnsuspendJob, PlanShrinking, TypeOK, Plan
  <2>2. ASSUME NEW n \in Names, HasRun(n)'
        PROVE  HasRun(n) /\ jobs'[n].start = jobs[n].start
    <3>1. HasRun(n) /\ jobs'[n] # Nil
      BY <2>1, <2>2, HasRunStep
    <3>2. jobs[n] # Nil
      BY <3>1 DEF HasRun, Hot, Ended, Exists, PodsHaveJobs, Alive
    <3>3. Named(n, jobs[n]) /\ Named(n, jobs'[n])
      BY JobsStayNamed DEF NamesTell
    <3> QED  BY <3>1, <3>2, <3>3 DEF Named, JobName
  <2> QED  BY <2>1, <2>2 DEF PlanRestartsNothing
<1>3. CASE plan'.create = Nil
  BY <1>3 DEF PlanRestartsNothing
<1> QED  BY <1>1, <1>2, <1>3, PlanForms

\* Every step keeps the invariant, if the cache keeps up.
LEMMA OncePerPeriodStep ==
    ASSUME CacheKeepsUp, OncePerPeriodInv, [Next]_vars
    PROVE  OncePerPeriodInv'
BY ExclusiveInvStep, NamesTellStep, RunIsVisibleStep, PlanRestartsNothingStep
   DEF OncePerPeriodInv, ExclusiveInv

(***************************************************************************)
(* The inductive invariant behind FinishedRunIsNotRestarted holds if the   *)
(* cache keeps up with the operator's own writes: every Job that runs or   *)
(* has ended is in the cache or on its way there, and a decision that is   *)
(* still to be carried out begins a later period than all of them          *)
(* (decision.go:253-277, reconcile.go:130-141).                            *)
(***************************************************************************)
THEOREM OncePerPeriodInvHolds ==
    ASSUME CacheKeepsUp
    PROVE  Spec => []OncePerPeriodInv
<1>1. OncePerPeriodInv /\ [Next]_vars => OncePerPeriodInv'
  BY OncePerPeriodStep
<1> QED  BY <1>1, OncePerPeriodInit, PTL DEF Spec

(***************************************************************************)
(* A run is started once in its run period (FinishedRunIsNotRestarted;     *)
(* README.md, "will not ... restart Jobs that have exited cleanly during   *)
(* their scheduled time"; decision.go:253-277): however late the cache is  *)
(* with the end of a run, whatever users do to Jobs, and across failures   *)
(* and restarts, run 0 of a period is created only when every Job that     *)
(* runs or has ended is of an earlier period.                              *)
(***************************************************************************)
THEOREM RunsOncePerPeriod ==
    ASSUME CacheKeepsUp
    PROVE  Spec => FinishedRunIsNotRestarted
<1>1. OncePerPeriodInv /\ [Next]_vars =>
         [ CreateJob /\ plan.create.job.runId = 0 =>
              \A n \in Names : HasRun(n) => jobs[n].start < plan.create.job.start ]_vars
  BY DEF OncePerPeriodInv, PlanRestartsNothing, CreateJob
<1> QED  BY <1>1, OncePerPeriodInvHolds, PTL DEF Spec, FinishedRunIsNotRestarted

-----------------------------------------------------------------------------
(* The newest manual Job is adopted, while run ids have one digit.         *)

\* A decision gives up a manual Job only for a newer one.
LEMMA SurplusManualJobIsOlder ==
    ASSUME Names \subseteq Int \X (0 .. 9), StopInv, NamesTell, [Next]_vars,
           NEW n \in plan'.surplus \ plan.surplus,
           view[n] # Nil, view[n].manual, view[n].hash = spec.hash, ~spec.suspend
    PROVE  \E m \in Names : view[m] # Nil /\ Newer(m, n)
<1> USE DEF StopInv
<1>1. PICK b \in BOOLEAN : Decision(b)
  BY PlanForms DEF PlanShrinking
<1> DEFINE st == buildState(spec, now)
<1>2. plan' = makeDecision(st, view, now, b)
  BY <1>1, DecisionType
<1>3. ~st.isSuspended /\ st.desiredHash = spec.hash
  BY DEF buildState
<1> HIDE DEF st
<1>4. n \in SurplusToDelete(st, view)
  BY <1>2, <1>3 DEF makeDecision, NoWork
<1>5. PICK m \in AllJobs(view) : NameGreater(m, n)
  BY <1>3, <1>4, ViewIsAList, NamesAssumption, ManualJobYieldsToGreaterName
<1>6. m \in Names /\ n \in Names /\ view[m] # Nil
  BY <1>4, <1>5 DEF SurplusToDelete, NonExpiredJobs, AllJobs, TypeOK
<1>7. m[1] > n[1] \/ (m[1] = n[1] /\ m[2] > n[2])
  BY <1>5, <1>6, ShortNamesCompare
<1>8. /\ view[m].start = m[1] /\ view[m].runId = m[2]
      /\ view[n].start = n[1] /\ view[n].runId = n[2]
  BY <1>6 DEF NamesTell, Named, JobName
<1> QED  BY <1>6, <1>7, <1>8 DEF Newer

(***************************************************************************)
(* The operator adopts the newest manual Job (NewestManualJobIsAdopted;    *)
(* manually-created-jobs.md:16 and :105; decision.go:458-475), however     *)
(* late its cache is, as long as run ids stay below ten.  With the tenth   *)
(* run it does not: names are compared as strings.                         *)
(***************************************************************************)
THEOREM NewestManualJobAdopted ==
    ASSUME Names \subseteq Int \X (0 .. 9)
    PROVE  Spec => NewestManualJobIsAdopted
<1>1. Init => StopInv /\ NamesTell
  BY StopInvInit, OncePerPeriodInit DEF OncePerPeriodInv
<1>2. StopInv /\ NamesTell /\ [Next]_vars => (StopInv /\ NamesTell)'
  BY StopInvStep, NamesTellStep
<1>3. StopInv /\ NamesTell /\ [Next]_vars =>
         [ \A n \in plan'.surplus \ plan.surplus :
             view[n] # Nil /\ view[n].manual /\ view[n].hash = spec.hash /\ ~spec.suspend
             => \E m \in Names : view[m] # Nil /\ Newer(m, n) ]_vars
  BY SurplusManualJobIsOlder
<1> QED  BY <1>1, <1>2, <1>3, PTL DEF Spec, NewestManualJobIsAdopted

-----------------------------------------------------------------------------
(* No wake-up is lost.                                                     *)

\* Initially the key is queued.
LEMMA WakeInit == Init => WakeInv
<1> SUFFICES ASSUME Init PROVE WakeInv
  OBVIOUS
<1>1. StopInv
  BY StopInvInit
<1>2. SleepsInPeace /\ WorkIsRemembered
  BY DEF Init, SleepsInPeace, Asleep, WorkIsRemembered
<1>3. WorkIsOrdered
  BY TimeAssumption DEF Init, WorkIsOrdered
<1> QED  BY <1>1, <1>2, <1>3 DEF WakeInv

\* A Reconcile works with the time at which it began, and tells of success
\* only when nothing is left of its decision.
LEMMA WorkIsOrderedStep ==
    ASSUME TypeOK, WorkIsOrdered, [Next]_vars
    PROVE  WorkIsOrdered'
<1> USE TimeAssumption DEF cluster, object, cache, queue, recon, bounds
<1>1. FirstTime \in Int /\ clock \in Int
  BY DEF TypeOK
<1>2. CASE UNCHANGED <<clock, recon>>
  BY <1>2 DEF WorkIsOrdered
<1>3. CASE Tick
  BY <1>1, <1>3 DEF Tick, WorkIsOrdered
<1>4. CASE Start
  BY <1>1, <1>4 DEF Start, WorkIsOrdered
<1>5. CASE Decide \/ MutatorFails
  BY <1>5 DEF Decide, MutatorFails, Decision, CanDecide, WorkIsOrdered
<1>6. CASE (\E n \in Names : DeleteJob(n)) \/ CreateJob \/ UnsuspendJob
  BY <1>6 DEF DeleteJob, CreateJob, UnsuspendJob, WorkIsOrdered
<1>7. CASE WriteRefused \/ WriteFails
  BY <1>7 DEF WriteRefused, WriteFails, GiveUp, WorkIsOrdered
<1>8. CASE WritesDone
  BY <1>8 DEF WritesDone, ToDelete, WorkIsOrdered
<1>9. CASE LoadFails \/ UpdateStatus \/ StatusLost \/ Restart
  BY <1>9 DEF LoadFails, UpdateStatus, StatusLost, Restart, HandleResult, Return, WorkIsOrdered
<1>10. CASE UNCHANGED vars
  BY <1>2, <1>10 DEF vars
<1>11. CASE User
  BY <1>2, <1>11 DEF User, UserEditsSpec, UserCreatesJob, UserStopsJob, UserReleasesJob,
                     UserDeletesJob
<1>12. CASE Kubernetes
  BY <1>2, <1>12 DEF Kubernetes, StartPods, StopPods, FinishJob, RemoveJob, ReapOrphan
<1>13. CASE Deliver \/ TimerFires \/ BackoffEnds \/ Resync
  BY <1>2, <1>13 DEF Deliver, TimerFires, BackoffEnds, Resync
<1> QED  BY <1>3, <1>4, <1>5, <1>6, <1>7, <1>8, <1>9, <1>10, <1>11, <1>12, <1>13 DEF Next, Act

(***************************************************************************)
(* Steps of others leave the operator's memory alone, or put the key into  *)
(* the queue, or have an event on its way that will.                       *)
(***************************************************************************)
OthersMove ==
    /\ UNCHANGED <<spec, view, queued, timer, backoff, recon>>
    /\ clock' \in {clock, clock + 1}
    /\ backlog' # <<>> \/ UNCHANGED <<jobs, backlog>>

LEMMA WakingForms ==
    ASSUME TypeOK, [Next]_vars
    PROVE  \/ OthersMove
           \/ queued'
           \/ Start \/ Decide \/ MutatorFails \/ LoadFails
           \/ (\E n \in Names : DeleteJob(n)) \/ CreateJob \/ UnsuspendJob
           \/ WriteRefused \/ WriteFails \/ WritesDone
           \/ UpdateStatus \/ StatusLost
<1> USE DEF cluster, object, cache, queue, recon, bounds
<1>1. ASSUME NEW n, NEW job, NEW own, Write(n, job, own) PROVE backlog' # <<>>
  BY <1>1 DEF Write, TypeOK
<1>2. CASE UNCHANGED vars
  BY <1>2 DEF vars, OthersMove
<1>3. CASE User
  <2>1. CASE UserEditsSpec
    BY <2>1 DEF UserEditsSpec
  <2>2. CASE UserCreatesJob \/ UserStopsJob \/ UserReleasesJob \/ UserDeletesJob
    <3>1. backlog' # <<>>
      BY <1>1, <2>2 DEF UserCreatesJob, UserStopsJob, UserReleasesJob, UserDeletesJob
    <3> QED  BY <2>2, <3>1 DEF UserCreatesJob, UserStopsJob, UserReleasesJob, UserDeletesJob,
                               OthersMove
  <2> QED  BY <1>3, <2>1, <2>2 DEF User
<1>4. CASE Kubernetes
  <2>1. PICK n \in Names :
           StartPods(n) \/ StopPods(n) \/ FinishJob(n) \/ RemoveJob(n) \/ ReapOrphan(n)
    BY <1>4 DEF Kubernetes
  <2>2. CASE StartPods(n) \/ StopPods(n) \/ ReapOrphan(n)
    BY <2>2 DEF StartPods, StopPods, ReapOrphan, OthersMove
  <2>3. CASE FinishJob(n) \/ RemoveJob(n)
    <3>1. backlog' # <<>>
      BY <1>1, <2>3 DEF FinishJob, RemoveJob
    <3> QED  BY <2>3, <3>1 DEF FinishJob, RemoveJob, OthersMove
  <2> QED  BY <2>1, <2>2, <2>3
<1>5. CASE Tick
  BY <1>5 DEF Tick, OthersMove
<1>6. CASE Deliver \/ TimerFires \/ BackoffEnds \/ Resync \/ Restart
  BY <1>6 DEF Deliver, TimerFires, BackoffEnds, Resync, Restart
<1> QED  BY <1>2, <1>3, <1>4, <1>5, <1>6 DEF Next, Act

\* With no event under way the cache shows the Jobs as they are.
LEMMA CacheIsTrue ==
    ASSUME TypeOK, CacheCatchesUp, backlog = <<>>
    PROVE  view = jobs
<1>1. \A n \in Names : view[n] = jobs[n]
  BY DEF CacheCatchesUp, Pending
<1> QED  BY <1>1 DEF TypeOK

\* A decision deletes Jobs of the list.
LEMMA DoomedJobsAreListed ==
    ASSUME NEW st, NEW V, NEW now0, NEW b
    PROVE  LET d == makeDecision(st, V, now0, b)
           IN  d.expired \cup d.surplus \subseteq AllJobs(V)
BY DEF makeDecision, NoWork, ExpiredToDelete, SurplusToDelete, ExpiredJobs, NonExpiredJobs

\* What a Reconcile has left to do is what it decided.
LEMMA WorkIsRememberedStep ==
    ASSUME StopInv, WorkIsRemembered, WorkIsOrdered, [Next]_vars
    PROVE  WorkIsRemembered'
<1> USE DEF StopInv
<1> SUFFICES ASSUME pc' \in {"write", "status"}, ~queued', ~spec'.mutate
             PROVE  \E d \in DecisionsAt(now)' :
                       /\ outcome' = "fatal" => d.fails
                       /\ outcome' = "ok" => ~d.fails /\ plan'.requeueAt = d.requeueAt
                       /\ outcome' = "ok" /\ backlog' = <<>> => Remains(d)'
  BY DEF WorkIsRemembered
<1> USE DEF cluster, object, cache, queue, recon, bounds
<1>1. CASE OthersMove
  <2>1. PICK d \in DecisionsAt(now) :
           /\ outcome = "fatal" => d.fails
           /\ outcome = "ok" => ~d.fails /\ plan.requeueAt = d.requeueAt
           /\ outcome = "ok" /\ backlog = <<>> => Remains(d)
    BY <1>1 DEF OthersMove, WorkIsRemembered
  <2>2. DecisionsAt(now)' = DecisionsAt(now) /\ Remains(d)' = Remains(d)
    BY <1>1 DEF OthersMove, DecisionsAt, Remains
  <2> QED  BY <1>1, <2>1, <2>2 DEF OthersMove
<1>2. CASE Start \/ LoadFails \/ UpdateStatus \/ StatusLost
  BY <1>2 DEF Start, LoadFails, UpdateStatus, StatusLost, HandleResult, Return
<1>3. CASE Decide \/ MutatorFails
  <2>1. Decision(FALSE)
    BY <1>3 DEF Decide, MutatorFails, Decision
  <2>0. PICK d : d = makeDecision(buildState(spec, now), view, now, FALSE)
    OBVIOUS
  <2>2. plan' = d /\ plan' \in Plan
    BY <2>0, <2>1, DecisionType
  <2>3. d \in DecisionsAt(now)'
    BY <2>0, <2>1 DEF Decision, DecisionsAt
  <2>4. outcome' = IF plan'.fails THEN "fatal" ELSE "ok"
    BY <2>1 DEF Decision
  <2>5. Remains(d)'
    BY <2>2 DEF Remains
  <2> QED  BY <2>2, <2>3, <2>4, <2>5 DEF Plan
<1>4. CASE \E n \in Names : DeleteJob(n)
  <2>1. PICK n \in Names : DeleteJob(n)
    BY <1>4
  <2>2. /\ UNCHANGED <<spec, view, queued, now, outcome>> /\ pc = "write" /\ n \in ToDelete
        /\ plan' = Deleted(n)
    BY <2>1 DEF DeleteJob
  <2>3. PICK d \in DecisionsAt(now) :
           /\ outcome = "fatal" => d.fails
           /\ outcome = "ok" => ~d.fails /\ plan.requeueAt = d.requeueAt
           /\ outcome = "ok" /\ backlog = <<>> => Remains(d)
    BY <2>2 DEF WorkIsRemembered
  <2>4. DecisionsAt(now)' = DecisionsAt(now)
    BY <2>2 DEF DecisionsAt
  <2>5. /\ plan'.requeueAt = plan.requeueAt
        /\ plan'.create = plan.create /\ plan'.unsuspend = plan.unsuspend
        /\ plan'.expired = plan.expired \ {n} /\ plan'.surplus = plan.surplus \ {n}
    BY <2>2 DEF Deleted, TypeOK, Plan
  <2>6. ASSUME outcome = "ok", backlog' = <<>> PROVE Remains(d)'
    <3>1. ~Deletable(n) /\ backlog = <<>>
      BY <2>1, <2>6 DEF DeleteJob, Write, TypeOK
    <3>2. Remains(d) /\ view = jobs
      BY <2>3, <2>6, <3>1, CacheIsTrue
    <3>3. n \in d.expired \cup d.surplus => view[n].deleting
      <4>1. d.expired \cup d.surplus \subseteq AllJobs(view)
        BY DoomedJobsAreListed DEF DecisionsAt
      <4> QED  BY <3>1, <3>2, <4>1 DEF Deletable, Exists, AllJobs
    <3> QED  BY <2>2, <2>5, <3>2, <3>3 DEF Remains
  <2> QED  BY <2>2, <2>3, <2>4, <2>5, <2>6
<1>5. CASE CreateJob \/ UnsuspendJob
  <2>1. /\ UNCHANGED <<spec, view, queued, now, outcome>> /\ pc = "write"
        /\ plan'.requeueAt = plan.requeueAt /\ backlog' # <<>>
    BY <1>5 DEF CreateJob, UnsuspendJob, Write, TypeOK, Plan
  <2>2. DecisionsAt(now)' = DecisionsAt(now)
    BY <2>1 DEF DecisionsAt
  <2> QED  BY <2>1, <2>2 DEF WorkIsRemembered
<1>6. CASE WriteRefused \/ WriteFails
  <2>1. outcome' = "transient"
    BY <1>6 DEF WriteRefused, WriteFails, GiveUp
  <2>2. DecisionsAt(now)' # {}
    BY DEF DecisionsAt
  <2> QED  BY <2>1, <2>2
<1>7. CASE WritesDone
  <2>1. UNCHANGED <<spec, view, backlog, queued, now, plan, outcome>> /\ pc = "write"
    BY <1>7 DEF WritesDone
  <2>2. DecisionsAt(now)' = DecisionsAt(now) /\ \A d : Remains(d)' = Remains(d)
    BY <2>1 DEF DecisionsAt, Remains
  <2> QED  BY <2>1, <2>2 DEF WorkIsRemembered
<1> QED  BY <1>1, <1>2, <1>3, <1>4, <1>5, <1>6, <1>7, WakingForms

\* Asleep, the operator has done what it decided and has armed its timer.
LEMMA SleepsInPeaceStep ==
    ASSUME StopInv, SleepsInPeace, WorkIsRemembered, WorkIsOrdered, [Next]_vars
    PROVE  SleepsInPeace'
<1> USE DEF StopInv
<1> SUFFICES ASSUME Asleep', ~spec'.mutate
             PROVE  \E u \in (FirstTime .. clock)' : \E d \in DecisionsAt(u)' :
                       Rests(d)' /\ (~d.fails => WakesFor(d.requeueAt, u)')
  BY DEF SleepsInPeace
<1>0. FirstTime \in Int /\ clock \in Int /\ timer \in Int \cup {Nil}
  BY TimeAssumption DEF TypeOK
<1> USE DEF cluster, object, cache, queue, recon, bounds
<1>1. CASE OthersMove
  <2>1. Asleep /\ ~spec.mutate
    BY <1>1 DEF OthersMove, Asleep
  <2>2. PICK u \in FirstTime .. clock : \E d \in DecisionsAt(u) :
           Rests(d) /\ (~d.fails => WakesFor(d.requeueAt, u))
    BY <2>1 DEF SleepsInPeace
  <2>3. PICK d \in DecisionsAt(u) : Rests(d) /\ (~d.fails => WakesFor(d.requeueAt, u))
    BY <2>2
  <2>4. DecisionsAt(u)' = DecisionsAt(u) /\ Rests(d)' = Rests(d)
    BY <1>1 DEF OthersMove, DecisionsAt, Rests
  <2>5. u \in (FirstTime .. clock)'
    BY <1>0, <1>1 DEF OthersMove
  <2>6. d.requeueAt \in Int \cup {Nil}
    <3>1. spec \in ControlledJobSpec /\ u \in Int /\ view \in Lists(Names)
          /\ IsFiniteSet(Names) /\ Nil \notin Names /\ OrdersNames(Names)
      BY <1>0, <2>2, SpecsAssumption, NamesAssumption, ViewIsAList DEF TypeOK
    <3>2. d = makeDecision(buildState(spec, u), view, u, FALSE)
      BY <2>3 DEF DecisionsAt
    <3> QED  BY <3>1, <3>2, makeDecisionType
  <2>7. WakesFor(d.requeueAt, u) => WakesFor(d.requeueAt, u)'
    BY <1>0, <1>1, <2>6, NilAssumption DEF OthersMove, WakesFor
  <2> QED  BY <2>3, <2>4, <2>5, <2>7
<1>2. CASE Start \/ Decide \/ MutatorFails \/ (\E n \in Names : DeleteJob(n)) \/ CreateJob
           \/ UnsuspendJob \/ WriteRefused \/ WriteFails \/ WritesDone
  BY <1>2 DEF Start, Decide, MutatorFails, Decision, DeleteJob, CreateJob, UnsuspendJob,
              WriteRefused, WriteFails, WritesDone, GiveUp, Asleep
<1>3. CASE LoadFails
  BY <1>3 DEF LoadFails, Asleep
<1>4. CASE UpdateStatus \/ StatusLost
  <2>1. /\ UNCHANGED <<spec, view, backlog, clock>> /\ pc = "status" /\ ~queued
        /\ HandleResult
    <3>1. pc = "status" /\ HandleResult
      BY <1>4 DEF UpdateStatus, StatusLost
    <3>2. UNCHANGED <<spec, view, backlog, clock>>
      BY <3>1 DEF HandleResult
    <3>3. ~queued
      <4>1. ~queued'
        BY DEF Asleep
      <4>2. CASE UpdateStatus
        BY <4>1, <4>2, Zenon DEF UpdateStatus
      <4>3. CASE StatusLost
        BY <4>1, <4>3 DEF StatusLost
      <4> QED  BY <1>4, <4>2, <4>3
    <3> QED  BY <3>1, <3>2, <3>3
  <2>2. outcome # "transient"
    BY <2>1 DEF HandleResult, Asleep
  <2>3. PICK d \in DecisionsAt(now) :
           /\ outcome = "fatal" => d.fails
           /\ outcome = "ok" => ~d.fails /\ plan.requeueAt = d.requeueAt
           /\ outcome = "ok" /\ backlog = <<>> => Remains(d)
    BY <2>1 DEF WorkIsRemembered
  <2>4. now \in (FirstTime .. clock)' /\ now \in Int
    BY <1>0, <2>1 DEF WorkIsOrdered
  <2>5. PICK u : u = now
    OBVIOUS
  <2>6. d \in DecisionsAt(u)'
    BY <2>1, <2>3, <2>5 DEF DecisionsAt
  <2>7. CASE outcome = "fatal"
    BY <2>3, <2>4, <2>5, <2>6, <2>7 DEF Rests
  <2>8. CASE outcome = "ok"
    <3>1. Rests(d)'
      BY <2>1, <2>3, <2>8 DEF Asleep, Remains, Rests, WorkIsOrdered
    <3>2. plan.requeueAt = d.requeueAt /\ d.requeueAt \in Int \cup {Nil}
      BY <2>3, <2>8 DEF TypeOK, Plan
    <3>3. timer' = Rearmed
      BY <2>1 DEF HandleResult, Asleep
    <3>4. WakesFor(d.requeueAt, u)'
      BY <1>0, <2>1, <2>4, <2>5, <2>8, <3>2, <3>3, NilAssumption DEF Rearmed, Earlier, WakesFor
    <3> QED  BY <2>4, <2>5, <2>6, <3>1, <3>4
  <2> QED  BY <2>2, <2>7, <2>8 DEF TypeOK, Outcome
<1> QED  BY <1>1, <1>2, <1>3, <1>4, WakingForms DEF Asleep

\* Every step keeps the invariant.
LEMMA WakeStep == WakeInv /\ [Next]_vars => WakeInv'
BY StopInvStep, SleepsInPeaceStep, WorkIsRememberedStep, WorkIsOrderedStep DEF WakeInv, StopInv

(***************************************************************************)
(* The inductive invariant behind NothingForgotten holds: a Reconcile that *)
(* returns with nothing to retry, with no event under way and no key in    *)
(* the queue has carried out all of a decision that the cache still        *)
(* supports (reconcile.go:81-169).                                         *)
(***************************************************************************)
THEOREM WakeInvHolds == Spec => []WakeInv
BY WakeInit, WakeStep, PTL DEF Spec

\* Done says of the Jobs what a decision that rests says.
LEMMA RestIsDone ==
    ASSUME StopInv, backlog = <<>>, NEW u \in Int, NEW d \in DecisionsAt(u), Rests(d), ~d.fails
    PROVE  Done(buildState(spec, u))
<1> USE DEF StopInv
<1> DEFINE st == buildState(spec, u)
           s == StateFor(spec.events, u, spec.offset)
<1>1. /\ view = jobs /\ d = makeDecision(st, jobs, u, FALSE)
  BY CacheIsTrue DEF DecisionsAt
<1>2. /\ st.isSuspended = spec.suspend /\ st.lastStopTime = s.lastStopTime
  BY DEF buildState
<1>3. spec \in ControlledJobSpec
  BY SpecsAssumption DEF TypeOK
<1>4. /\ st.desiredHash \in Hashes
      /\ st.shouldBeRunning => st.startOfCurrentRunPeriod \in Int
  BY <1>3, buildStateType
<1>5. s.lastStopTime \in Int \cup {Nil}
  BY <1>3, StateForTypes DEF ControlledJobSpec
<1>6. jobs \in Lists(Names) /\ IsFiniteSet(Names) /\ OrdersNames(Names) /\ Nil \notin Names
  BY <1>1, ViewIsAList, NamesAssumption
<1>7. AllJobs(jobs) = {n \in Names : Exists(n)} /\ \A n \in AllJobs(jobs) : jobs[n] \in Job
  BY DEF AllJobs, Exists, TypeOK
<1> HIDE DEF st, s
<1>8. CASE spec.suspend
  <2>1. d.surplus = AllJobs(jobs)
    BY <1>1, <1>2, <1>8 DEF makeDecision, NoWork
  <2>2. \A n \in Names : ~Stays(n)
    BY <1>1, <1>7, <2>1 DEF Rests, Stays
  <2> QED  BY <1>8, <2>2 DEF Done
<1>9. CASE ~spec.suspend
  <2>1. /\ ~DecisionFails(st, jobs, u, FALSE)
        /\ d.expired = ExpiredToDelete(st, jobs) /\ d.surplus = SurplusToDelete(st, jobs)
        /\ d.create = JobToCreate(st, jobs) /\ d.unsuspend = JobToUnsuspend(st, jobs)
    BY <1>1, <1>2, <1>9 DEF makeDecision, NoWork
  <2>2. ExpiredToDelete(st, jobs) = {} /\ SurplusToDelete(st, jobs) = {}
    BY <1>1, <2>1 DEF Rests, ExpiredToDelete, SurplusToDelete
  <2>3. JobToCreate(st, jobs) = Nil /\ JobToUnsuspend(st, jobs) = Nil
    BY <2>1 DEF Rests
  <2>4. /\ \A n \in AllJobs(jobs) : ~jobs[n].deleting => ~IsExpired(st, jobs[n])
        /\ st.shouldBeRunning => AllJobs(jobs) # {}
        /\ \A n \in AllJobs(jobs) : ~jobs[n].deleting /\ ~jobs[n].completed =>
              /\ n = ExistingChoice(st, jobs)
              /\ jobs[n].manual \/ st.shouldBeRunning
              /\ jobs[n].suspended =>
                    \/ jobs[n].userStop
                    \/ \E m \in AllJobs(jobs) : ~jobs[m].completed /\ jobs[m].deleting
    BY <1>4, <1>6, <2>1, <2>2, <2>3, NothingMoreToDecide
  <2>5. ASSUME NEW n \in Names, Stays(n), st.lastStopTime # Nil
        PROVE  jobs[n].start >= st.lastStopTime
    <3>1. n \in AllJobs(jobs) /\ ~IsExpired(st, jobs[n])
      BY <1>7, <2>4, <2>5 DEF Stays
    <3>2. jobs[n].start \in Int \cup {Nil}
      BY <1>7, <3>1 DEF Job
    <3> QED  BY <1>2, <1>5, <2>5, <3>1, <3>2 DEF IsExpired
  <2>6. ASSUME NEW n \in Names, Stays(n), Live(n)
        PROVE  /\ n = ExistingChoice(st, jobs)
               /\ jobs[n].manual \/ st.shouldBeRunning
               /\ jobs[n].suspended =>
                     jobs[n].userStop \/ \E m \in Names : Live(m) /\ jobs[m].deleting
    BY <1>7, <2>4, <2>6 DEF Stays, Live
  <2>7. st.shouldBeRunning => \E n \in Names : Exists(n)
    BY <1>7, <2>4
  <2>8. Done(st)
    BY <1>9, <2>5, <2>6, <2>7 DEF Done
  <2> QED  BY <2>8 DEF st
<1> QED  BY <1>8, <1>9 DEF st

(***************************************************************************)
(* No wake-up is lost (NothingForgotten; reconcile.go:81-169): whatever    *)
(* users do, whichever calls fail and whenever the operator crashes, when  *)
(* it sleeps the Jobs are as the spec asks for at an instant that has      *)
(* passed, and its timer is armed for the next start or stop.              *)
(***************************************************************************)
THEOREM NothingIsForgotten == Spec => []NothingForgotten
<1>1. WakeInv => NothingForgotten
  <2> SUFFICES ASSUME WakeInv, Asleep, ~spec.mutate
               PROVE  \E u \in FirstTime .. clock : \E today \in {buildState(spec, u)} :
                         NoAnswer(today, u) \/ (Done(today) /\ WakesFor(today.nextEventTime, u))
    BY DEF NothingForgotten
  <2>1. PICK u \in FirstTime .. clock :
           \E d \in DecisionsAt(u) : Rests(d) /\ (~d.fails => WakesFor(d.requeueAt, u))
    BY DEF WakeInv, SleepsInPeace
  <2>2. PICK d \in DecisionsAt(u) : Rests(d) /\ (~d.fails => WakesFor(d.requeueAt, u))
    BY <2>1
  <2> DEFINE st == buildState(spec, u)
  <2>3. view = jobs /\ d = makeDecision(st, jobs, u, FALSE) /\ st.isSuspended = spec.suspend
    BY <2>2, CacheIsTrue DEF DecisionsAt, buildState, Asleep, WakeInv, StopInv
  <2>4. u \in Int
    BY TimeAssumption DEF WakeInv, StopInv, TypeOK
  <2>5. ~d.fails => Done(st)
    BY <2>2, <2>4, RestIsDone DEF WakeInv, Asleep
  <2> HIDE DEF st
  <2>6. CASE d.fails
    <3>1. NoAnswer(st, u)
      BY <2>3, <2>6 DEF makeDecision, NoWork, NoAnswer
    <3> QED  BY <3>1 DEF st
  <2>7. CASE ~d.fails
    <3>1. ~spec.suspend => d.requeueAt = st.nextEventTime
      BY <2>3, <2>7 DEF makeDecision, NoWork
    <3>2. WakesFor(st.nextEventTime, u)
      BY <2>2, <2>7, <3>1 DEF WakesFor
    <3> QED  BY <2>5, <2>7, <3>2 DEF st
  <2> QED  BY <2>6, <2>7
<1> QED  BY <1>1, WakeInvHolds, PTL
=============================================================================
