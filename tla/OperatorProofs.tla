---------------------------- MODULE OperatorProofs ----------------------------
(***************************************************************************)
(* Type correctness of the operator, the user's stop, and exclusivity, for *)
(* every set of names, specs and Jobs, and every bound.                    *)
(***************************************************************************)
EXTENDS OperatorProperties, DecisionProofs

(***************************************************************************)
(* Helpers.                                                                *)
(***************************************************************************)
LEMMA NoWorkIsAPlan == NoWork \in Plan
BY DEF NoWork, Plan

\* A write of a Job keeps the types of what it touches.
LEMMA WriteType ==
    ASSUME TypeOK, NEW n \in Names, NEW job \in Job \cup {Nil}, NEW own \in BOOLEAN,
           Write(n, job, own)
    PROVE  /\ jobs' \in [Names -> Job \cup {Nil}]
           /\ backlog' \in Seq(WatchEvent)
           /\ fresh' \subseteq Names
<1>1. [name |-> n, job |-> job, own |-> own] \in WatchEvent
  BY DEF WatchEvent
<1> QED  BY <1>1 DEF TypeOK, Write

\* A Job with other flags is a Job.
LEMMA ExistingJobs ==
    ASSUME TypeOK, NEW n \in Names, Exists(n)
    PROVE  /\ jobs[n] \in Job
           /\ \A b \in BOOLEAN : /\ [jobs[n] EXCEPT !.suspended = b] \in Job
                                 /\ [jobs[n] EXCEPT !.userStop = b] \in Job
                                 /\ [jobs[n] EXCEPT !.suspended = TRUE, !.userStop = b] \in Job
                                 /\ [jobs[n] EXCEPT !.deleting = b] \in Job
                                 /\ [jobs[n] EXCEPT !.completed = b] \in Job
<1>1. jobs[n] \in Job
  BY DEF TypeOK, Exists
<1> QED  BY <1>1 DEF Job

\* What Reconcile keeps of a decision is a plan.
LEMMA DecisionType ==
    ASSUME TypeOK, NEW buildFails \in BOOLEAN, Decision(buildFails)
    PROVE  /\ plan' = makeDecision(buildState(spec, now), view, now, buildFails)
           /\ plan' \in Plan
<1>1. now \in Int /\ spec \in ControlledJobSpec /\ view \in Lists(Names)
  BY SpecsAssumption DEF Decision, CanDecide, TypeOK, Lists
<1>2. OrdersNames(Names)
  BY NamesAssumption, NamesAreOrdered
<1>3. plan' = makeDecision(buildState(spec, now), view, now, buildFails)
  BY DEF Decision
<1>4. makeDecision(buildState(spec, now), view, now, buildFails) \in Plan
  BY <1>1, <1>2, NamesAssumption, makeDecisionType DEF Plan, NewJob
<1> QED  BY <1>3, <1>4

-----------------------------------------------------------------------------
(* Type correctness.                                                       *)

\* The initial state is type correct.
LEMMA InitType == Init => TypeOK
<1> SUFFICES ASSUME Init PROVE TypeOK
  OBVIOUS
<1>1. plan \in Plan
  BY NoWorkIsAPlan DEF Init
<1>2. backlog \in Seq(WatchEvent)
  BY DEF Init
<1> QED  BY <1>1, <1>2, TimeAssumption DEF Init, TypeOK, Outcome

\* Users keep the types.
LEMMA UserType == TypeOK /\ User => TypeOK'
<1> SUFFICES ASSUME TypeOK, User PROVE TypeOK'
  OBVIOUS
<1> USE DEF UserStep, cluster, object, cache, queue, recon
<1>1. CASE UserEditsSpec
  BY <1>1 DEF UserEditsSpec, TypeOK
<1>2. CASE UserCreatesJob
  <2>1. PICK u \in UserJobs : Write(u.name, u.job, FALSE)
    BY <1>2 DEF UserCreatesJob
  <2>2. u.name \in Names /\ u.job \in Job \cup {Nil}
    BY UserJobsAssumption
  <2>3. jobs' \in [Names -> Job \cup {Nil}] /\ backlog' \in Seq(WatchEvent) /\ fresh' \subseteq Names
    BY <2>1, <2>2, WriteType
  <2> QED  BY <1>2, <2>3 DEF UserCreatesJob, TypeOK
<1>3. CASE UserStopsJob
  <2>1. PICK n \in Names :
           /\ Exists(n)
           /\ Write(n, [jobs[n] EXCEPT !.suspended = TRUE, !.userStop = TRUE], FALSE)
    BY <1>3 DEF UserStopsJob
  <2>2. jobs' \in [Names -> Job \cup {Nil}] /\ backlog' \in Seq(WatchEvent) /\ fresh' \subseteq Names
    BY <2>1, ExistingJobs, WriteType
  <2> QED  BY <1>3, <2>2 DEF UserStopsJob, TypeOK
<1>4. CASE UserReleasesJob
  <2>1. PICK n \in Names :
           Exists(n) /\ Write(n, [jobs[n] EXCEPT !.userStop = FALSE], FALSE)
    BY <1>4 DEF UserReleasesJob
  <2>2. jobs' \in [Names -> Job \cup {Nil}] /\ backlog' \in Seq(WatchEvent) /\ fresh' \subseteq Names
    BY <2>1, ExistingJobs, WriteType
  <2> QED  BY <1>4, <2>2 DEF UserReleasesJob, TypeOK
<1>5. CASE UserDeletesJob
  <2>1. PICK n \in Names :
           /\ Exists(n)
           /\ \/ /\ Write(n, [jobs[n] EXCEPT !.deleting = TRUE], FALSE)
                 /\ UNCHANGED <<pods, orphans>>
              \/ /\ Write(n, Nil, FALSE)
                 /\ pods' = pods \ {n}
                 /\ orphans' = orphans \cup (pods \cap {n})
    BY <1>5 DEF UserDeletesJob
  <2>2. jobs' \in [Names -> Job \cup {Nil}] /\ backlog' \in Seq(WatchEvent) /\ fresh' \subseteq Names
    BY <2>1, ExistingJobs, WriteType
  <2>3. pods' \subseteq Names /\ orphans' \subseteq Names
    BY <2>1 DEF TypeOK
  <2> QED  BY <1>5, <2>2, <2>3 DEF UserDeletesJob, TypeOK
<1> QED  BY <1>1, <1>2, <1>3, <1>4, <1>5 DEF User

\* So do the job controller and the garbage collector.
LEMMA KubernetesType == TypeOK /\ Kubernetes => TypeOK'
<1> SUFFICES ASSUME TypeOK, NEW n \in Names,
                    StartPods(n) \/ StopPods(n) \/ FinishJob(n) \/ RemoveJob(n) \/ ReapOrphan(n)
             PROVE  TypeOK'
  BY DEF Kubernetes
<1> USE DEF cluster, object, cache, queue, recon, bounds
<1>1. CASE StartPods(n)
  BY <1>1 DEF StartPods, TypeOK
<1>2. CASE StopPods(n)
  BY <1>2 DEF StopPods, TypeOK
<1>3. CASE FinishJob(n)
  <2>1. jobs' \in [Names -> Job \cup {Nil}] /\ backlog' \in Seq(WatchEvent) /\ fresh' \subseteq Names
    BY <1>3, ExistingJobs, WriteType DEF FinishJob
  <2> QED  BY <1>3, <2>1 DEF FinishJob, TypeOK
<1>4. CASE RemoveJob(n)
  <2>1. jobs' \in [Names -> Job \cup {Nil}] /\ backlog' \in Seq(WatchEvent) /\ fresh' \subseteq Names
    BY <1>4, WriteType DEF RemoveJob
  <2> QED  BY <1>4, <2>1 DEF RemoveJob, TypeOK
<1>5. CASE ReapOrphan(n)
  BY <1>5 DEF ReapOrphan, TypeOK
<1> QED  BY <1>1, <1>2, <1>3, <1>4, <1>5

\* The local state of a Reconcile that has returned.
LEMMA ReturnTypes ==
    Return => /\ pc' \in {"idle", "load", "write", "status"}
              /\ now' \in (IF pc' = "idle" THEN {Nil} ELSE Int)
              /\ plan' \in Plan
              /\ fresh' \subseteq Names
              /\ outcome' \in Outcome
BY NoWorkIsAPlan DEF Return, Outcome

\* The count of faults stays a number.
LEMMA FaultTypes == TypeOK /\ Fault => edits' \in Nat /\ faults' \in Nat
BY DEF TypeOK, Fault

\* The clock, the watch, the queue and a restart keep the types.
LEMMA EnvironmentType ==
    TypeOK /\ (Tick \/ Deliver \/ TimerFires \/ BackoffEnds \/ Resync \/ Restart) => TypeOK'
<1> USE DEF cluster, object, cache, queue, recon, bounds
<1>1. TypeOK /\ Tick => TypeOK'
  BY DEF Tick, TypeOK
<1>2. TypeOK /\ Deliver => TypeOK'
  <2> SUFFICES ASSUME TypeOK, Deliver PROVE TypeOK'
    OBVIOUS
  <2>1. Head(backlog) \in WatchEvent /\ Tail(backlog) \in Seq(WatchEvent)
    BY DEF Deliver, TypeOK
  <2>2. Head(backlog).name \in Names /\ Head(backlog).job \in Job \cup {Nil}
    BY <2>1 DEF WatchEvent
  <2>3. view' \in [Names -> Job \cup {Nil}]
    BY <2>2 DEF Deliver, TypeOK
  <2> QED  BY <2>1, <2>3 DEF Deliver, TypeOK
<1>3. TypeOK /\ TimerFires => TypeOK'
  BY DEF TimerFires, TypeOK
<1>4. TypeOK /\ (BackoffEnds \/ Resync) => TypeOK'
  BY DEF BackoffEnds, Resync, TypeOK
<1>5. TypeOK /\ Restart => TypeOK'
  <2> SUFFICES ASSUME TypeOK, Restart PROVE TypeOK'
    OBVIOUS
  <2>1. backlog' \in Seq(WatchEvent)
    BY DEF Restart
  <2> QED  BY <2>1, ReturnTypes, FaultTypes DEF Restart, TypeOK
<1> QED  BY <1>1, <1>2, <1>3, <1>4, <1>5

\* A plan from which something is taken off is a plan.
LEMMA PlanShrinks ==
    ASSUME TypeOK
    PROVE  /\ \A n \in Names : Deleted(n) \in Plan
           /\ [plan EXCEPT !.create = Nil] \in Plan
           /\ [plan EXCEPT !.unsuspend = Nil] \in Plan
BY DEF TypeOK, Plan, Deleted

\* The start of a reconcile keeps the types.
LEMMA StartType == TypeOK /\ Start => TypeOK'
BY DEF Start, TypeOK, cluster, object, cache, bounds

\* So does a decision, also when the webhook fails.
LEMMA DecideType == TypeOK /\ (Decide \/ MutatorFails) => TypeOK'
<1> SUFFICES ASSUME TypeOK, NEW buildFails \in BOOLEAN, Decision(buildFails),
                    edits' \in Nat, faults' \in Nat
             PROVE  TypeOK'
  <2>1. TypeOK /\ UNCHANGED bounds => edits' \in Nat /\ faults' \in Nat
    BY DEF TypeOK, bounds
  <2> QED  BY <2>1, FaultTypes DEF Decide, MutatorFails
<1>1. plan' \in Plan
  BY DecisionType
<1>2. pc' \in {"write", "status"} /\ pc = "load" /\ now' = now /\ outcome' \in Outcome
  BY DEF Decision, CanDecide, Outcome
<1> QED  BY <1>1, <1>2 DEF Decision, TypeOK, cluster, object, cache, queue

\* So does a list that cannot be read.
LEMMA LoadFailsType == TypeOK /\ LoadFails => TypeOK'
BY ReturnTypes, FaultTypes DEF LoadFails, TypeOK, cluster, object, cache

\* So does each of the three writes.
LEMMA WritesType ==
    TypeOK /\ ((\E n \in Names : DeleteJob(n)) \/ CreateJob \/ UnsuspendJob) => TypeOK'
<1> USE DEF cluster, object, cache, queue, recon, bounds
<1>1. ASSUME TypeOK, NEW n \in Names, DeleteJob(n) PROVE TypeOK'
  <2>1. /\ jobs' \in [Names -> Job \cup {Nil}]
        /\ backlog' \in Seq(WatchEvent)
        /\ fresh' \subseteq Names
    <3>1. CASE Deletable(n) /\ Write(n, [jobs[n] EXCEPT !.deleting = TRUE], TRUE)
      BY <1>1, <3>1, ExistingJobs, WriteType DEF Deletable
    <3>2. CASE UNCHANGED <<jobs, backlog, fresh>>
      BY <1>1, <3>2 DEF TypeOK
    <3> QED  BY <1>1, <3>1, <3>2 DEF DeleteJob
  <2>2. plan' \in Plan
    BY <1>1, PlanShrinks DEF DeleteJob
  <2> QED  BY <1>1, <2>1, <2>2 DEF DeleteJob, TypeOK
<1>2. ASSUME TypeOK, CreateJob PROVE TypeOK'
  <2>1. plan.create.name \in Names /\ plan.create.job \in Job
    BY <1>2 DEF CreateJob, NameIsFree, TypeOK, Plan, NewJob
  <2>2. /\ jobs' \in [Names -> Job \cup {Nil}]
        /\ backlog' \in Seq(WatchEvent)
        /\ fresh' \subseteq Names
    BY <1>2, <2>1, WriteType DEF CreateJob
  <2>3. plan' \in Plan
    BY <1>2, PlanShrinks DEF CreateJob
  <2> QED  BY <1>2, <2>2, <2>3 DEF CreateJob, TypeOK
<1>3. ASSUME TypeOK, UnsuspendJob PROVE TypeOK'
  <2>1. plan.unsuspend \in Names /\ Exists(plan.unsuspend)
    BY <1>3 DEF UnsuspendJob, VersionIsCurrent, TypeOK
  <2>2. /\ jobs' \in [Names -> Job \cup {Nil}]
        /\ backlog' \in Seq(WatchEvent)
        /\ fresh' \subseteq Names
    BY <1>3, <2>1, ExistingJobs, WriteType DEF UnsuspendJob
  <2>3. plan' \in Plan
    BY <1>3, PlanShrinks DEF UnsuspendJob
  <2> QED  BY <1>3, <2>2, <2>3 DEF UnsuspendJob, TypeOK
<1> QED  BY <1>1, <1>2, <1>3

\* So does the end of the writes, early or in time.
LEMMA GivingUpType == TypeOK /\ (WriteRefused \/ WriteFails \/ WritesDone) => TypeOK'
BY NoWorkIsAPlan DEF WriteRefused, WriteFails, WritesDone, GiveUp, Fault, TypeOK, Outcome,
                     cluster, object, cache, queue, bounds

\* So does the end of a reconcile.
LEMMA ReturnType == TypeOK /\ (UpdateStatus \/ StatusLost) => TypeOK'
<1> SUFFICES ASSUME TypeOK, pc = "status", HandleResult,
                    UNCHANGED spec, queued' \in BOOLEAN, reported' \in Outcome,
                    edits' \in Nat, faults' \in Nat
             PROVE  TypeOK'
  <2>1. ASSUME TypeOK, UpdateStatus
        PROVE  edits' \in Nat /\ faults' \in Nat /\ queued' \in BOOLEAN /\ reported' \in Outcome
    BY <2>1 DEF UpdateStatus, TypeOK, bounds
  <2>2. ASSUME TypeOK, StatusLost
        PROVE  edits' \in Nat /\ faults' \in Nat /\ queued' \in BOOLEAN /\ reported' \in Outcome
    BY <2>2, FaultTypes DEF StatusLost, TypeOK
  <2> QED  BY <2>1, <2>2 DEF UpdateStatus, StatusLost, HandleResult
<1>1. now \in Int /\ clock \in Int /\ timer \in Int \cup {Nil} /\ plan.requeueAt \in Int \cup {Nil}
  BY DEF TypeOK, Plan
<1>2. timer' \in Int \cup {Nil}
  BY <1>1 DEF HandleResult, Rearmed, Earlier
<1> QED  BY <1>2, ReturnTypes DEF HandleResult, TypeOK, cluster, cache

(***************************************************************************)
(* Every variable keeps its type (TypeOK): no step of the operator, of the *)
(* users, of Kubernetes or of a failure computes a value of the wrong kind *)
(* or misses the Job it names.                                             *)
(***************************************************************************)
LEMMA TypeStep == TypeOK /\ [Next]_vars => TypeOK'
<1>1. TypeOK /\ UNCHANGED vars => TypeOK'
  BY DEF TypeOK, vars
<1> QED  BY <1>1, UserType, KubernetesType, EnvironmentType, StartType, DecideType,
            LoadFailsType, WritesType, GivingUpType, ReturnType DEF Next, Act

(***************************************************************************)
(* TypeOK holds in every reachable state: the operator never keeps the     *)
(* time of an earlier reconcile, and every name, Job and time it handles   *)
(* is one (Reconcile, controllers/controlledjob_controller.go:77-83).      *)
(***************************************************************************)
THEOREM TypeCorrect == Spec => []TypeOK
BY InitType, TypeStep, PTL DEF Spec

-----------------------------------------------------------------------------
(***************************************************************************)
(* The forms a step may take, as far as Jobs, pods, the cache and the plan *)
(* are concerned.                                                          *)
(***************************************************************************)
WriteStep(n, job, own) ==
    /\ Write(n, job, own)
    /\ view' = view
    /\ pods' \subseteq pods
    /\ n \in pods' => Alive(job)
    /\ \/ own /\ (CreateJob \/ UnsuspendJob)
       \/ Hot(n)' => Hot(n)

StartStep ==
    /\ UNCHANGED <<jobs, view, backlog>>
    /\ pods' \subseteq Names
    /\ \A n \in pods' \ pods : Exists(n) /\ ~jobs[n].completed /\ ~jobs[n].suspended

SomeWrite == \E n \in Names, job \in Job \cup {Nil}, own \in BOOLEAN : WriteStep(n, job, own)

\* A write that changes nothing of a Job but its deletion mark, the reason
\* of its suspension, or its suspend flag.
LEMMA TouchForm ==
    ASSUME TypeOK, PodsHaveJobs,
           NEW n \in Names, Exists(n), NEW job \in Job, NEW own \in BOOLEAN,
           Write(n, job, own), UNCHANGED <<view, pods>>,
           job.completed = jobs[n].completed,
           \/ own /\ UnsuspendJob
           \/ job.suspended
           \/ job.suspended = jobs[n].suspended
    PROVE  SomeWrite
<1>1. jobs'[n] = job
  BY DEF Write, TypeOK
<1>2. n \in pods => Alive(job)
  BY NilIsNoJob DEF PodsHaveJobs, Alive, IsJobPotentiallyRunning, IsJobCompleted
<1>3. (own /\ UnsuspendJob) \/ (Hot(n)' => Hot(n))
  BY <1>1 DEF Hot, Exists
<1>4. WriteStep(n, job, own)
  BY <1>2, <1>3 DEF WriteStep
<1> QED  BY <1>4 DEF SomeWrite

\* A Job is removed, or may not be running any more.
LEMMA CoolForm ==
    ASSUME TypeOK, NEW n \in Names, NEW job \in Job \cup {Nil}, NEW own \in BOOLEAN,
           Write(n, job, own), UNCHANGED view, pods' = pods \ {n},
           ~Alive(job) \/ job.suspended
    PROVE  SomeWrite
<1>1. jobs'[n] = job
  BY DEF Write, TypeOK
<1>2. ~Hot(n)'
  BY <1>1 DEF Hot, Exists, Alive, IsJobPotentiallyRunning, IsJobCompleted
<1>3. WriteStep(n, job, own)
  BY <1>2 DEF WriteStep
<1> QED  BY <1>3 DEF SomeWrite

\* What a user does to Jobs is one write, or nothing.
LEMMA UserForms ==
    ASSUME TypeOK, PodsHaveJobs, User
    PROVE  StartStep \/ SomeWrite
<1> USE DEF UserStep, cluster, object, cache, queue, recon
<1>1. CASE UserEditsSpec
  BY <1>1 DEF UserEditsSpec, StartStep, TypeOK
<1>2. CASE UserCreatesJob
  <2>1. PICK u \in UserJobs : ~Exists(u.name) /\ Write(u.name, u.job, FALSE)
    BY <1>2 DEF UserCreatesJob
  <2>2. u.name \in Names /\ u.job \in Job /\ u.job.suspended
    BY UserJobsAssumption, UserJobsAreSuspended
  <2>3. pods' = pods \ {u.name}
    BY <1>2, <2>1 DEF UserCreatesJob, PodsHaveJobs, Alive, Exists
  <2>4. view' = view
    BY <1>2 DEF UserCreatesJob
  <2> QED  BY <2>1, <2>2, <2>3, <2>4, CoolForm
<1>3. CASE UserStopsJob
  <2> DEFINE stopped(n) == [jobs[n] EXCEPT !.suspended = TRUE, !.userStop = TRUE]
  <2>1. PICK n \in Names : Exists(n) /\ Write(n, stopped(n), FALSE)
    BY <1>3 DEF UserStopsJob
  <2>2. jobs[n] \in Job /\ stopped(n) \in Job
    BY <2>1, ExistingJobs
  <2>3. stopped(n).completed = jobs[n].completed /\ stopped(n).suspended
    BY <2>2 DEF Job
  <2>4. UNCHANGED <<view, pods>>
    BY <1>3 DEF UserStopsJob
  <2> HIDE DEF stopped
  <2> QED  BY <2>1, <2>2, <2>3, <2>4, TouchForm
<1>4. CASE UserReleasesJob
  <2> DEFINE released(n) == [jobs[n] EXCEPT !.userStop = FALSE]
  <2>1. PICK n \in Names : Exists(n) /\ Write(n, released(n), FALSE)
    BY <1>4 DEF UserReleasesJob
  <2>2. jobs[n] \in Job /\ released(n) \in Job
    BY <2>1, ExistingJobs
  <2>3. released(n).completed = jobs[n].completed /\ released(n).suspended = jobs[n].suspended
    BY <2>2 DEF Job
  <2>4. UNCHANGED <<view, pods>>
    BY <1>4 DEF UserReleasesJob
  <2> HIDE DEF released
  <2> QED  BY <2>1, <2>2, <2>3, <2>4, TouchForm
<1>5. CASE UserDeletesJob
  <2> DEFINE deleted(n) == [jobs[n] EXCEPT !.deleting = TRUE]
  <2>1. PICK n \in Names :
           /\ Exists(n)
           /\ \/ /\ Write(n, deleted(n), FALSE)
                 /\ UNCHANGED <<pods, orphans>>
              \/ /\ Write(n, Nil, FALSE)
                 /\ pods' = pods \ {n}
                 /\ orphans' = orphans \cup (pods \cap {n})
    BY <1>5 DEF UserDeletesJob
  <2>2. view' = view
    BY <1>5 DEF UserDeletesJob
  <2>3. jobs[n] \in Job /\ deleted(n) \in Job
    BY <2>1, ExistingJobs
  <2>4. deleted(n).completed = jobs[n].completed /\ deleted(n).suspended = jobs[n].suspended
    BY <2>3 DEF Job
  <2> HIDE DEF deleted
  <2>5. CASE Write(n, deleted(n), FALSE) /\ pods' = pods
    BY <2>1, <2>2, <2>3, <2>4, <2>5, TouchForm
  <2>6. CASE Write(n, Nil, FALSE) /\ pods' = pods \ {n}
    BY <2>2, <2>6, CoolForm DEF Alive
  <2> QED  BY <2>1, <2>5, <2>6
<1> QED  BY <1>1, <1>2, <1>3, <1>4, <1>5 DEF User

\* What the job controller does is one write, or starts and stops pods.
LEMMA KubernetesForms ==
    ASSUME TypeOK, PodsHaveJobs, Kubernetes
    PROVE  StartStep \/ SomeWrite
<1> SUFFICES ASSUME NEW n \in Names,
                    StartPods(n) \/ StopPods(n) \/ FinishJob(n) \/ RemoveJob(n) \/ ReapOrphan(n)
             PROVE  StartStep \/ SomeWrite
  BY DEF Kubernetes
<1> USE DEF cluster, object, cache, queue, recon, bounds
<1>1. CASE StartPods(n)
  BY <1>1 DEF StartPods, StartStep, TypeOK
<1>2. CASE StopPods(n) \/ ReapOrphan(n)
  BY <1>2 DEF StopPods, ReapOrphan, StartStep, TypeOK
<1>3. CASE FinishJob(n)
  <2> DEFINE finished == [jobs[n] EXCEPT !.completed = TRUE]
  <2>1. Exists(n) /\ Write(n, finished, FALSE) /\ pods' = pods \ {n} /\ view' = view
    BY <1>3 DEF FinishJob
  <2>2. jobs[n] \in Job /\ finished \in Job
    BY <2>1, ExistingJobs
  <2>3. finished.completed
    BY <2>2 DEF Job
  <2> HIDE DEF finished
  <2> QED  BY <2>1, <2>2, <2>3, CoolForm DEF Alive, IsJobPotentiallyRunning, IsJobCompleted
<1>4. CASE RemoveJob(n)
  <2>1. Write(n, Nil, FALSE) /\ pods' = pods \ {n} /\ view' = view
    BY <1>4 DEF RemoveJob
  <2> QED  BY <2>1, CoolForm DEF Alive
<1> QED  BY <1>1, <1>2, <1>3, <1>4

\* What the operator does to Jobs is one write, or nothing.
LEMMA ReconcileWriteForms ==
    ASSUME TypeOK, PodsHaveJobs,
           (\E n \in Names : DeleteJob(n)) \/ CreateJob \/ UnsuspendJob
    PROVE  StartStep \/ SomeWrite
<1> USE DEF cluster, object, cache, queue, recon, bounds
<1>1. CASE \E n \in Names : DeleteJob(n)
  <2>1. PICK n \in Names : DeleteJob(n)
    BY <1>1
  <2> DEFINE deleted == [jobs[n] EXCEPT !.deleting = TRUE]
  <2>2. UNCHANGED <<view, pods>>
    BY <2>1 DEF DeleteJob
  <2>3. CASE Exists(n) /\ Write(n, deleted, TRUE)
    <3>1. jobs[n] \in Job /\ deleted \in Job
      BY <2>3, ExistingJobs
    <3>2. deleted.completed = jobs[n].completed /\ deleted.suspended = jobs[n].suspended
      BY <3>1 DEF Job
    <3> HIDE DEF deleted
    <3> QED  BY <2>2, <2>3, <3>1, <3>2, TouchForm
  <2>4. CASE UNCHANGED <<jobs, backlog, fresh>>
    BY <2>2, <2>4 DEF StartStep, TypeOK
  <2> QED  BY <2>1, <2>3, <2>4 DEF DeleteJob, Deletable
<1>2. CASE CreateJob
  <2> DEFINE n == plan.create.name
             job == plan.create.job
  <2>1. n \in Names /\ ~Exists(n) /\ Write(n, job, TRUE) /\ view' = view /\ pods' = pods
    BY <1>2 DEF CreateJob, NameIsFree
  <2>2. job \in Job
    BY <1>2 DEF CreateJob, TypeOK, Plan, NewJob
  <2>3. n \notin pods
    BY <2>1 DEF PodsHaveJobs, Alive, Exists
  <2> HIDE DEF n, job
  <2>4. WriteStep(n, job, TRUE)
    BY <1>2, <2>1, <2>3 DEF WriteStep
  <2> QED  BY <2>1, <2>2, <2>4 DEF SomeWrite
<1>3. CASE UnsuspendJob
  <2> DEFINE n == plan.unsuspend
             job == [jobs[n] EXCEPT !.suspended = FALSE]
  <2>1. n \in Names /\ Exists(n) /\ Write(n, job, TRUE) /\ UNCHANGED <<view, pods>>
    BY <1>3 DEF UnsuspendJob, VersionIsCurrent, TypeOK
  <2>2. jobs[n] \in Job /\ job \in Job
    BY <2>1, ExistingJobs
  <2>3. job.completed = jobs[n].completed
    BY <2>2 DEF Job
  <2> HIDE DEF n, job
  <2> QED  BY <1>3, <2>1, <2>2, <2>3, TouchForm
<1> QED  BY <1>1, <1>2, <1>3

\* Whatever happens, the Jobs and the cache change in one of four ways.
LEMMA StepForms ==
    ASSUME TypeOK, PodsHaveJobs, [Next]_vars
    PROVE  StartStep \/ SomeWrite \/ Deliver \/ Restart
<1> USE DEF cluster, object, cache, queue, recon, bounds
<1>1. CASE UNCHANGED vars
  BY <1>1 DEF vars, StartStep, TypeOK
<1>2. CASE Tick \/ TimerFires \/ BackoffEnds \/ Resync \/ Start \/ LoadFails
  BY <1>2 DEF Tick, TimerFires, BackoffEnds, Resync, Start, LoadFails, StartStep, TypeOK
<1>3. CASE Decide \/ MutatorFails
  BY <1>3 DEF Decide, MutatorFails, Decision, StartStep, TypeOK
<1>4. CASE WriteRefused \/ WriteFails \/ WritesDone
  BY <1>4 DEF WriteRefused, WriteFails, WritesDone, GiveUp, StartStep, TypeOK
<1>5. CASE UpdateStatus \/ StatusLost
  BY <1>5 DEF UpdateStatus, StatusLost, HandleResult, StartStep, TypeOK
<1> QED  BY <1>1, <1>2, <1>3, <1>4, <1>5, UserForms, KubernetesForms, ReconcileWriteForms
         DEF Next, Act

(***************************************************************************)
(* Nobody but the operator's own creations and releases heats a Job.       *)
(***************************************************************************)
LEMMA NobodyElseHeats ==
    ASSUME TypeOK, PodsHaveJobs, [Next]_vars, ~CreateJob, ~UnsuspendJob,
           NEW k \in Names, Hot(k)'
    PROVE  Hot(k)
<1>1. CASE StartStep
  BY <1>1 DEF StartStep, Hot, Exists
<1>2. CASE SomeWrite
  <2>1. PICK n \in Names, job \in Job \cup {Nil}, own \in BOOLEAN : WriteStep(n, job, own)
    BY <1>2 DEF SomeWrite
  <2>2. CASE k = n
    BY <2>1, <2>2 DEF WriteStep
  <2>3. CASE k # n
    <3>1. jobs'[k] = jobs[k] /\ pods' \subseteq pods
      BY <2>1, <2>3 DEF WriteStep, Write, TypeOK
    <3> QED  BY <3>1 DEF Hot, Exists
  <2> QED  BY <2>2, <2>3
<1>3. CASE Deliver \/ Restart
  <2>1. UNCHANGED <<jobs, pods>>
    BY <1>3 DEF Deliver, Restart, cluster
  <2> QED  BY <2>1 DEF Hot, Exists
<1> QED  BY <1>1, <1>2, <1>3, StepForms

(***************************************************************************)
(* Between two decisions the plan and the current versions only shrink.    *)
(***************************************************************************)
PlanShrinking ==
    /\ plan'.create \in {plan.create, Nil}
    /\ plan'.unsuspend \in {plan.unsuspend, Nil}
    /\ plan'.surplus \subseteq plan.surplus
    /\ fresh' \subseteq fresh

\* What is left of a decision shrinks, is dropped, or is a new decision.
LEMMA PlanForms ==
    ASSUME TypeOK, [Next]_vars
    PROVE  (\E b \in BOOLEAN : Decision(b)) \/ PlanShrinking
<1> USE DEF cluster, object, cache, queue, recon, bounds
<1> SUFFICES ASSUME \A b \in BOOLEAN : ~Decision(b) PROVE PlanShrinking
  OBVIOUS
<1>1. CASE UNCHANGED vars
  BY <1>1 DEF vars, PlanShrinking
<1>2. ASSUME UNCHANGED plan, fresh' \subseteq fresh PROVE PlanShrinking
  BY <1>2 DEF PlanShrinking
<1>3. ASSUME plan' = NoWork, fresh' \subseteq fresh PROVE PlanShrinking
  BY <1>3 DEF PlanShrinking, NoWork
<1>4. CASE User
  BY <1>2, <1>4 DEF User, UserEditsSpec, UserCreatesJob, UserStopsJob, UserReleasesJob,
                    UserDeletesJob, Write
<1>5. CASE Kubernetes
  BY <1>2, <1>5 DEF Kubernetes, StartPods, StopPods, FinishJob, RemoveJob, ReapOrphan, Write
<1>6. CASE Tick \/ Deliver \/ TimerFires \/ BackoffEnds \/ Resync \/ Start \/ WritesDone
  BY <1>2, <1>6 DEF Tick, Deliver, TimerFires, BackoffEnds, Resync, Start, WritesDone
<1>7. CASE LoadFails \/ UpdateStatus \/ StatusLost \/ Restart
  BY <1>3, <1>7 DEF LoadFails, UpdateStatus, StatusLost, HandleResult, Restart, Return
<1>8. CASE WriteRefused \/ WriteFails
  BY <1>3, <1>8 DEF WriteRefused, WriteFails, GiveUp
<1>9. CASE (\E n \in Names : DeleteJob(n)) \/ CreateJob \/ UnsuspendJob
  BY <1>9 DEF DeleteJob, Deleted, CreateJob, UnsuspendJob, Write, PlanShrinking, TypeOK, Plan
<1> QED  BY <1>1, <1>4, <1>5, <1>6, <1>7, <1>8, <1>9 DEF Next, Act, Decide, MutatorFails

\* A Job whose version stays current is not changed.
LEMMA CurrentVersionsStay ==
    ASSUME TypeOK, PodsHaveJobs, [Next]_vars, NEW k \in Names, k \in fresh'
    PROVE  jobs'[k] = jobs[k]
<1>1. CASE SomeWrite
  BY <1>1 DEF SomeWrite, WriteStep, Write, TypeOK
<1>2. CASE StartStep \/ Deliver \/ Restart
  BY <1>2 DEF StartStep, Deliver, Restart, cluster
<1> QED  BY <1>1, <1>2, StepForms

-----------------------------------------------------------------------------
(* The first half of the invariant, whatever the cache's delay.            *)

\* The initial state satisfies the invariant behind the user's stop.
LEMMA StopInvInit == Init => StopInv
<1> SUFFICES ASSUME Init PROVE StopInv
  OBVIOUS
<1>1. TypeOK
  BY InitType
<1>2. DOMAIN backlog = {}
  BY DEF Init
<1>3. PodsHaveJobs /\ CacheCatchesUp
  BY <1>2 DEF Init, PodsHaveJobs, CacheCatchesUp
<1>4. UnsuspendIsDue
  BY DEF Init, UnsuspendIsDue
<1> QED  BY <1>1, <1>3, <1>4 DEF StopInv

\* Pods belong to Jobs that may be running.
LEMMA PodsStep == TypeOK /\ PodsHaveJobs /\ [Next]_vars => PodsHaveJobs'
<1> SUFFICES ASSUME TypeOK, PodsHaveJobs, [Next]_vars, NEW k \in Names, k \in pods'
             PROVE  Alive(jobs'[k])
  BY TypeStep DEF PodsHaveJobs, TypeOK
<1>1. CASE StartStep
  BY <1>1 DEF StartStep, PodsHaveJobs, Alive, Exists, IsJobPotentiallyRunning, IsJobCompleted
<1>2. CASE SomeWrite
  <2>1. PICK n \in Names, job \in Job \cup {Nil}, own \in BOOLEAN : WriteStep(n, job, own)
    BY <1>2 DEF SomeWrite
  <2>2. pods' \subseteq pods /\ jobs' = [jobs EXCEPT ![n] = job]
    BY <2>1 DEF WriteStep, Write
  <2>3. CASE k = n
    BY <2>1, <2>2, <2>3 DEF WriteStep, TypeOK
  <2>4. CASE k # n
    BY <2>2, <2>4 DEF PodsHaveJobs, TypeOK
  <2> QED  BY <2>3, <2>4
<1>3. CASE Deliver \/ Restart
  BY <1>3 DEF Deliver, Restart, cluster, PodsHaveJobs
<1> QED  BY <1>1, <1>2, <1>3, StepForms

\* A write is the last event of its Job, and leaves the events before it.
LEMMA WriteEvents ==
    ASSUME TypeOK, NEW n \in Names, NEW job \in Job \cup {Nil}, NEW own \in BOOLEAN,
           Write(n, job, own)
    PROVE  /\ Len(backlog) \in Nat
           /\ DOMAIN backlog = 1 .. Len(backlog)
           /\ DOMAIN backlog' = 1 .. Len(backlog) + 1
           /\ \A i \in DOMAIN backlog : backlog'[i] = backlog[i]
           /\ backlog'[Len(backlog) + 1] = [name |-> n, job |-> job, own |-> own]
BY DEF Write, TypeOK

\* The watch events under way are watch events.
LEMMA EventTypes ==
    ASSUME TypeOK, NEW i \in DOMAIN backlog
    PROVE  /\ backlog[i] \in WatchEvent
           /\ backlog[i].name \in Names /\ backlog[i].job \in Job \cup {Nil}
<1>1. backlog \in Seq(WatchEvent)
  BY DEF TypeOK
<1>2. backlog[i] \in WatchEvent
  BY <1>1
<1> QED  BY <1>2 DEF WatchEvent

\* Delivery takes the oldest event off and shifts the others.
LEMMA DeliverEvents ==
    ASSUME TypeOK, Deliver
    PROVE  /\ Len(backlog) \in Nat \ {0}
           /\ DOMAIN backlog = 1 .. Len(backlog)
           /\ DOMAIN backlog' = 1 .. Len(backlog) - 1
           /\ \A i \in DOMAIN backlog' : backlog'[i] = backlog[i + 1]
           /\ backlog[1] \in WatchEvent
           /\ view' = [view EXCEPT ![backlog[1].name] = backlog[1].job]
<1>1. backlog \in Seq(WatchEvent) /\ backlog # <<>>
  BY DEF TypeOK, Deliver
<1>2. backlog' = Tail(backlog) /\ Head(backlog) = backlog[1]
  BY <1>1 DEF Deliver
<1>3. view' = [view EXCEPT ![backlog[1].name] = backlog[1].job]
  BY <1>2 DEF Deliver
<1> QED  BY <1>1, <1>2, <1>3

\* Every step leaves the watch on its way to the truth.
LEMMA CacheStep ==
    ASSUME TypeOK, PodsHaveJobs, CacheCatchesUp, [Next]_vars
    PROVE  CacheCatchesUp'
<1>1. CASE StartStep
  BY <1>1 DEF StartStep, CacheCatchesUp, Pending, IsLast
<1>2. CASE SomeWrite
  <2>1. PICK n \in Names, job \in Job \cup {Nil}, own \in BOOLEAN : WriteStep(n, job, own)
    BY <1>2 DEF SomeWrite
  <2>2. Write(n, job, own) /\ view' = view /\ jobs' = [jobs EXCEPT ![n] = job]
    BY <2>1 DEF WriteStep, Write
  <2> DEFINE L == Len(backlog)
  <2>3. /\ L \in Nat
        /\ DOMAIN backlog = 1 .. L
        /\ DOMAIN backlog' = 1 .. L + 1
        /\ \A i \in DOMAIN backlog : backlog'[i] = backlog[i]
        /\ backlog'[L + 1] = [name |-> n, job |-> job, own |-> own]
    BY <2>2, WriteEvents
  <2>4. \A i \in DOMAIN backlog : backlog[i].name \in Names
    BY EventTypes
  <2> HIDE DEF L
  <2>5. ASSUME NEW k \in Names, ~Pending(k)' PROVE view'[k] = jobs'[k]
    <3>1. k # n /\ ~Pending(k)
      BY <2>3, <2>5 DEF Pending
    <3> QED  BY <2>2, <3>1 DEF CacheCatchesUp, TypeOK
  <2>6. ASSUME NEW i \in DOMAIN backlog', IsLast(i)'
        PROVE  backlog'[i].job = jobs'[backlog'[i].name]
    <3>1. CASE i = L + 1
      BY <2>2, <2>3, <3>1 DEF TypeOK
    <3>2. CASE i # L + 1
      <4>1. i \in DOMAIN backlog /\ backlog'[i] = backlog[i] /\ backlog[i].name # n
        BY <2>3, <2>6, <3>2 DEF IsLast
      <4>2. IsLast(i)
        BY <2>3, <2>6, <4>1 DEF IsLast
      <4>3. jobs'[backlog[i].name] = jobs[backlog[i].name]
        BY <2>2, <2>4, <4>1 DEF TypeOK
      <4> QED  BY <4>1, <4>2, <4>3 DEF CacheCatchesUp
    <3> QED  BY <3>1, <3>2
  <2> QED  BY <2>5, <2>6 DEF CacheCatchesUp
<1>3. CASE Deliver
  <2> DEFINE L == Len(backlog)
  <2>1. /\ L \in Nat \ {0}
        /\ DOMAIN backlog = 1 .. L
        /\ DOMAIN backlog' = 1 .. L - 1
        /\ \A i \in DOMAIN backlog' : backlog'[i] = backlog[i + 1]
        /\ backlog[1] \in WatchEvent
        /\ view' = [view EXCEPT ![backlog[1].name] = backlog[1].job]
    BY <1>3, DeliverEvents
  <2>2. jobs' = jobs
    BY <1>3 DEF Deliver, cluster
  <2> HIDE DEF L
  <2>3. \A j \in DOMAIN backlog : j > 1 => j - 1 \in DOMAIN backlog' /\ backlog'[j - 1] = backlog[j]
    BY <2>1
  <2>4. ASSUME NEW k \in Names, ~Pending(k)' PROVE view'[k] = jobs'[k]
    <3>1. \A j \in DOMAIN backlog : j > 1 => backlog[j].name # k
      BY <2>3, <2>4 DEF Pending
    <3>2. CASE backlog[1].name = k
      <4>1. 1 \in DOMAIN backlog /\ IsLast(1)
        BY <2>1, <3>1, <3>2 DEF IsLast
      <4> QED  BY <2>1, <2>2, <3>2, <4>1 DEF CacheCatchesUp, TypeOK
    <3>3. CASE backlog[1].name # k
      <4>1. ~Pending(k)
        BY <2>1, <3>1, <3>3 DEF Pending
      <4>2. view'[k] = view[k]
        BY <2>1, <3>3 DEF TypeOK
      <4> QED  BY <2>2, <4>1, <4>2 DEF CacheCatchesUp
    <3> QED  BY <3>2, <3>3
  <2>5. ASSUME NEW i \in DOMAIN backlog', IsLast(i)'
        PROVE  backlog'[i].job = jobs'[backlog'[i].name]
    <3>1. i + 1 \in DOMAIN backlog /\ backlog'[i] = backlog[i + 1]
      BY <2>1
    <3>2. IsLast(i + 1)
      <4> SUFFICES ASSUME NEW j \in DOMAIN backlog, j > i + 1
                   PROVE  backlog[j].name # backlog[i + 1].name
        BY DEF IsLast
      <4>1. j - 1 \in DOMAIN backlog' /\ j - 1 > i /\ backlog'[j - 1] = backlog[j]
        BY <2>1, <2>3
      <4> QED  BY <2>5, <3>1, <4>1 DEF IsLast
    <3> QED  BY <2>2, <3>1, <3>2 DEF CacheCatchesUp
  <2> QED  BY <2>4, <2>5 DEF CacheCatchesUp
<1>4. CASE Restart
  <2>1. DOMAIN backlog' = {} /\ view' = jobs /\ jobs' = jobs
    BY <1>4 DEF Restart, cluster
  <2> QED  BY <2>1 DEF CacheCatchesUp
<1> QED  BY <1>1, <1>2, <1>3, <1>4, StepForms

\* A decision reads the cache; Jobs without events on their way are fresh.
LEMMA DecisionForm ==
    ASSUME TypeOK, NEW b \in BOOLEAN, Decision(b)
    PROVE  /\ \E st : /\ plan'.create \in {JobToCreate(st, view), Nil}
                      /\ plan'.unsuspend \in {JobToUnsuspend(st, view), Nil}
           /\ plan' \in Plan
           /\ fresh' = {n \in Names : ~Pending(n)}
           /\ UNCHANGED <<jobs, pods, view, backlog>>
<1>1. /\ plan' = makeDecision(buildState(spec, now), view, now, b)
      /\ plan' \in Plan
  BY DecisionType
<1> DEFINE st == buildState(spec, now)
<1> HIDE DEF st
<1>2. /\ plan'.create \in {JobToCreate(st, view), Nil}
      /\ plan'.unsuspend \in {JobToUnsuspend(st, view), Nil}
  BY <1>1 DEF makeDecision, NoWork, st
<1>3. fresh' = {n \in Names : ~Pending(n)} /\ UNCHANGED <<jobs, pods, view, backlog>>
  BY DEF Decision, cluster, cache
<1> QED  BY <1>1, <1>2, <1>3

\* The cache is a list the decision's theorems are about.
LEMMA ViewIsAList == TypeOK => view \in Lists(Names) /\ IsFiniteSet(Names) /\ OrdersNames(Names)
BY NamesAssumption, NamesAreOrdered DEF TypeOK, Lists

\* A version that is current still names the Job that was read.
LEMMA UnsuspendIsDueStep ==
    ASSUME StopInv, [Next]_vars
    PROVE  UnsuspendIsDue'
<1> USE DEF StopInv
<1> SUFFICES ASSUME plan'.unsuspend \in fresh'
             PROVE  /\ jobs'[plan'.unsuspend] # Nil
                    /\ jobs'[plan'.unsuspend].suspended
                    /\ ~WasJobStoppedByTheUser(jobs'[plan'.unsuspend])
  BY DEF UnsuspendIsDue, Exists
<1> DEFINE h == plan'.unsuspend
<1>1. h \in Names
  BY TypeStep DEF TypeOK
<1>2. ASSUME NEW b \in BOOLEAN, Decision(b)
      PROVE  jobs'[h] # Nil /\ jobs'[h].suspended /\ ~WasJobStoppedByTheUser(jobs'[h])
  <2>1. PICK st : h \in {JobToUnsuspend(st, view), Nil}
    BY <1>2, DecisionForm
  <2>2. h = JobToUnsuspend(st, view) /\ JobToUnsuspend(st, view) # Nil
    BY <1>1, <2>1, NamesAssumption
  <2> HIDE DEF h
  <2>3. view[h].suspended /\ ~WasJobStoppedByTheUser(view[h])
    BY <1>1, <2>2, UnsuspendedOnlyWhenAlone, ViewIsAList
  <2>4. view[h] # Nil
    BY <2>2, ChosenJobExists, ViewIsAList
  <2>5. ~Pending(h) /\ jobs' = jobs
    BY <1>2, DecisionForm DEF h
  <2>6. view[h] = jobs[h]
    BY <1>1, <2>5 DEF CacheCatchesUp
  <2> QED  BY <2>3, <2>4, <2>5, <2>6
<1>3. CASE PlanShrinking
  <2>1. h = plan.unsuspend /\ h \in fresh
    BY <1>1, <1>3, NamesAssumption DEF PlanShrinking
  <2>2. jobs'[h] = jobs[h]
    BY <1>1, CurrentVersionsStay
  <2>3. jobs[h] # Nil /\ jobs[h].suspended /\ ~WasJobStoppedByTheUser(jobs[h])
    BY <2>1 DEF UnsuspendIsDue, Exists
  <2> QED  BY <2>2, <2>3
<1> QED  BY <1>2, <1>3, PlanForms

\* Every step keeps the invariant behind the user's stop.
LEMMA StopInvStep == StopInv /\ [Next]_vars => StopInv'
BY TypeStep, PodsStep, CacheStep, UnsuspendIsDueStep DEF StopInv

(***************************************************************************)
(* The inductive invariant behind the user's stop holds: the watch is on   *)
(* its way to the truth, and an unsuspend that was decided and whose       *)
(* resource version is current is still due (reconcile.go:155-166).        *)
(***************************************************************************)
THEOREM StopInvHolds == Spec => []StopInv
BY StopInvInit, StopInvStep, PTL DEF Spec

(***************************************************************************)
(* A Job a user has stopped stays suspended until the user releases it,    *)
(* however long the cache lags behind the stop: a decision to unsuspend    *)
(* the Job carries a version that the stop has made obsolete               *)
(* (UnsuspendJob; StoppedJobStaysStopped).                                 *)
(***************************************************************************)
LEMMA StoppedStep ==
    ASSUME StopInv, [Next]_vars, ~UserReleasesJob,
           NEW n \in Names, Exists(n), WasJobStoppedByTheUser(jobs[n])
    PROVE  jobs'[n] = Nil \/ WasJobStoppedByTheUser(jobs'[n])
<1> USE DEF StopInv, cluster, object, cache, queue, recon, bounds
<1> DEFINE Goal == jobs'[n] = Nil \/ WasJobStoppedByTheUser(jobs'[n])
<1>1. jobs[n] \in Job
  BY ExistingJobs
<1>2. ASSUME jobs'[n] = jobs[n] PROVE Goal
  BY <1>2
<1>3. ASSUME NEW m \in Names, m # n, NEW job, NEW own, Write(m, job, own) PROVE Goal
  BY <1>2, <1>3 DEF Write, TypeOK
<1>4. ASSUME NEW job \in Job, NEW own, Write(n, job, own),
             job.suspended = jobs[n].suspended, job.userStop = jobs[n].userStop
      PROVE  Goal
  BY <1>4 DEF Write, TypeOK, WasJobStoppedByTheUser
<1>5. [jobs[n] EXCEPT !.deleting = TRUE] \in Job /\ [jobs[n] EXCEPT !.completed = TRUE] \in Job
  BY ExistingJobs
<1>6. CASE UserEditsSpec
  BY <1>2, <1>6 DEF UserEditsSpec
<1>7. CASE UserCreatesJob
  BY <1>3, <1>7, UserJobsAssumption DEF UserCreatesJob
<1>8. CASE UserStopsJob
  BY <1>3, <1>8 DEF UserStopsJob
<1>9. CASE UserDeletesJob
  <2>1. PICK m \in Names : Write(m, [jobs[m] EXCEPT !.deleting = TRUE], FALSE)
                              \/ Write(m, Nil, FALSE)
    BY <1>9 DEF UserDeletesJob
  <2>2. CASE m = n /\ Write(n, [jobs[n] EXCEPT !.deleting = TRUE], FALSE)
    BY <1>1, <1>4, <1>5, <2>2 DEF Job
  <2>3. CASE m = n /\ Write(n, Nil, FALSE)
    BY <2>3 DEF Write, TypeOK
  <2> QED  BY <1>3, <2>1, <2>2, <2>3
<1>10. CASE Kubernetes
  <2>1. PICK m \in Names :
           StartPods(m) \/ StopPods(m) \/ FinishJob(m) \/ RemoveJob(m) \/ ReapOrphan(m)
    BY <1>10 DEF Kubernetes
  <2>2. CASE StartPods(m) \/ StopPods(m) \/ ReapOrphan(m)
    BY <1>2, <2>2 DEF StartPods, StopPods, ReapOrphan
  <2>3. CASE FinishJob(m)
    <3>1. CASE m = n
      BY <1>1, <1>4, <1>5, <2>3, <3>1 DEF FinishJob, Job
    <3> QED  BY <1>3, <2>3, <3>1 DEF FinishJob
  <2>4. CASE RemoveJob(m)
    <3>1. CASE m = n
      BY <2>4, <3>1 DEF RemoveJob, Write, TypeOK
    <3> QED  BY <1>3, <2>4, <3>1 DEF RemoveJob
  <2> QED  BY <2>1, <2>2, <2>3, <2>4
<1>11. CASE \E m \in Names : DeleteJob(m)
  <2>1. PICK m \in Names : DeleteJob(m)
    BY <1>11
  <2>2. CASE m = n /\ Write(n, [jobs[n] EXCEPT !.deleting = TRUE], TRUE)
    BY <1>1, <1>4, <1>5, <2>2 DEF Job
  <2>3. CASE UNCHANGED jobs
    BY <1>2, <2>3
  <2> QED  BY <1>3, <2>1, <2>2, <2>3 DEF DeleteJob
<1>12. CASE CreateJob
  BY <1>3, <1>12 DEF CreateJob, NameIsFree
<1>13. CASE UnsuspendJob
  <2>1. plan.unsuspend \in fresh /\ plan.unsuspend \in Names /\ plan.unsuspend # n
    BY <1>13 DEF UnsuspendJob, VersionIsCurrent, UnsuspendIsDue, TypeOK
  <2> QED  BY <1>3, <1>13, <2>1 DEF UnsuspendJob
<1>14. CASE Tick \/ Deliver \/ TimerFires \/ BackoffEnds \/ Resync \/ Start \/ Decide \/ MutatorFails
            \/ LoadFails \/ WriteRefused \/ WriteFails \/ WritesDone
            \/ UpdateStatus \/ StatusLost \/ Restart \/ UNCHANGED vars
  BY <1>2, <1>14 DEF Tick, Deliver, TimerFires, BackoffEnds, Resync, Start, Decide, MutatorFails, Decision,
        LoadFails, WriteRefused, WriteFails, GiveUp, WritesDone, UpdateStatus, StatusLost,
        HandleResult, Restart, vars
<1> QED  BY <1>6, <1>7, <1>8, <1>9, <1>10, <1>11, <1>12, <1>13, <1>14 DEF Next, User, Act

(***************************************************************************)
(* The user's stop is never undone by the operator, in any state an        *)
(* unsuspend may race it in (UnsuspendJob, reconcile.go:155-166).          *)
(***************************************************************************)
THEOREM StoppedStaysStopped == Spec => StoppedJobStaysStopped
<1>1. StopInv /\ [Next]_vars =>
         [ \A n \in Names :
             Exists(n) /\ WasJobStoppedByTheUser(jobs[n]) /\ ~UserReleasesJob
             => jobs'[n] = Nil \/ WasJobStoppedByTheUser(jobs'[n]) ]_vars
  BY StoppedStep
<1> QED  BY <1>1, StopInvHolds, PTL DEF Spec, StoppedJobStaysStopped

-----------------------------------------------------------------------------
(* Exclusivity, for a cache that keeps up with the operator's writes.      *)

\* Initially no Job may run and nothing is decided.
LEMMA ExclusiveInvInit == Init => ExclusiveInv
<1> SUFFICES ASSUME Init PROVE ExclusiveInv
  OBVIOUS
<1>1. \A n \in Names : ~Hot(n)
  BY DEF Init, Hot, Exists
<1>2. PlanIsSafe
  BY DEF Init, PlanIsSafe, NoWork
<1> QED  BY <1>1, <1>2, StopInvInit DEF ExclusiveInv, HotIsVisible, ExclusiveJobs

\* A Job that may be running exists and has not completed.
LEMMA HotIsAlive == PodsHaveJobs => \A n \in Names : Hot(n) => Alive(jobs[n])
BY DEF PodsHaveJobs, Hot, Alive, Exists, IsJobPotentiallyRunning, IsJobCompleted

\* Every step leaves running Jobs visible, or the news of them on its way.
LEMMA HotIsVisibleStep ==
    ASSUME StopInv, HotIsVisible, [Next]_vars
    PROVE  HotIsVisible'
<1> USE DEF StopInv
<1> SUFFICES ASSUME NEW k \in Names, Hot(k)'
             PROVE  /\ Alive(view'[k]) \/ \E i \in DOMAIN backlog' : OwnNews(k, i)'
                    /\ \A i \in DOMAIN backlog' :
                          backlog'[i].name = k /\ ~Alive(backlog'[i].job)
                          => \E j \in DOMAIN backlog' : j > i /\ OwnNews(k, j)'
  BY DEF HotIsVisible, Alive, OwnNews
<1>1. Alive(jobs'[k])
  BY PodsStep, HotIsAlive DEF PodsHaveJobs, Hot, Alive, Exists, IsJobPotentiallyRunning, IsJobCompleted
<1>2. CASE StartStep
  <2>1. Hot(k)
    BY <1>2 DEF StartStep, Hot, Exists
  <2> QED  BY <1>2, <2>1 DEF StartStep, HotIsVisible, OwnNews
<1>3. CASE SomeWrite
  <2>1. PICK n \in Names, job \in Job \cup {Nil}, own \in BOOLEAN : WriteStep(n, job, own)
    BY <1>3 DEF SomeWrite
  <2>2. /\ Write(n, job, own) /\ view' = view /\ jobs' = [jobs EXCEPT ![n] = job]
        /\ pods' \subseteq pods
    BY <2>1 DEF WriteStep, Write
  <2>3. PICK L \in Nat :
        /\ DOMAIN backlog = 1 .. L
        /\ DOMAIN backlog' = 1 .. L + 1
        /\ \A i \in DOMAIN backlog : backlog'[i] = backlog[i]
        /\ backlog'[L + 1] = [name |-> n, job |-> job, own |-> own]
    BY <2>2, WriteEvents
  <2>4. \A i \in DOMAIN backlog : OwnNews(k, i) => i \in DOMAIN backlog' /\ OwnNews(k, i)'
    BY <2>3 DEF OwnNews
  <2>5. CASE k = n /\ own
    <3>1. L + 1 \in DOMAIN backlog' /\ OwnNews(k, L + 1)'
      BY <1>1, <2>2, <2>3, <2>5 DEF OwnNews, TypeOK
    <3>2. \A i \in DOMAIN backlog' : i = L + 1 \/ L + 1 > i
      BY <2>3
    <3>3. Alive(backlog'[L + 1].job)
      BY <3>1 DEF OwnNews
    <3> QED  BY <3>1, <3>2, <3>3
  <2>6. CASE ~(k = n /\ own)
    <3>1. Hot(k)
      <4>1. CASE k = n
        BY <2>1, <2>6, <4>1 DEF WriteStep
      <4>2. CASE k # n
        BY <2>2, <4>2 DEF Hot, Exists, TypeOK
      <4> QED  BY <4>1, <4>2
    <3>2. Alive(view'[k]) \/ \E i \in DOMAIN backlog' : OwnNews(k, i)'
      BY <2>2, <2>4, <3>1 DEF HotIsVisible
    <3>3. ASSUME NEW i \in DOMAIN backlog', backlog'[i].name = k, ~Alive(backlog'[i].job)
          PROVE  \E j \in DOMAIN backlog' : j > i /\ OwnNews(k, j)'
      <4>1. CASE i = L + 1
        BY <1>1, <2>2, <2>3, <3>3, <4>1 DEF TypeOK
      <4>2. CASE i # L + 1
        <5>1. i \in DOMAIN backlog /\ backlog'[i] = backlog[i]
          BY <2>3, <4>2
        <5>2. PICK j \in DOMAIN backlog : j > i /\ OwnNews(k, j)
          BY <3>1, <3>3, <5>1 DEF HotIsVisible
        <5> QED  BY <2>4, <5>2
      <4> QED  BY <4>1, <4>2
    <3> QED  BY <3>2, <3>3
  <2> QED  BY <2>5, <2>6
<1>4. CASE Deliver
  <2>1. Hot(k)
    BY <1>4 DEF Deliver, cluster, Hot, Exists
  <2> DEFINE L == Len(backlog)
  <2>2. /\ L \in Nat \ {0}
        /\ DOMAIN backlog = 1 .. L
        /\ DOMAIN backlog' = 1 .. L - 1
        /\ \A i \in DOMAIN backlog' : backlog'[i] = backlog[i + 1]
        /\ backlog[1] \in WatchEvent
        /\ view' = [view EXCEPT ![backlog[1].name] = backlog[1].job]
    BY <1>4, DeliverEvents
  <2> HIDE DEF L
  <2>3. \A j \in DOMAIN backlog :
           j > 1 /\ OwnNews(k, j) => j - 1 \in DOMAIN backlog' /\ OwnNews(k, j - 1)'
    BY <2>2 DEF OwnNews
  <2>4. \A j \in DOMAIN backlog : j = 1 \/ j > 1
    BY <2>2
  <2>5. Alive(view'[k]) \/ \E i \in DOMAIN backlog' : OwnNews(k, i)'
    <3>1. CASE backlog[1].name = k
      <4>1. view'[k] = backlog[1].job
        BY <2>2, <3>1 DEF TypeOK
      <4>2. CASE Alive(backlog[1].job)
        BY <4>1, <4>2
      <4>3. CASE ~Alive(backlog[1].job)
        <5>1. 1 \in DOMAIN backlog
          BY <2>2
        <5>2. PICK j \in DOMAIN backlog : j > 1 /\ OwnNews(k, j)
          BY <2>1, <3>1, <4>3, <5>1 DEF HotIsVisible
        <5> QED  BY <2>3, <5>2
      <4> QED  BY <4>2, <4>3
    <3>2. CASE backlog[1].name # k
      <4>1. view'[k] = view[k]
        BY <2>2, <3>2 DEF TypeOK
      <4>2. \A i \in DOMAIN backlog : OwnNews(k, i) => i > 1
        BY <2>4, <3>2 DEF OwnNews
      <4> QED  BY <2>1, <2>3, <4>1, <4>2 DEF HotIsVisible
    <3> QED  BY <3>1, <3>2
  <2>6. ASSUME NEW i \in DOMAIN backlog', backlog'[i].name = k, ~Alive(backlog'[i].job)
        PROVE  \E j \in DOMAIN backlog' : j > i /\ OwnNews(k, j)'
    <3>1. i + 1 \in DOMAIN backlog /\ backlog'[i] = backlog[i + 1]
      BY <2>2
    <3>2. PICK j \in DOMAIN backlog : j > i + 1 /\ OwnNews(k, j)
      BY <2>1, <2>6, <3>1 DEF HotIsVisible
    <3>3. j > 1 /\ j - 1 > i
      BY <2>2, <3>2
    <3> QED  BY <2>3, <3>2, <3>3
  <2> QED  BY <2>5, <2>6
<1>5. CASE Restart
  <2>1. DOMAIN backlog' = {} /\ view' = jobs /\ jobs' = jobs
    BY <1>5 DEF Restart, cluster
  <2> QED  BY <1>1, <2>1
<1> QED  BY <1>2, <1>3, <1>4, <1>5, StepForms

(***************************************************************************)
(* When the cache keeps up with the operator's writes, a decision sees     *)
(* every Job that has pods or may get some.                                *)
(***************************************************************************)
LEMMA DecisionSeesHotJobs ==
    ASSUME CacheKeepsUp, StopInv, HotIsVisible, NEW b \in BOOLEAN, Decision(b)
    PROVE  \A n \in Names : Hot(n) => n \in PotentiallyRunning(view)
<1>1. \A i \in DOMAIN backlog : ~backlog[i].own
  BY DEF Decision, CanDecide, OwnWritePending
<1>2. \A n \in Names : Hot(n) => Alive(view[n])
  BY <1>1 DEF HotIsVisible, OwnNews
<1>3. DOMAIN view = Names
  BY DEF StopInv, TypeOK
<1> QED  BY <1>2, <1>3 DEF PotentiallyRunning, AllJobs, Alive

\* A decision heats a Job only when no other Job is hot.
LEMMA DecisionIsSafe ==
    ASSUME CacheKeepsUp, StopInv, HotIsVisible, NEW b \in BOOLEAN, Decision(b)
    PROVE  PlanIsSafe'
<1>1. PICK st : /\ plan'.create \in {JobToCreate(st, view), Nil}
                /\ plan'.unsuspend \in {JobToUnsuspend(st, view), Nil}
  BY DecisionForm DEF StopInv
<1>2. /\ fresh' = {n \in Names : ~Pending(n)}
      /\ UNCHANGED <<jobs, pods, view, backlog>>
  BY DecisionForm DEF StopInv
<1>3. \A n \in Names : Hot(n)' => n \in PotentiallyRunning(view)
  BY <1>2, DecisionSeesHotJobs DEF Hot, Exists
<1>4. view \in Lists(Names) /\ IsFiniteSet(Names) /\ Nil \notin Names
  BY ViewIsAList, NamesAssumption DEF StopInv
<1>5. ASSUME plan'.create # Nil
      PROVE  /\ plan'.unsuspend = Nil
             /\ ~plan'.create.job.completed
             /\ ~plan'.create.job.suspended => \A n \in Names : ~Hot(n)'
  <2>1. plan'.create = JobToCreate(st, view) /\ JobToCreate(st, view) # Nil
    BY <1>1, <1>5
  <2> QED  BY <1>1, <1>3, <1>4, <2>1, CreatedHotOnlyWhenAlone
<1>6. ASSUME plan'.unsuspend \in fresh'
      PROVE  \/ jobs'[plan'.unsuspend].completed
             \/ \A n \in Names : Hot(n)' => n = plan'.unsuspend
  <2>1. plan'.unsuspend \in Names /\ ~Pending(plan'.unsuspend)
    BY <1>2, <1>6
  <2>2. plan'.unsuspend = JobToUnsuspend(st, view) /\ JobToUnsuspend(st, view) # Nil
    BY <1>1, <1>4, <2>1
  <2>3. plan'.unsuspend \in PotentiallyRunning(view)
           => PotentiallyRunning(view) = {plan'.unsuspend}
    BY <1>4, <2>1, <2>2, UnsuspendedOnlyWhenAlone
  <2>4. view[plan'.unsuspend] = jobs'[plan'.unsuspend]
    BY <1>2, <2>1 DEF StopInv, CacheCatchesUp
  <2>5. view[plan'.unsuspend] # Nil
    BY <1>4, <2>2, ChosenJobExists, ViewIsAList DEF StopInv
  <2>6. plan'.unsuspend \in PotentiallyRunning(view) \/ jobs'[plan'.unsuspend].completed
    BY <1>4, <2>1, <2>4, <2>5
       DEF PotentiallyRunning, AllJobs, IsJobPotentiallyRunning, IsJobCompleted, Lists
  <2> QED  BY <1>3, <2>3, <2>6
<1> QED  BY <1>5, <1>6 DEF PlanIsSafe

\* Nothing that happens between the decision and its writes heats another.
LEMMA PlanIsSafeStep ==
    ASSUME CacheKeepsUp, StopInv, HotIsVisible, PlanIsSafe, [Next]_vars
    PROVE  PlanIsSafe'
<1>1. CASE \E b \in BOOLEAN : Decision(b)
  BY <1>1, DecisionIsSafe
<1>2. CASE PlanShrinking
  <2>1. \A n \in Names : n \in fresh' => jobs'[n] = jobs[n]
    BY CurrentVersionsStay DEF StopInv
  <2>2. fresh' \subseteq Names /\ Nil \notin Names
    BY TypeStep, NamesAssumption DEF StopInv, TypeOK
  <2>3. CASE ~CreateJob /\ ~UnsuspendJob
    <3>1. \A n \in Names : Hot(n)' => Hot(n)
      BY <2>3, NobodyElseHeats DEF StopInv
    <3> QED  BY <1>2, <2>1, <2>2, <3>1 DEF PlanIsSafe, PlanShrinking
  <2>4. CASE CreateJob
    <3>1. plan'.create = Nil
      BY <2>4 DEF CreateJob, StopInv, TypeOK, Plan
    <3>2. plan'.unsuspend = Nil
      BY <1>2, <2>4 DEF CreateJob, PlanIsSafe, PlanShrinking
    <3> QED  BY <2>2, <3>1, <3>2 DEF PlanIsSafe
  <2>5. CASE UnsuspendJob
    <3>1. plan'.create = Nil /\ plan'.unsuspend = Nil
      BY <2>5 DEF UnsuspendJob, StopInv, TypeOK, Plan
    <3> QED  BY <2>2, <3>1 DEF PlanIsSafe
  <2> QED  BY <2>3, <2>4, <2>5
<1> QED  BY <1>1, <1>2, PlanForms DEF StopInv

\* No step makes a second Job hot.
LEMMA ExclusiveStep ==
    ASSUME StopInv, PlanIsSafe, ExclusiveJobs, [Next]_vars
    PROVE  ExclusiveJobs'
<1> USE DEF StopInv
<1>1. CASE ~CreateJob /\ ~UnsuspendJob
  BY <1>1, NobodyElseHeats DEF ExclusiveJobs
<1>2. CASE CreateJob
  <2>1. PICK c \in Names, job \in Job :
           /\ job = plan.create.job /\ plan.create # Nil
           /\ ~Exists(c)
           /\ jobs' = [jobs EXCEPT ![c] = job]
           /\ pods' = pods
    BY <1>2 DEF CreateJob, NameIsFree, Write, TypeOK, Plan, NewJob
  <2>2. c \notin pods /\ jobs'[c] = job
    BY <2>1 DEF PodsHaveJobs, Alive, Exists, TypeOK
  <2>3. \A n \in Names : n # c /\ Hot(n)' => Hot(n)
    BY <2>1 DEF Hot, Exists, TypeOK
  <2>4. CASE job.suspended
    <3>1. ~Hot(c)'
      BY <2>1, <2>2, <2>4 DEF Hot, Exists
    <3> QED  BY <2>3, <3>1 DEF ExclusiveJobs
  <2>5. CASE ~job.suspended
    BY <2>1, <2>3, <2>5 DEF PlanIsSafe, ExclusiveJobs
  <2> QED  BY <2>4, <2>5
<1>3. CASE UnsuspendJob
  <2>1. PICK h \in Names :
           /\ h = plan.unsuspend /\ h \in fresh /\ Exists(h)
           /\ jobs' = [jobs EXCEPT ![h] = [jobs[h] EXCEPT !.suspended = FALSE]]
           /\ pods' = pods
    BY <1>3 DEF UnsuspendJob, VersionIsCurrent, Write, TypeOK
  <2>2. \A n \in Names : n # h /\ Hot(n)' => Hot(n)
    BY <2>1 DEF Hot, Exists, TypeOK
  <2>3. CASE \A n \in Names : Hot(n) => n = h
    BY <2>2, <2>3 DEF ExclusiveJobs
  <2>4. CASE jobs[h].completed
    <3>1. jobs[h] \in Job
      BY <2>1, ExistingJobs
    <3>2. jobs'[h].completed
      BY <2>1, <2>4, <3>1 DEF TypeOK, Job
    <3>3. Hot(h)' => Hot(h)
      BY <2>1, <3>2 DEF Hot
    <3> QED  BY <2>2, <3>3 DEF ExclusiveJobs
  <2> QED  BY <2>1, <2>3, <2>4 DEF PlanIsSafe
<1> QED  BY <1>1, <1>2, <1>3

\* Every step keeps the invariant, if the cache keeps up.
LEMMA ExclusiveInvStep ==
    ASSUME CacheKeepsUp, ExclusiveInv, [Next]_vars
    PROVE  ExclusiveInv'
BY StopInvStep, HotIsVisibleStep, PlanIsSafeStep, ExclusiveStep DEF ExclusiveInv

(***************************************************************************)
(* The inductive invariant of exclusivity holds if the cache keeps up with *)
(* the operator's own writes: what the cache hides is on its way, and the  *)
(* writes that are left of a decision are safe (decision.go:306-317,       *)
(* reconcile.go:117-166).                                                  *)
(***************************************************************************)
THEOREM ExclusiveInvHolds ==
    ASSUME CacheKeepsUp
    PROVE  Spec => []ExclusiveInv
<1>1. ExclusiveInv /\ [Next]_vars => ExclusiveInv'
  BY ExclusiveInvStep
<1> QED  BY <1>1, ExclusiveInvInit, PTL DEF Spec

(***************************************************************************)
(* The guarantee of exclusive running (README.md, "Exclusive running";     *)
(* decision.go:306-317; ExclusiveJobs): if every reconcile starts with a   *)
(* cache that shows the operator's own writes, no two Jobs of the          *)
(* ControlledJob ever have pods or may be given some, whatever users,      *)
(* failures, restarts and the rest of the watch do.                        *)
(***************************************************************************)
THEOREM ExclusiveRunning ==
    ASSUME CacheKeepsUp
    PROVE  Spec => []ExclusiveJobs
<1>1. ExclusiveInv => ExclusiveJobs
  BY DEF ExclusiveInv
<1> QED  BY <1>1, ExclusiveInvHolds, PTL
=============================================================================
