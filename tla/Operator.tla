------------------------------ MODULE Operator ------------------------------
(***************************************************************************)
(* The operator at work on one ControlledJob: the controller's work queue, *)
(* the informer cache it reads, the Reconcile function with one step for   *)
(* each call it makes to the API server, and around it the users, the      *)
(* Kubernetes job controller, failing calls and crashes of the operator.   *)
(***************************************************************************)
EXTENDS Decision

CONSTANTS
    Names,          \* the names Jobs may have; the API server refuses others (bound)
    Specs,          \* the ControlledJob specs a user may apply
    UserJobs,       \* the Jobs a user may create: records with a name and a job
    Propagations,   \* how a user deletes a Job: Foreground, Background
    CacheKeepsUp,   \* no reconcile starts before the cache shows the
                    \* operator's own writes (an assumption on the cluster)
    FirstTime,      \* the time at which the ControlledJob is created
    MaxTime,        \* bound on the clock
    MaxEdits,       \* bound on the users' actions
    MaxFaults,      \* bound on failing calls and crashes
    MaxBacklog      \* bound on watch events under way

ASSUME NamesAssumption == IsFiniteSet(Names) /\ Names \subseteq Int \X Nat /\ Nil \notin Names
ASSUME SpecsAssumption == Specs \subseteq ControlledJobSpec
ASSUME UserJobsAssumption == UserJobs \subseteq [name : Names, job : Job]
\* The generate-job command builds and names a Job as the operator does.
ASSUME UserJobsAreNamed == \A u \in UserJobs : u.name = JobName(u.job.start, u.job.runId)
ASSUME OptionsAssumption ==
    /\ Propagations \subseteq {"Foreground", "Background"}
    /\ CacheKeepsUp \in BOOLEAN
ASSUME TimeAssumption == FirstTime \in Int /\ MaxTime \in Int
ASSUME BoundsAssumption == MaxEdits \in Nat /\ MaxFaults \in Nat /\ MaxBacklog \in Nat

(***************************************************************************)
(* Users create Jobs as the manual says: with the generate-job command,    *)
(* suspended, and leave it to the operator to unsuspend them.              *)
(***************************************************************************)
ASSUME UserJobsAreSuspended ==
    \A u \in UserJobs : u.job.suspended /\ ~u.job.completed /\ ~u.job.deleting

VARIABLES
    jobs,      \* API server: the Jobs of the ControlledJob, by name
    pods,      \* the Jobs that have pods
    orphans,   \* the names of removed Jobs whose pods have not ended yet
    spec,      \* the ControlledJob as the operator's cache has it
    view,      \* informer cache: the Jobs as the operator sees them
    backlog,   \* watch events on their way from the API server to the cache
    clock,
    queued,    \* the key of the ControlledJob is in the work queue
    timer,     \* when a RequeueAfter puts it there, Nil if none will
    backoff,   \* it waits there for the rate limiter's delay after an error
    pc,        \* where Reconcile is; the next four are its local state
    now,       \* its idea of the time
    plan,      \* what is left to do of its decision
    fresh,     \* Jobs not written since Reconcile read them: a write that
               \* carries their resource version is accepted
    outcome,   \* ok, transient or fatal: the error Reconcile returns
    reported,  \* the outcome the ControlledJob's stored status tells of
    edits, faults

cluster == <<jobs, pods, orphans>>
object  == <<spec, reported>>
cache   == <<view, backlog>>
queue   == <<queued, timer, backoff>>
recon   == <<pc, now, plan, outcome>>
bounds  == <<edits, faults>>
vars == <<jobs, pods, orphans, spec, view, backlog, clock, queued, timer, backoff,
          pc, now, plan, fresh, outcome, reported, edits, faults>>

Outcome == {"ok", "transient", "fatal"}

WatchEvent == [name : Names, job : Job \cup {Nil}, own : BOOLEAN]

Plan == [expired : SUBSET Names, surplus : SUBSET Names, create : NewJob \cup {Nil},
         unsuspend : Names \cup {Nil}, requeueAt : Int \cup {Nil}, fails : BOOLEAN]

TypeOK ==
    /\ jobs \in [Names -> Job \cup {Nil}]
    /\ pods \subseteq Names
    /\ orphans \subseteq Names
    /\ spec \in Specs
    /\ view \in [Names -> Job \cup {Nil}]
    /\ backlog \in Seq(WatchEvent)
    /\ clock \in Int
    /\ queued \in BOOLEAN
    /\ timer \in Int \cup {Nil}
    /\ backoff \in BOOLEAN
    /\ pc \in {"idle", "load", "write", "status"}
    /\ now \in (IF pc = "idle" THEN {Nil} ELSE Int)
    /\ plan \in Plan
    /\ fresh \subseteq Names
    /\ outcome \in Outcome
    /\ reported \in Outcome
    /\ edits \in Nat
    /\ faults \in Nat

Init ==
    /\ jobs = [n \in Names |-> Nil]
    /\ pods = {}
    /\ orphans = {}
    /\ spec \in Specs
    /\ view = [n \in Names |-> Nil]
    /\ backlog = <<>>
    /\ clock = FirstTime
    /\ queued = TRUE
    /\ timer = Nil
    /\ backoff = FALSE
    /\ pc = "idle"
    /\ now = Nil
    /\ plan = NoWork
    /\ fresh = {}
    /\ outcome = "ok"
    /\ reported = "ok"
    /\ edits = 0
    /\ faults = 0

-----------------------------------------------------------------------------
(***************************************************************************)
(* A write of Job n: the API server stores it, sends it to the watchers    *)
(* and gives it a new resource version.                                    *)
(***************************************************************************)
Write(n, job, own) ==
    /\ Len(backlog) < MaxBacklog
    /\ jobs' = [jobs EXCEPT ![n] = job]
    /\ backlog' = Append(backlog, [name |-> n, job |-> job, own |-> own])
    /\ fresh' = fresh \ {n}

Pending(n) == \E i \in DOMAIN backlog : backlog[i].name = n

Exists(n) == jobs[n] # Nil

(***************************************************************************)
(* Job n has pods, or may be given pods by the job controller at any time. *)
(***************************************************************************)
Hot(n) == \/ n \in pods
          \/ Exists(n) /\ ~jobs[n].completed /\ ~jobs[n].suspended

-----------------------------------------------------------------------------
(* Users.                                                                  *)

UserStep == edits < MaxEdits /\ edits' = edits + 1 /\ UNCHANGED faults

(***************************************************************************)
(* A new spec: suspend flag, template, policy or schedule.  Nothing but    *)
(* the operator reads it, so it changes when the cache has received it.    *)
(***************************************************************************)
UserEditsSpec ==
    /\ UserStep
    /\ spec' \in Specs \ {spec}
    /\ queued' = TRUE
    /\ UNCHANGED <<reported, cluster, cache, clock, timer, backoff, recon, fresh>>

\* cli generate-job, piped into kubectl create.
UserCreatesJob ==
    /\ UserStep
    /\ \E u \in UserJobs :
          /\ ~Exists(u.name)
          /\ Write(u.name, u.job, FALSE)
    /\ UNCHANGED <<pods, orphans, object, view, clock, queue, recon>>

\* Suspend the Job and annotate it, so that the operator leaves it stopped.
UserStopsJob ==
    /\ UserStep
    /\ \E n \in Names :
          /\ Exists(n)
          /\ ~WasJobStoppedByTheUser(jobs[n])
          /\ Write(n, [jobs[n] EXCEPT !.suspended = TRUE, !.userStop = TRUE], FALSE)
    /\ UNCHANGED <<pods, orphans, object, view, clock, queue, recon>>

\* Take the annotation off again and let the operator unsuspend the Job.
UserReleasesJob ==
    /\ UserStep
    /\ \E n \in Names :
          /\ Exists(n)
          /\ WasJobStoppedByTheUser(jobs[n])
          /\ Write(n, [jobs[n] EXCEPT !.userStop = FALSE], FALSE)
    /\ UNCHANGED <<pods, orphans, object, view, clock, queue, recon>>

\* Background deletion removes the Job at once and its pods later.
UserDeletesJob ==
    /\ UserStep
    /\ \E n \in Names :
          /\ Exists(n)
          /\ ~jobs[n].deleting
          /\ \/ /\ "Foreground" \in Propagations
                /\ Write(n, [jobs[n] EXCEPT !.deleting = TRUE], FALSE)
                /\ UNCHANGED <<pods, orphans>>
             \/ /\ "Background" \in Propagations
                /\ Write(n, Nil, FALSE)
                /\ pods' = pods \ {n}
                /\ orphans' = orphans \cup (pods \cap {n})
    /\ UNCHANGED <<object, view, clock, queue, recon>>

User == UserEditsSpec \/ UserCreatesJob \/ UserStopsJob \/ UserReleasesJob \/ UserDeletesJob

-----------------------------------------------------------------------------
(* The Kubernetes job controller and garbage collector.                    *)

StartPods(n) ==
    /\ Exists(n) /\ n \notin pods
    /\ ~jobs[n].suspended /\ ~jobs[n].completed /\ ~jobs[n].deleting
    /\ pods' = pods \cup {n}
    /\ UNCHANGED <<jobs, orphans, object, cache, clock, queue, recon, fresh, bounds>>

StopPods(n) ==
    /\ n \in pods
    /\ jobs[n].suspended \/ jobs[n].deleting
    /\ pods' = pods \ {n}
    /\ UNCHANGED <<jobs, orphans, object, cache, clock, queue, recon, fresh, bounds>>

\* The pods end by themselves: the Job gets a Complete or Failed condition.
FinishJob(n) ==
    /\ Exists(n) /\ n \in pods
    /\ ~jobs[n].deleting
    /\ pods' = pods \ {n}
    /\ Write(n, [jobs[n] EXCEPT !.completed = TRUE], FALSE)
    /\ UNCHANGED <<orphans, object, view, clock, queue, recon, bounds>>

\* Foreground deletion removes the Job once its pods are gone.
RemoveJob(n) ==
    /\ Exists(n) /\ n \notin pods
    /\ jobs[n].deleting
    /\ Write(n, Nil, FALSE)
    /\ UNCHANGED <<pods, orphans, object, view, clock, queue, recon, bounds>>

ReapOrphan(n) ==
    /\ n \in orphans
    /\ orphans' = orphans \ {n}
    /\ UNCHANGED <<jobs, pods, object, cache, clock, queue, recon, fresh, bounds>>

Kubernetes == \E n \in Names : StartPods(n) \/ StopPods(n) \/ FinishJob(n)
                               \/ RemoveJob(n) \/ ReapOrphan(n)

-----------------------------------------------------------------------------
(* Time, the watch and the work queue.                                     *)

Tick ==
    /\ clock < MaxTime
    /\ clock' = clock + 1
    /\ UNCHANGED <<cluster, object, cache, queue, recon, fresh, bounds>>

\* The informer applies the oldest event and maps the Job to its owner.
Deliver ==
    /\ backlog # <<>>
    /\ view' = [view EXCEPT ![Head(backlog).name] = Head(backlog).job]
    /\ backlog' = Tail(backlog)
    /\ queued' = TRUE
    /\ UNCHANGED <<cluster, object, clock, timer, backoff, recon, fresh, bounds>>

\* The last tick stands for all the time that follows it: every timer runs out.
TimerFires ==
    /\ timer # Nil
    /\ clock >= timer \/ clock = MaxTime
    /\ timer' = Nil
    /\ queued' = TRUE
    /\ UNCHANGED <<cluster, object, cache, clock, backoff, recon, fresh, bounds>>

BackoffEnds ==
    /\ backoff
    /\ backoff' = FALSE
    /\ queued' = TRUE
    /\ UNCHANGED <<cluster, object, cache, clock, timer, recon, fresh, bounds>>

(***************************************************************************)
(* Every ten hours or so the informers hand out all they hold once more.   *)
(* No run period can wait for that, and no property relies on it.          *)
(***************************************************************************)
Resync ==
    /\ ~queued
    /\ queued' = TRUE
    /\ UNCHANGED <<cluster, object, cache, clock, timer, backoff, recon, fresh, bounds>>

-----------------------------------------------------------------------------
(* Reconcile.                                                              *)

\* Mutant of Return: the time of the last reconcile is kept.
ReturnKeepingTime ==
    /\ pc' = "idle"
    /\ UNCHANGED now
    /\ plan' = NoWork
    /\ fresh' = {}
    /\ outcome' = "ok"

Return ==
    /\ pc' = "idle"
    /\ now' = Nil
    /\ plan' = NoWork
    /\ fresh' = {}
    /\ outcome' = "ok"

Fault == faults < MaxFaults /\ faults' = faults + 1 /\ UNCHANGED edits

\* ControlledJobReconciler.Reconcile reads the clock first.
Start ==
    /\ pc = "idle"
    /\ queued
    /\ queued' = FALSE
    /\ now' = clock
    /\ pc' = "load"
    /\ UNCHANGED <<cluster, object, cache, clock, timer, backoff, plan, fresh, outcome, bounds>>

(***************************************************************************)
(* loadFromCluster reads the ControlledJob and its Jobs from the cache,    *)
(* makeDecision decides.  A decision that fails writes nothing but the     *)
(* status.                                                                 *)
(***************************************************************************)
OwnWritePending == \E i \in DOMAIN backlog : backlog[i].own

CanDecide == pc = "load" /\ (CacheKeepsUp => ~OwnWritePending)

Decision(buildFails) ==
    /\ CanDecide
    /\ \E st \in {buildState(spec, now)} : plan' = makeDecision(st, view, now, buildFails)
    /\ fresh' = {n \in Names : ~Pending(n)}
    /\ outcome' = IF plan'.fails THEN "fatal" ELSE "ok"
    /\ pc' = IF plan'.fails THEN "status" ELSE "write"
    /\ UNCHANGED <<cluster, object, cache, clock, queue, now>>

Decide == Decision(FALSE) /\ UNCHANGED bounds

\* The mutating webhook fails, or answers with a Job that cannot be read.
MutatorFails == Fault /\ spec.mutate /\ Decision(TRUE)

\* The list cannot be read: an error that is retried, with no status update.
LoadFails ==
    /\ Fault
    /\ pc = "load"
    /\ backoff' = TRUE
    /\ timer' = Nil
    /\ Return
    /\ UNCHANGED <<cluster, object, cache, clock, queued>>

Deletable(n) == Exists(n) /\ ~jobs[n].deleting

\* First the expired Jobs are deleted, then the surplus ones.
ToDelete == IF plan.expired # {} THEN plan.expired ELSE plan.surplus
Deleted(n) == [plan EXCEPT !.expired = @ \ {n}, !.surplus = @ \ {n}]

(***************************************************************************)
(* client.DeleteJob: by name, foreground, with no precondition.  A Job     *)
(* that is gone, or being deleted already, is left as it is.               *)
(***************************************************************************)
DeleteJob(n) ==
    /\ pc = "write"
    /\ n \in ToDelete
    /\ plan' = Deleted(n)
    /\ \/ /\ Deletable(n)
          /\ Write(n, [jobs[n] EXCEPT !.deleting = TRUE], TRUE)
       \/ /\ ~Deletable(n)
          /\ UNCHANGED <<jobs, backlog, fresh>>
    /\ UNCHANGED <<pods, orphans, object, view, clock, queue, pc, now, outcome, bounds>>

NameIsFree(n) == n \in Names /\ ~Exists(n)

\* client.CreateJob: succeeds when the name is free.
CreateJob ==
    /\ pc = "write"
    /\ ToDelete = {}
    /\ plan.create # Nil
    /\ NameIsFree(plan.create.name)
    /\ Write(plan.create.name, plan.create.job, TRUE)
    /\ plan' = [plan EXCEPT !.create = Nil]
    /\ UNCHANGED <<pods, orphans, object, view, clock, queue, pc, now, outcome, bounds>>

\* Mutant of VersionIsCurrent: the update is forced through.
AnyVersionIsCurrent(n) == Exists(n)

VersionIsCurrent(n) == n \in fresh /\ Exists(n)

\* client.UnsuspendJob: an update, refused when the Job has changed since.
UnsuspendJob ==
    /\ pc = "write"
    /\ ToDelete = {}
    /\ plan.create = Nil
    /\ plan.unsuspend # Nil
    /\ VersionIsCurrent(plan.unsuspend)
    /\ Write(plan.unsuspend, [jobs[plan.unsuspend] EXCEPT !.suspended = FALSE], TRUE)
    /\ plan' = [plan EXCEPT !.unsuspend = Nil]
    /\ UNCHANGED <<pods, orphans, object, view, clock, queue, pc, now, outcome, bounds>>

GiveUp ==
    /\ outcome' = "transient"
    /\ plan' = NoWork
    /\ pc' = "status"
    /\ UNCHANGED <<cluster, object, cache, clock, queue, now, fresh>>

\* A create or an update the API server refuses.
WriteRefused ==
    /\ pc = "write"
    /\ ToDelete = {}
    /\ IF plan.create # Nil
       THEN ~NameIsFree(plan.create.name)
       ELSE plan.unsuspend # Nil /\ ~VersionIsCurrent(plan.unsuspend)
    /\ GiveUp
    /\ UNCHANGED bounds

\* A call that fails for a reason of its own: network, quota, webhook.
WriteFails ==
    /\ Fault
    /\ pc = "write"
    /\ ToDelete # {} \/ plan.create # Nil \/ plan.unsuspend # Nil
    /\ GiveUp

WritesDone ==
    /\ pc = "write"
    /\ ToDelete = {} /\ plan.create = Nil /\ plan.unsuspend = Nil
    /\ pc' = "status"
    /\ UNCHANGED <<cluster, object, cache, clock, queue, now, plan, fresh, outcome, bounds>>

(***************************************************************************)
(* The result handed to the controller: an error that can be retried goes  *)
(* to the rate limiter, any other leaves no trace.  The delay is counted   *)
(* from the end of the reconcile, the time it leads to from its start.     *)
(*                                                                         *)
(* The delaying queue holds one entry for a key, with the earlier of two   *)
(* times.  While a delay of the rate limiter runs, the entry stands for it *)
(* and for the timer, and may fall due at any instant (BackoffEnds).       *)
(***************************************************************************)
Earlier(s, t) == IF s = Nil \/ (t # Nil /\ t < s) THEN t ELSE s

Rearmed == IF outcome = "ok" /\ plan.requeueAt # Nil
           THEN Earlier(timer, clock + (plan.requeueAt - now)) ELSE timer

\* Mutants of HandleResult: no retry after an error; no wake-up.
HandleResultNoRetry ==
    /\ timer' = IF backoff THEN Nil ELSE Rearmed
    /\ Return
    /\ UNCHANGED <<cluster, spec, cache, clock, backoff>>

HandleResultNoWakeUp ==
    /\ backoff' = (backoff \/ outcome = "transient")
    /\ timer' = IF backoff' THEN Nil ELSE timer
    /\ Return
    /\ UNCHANGED <<cluster, spec, cache, clock>>

HandleResult ==
    /\ backoff' = (backoff \/ outcome = "transient")
    /\ timer' = IF backoff' THEN Nil ELSE Rearmed
    /\ Return
    /\ UNCHANGED <<cluster, spec, cache, clock>>

(***************************************************************************)
(* The deferred UpdateStatus.  A status that changed comes back as an      *)
(* event of the ControlledJob: always when the error it tells of is new,   *)
(* perhaps for one of its other fields.  The update is refused when the    *)
(* ControlledJob has changed since it was read; the event of that change   *)
(* is under way then.                                                      *)
(***************************************************************************)
UpdateStatus ==
    /\ pc = "status"
    /\ \/ /\ reported' = outcome
          /\ \E changed \in BOOLEAN : queued' = (queued \/ outcome # reported \/ changed)
       \/ /\ UNCHANGED reported
          /\ queued' = TRUE
    /\ HandleResult
    /\ UNCHANGED bounds

\* Any other failure to store the status is logged and forgotten.
StatusLost ==
    /\ Fault
    /\ pc = "status"
    /\ HandleResult
    /\ UNCHANGED <<queued, reported>>

(***************************************************************************)
(* The operator dies and comes back: what it had in memory is lost, the    *)
(* cache is filled from a new list and everything in it is queued.         *)
(***************************************************************************)
Restart ==
    /\ Fault
    /\ view' = jobs
    /\ backlog' = <<>>
    /\ queued' = TRUE
    /\ timer' = Nil
    /\ backoff' = FALSE
    /\ Return
    /\ UNCHANGED <<cluster, object, clock>>

\* What a reconcile that has decided does until it returns.
Act == \/ (\E n \in Names : DeleteJob(n)) \/ CreateJob \/ UnsuspendJob
       \/ WriteRefused \/ WritesDone \/ UpdateStatus

Next == \/ User \/ Kubernetes
        \/ Tick \/ Deliver \/ TimerFires \/ BackoffEnds \/ Resync
        \/ Start \/ Decide \/ Act
        \/ MutatorFails \/ LoadFails \/ WriteFails \/ StatusLost \/ Restart

Spec == Init /\ [][Next]_vars
=============================================================================
