------------------------- MODULE OperatorProperties -------------------------
(* What the operator promises, and the fairness under which it delivers.   *)
EXTENDS Operator

(***************************************************************************)
(* The README's guarantee of exclusive running, among the Jobs: never two  *)
(* that have pods or may be given some.  makeDecision heats a Job only     *)
(* when the cache shows no other that could be running.                    *)
(***************************************************************************)
ExclusiveJobs == \A m, n \in Names : Hot(m) /\ Hot(n) => m = n

(***************************************************************************)
(* README.md:16: a Job is started "only ... when it's sure any previous    *)
(* Job can no longer be running".  No Job may run beside the pods of one   *)
(* that was removed.                                                       *)
(***************************************************************************)
NoneBesideOrphans == orphans # {} => \A n \in Names : ~Hot(n)

(***************************************************************************)
(* A Job a user has stopped stays suspended until the user releases it,    *)
(* also when the operator decided to unsuspend it before it saw the stop   *)
(* (UnsuspendJob carries the resource version it read).                    *)
(***************************************************************************)
StoppedJobStaysStopped ==
    [][ \A n \in Names :
          Exists(n) /\ WasJobStoppedByTheUser(jobs[n]) /\ ~UserReleasesJob
          => jobs'[n] = Nil \/ WasJobStoppedByTheUser(jobs'[n]) ]_vars

\* Job n has been let go: it may run, or it has ended.
Ended(n) == Exists(n) /\ jobs[n].completed
HasRun(n) == Hot(n) \/ Ended(n)

(***************************************************************************)
(* A run is not started a second time in its run period: no first Job of a *)
(* period is created while the cluster holds a Job of that period, or of a *)
(* later one, that runs or has ended (README: "will not ... restart Jobs   *)
(* that have exited cleanly during their scheduled time").                 *)
(***************************************************************************)
FinishedRunIsNotRestarted ==
    [][ CreateJob /\ plan.create.job.runId = 0 =>
          \A n \in Names : HasRun(n) => jobs[n].start < plan.create.job.start ]_vars

(***************************************************************************)
(* manually-created-jobs.md:16: "If you manually create a Job while an     *)
(* existing Job is already running the controlled-job-operator will        *)
(* 'adopt' that new Job as its chosen Job and will delete the old existing *)
(* Job".  Line 105: the run id "increases as new Jobs are created during   *)
(* the day".  So a manual Job of the current template is decided to be     *)
(* surplus only when the operator sees one that is newer or of a later     *)
(* period.                                                                 *)
(***************************************************************************)
Newer(m, n) == \/ view[m].start > view[n].start
               \/ view[m].start = view[n].start /\ view[m].runId > view[n].runId

NewestManualJobIsAdopted ==
    [][ \A n \in plan'.surplus \ plan.surplus :
          view[n] # Nil /\ view[n].manual /\ view[n].hash = spec.hash /\ ~spec.suspend
          => \E m \in Names : view[m] # Nil /\ Newer(m, n) ]_vars

-----------------------------------------------------------------------------
(***************************************************************************)
(* The abstract view of a Job: its pods may outlive its suspension, so it  *)
(* is running until both are gone.                                         *)
(***************************************************************************)
Phase(n) ==
    IF ~Exists(n) THEN "none"
    ELSE IF jobs[n].completed THEN "ended"
    ELSE IF Hot(n) THEN "running"
    ELSE IF WasJobStoppedByTheUser(jobs[n]) THEN "stopped"
    ELSE "waiting"

Life == INSTANCE RunLifecycle WITH Jobs <- Names, phase <- [n \in Names |-> Phase(n)]

(***************************************************************************)
(* The operator, the job controller and the users together implement the   *)
(* abstract life of a run: each step of theirs moves at most one Job, a    *)
(* run starts only when no Job is running (README.md:16), never from a     *)
(* user's stop (decision.go:312-313) and never from a Job that has ended.  *)
(***************************************************************************)
RunsFollowLifecycle == Life!Spec

-----------------------------------------------------------------------------
(***************************************************************************)
(* Why that is so: the parts of an inductive invariant.                    *)
(***************************************************************************)
Alive(job) == job # Nil /\ IsJobPotentiallyRunning(job)

PodsHaveJobs == \A n \in pods : Alive(jobs[n])

IsLast(i) == \A j \in DOMAIN backlog : j > i => backlog[j].name # backlog[i].name

\* The watch is on its way to the truth: the last event of a Job tells its
\* present state, and a Job without events is cached as it is.
CacheCatchesUp ==
    /\ \A n \in Names : ~Pending(n) => view[n] = jobs[n]
    /\ \A i \in DOMAIN backlog : IsLast(i) => backlog[i].job = jobs[backlog[i].name]

\* A Job about to be unsuspended, if its version is current, still waits for it.
UnsuspendIsDue ==
    plan.unsuspend \in fresh =>
       /\ Exists(plan.unsuspend)
       /\ jobs[plan.unsuspend].suspended
       /\ ~WasJobStoppedByTheUser(jobs[plan.unsuspend])

StopInv == TypeOK /\ PodsHaveJobs /\ CacheCatchesUp /\ UnsuspendIsDue

\* The i-th event is the operator's own, of Job n, and says that n may run.
OwnNews(n, i) == backlog[i].own /\ backlog[i].name = n /\ Alive(backlog[i].job)

\* The cache shows a Job that may run, or will when the operator's own
\* write of it arrives; no older event hides it after that.
HotIsVisible ==
    \A n \in Names : Hot(n) =>
       /\ Alive(view[n]) \/ \E i \in DOMAIN backlog : OwnNews(n, i)
       /\ \A i \in DOMAIN backlog :
             backlog[i].name = n /\ ~Alive(backlog[i].job)
             => \E j \in DOMAIN backlog : j > i /\ OwnNews(n, j)

\* What is left of a decision heats at most one Job, when no other is hot.
PlanIsSafe ==
    /\ plan.create # Nil =>
          /\ plan.unsuspend = Nil
          /\ ~plan.create.job.completed
          /\ ~plan.create.job.suspended => \A n \in Names : ~Hot(n)
    /\ plan.unsuspend \in fresh =>
          \/ jobs[plan.unsuspend].completed
          \/ \A n \in Names : Hot(n) => n = plan.unsuspend

(***************************************************************************)
(* The inductive invariant behind ExclusiveJobs: what the cache does not   *)
(* show yet is on its way, and what is left of a decision is still safe    *)
(* (makeDecision reads the cache, the writes come later).                  *)
(***************************************************************************)
ExclusiveInv == StopInv /\ HotIsVisible /\ PlanIsSafe /\ ExclusiveJobs

\* A Job has the name that its start and its run id make.
Named(n, job) == job # Nil => n = JobName(job.start, job.runId)

NamesTell ==
    /\ \A n \in Names : Named(n, jobs[n]) /\ Named(n, view[n])
    /\ \A i \in DOMAIN backlog : Named(backlog[i].name, backlog[i].job)
    /\ plan.create # Nil => Named(plan.create.name, plan.create.job)

\* The i-th event is the operator's own, of Job n, and says that n exists.
OwnMention(n, i) == backlog[i].own /\ backlog[i].name = n /\ backlog[i].job # Nil

\* As HotIsVisible, of the existence of a Job that runs or has ended.
RunIsVisible ==
    \A n \in Names : HasRun(n) =>
       /\ view[n] # Nil \/ \E i \in DOMAIN backlog : OwnMention(n, i)
       /\ \A i \in DOMAIN backlog :
             backlog[i].name = n /\ backlog[i].job = Nil
             => \E j \in DOMAIN backlog : j > i /\ OwnMention(n, j)

\* What is left of a decision starts no period that a run has been let go in.
PlanRestartsNothing ==
    plan.create # Nil /\ plan.create.job.runId = 0 =>
       \A n \in Names : HasRun(n) => jobs[n].start < plan.create.job.start

(***************************************************************************)
(* The inductive invariant behind FinishedRunIsNotRestarted: the cache may *)
(* be late with the end of a run, but not with the Job it was the run of;  *)
(* and a Job that is deleted and made again has the same start and run id, *)
(* because its name tells them.                                            *)
(***************************************************************************)
OncePerPeriodInv == ExclusiveInv /\ NamesTell /\ RunIsVisible /\ PlanRestartsNothing

-----------------------------------------------------------------------------
(***************************************************************************)
(* Time passes, the watch delivers, the work queue hands out what is due,  *)
(* the operator's goroutine keeps running, and the job controller finishes *)
(* what it has to tear down.  Users, finishing Jobs and faults owe nothing.*)
(*                                                                         *)
(* DecideIsFair is WF_vars(Decide) with ENABLED Decide written out as      *)
(* CanDecide: a decision is always possible once it may be taken.          *)
(***************************************************************************)
DecideIsFair == []<>~CanDecide \/ []<><<Decide>>_vars

Fairness ==
    /\ WF_vars(Tick)
    /\ WF_vars(Deliver)
    /\ WF_vars(TimerFires)
    /\ WF_vars(BackoffEnds)
    /\ WF_vars(Start)
    /\ DecideIsFair
    /\ WF_vars(Act)
    /\ \A n \in Names : /\ WF_vars(StopPods(n))
                        /\ WF_vars(RemoveJob(n))
                        /\ WF_vars(ReapOrphan(n))

FairSpec == Spec /\ Fairness

LastStop == findMostRecentStopTime(spec.events, clock, spec.offset)
ShouldRunToday ==
    \E today \in {StateFor(spec.events, clock, spec.offset)} :
        today.startOfCurrentRunPeriod # Nil /\ today.shouldBeRunning
Live(n) == Exists(n) /\ ~jobs[n].completed

\* A Job whose run period has ended is still there.
Overdue(n) == /\ Exists(n)
              /\ \E stop \in {LastStop} : stop # Nil /\ jobs[n].start < stop

(***************************************************************************)
(* What the cluster looks like when the operator has nothing left to do.   *)
(***************************************************************************)
Converged ==
    IF spec.suspend THEN \A n \in Names : ~Exists(n)
    ELSE /\ \A n \in Names : ~Overdue(n)
         /\ \A m, n \in Names : Live(m) /\ Live(n) => m = n
         /\ ShouldRunToday => \E n \in Names : Exists(n)
         /\ \A n \in Names : Live(n) =>
               /\ jobs[n].manual \/ ShouldRunToday
               /\ jobs[n].suspended => jobs[n].userStop

-----------------------------------------------------------------------------
(***************************************************************************)
(* The operator is asleep: nothing is queued, in the rate limiter or under *)
(* way from the watch.  Only a timer, a user or the job controller can     *)
(* wake it.                                                                *)
(***************************************************************************)
Asleep == pc = "idle" /\ ~queued /\ ~backoff /\ backlog = <<>>

Stays(n) == Exists(n) /\ ~jobs[n].deleting

(***************************************************************************)
(* What the schedule and the spec ask for on day `today' has been done, as *)
(* far as it can be before the Jobs that are being deleted are gone.       *)
(***************************************************************************)
Done(today) ==
    IF spec.suspend THEN \A n \in Names : ~Stays(n)
    ELSE /\ \A n \in Names : Stays(n) /\ today.lastStopTime # Nil
                             => jobs[n].start >= today.lastStopTime
         /\ \A m, n \in Names : Stays(m) /\ Live(m) /\ Stays(n) /\ Live(n) => m = n
         /\ today.shouldBeRunning => \E n \in Names : Exists(n)
         /\ \A n \in Names : Stays(n) /\ Live(n) =>
               /\ jobs[n].manual \/ today.shouldBeRunning
               /\ jobs[n].suspended =>
                     jobs[n].userStop \/ \E m \in Names : Live(m) /\ jobs[m].deleting

\* The start or stop that follows instant u will wake the operator, late by
\* no more than the time since u: a delay is counted from a reconcile's end.
WakesFor(next, u) ==
    next # Nil /\ ~spec.suspend => timer # Nil /\ timer <= clock + (next - u)

\* makeDecision has no answer: an unknown timezone, a schedule that cannot
\* be read or never stops, a start that comes too late.
NoAnswer(today, u) ==
    today.error \/ (~spec.suspend /\ DecisionFails(today, jobs, u, FALSE))

(***************************************************************************)
(* The operator does not fall asleep over work: whatever users, failing    *)
(* calls, crashes and the watch do, in any order, when it sleeps the Jobs  *)
(* are as the spec of now asks for at some instant, and it will be woken   *)
(* for the next start or stop after that instant (reconcile.go:44-56 and   *)
(* 81-169: every way a reconcile may end with work left leads to another). *)
(* A spec whose Jobs go through the webhook is excepted, as an error of    *)
(* the webhook is final (reconcile.go:107-115).                            *)
(***************************************************************************)
NothingForgotten ==
    Asleep /\ ~spec.mutate =>
       \E u \in FirstTime .. clock : \E today \in {buildState(spec, u)} :
          NoAnswer(today, u) \/ (Done(today) /\ WakesFor(today.nextEventTime, u))

(***************************************************************************)
(* Why that is so.  A decision rests when it has no answer or asks for     *)
(* nothing more.  While Reconcile works, unless the key is queued again,   *)
(* what it read is what the cache still shows, and what it has left to do  *)
(* is what it decided, as long as no write has gone out.                   *)
(***************************************************************************)
DecisionsAt(u) == {makeDecision(st, view, u, FALSE) : st \in {buildState(spec, u)}}

Rests(d) ==
    \/ d.fails
    \/ /\ \A n \in d.expired \cup d.surplus : view[n].deleting
       /\ d.create = Nil /\ d.unsuspend = Nil

SleepsInPeace ==
    Asleep /\ ~spec.mutate =>
       \E u \in FirstTime .. clock :
          \E d \in DecisionsAt(u) : Rests(d) /\ (~d.fails => WakesFor(d.requeueAt, u))

Remains(d) ==
    /\ plan.create = d.create /\ plan.unsuspend = d.unsuspend
    /\ \A n \in d.expired \cup d.surplus :
          n \in plan.expired \cup plan.surplus \/ view[n].deleting

WorkIsRemembered ==
    pc \in {"write", "status"} /\ ~queued /\ ~spec.mutate =>
       \E d \in DecisionsAt(now) :
          /\ outcome = "fatal" => d.fails
          /\ outcome = "ok" => ~d.fails /\ plan.requeueAt = d.requeueAt
          /\ outcome = "ok" /\ backlog = <<>> => Remains(d)

WorkIsOrdered ==
    /\ FirstTime <= clock
    /\ pc # "idle" => now \in FirstTime .. clock
    /\ pc = "write" => outcome = "ok"
    /\ pc = "status" /\ outcome = "ok" =>
          plan.expired = {} /\ plan.surplus = {} /\ plan.create = Nil /\ plan.unsuspend = Nil

(***************************************************************************)
(* The inductive invariant behind NothingForgotten.                        *)
(***************************************************************************)
WakeInv == StopInv /\ SleepsInPeace /\ WorkIsRemembered /\ WorkIsOrdered

(***************************************************************************)
(* Once users and faults leave it alone, the operator brings the cluster   *)
(* to what the schedule and the spec ask for, and leaves it there.         *)
(***************************************************************************)
Converges == <>[]Converged

(***************************************************************************)
(* README.md: "During the specified schedule, the controlled-job-operator  *)
(* will ensure that a Job object with a matching spec exists".             *)
(***************************************************************************)
JobExistsDuringSchedule ==
    <>[](~spec.suspend /\ ShouldRunToday => \E n \in Names : Exists(n))

(***************************************************************************)
(* Every stop time is acted upon: a Job whose run period has ended goes    *)
(* away (decision.go:286, "All expired jobs get deleted").                 *)
(***************************************************************************)
ExpiredJobsGo == \A n \in Names : Overdue(n) ~> ~Overdue(n)
=============================================================================
